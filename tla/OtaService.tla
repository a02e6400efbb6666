----------------------------- MODULE OtaService -----------------------------
(***************************************************************************)
(* The OTA information service (src/subsys/dfu/ota_service.c): the         *)
(* characteristics that a client reads before an update, in any order, and *)
(* the one that asks for the normal OTA mode.                              *)
(*                                                                         *)
(* Every value fits in one read of the smallest MTU, so a read is one      *)
(* callback in the Bluetooth thread.  The callbacks share two structures   *)
(* in RAM: what the flash map holds, and the list of versions of which     *)
(* each of three characteristics answers a page.                           *)
(***************************************************************************)
EXTENDS Integers, Sequences, FiniteSets, SequencesExt

CONSTANTS
    Ids,           \* image_id - OTA of the images there are
    OTA_HEADER,    \* the field of the image indicator that image OTA gets
    Page,          \* versions in one characteristic (5, in 20 bytes)
    Layouts,       \* the images that a flash map has banks for
    Version,       \* Version[bank][id]: the version of an image in a bank
    Bytes,         \* Bytes[v]: version v in memory, the lowest byte first
    Behind         \* what may lie in memory behind a version

ASSUME ServiceAssumption == /\ IsFiniteSet(Ids) /\ Ids = 0 .. Cardinality(Ids) - 1
                            /\ OTA_HEADER \in Nat /\ Page \in Nat \ {0}
                            /\ Layouts \subseteq SUBSET Ids
                            /\ Cardinality(Ids) <= 3 * Page
                            /\ OTA_HEADER + Cardinality(Ids) <= 16

VARIABLES
    layout,        \* the images whose active bank is not empty
    bank,          \* the running bank: 0, 1, or 2 without bank switching
    image_num, image_exist, image_indicator, \* ota_active_bank_info
    image_version, \* the list of versions
    switch_to_ota_mode_pending,
    link,          \* whether a client is connected
    asked,         \* whether the device asked for a disconnection
    answer,        \* what the client read last
    got,           \* the versions that it read page by page, in order
    pages,         \* how many pages those were
    info           \* the image indicator of the device info that it read

bankInfo == <<image_num, image_exist, image_indicator>>
notes    == <<got, pages, info>>
vars     == <<layout, bank, bankInfo, image_version, switch_to_ota_mode_pending, link,
              asked, answer, notes>>

Banks == 0 .. 2

\* The bits of a field of the indicator: in bank 0, in bank 1, standalone.
Location == [b \in Banks |-> CASE b = 0 -> {0} [] b = 1 -> {1} [] b = 2 -> {0, 1}]

\* Which place a number has in a set of them, and what the set has at place i.
Place(set, n) == Cardinality({m \in set : m <= n})
Ordered(set)  == [i \in 1 .. Cardinality(set) |-> CHOOSE n \in set : Place(set, n) = i]

\* The versions of what runs, in the order of the image ids.
Running == [i \in 1 .. Cardinality(layout) |-> Version[bank][Ordered(layout)[i]]]

NoVersion == "none"
NoVersions == [i \in 1 .. Cardinality(Ids) |-> NoVersion]

NoNotes == got' = << >> /\ pages' = 0 /\ info' = {}

RamInit == /\ image_num = 0 /\ image_exist = {} /\ image_indicator = {}
           /\ image_version = NoVersions
           /\ switch_to_ota_mode_pending = FALSE

Init == /\ layout \in Layouts
        /\ bank \in Banks
        /\ RamInit
        /\ link = FALSE /\ asked = FALSE /\ answer = << >>
        /\ got = << >> /\ pages = 0 /\ info = {}

-----------------------------------------------------------------------------
Connect == /\ ~link
           /\ link' = TRUE
           /\ NoNotes
           /\ answer' = << >>
           /\ UNCHANGED <<layout, bank, bankInfo, image_version, switch_to_ota_mode_pending,
                          asked>>

\* The connection ends, by itself or because the device asked.
Disconnect == /\ link
              /\ link' = FALSE
              /\ asked' = FALSE
              /\ UNCHANGED <<layout, bank, bankInfo, image_version,
                             switch_to_ota_mode_pending, answer, notes>>

\* A reset: the RAM starts afresh, and with bank switching the other bank may
\* run, after an update.
Boot == /\ bank' \in (IF bank = 2 THEN {2} ELSE {0, 1})
        /\ image_num' = 0 /\ image_exist' = {} /\ image_indicator' = {}
        /\ image_version' = NoVersions
        /\ switch_to_ota_mode_pending' = FALSE
        /\ link' = FALSE
        /\ asked' = FALSE
        /\ UNCHANGED <<layout, answer, notes>>

\* A callback of a connected client that leaves the flash and the link alone.
Callback == /\ link
            /\ UNCHANGED <<layout, bank, link>>

\* ota_write_cb: one byte with OTA_VALUE_ENTER asks for the normal OTA mode,
\* another length is refused, any other value changes nothing.
Write(oneByte, enter) ==
    /\ Callback
    /\ IF oneByte /\ enter
       THEN switch_to_ota_mode_pending' = TRUE /\ asked' = TRUE
       ELSE UNCHANGED <<switch_to_ota_mode_pending, asked>>
    /\ UNCHANGED <<bankInfo, image_version, answer, notes>>

-----------------------------------------------------------------------------
\* Wrong variants, for the mutation runs: image OTA has field 0, as the comment
\* has it; the count is not started afresh.
get_ota_active_bank_image_info_comment ==
    /\ image_num' = Cardinality(layout)
    /\ image_exist' = image_exist \cup layout
    /\ image_indicator' = image_indicator
                          \cup {b + id * 2 : b \in Location[bank], id \in layout}
get_ota_active_bank_image_info_again ==
    /\ image_num' = image_num + Cardinality(layout)
    /\ image_exist' = image_exist \cup layout
    /\ image_indicator' = image_indicator
                          \cup {b + (OTA_HEADER + id) * 2 : b \in Location[bank], id \in layout}

\* get_ota_active_bank_image_info: the images are counted anew, their bits are
\* set in what was there.
get_ota_active_bank_image_info ==
    /\ image_num' = Cardinality(layout)
    /\ image_exist' = image_exist \cup layout
    /\ image_indicator' = image_indicator
                          \cup {b + (OTA_HEADER + id) * 2 : b \in Location[bank], id \in layout}

\* device_info_read_cb, as far as the image indicator goes.
device_info_read_cb ==
    /\ Callback
    /\ get_ota_active_bank_image_info
    /\ answer' = image_indicator'
    /\ info' = image_indicator'
    /\ UNCHANGED <<image_version, switch_to_ota_mode_pending, asked, got, pages>>

\* The client notes a page if it is the next one.
NotePage(p, versions) ==
    /\ answer' = versions
    /\ IF pages = p THEN got' = got \o versions /\ pages' = p + 1
       ELSE UNCHANGED <<got, pages>>
    /\ UNCHANGED info

\* The versions of the images that exist go to the start of the list.
Listed == [i \in DOMAIN image_version |->
             IF i <= Cardinality(image_exist')
             THEN Version[bank][Ordered(image_exist')[i]] ELSE image_version[i]]

\* Page p of the list: the first pages are full when more images follow.
PageOf(p, versions, num) == SubSeq(versions, p * Page + 1, IF num > (p + 1) * Page
                                                           THEN (p + 1) * Page ELSE num)

\* image_version0_read_cb: counts the images unless they are counted, and
\* lists their versions.
image_version0_read_cb ==
    /\ Callback
    /\ IF image_num = 0 THEN get_ota_active_bank_image_info ELSE UNCHANGED bankInfo
    /\ image_version' = Listed
    /\ NotePage(0, PageOf(0, image_version', image_num'))
    /\ UNCHANGED <<switch_to_ota_mode_pending, asked>>

\* Wrong variant, for the mutation runs: a last page that is full is left out.
image_version_read_cb_short(p) ==
    /\ Callback
    /\ NotePage(p, IF image_num > p * Page + 1 THEN PageOf(p, image_version, image_num)
                   ELSE << >>)
    /\ UNCHANGED <<bankInfo, image_version, switch_to_ota_mode_pending, asked>>

\* image_version1_read_cb and image_version2_read_cb: pages 1 and 2 of the list
\* as it is, or nothing.
image_version_read_cb(p) ==
    /\ Callback
    /\ NotePage(p, IF image_num > p * Page THEN PageOf(p, image_version, image_num)
                   ELSE << >>)
    /\ UNCHANGED <<bankInfo, image_version, switch_to_ota_mode_pending, asked>>

\* The bytes of a version up to the first that is zero, as strlen counts them;
\* without one it counts on in what lies behind.
CString(bytes) ==
    LET zero == {i \in DOMAIN bytes : bytes[i] = 0}
    IN  IF zero = {} THEN {bytes \o rest : rest \in Behind}
        ELSE {SubSeq(bytes, 1, (CHOOSE i \in zero : \A j \in zero : i <= j) - 1)}

\* patch_read_cb and app_version_read_cb: the version of one image as a string.
\* mac_address_read_cb and protocol_type_read_cb answer constants.
version_read_cb(id) ==
    /\ Callback
    /\ answer' \in CString(Bytes[Version[bank][id]])
    /\ UNCHANGED <<bankInfo, image_version, switch_to_ota_mode_pending, asked, notes>>

Read == \/ device_info_read_cb
        \/ image_version0_read_cb
        \/ \E p \in 1 .. 2 : image_version_read_cb(p)
        \/ \E id \in layout : version_read_cb(id)

Next == \/ Connect \/ Disconnect \/ Boot \/ Read
        \/ \E oneByte, enter \in BOOLEAN : Write(oneByte, enter)

Spec == Init /\ [][Next]_vars

-----------------------------------------------------------------------------
\* Field n of an image indicator, as the comment on it says: bit[2N+1:2N].
Field(indicator, n) == {b \in 0 .. 1 : 2 * n + b \in indicator}

TypeOK == /\ layout \in Layouts /\ bank \in Banks
          /\ image_num \in {0, Cardinality(layout)}
          /\ image_exist \in {{}, layout}
          /\ image_indicator \subseteq 0 .. 31
          /\ switch_to_ota_mode_pending \in BOOLEAN /\ link \in BOOLEAN /\ asked \in BOOLEAN
          /\ pages \in 0 .. 3

\* A client that reads the version characteristics in order gets the versions
\* of what runs, whatever it reads in between and however the images fill the
\* pages (image_version0_read_cb, ota_service.c:311).
PagesRight == link => /\ IsPrefix(got, Running)
                      /\ pages = 3 => got = Running

\* The device info and the version pages of one connection speak of the same
\* images ("need to sync with value of BLE_SERVICE_CHAR_IMAGE_VERSION_INDEX",
\* ota_service.c:253).  The fields that are not empty are those of the images that
\* run, image OTA at OTA_HEADER and the others behind it (lines 29-42, 136), and
\* name the bank that runs; and a client that takes the versions field by field
\* has for each the version of that very image, in the bank that the field names.
\* The comment at lines 88-103 has image OTA at field 0: a client that follows it
\* looks for every image at the wrong field.
InfoAgrees ==
    (link /\ info # {} /\ pages = 3) =>
        LET fields == {n \in 0 .. 15 : Field(info, n) # {}}
        IN  /\ fields = {OTA_HEADER + id : id \in layout}
            /\ Cardinality(fields) = Len(got)
            /\ \A n \in fields :
                  /\ Field(info, n) = Location[bank]
                  /\ got[Place(fields, n)] = Version[bank][n - OTA_HEADER]
=============================================================================

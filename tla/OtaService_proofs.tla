-------------------------- MODULE OtaService_proofs --------------------------
(***************************************************************************)
(* What a client reads from the OTA information service is true, for every *)
(* flash map, every number of versions in a page, and any order of reads,  *)
(* reconnections and resets.                                               *)
(***************************************************************************)
EXTENDS OtaService, FiniteSetTheorems, SequenceTheorems, TLAPS

\* How many images the flash map has.
Images == Cardinality(layout)

\* The indicator of what runs.
Indicator == {b + (OTA_HEADER + id) * 2 : b \in Location[bank], id \in layout}

\* The first n versions of what runs.
Top(n) == [i \in 1 .. n |-> Running[i]]

\* How many versions k pages have.
InPages(k) == IF k * Page < Images THEN k * Page ELSE Images

-----------------------------------------------------------------------------
\* The images are not counted yet, or they are and the indicator is set.
Uncounted == image_num = 0 /\ image_exist = {} /\ image_indicator = {}
Counted   == image_num = Images /\ image_exist = layout /\ image_indicator = Indicator

\* The list of versions starts with those of what runs.
ListedOK == \A i \in 1 .. Images : image_version[i] = Running[i]

\* What a connected client noted is what runs, and the device knows it too.
NotesOK == link => /\ got = Top(InPages(pages))
                   /\ info \in {{}, Indicator}
                   /\ pages > 0 => Counted /\ ListedOK

IInv == /\ layout \in Layouts /\ bank \in Banks
        /\ switch_to_ota_mode_pending \in BOOLEAN /\ link \in BOOLEAN /\ asked \in BOOLEAN
        /\ pages \in 0 .. 3
        /\ Uncounted \/ Counted
        /\ image_version = [i \in 1 .. Cardinality(Ids) |-> image_version[i]]
        /\ NotesOK

-----------------------------------------------------------------------------
\* The numbers there are.
LEMMA Numbers ==
    ASSUME layout \in Layouts
    PROVE  /\ Images \in Nat /\ Images <= Cardinality(Ids) /\ Cardinality(Ids) \in Nat
           /\ Images <= 3 * Page /\ Page \in Nat \ {0}
           /\ layout \subseteq Ids /\ IsFiniteSet(layout)
           /\ Images = 0 => layout = {}
           /\ \A k \in Nat : InPages(k) \in Nat /\ InPages(k) <= Images
<1>1. layout \in SUBSET Ids /\ IsFiniteSet(Ids) /\ Page \in Nat \ {0}
      BY ServiceAssumption
<1>2. /\ IsFiniteSet(layout) /\ Cardinality(layout) <= Cardinality(Ids)
      /\ Cardinality(layout) \in Nat /\ Cardinality(Ids) \in Nat
      BY <1>1, FS_Subset, FS_CardinalityType
<1>3. Cardinality(layout) = 0 => layout = {}
      BY <1>2, FS_EmptySet
<1>4. Images <= 3 * Page
      BY <1>1, <1>2, ServiceAssumption DEF Images
<1>5. \A k \in Nat : k * Page \in Nat
      BY <1>1
<1>6. QED
      BY <1>1, <1>2, <1>3, <1>4, <1>5 DEF Images, InPages

\* The first versions, as sequences.
LEMMA Tops ==
    ASSUME NEW n \in Nat
    PROVE  Len(Top(n)) = n /\ DOMAIN Top(n) = 1 .. n /\ \A i \in 1 .. n : Top(n)[i] = Running[i]
BY DEF Top
\* A page of a list that starts with the versions of what runs has the next of
\* them, and a page behind the last is empty.
LEMMA NextPage ==
    ASSUME layout \in Layouts, NEW list, list = [i \in 1 .. Cardinality(Ids) |-> list[i]],
           \A i \in 1 .. Images : list[i] = Running[i], NEW p \in 0 .. 2
    PROVE  /\ Images > p * Page => Top(InPages(p)) \o PageOf(p, list, Images) = Top(InPages(p + 1))
           /\ Images <= p * Page => Top(InPages(p)) \o << >> = Top(InPages(p + 1))
           /\ Images = 0 => PageOf(0, list, Images) = << >>
<1>1. /\ Images \in Nat /\ Images <= Cardinality(Ids) /\ Page \in Nat \ {0}
      /\ Cardinality(Ids) \in Nat
      BY Numbers
<1>2. PICK a \in Nat, b \in Nat : a = p * Page /\ b = (p + 1) * Page /\ a < b
  <2>1. CASE p = 0
        BY <1>1, <2>1
  <2>2. CASE p = 1
        BY <1>1, <2>2
  <2>3. CASE p = 2
        BY <1>1, <2>3
  <2>4. QED
        BY <2>1, <2>2, <2>3
<1>3. PICK m : m = IF Images > b THEN b ELSE Images
      OBVIOUS
<1>4. m \in Nat /\ m <= Images /\ InPages(p + 1) = m
      BY <1>1, <1>2, <1>3 DEF InPages
<1>5. PICK V : V = {Running[i] : i \in 1 .. Images}
      OBVIOUS
<1>6. \A n \in 0 .. Images :
          /\ Top(n) \in Seq(V) /\ Len(Top(n)) = n
          /\ \A i \in 1 .. n : Top(n)[i] = Running[i]
  <2>1. ASSUME NEW n \in 0 .. Images
        PROVE  \A i \in 1 .. n : Running[i] \in V
        BY <1>1, <1>5
  <2>2. QED
        BY <1>1, <2>1 DEF Top
<1>7. ASSUME Images > a
      PROVE  Top(InPages(p)) \o PageOf(p, list, Images) = Top(InPages(p + 1))
  <2>1. InPages(p) = a /\ a < m /\ a \in Nat /\ m \in Nat
        BY <1>1, <1>2, <1>3, <1>4, <1>7 DEF InPages
  <2>0. a \in 0 .. Images /\ m \in 0 .. Images
        BY <1>1, <1>4, <2>1
  <2>2. PICK page : page = SubSeq(list, a + 1, m)
        OBVIOUS
  <2>3. PageOf(p, list, Images) = page
        BY <1>2, <1>3, <2>2 DEF PageOf
  <2>4. \A i \in a + 1 .. m : list[i] = Running[i] /\ list[i] \in V
    <3>1. \A i \in a + 1 .. m : i \in 1 .. Images
          BY <1>1, <1>4, <2>1
    <3>2. QED
          BY <1>5, <3>1
  <2>5. /\ page \in Seq(V) /\ Len(page) = m - a
        /\ \A i \in 1 .. m - a : page[i] = list[a + i]
    <3>1. a + 1 \in Int /\ m \in Int /\ m - (a + 1) + 1 = m - a /\ a + 1 <= m
          BY <2>1
    <3>2. \A i \in a + 1 .. m : list[i] \in V
          BY <2>4
    <3>3. /\ page \in Seq(V) /\ Len(page) = m - (a + 1) + 1
          /\ \A i \in 1 .. m - (a + 1) + 1 : page[i] = list[a + 1 + i - 1]
          BY <2>2, <3>1, <3>2, SubSeqProperties, SMTT(30)
    <3>4. \A i \in 1 .. m - a : a + 1 + i - 1 = a + i
          BY <2>1
    <3>5. QED
          BY <3>1, <3>3, <3>4
  <2>6. /\ Top(a) \o page \in Seq(V) /\ Len(Top(a) \o page) = a + (m - a)
        /\ \A i \in 1 .. a + (m - a) :
               (Top(a) \o page)[i] = IF i <= a THEN Top(a)[i] ELSE page[i - a]
    <3>1. Top(a) \in Seq(V) /\ Len(Top(a)) = a
          BY <1>6, <2>0
    <3>2. PICK top : top = Top(a)
          OBVIOUS
    <3>3. /\ top \o page \in Seq(V) /\ Len(top \o page) = Len(top) + Len(page)
          /\ \A i \in 1 .. Len(top) + Len(page) :
                 (top \o page)[i] = IF i <= Len(top) THEN top[i] ELSE page[i - Len(top)]
          BY <2>5, <3>1, <3>2, ConcatProperties
    <3>4. QED
          BY <2>5, <3>1, <3>2, <3>3
  <2>7. \A i \in 1 .. m : (Top(a) \o page)[i] = Running[i]
    <3>1. ASSUME NEW i \in 1 .. m
          PROVE  (Top(a) \o page)[i] = Running[i]
      <4>1. CASE i <= a
            BY <1>6, <2>0, <2>1, <2>6, <4>1
      <4>2. CASE i > a
        <5>1. i - a \in 1 .. m - a /\ a + (i - a) = i /\ i \in 1 .. a + (m - a)
              BY <2>1, <4>2
        <5>2. i \in a + 1 .. m
              BY <2>1, <4>2
        <5>3. page[i - a] = list[i] /\ list[i] = Running[i]
              BY <2>4, <2>5, <5>1, <5>2
        <5>4. QED
              BY <2>1, <2>6, <4>2, <5>1, <5>3
      <4>3. i <= a \/ i > a
            BY <2>1
      <4>4. QED
            BY <4>1, <4>2, <4>3
    <3>2. QED
          BY <3>1
  <2>8. Top(a) \o page = Top(m)
    <3>1. Len(Top(a) \o page) = m /\ Len(Top(m)) = m
          BY <1>6, <2>0, <2>1, <2>6
    <3>2. \A i \in 1 .. m : (Top(a) \o page)[i] = Top(m)[i]
          BY <1>6, <2>0, <2>1, <2>7
    <3>3. QED
          BY <1>6, <2>0, <2>1, <2>6, <3>1, <3>2, SeqEqual
  <2>9. QED
        BY <1>4, <2>1, <2>3, <2>8
<1>8. ASSUME Images <= a
      PROVE  Top(InPages(p)) \o << >> = Top(InPages(p + 1))
  <2>1. InPages(p) = Images /\ m = Images
        BY <1>1, <1>2, <1>3, <1>8 DEF InPages
  <2>2. Top(Images) \in Seq(V)
        BY <1>1, <1>6
  <2>3. Top(Images) \o << >> = Top(Images)
        BY <2>2, ConcatEmptySeq
  <2>4. QED
        BY <1>4, <2>1, <2>3
<1>9. ASSUME Images = 0
      PROVE  PageOf(0, list, Images) = << >>
  <2>1. ~(Images > (0 + 1) * Page)
        BY <1>1, <1>9
  <2>2. PageOf(0, list, Images) = SubSeq(list, 1, 0)
        BY <1>1, <1>9, <2>1 DEF PageOf
  <2>3. QED
        BY <2>2, SubSeqEmpty
<1>10. QED
       BY <1>2, <1>7, <1>8, <1>9
-----------------------------------------------------------------------------
\* A step that leaves the layout and the bank alone leaves what runs alone.
LEMMA SameRunning ==
    ASSUME UNCHANGED <<layout, bank>>
    PROVE  /\ Images' = Images /\ Indicator' = Indicator
           /\ Running' = Running
           /\ \A n : n = pages' => Top(InPages(pages))' = Top(InPages(n))
<1>1. Images' = Images /\ Indicator' = Indicator /\ Running' = Running
      BY DEF Images, Indicator, Running
<1>2. QED
      BY <1>1 DEF Top, InPages

\* No page, no version.
LEMMA NoPage ==
    ASSUME layout \in Layouts
    PROVE  Top(InPages(0)) = << >>
<1>1. InPages(0) = 0
      BY Numbers DEF InPages
<1>2. Top(0) \in Seq({}) /\ Len(Top(0)) = 0
      BY DEF Top
<1>3. QED
      BY <1>1, <1>2, EmptySeq

\* Counting the images, again or for the first time.
LEMMA CountImages ==
    ASSUME IInv, UNCHANGED <<layout, bank>>, get_ota_active_bank_image_info
    PROVE  Counted'
<1>1. image_exist' = layout /\ image_indicator' = Indicator /\ image_num' = Images
      BY DEF IInv, Uncounted, Counted, get_ota_active_bank_image_info, Indicator, Images
<1>2. QED
      BY <1>1, SameRunning DEF Counted

\* The client notes a page, or has noted it.
LEMMA Noted ==
    ASSUME IInv, link, UNCHANGED <<layout, bank, link>>, NEW p \in 0 .. 2, NEW versions,
           NotePage(p, versions),
           pages = p => Top(InPages(p)) \o versions = Top(InPages(p + 1)),
           p = 0 \/ pages > 0 => Counted' /\ ListedOK'
    PROVE  NotesOK' /\ pages' \in 0 .. 3
<1>1. pages \in 0 .. 3 /\ got = Top(InPages(pages)) /\ info \in {{}, Indicator}
      BY DEF IInv, NotesOK
<1>2. info' \in {{}, Indicator'}
      BY <1>1, SameRunning DEF NotePage
<1>3. CASE pages = p
  <2>1. got' = Top(InPages(p + 1)) /\ pages' = p + 1
        BY <1>1, <1>3 DEF NotePage
  <2>2. got' = Top(InPages(pages))'
        BY <2>1, SameRunning
  <2>3. Counted' /\ ListedOK'
        BY <1>3
  <2>4. QED
        BY <1>2, <2>1, <2>2, <2>3 DEF NotesOK
<1>4. CASE pages # p
  <2>1. got' = got /\ pages' = pages
        BY <1>4 DEF NotePage
  <2>2. got' = Top(InPages(pages))'
        BY <1>1, <2>1, SameRunning
  <2>3. pages' > 0 => Counted' /\ ListedOK'
        BY <2>1
  <2>4. QED
        BY <1>1, <1>2, <2>1, <2>2, <2>3 DEF NotesOK
<1>5. QED
      BY <1>3, <1>4

\* What the client noted stays true when neither it nor what runs changes.
LEMMA NotesSame ==
    ASSUME IInv, UNCHANGED <<layout, bank, bankInfo, image_version, notes>>, link' = link \/ ~link'
    PROVE  NotesOK' /\ (Uncounted' \/ Counted')
<1>1. UNCHANGED <<image_num, image_exist, image_indicator, image_version, got, pages, info>>
      BY DEF bankInfo, notes
<1>2. CASE ~link'
      BY <1>1, <1>2, SameRunning DEF IInv, NotesOK, Uncounted, Counted
<1>3. CASE link' = link
      BY <1>1, <1>3, SameRunning DEF IInv, NotesOK, Uncounted, Counted, ListedOK
<1>4. QED
      BY <1>2, <1>3
-----------------------------------------------------------------------------
\* The indicator has 32 bits.
LEMMA IndicatorBits ==
    ASSUME layout \in Layouts, bank \in Banks
    PROVE  Indicator \subseteq 0 .. 31
<1>1. Location[bank] \subseteq 0 .. 1
      BY DEF Location, Banks
<1>2. /\ layout \subseteq Ids /\ Ids = 0 .. Cardinality(Ids) - 1
      /\ OTA_HEADER \in Nat /\ Cardinality(Ids) \in Nat /\ OTA_HEADER + Cardinality(Ids) <= 16
      BY Numbers, ServiceAssumption
<1>3. ASSUME NEW b \in Location[bank], NEW id \in layout
      PROVE  b + (OTA_HEADER + id) * 2 \in 0 .. 31
  <2>1. b \in 0 .. 1 /\ id \in 0 .. Cardinality(Ids) - 1
        BY <1>1, <1>2, <1>3
  <2>2. id \in Nat /\ OTA_HEADER + id <= 15
        BY <1>2, <2>1
  <2>3. QED
        BY <1>2, <2>1, <2>2
<1>4. QED
      BY <1>3 DEF Indicator

\* At first nothing is counted, and nobody is connected.
LEMMA InvInit == Init => IInv
<1> SUFFICES ASSUME Init
             PROVE  IInv
    OBVIOUS
<1>1. Uncounted /\ ~link /\ pages = 0
      BY DEF Init, RamInit, Uncounted
<1>2. image_version = [i \in 1 .. Cardinality(Ids) |-> image_version[i]]
      BY DEF Init, RamInit, NoVersions
<1>3. layout \in Layouts /\ bank \in Banks /\ pages \in 0 .. 3
      BY DEF Init
<1>4. switch_to_ota_mode_pending \in BOOLEAN /\ link \in BOOLEAN /\ asked \in BOOLEAN
      BY Zenon DEF Init, RamInit
<1>5. QED
      BY <1>1, <1>2, <1>3, <1>4 DEF IInv, NotesOK

\* A reset forgets the counts, and the connection with them.
LEMMA InvBoot ==
    ASSUME IInv, Boot
    PROVE  IInv'
<1>1. Uncounted' /\ ~link' /\ pages' \in 0 .. 3 /\ bank' \in Banks
      BY DEF IInv, Boot, Uncounted, notes, Banks
<1>2. image_version' = [i \in 1 .. Cardinality(Ids) |-> image_version'[i]]
      BY DEF Boot, NoVersions
<1>3. QED
      BY <1>1, <1>2 DEF IInv, Boot, NotesOK

\* A client that connects has noted nothing.
LEMMA InvConnect ==
    ASSUME IInv, Connect
    PROVE  IInv'
<1>1. /\ UNCHANGED <<layout, bank, image_num, image_exist, image_indicator, image_version>>
      /\ got' = << >> /\ pages' = 0 /\ info' = {}
      BY DEF Connect, NoNotes, bankInfo
<1>2. Uncounted' \/ Counted'
      BY <1>1, SameRunning DEF IInv, Uncounted, Counted
<1>3. layout' \in Layouts /\ Top(InPages(pages))' = << >>
      BY <1>1, NoPage, SameRunning DEF IInv
<1>4. NotesOK'
      BY <1>1, <1>3 DEF NotesOK
<1>5. QED
      BY <1>1, <1>2, <1>4 DEF IInv, Connect

\* The device information counts the images.
LEMMA InvInfo ==
    ASSUME IInv, device_info_read_cb
    PROVE  IInv'
<1>1. /\ link /\ UNCHANGED <<layout, bank, link, image_version, got, pages>>
      /\ get_ota_active_bank_image_info /\ info' = image_indicator'
      BY DEF device_info_read_cb, Callback
<1>2. Counted' /\ Indicator' = Indicator
      BY <1>1, CountImages, SameRunning
<1>3. ListedOK => ListedOK'
      BY <1>1, SameRunning DEF ListedOK
<1>4. got' = Top(InPages(pages))'
      BY <1>1, SameRunning DEF IInv, NotesOK
<1>5. NotesOK'
      BY <1>1, <1>2, <1>3, <1>4 DEF IInv, NotesOK, Counted
<1>6. QED
      BY <1>1, <1>2, <1>5 DEF IInv, device_info_read_cb

\* The first page makes the list, of images counted then or before.
LEMMA InvFirstPage ==
    ASSUME IInv, image_version0_read_cb
    PROVE  IInv'
<1>1. /\ link /\ UNCHANGED <<layout, bank, link>> /\ image_version' = Listed
      /\ NotePage(0, PageOf(0, image_version', image_num'))
      BY DEF image_version0_read_cb, Callback
<1>2. Counted'
  <2>1. CASE image_num = 0
        BY <1>1, <2>1, CountImages DEF image_version0_read_cb
  <2>2. CASE image_num # 0
    <3>1. Counted /\ UNCHANGED <<image_num, image_exist, image_indicator>>
          BY <2>2 DEF image_version0_read_cb, bankInfo, IInv, Uncounted
    <3>2. QED
          BY <1>1, <3>1, SameRunning DEF Counted
  <2>3. QED
        BY <2>1, <2>2
<1>3. /\ image_exist' = layout /\ image_num' = Images /\ layout \in Layouts
      /\ image_version = [i \in 1 .. Cardinality(Ids) |-> image_version[i]]
      BY <1>1, <1>2, SameRunning DEF Counted, IInv
<1>4. PICK list : list = image_version'
      OBVIOUS
<1>5. list = [i \in 1 .. Cardinality(Ids) |-> list[i]] /\ \A i \in 1 .. Images : list[i] = Running[i]
  <2>1. Images \in Nat /\ Images <= Cardinality(Ids) /\ Cardinality(Ids) \in Nat
        BY <1>3, Numbers
  <2>2. DOMAIN image_version = 1 .. Cardinality(Ids)
        BY <1>3
  <2>3. list = [i \in 1 .. Cardinality(Ids) |->
                  IF i <= Images THEN Version[bank][Ordered(layout)[i]] ELSE image_version[i]]
        BY <1>1, <1>3, <1>4, <2>2 DEF Listed, Images
  <2>4. \A i \in 1 .. Images : i \in 1 .. Cardinality(Ids)
        BY <2>1
  <2>5. QED
        BY <2>1, <2>3, <2>4 DEF Running, Images
<1>6. ListedOK'
      BY <1>1, <1>4, <1>5, SameRunning DEF ListedOK
<1>7. PICK p \in 0 .. 2 : p = 0 /\ p * Page = 0 /\ Images \in Nat
      BY <1>3, Numbers
<1>8. Top(InPages(p)) \o PageOf(p, list, Images) = Top(InPages(p + 1))
  <2>1. CASE Images > 0
        BY <1>3, <1>5, <1>7, <2>1, NextPage
  <2>2. CASE Images = 0
    <3>1. Images <= p * Page
          BY <1>7, <2>2
    <3>2. Top(InPages(p)) \o << >> = Top(InPages(p + 1)) /\ PageOf(0, list, Images) = << >>
          BY <1>3, <1>5, <2>2, <3>1, NextPage
    <3>3. QED
          BY <1>7, <3>2
  <2>3. QED
        BY <1>7, <2>1, <2>2
<1>9. NotePage(p, PageOf(p, list, Images))
      BY <1>1, <1>3, <1>4, <1>7
<1>10. NotesOK' /\ pages' \in 0 .. 3
       BY <1>1, <1>2, <1>6, <1>8, <1>9, Noted
<1>11. image_version' = [i \in 1 .. Cardinality(Ids) |-> image_version'[i]]
       BY <1>4, <1>5
<1>12. QED
       BY <1>1, <1>2, <1>10, <1>11 DEF IInv, image_version0_read_cb

\* Pages 1 and 2 are read off the list.  They count for the client behind the
\* ones before them only, and then the list is made.
LEMMA InvLaterPage ==
    ASSUME IInv, NEW p \in 1 .. 2, image_version_read_cb(p)
    PROVE  IInv'
<1>1. /\ link /\ UNCHANGED <<layout, bank, link, image_num, image_exist, image_indicator, image_version>>
      /\ NotePage(p, IF image_num > p * Page THEN PageOf(p, image_version, image_num) ELSE << >>)
      BY DEF image_version_read_cb, Callback, bankInfo
<1>2. PICK versions : versions = IF image_num > p * Page THEN PageOf(p, image_version, image_num)
                                 ELSE << >>
      OBVIOUS
<1>3. /\ Images \in Nat /\ p * Page \in Nat /\ p \in 0 .. 2
      /\ image_version = [i \in 1 .. Cardinality(Ids) |-> image_version[i]]
      BY Numbers DEF IInv
<1>4. pages > 0 => Counted /\ ListedOK
      BY <1>1 DEF IInv, NotesOK
<1>5. pages = p => Top(InPages(p)) \o versions = Top(InPages(p + 1))
  <2>0. layout \in Layouts
        BY DEF IInv
  <2>1. ASSUME pages = p
        PROVE  Top(InPages(p)) \o versions = Top(InPages(p + 1))
    <3>1. image_num = Images /\ \A i \in 1 .. Images : image_version[i] = Running[i]
          BY <1>4, <2>1 DEF Counted, ListedOK
    <3>2. CASE Images > p * Page
          BY <1>2, <1>3, <2>0, <3>1, <3>2, NextPage
    <3>3. CASE Images <= p * Page
          BY <1>2, <1>3, <2>0, <3>1, <3>3, NextPage
    <3>4. QED
          BY <1>3, <3>2, <3>3
  <2>2. QED
        BY <2>1
<1>6. pages > 0 => Counted' /\ ListedOK'
      BY <1>1, <1>4, SameRunning DEF Counted, ListedOK
<1>7. NotesOK' /\ pages' \in 0 .. 3
  <2>1. UNCHANGED <<layout, bank, link>> /\ NotePage(p, versions)
        BY <1>1, <1>2
  <2>2. p = 0 \/ pages > 0 => Counted' /\ ListedOK'
        BY <1>6
  <2>3. QED
        BY <1>1, <1>3, <1>5, <2>1, <2>2, Noted
<1>8. Uncounted' \/ Counted'
      BY <1>1, SameRunning DEF IInv, Uncounted, Counted
<1>9. QED
      BY <1>1, <1>7, <1>8 DEF IInv, image_version_read_cb

\* Every step keeps the invariant.
LEMMA InvStep ==
    ASSUME IInv, [Next]_vars
    PROVE  IInv'
<1>1. CASE UNCHANGED vars
  <2>1. UNCHANGED <<layout, bank, bankInfo, image_version, notes>> /\ link' = link
        BY <1>1 DEF vars
  <2>2. NotesOK' /\ (Uncounted' \/ Counted')
        BY <2>1, NotesSame
  <2>3. QED
        BY <1>1, <2>2 DEF IInv, vars, notes
<1>2. CASE Disconnect
      BY <1>2, NotesSame DEF Disconnect, IInv, notes
<1>3. ASSUME NEW oneByte \in BOOLEAN, NEW enter \in BOOLEAN, Write(oneByte, enter)
      PROVE  IInv'
      BY <1>3, NotesSame DEF Write, Callback, IInv, notes
<1>4. ASSUME NEW id \in layout, version_read_cb(id)
      PROVE  IInv'
      BY <1>4, NotesSame DEF version_read_cb, Callback, IInv, notes
<1>5. QED
      BY <1>1, <1>2, <1>3, <1>4, InvBoot, InvConnect, InvInfo, InvFirstPage, InvLaterPage DEF Next, Read

\* What the callbacks and the notes of the client keep.
LEMMA Inductive == Spec => []IInv
<1>1. QED
      BY InvInit, InvStep, PTL DEF Spec
-----------------------------------------------------------------------------
\* The counts, the indicator and the notes keep their shape.
THEOREM TypeCorrect == Spec => []TypeOK
<1>1. IInv => TypeOK
  <2> SUFFICES ASSUME IInv
               PROVE  TypeOK
      OBVIOUS
  <2>1. image_num \in {0, Cardinality(layout)} /\ image_exist \in {{}, layout}
        BY DEF IInv, Uncounted, Counted, Images
  <2>2. image_indicator \subseteq 0 .. 31
        BY IndicatorBits DEF IInv, Uncounted, Counted
  <2>3. QED
        BY <2>1, <2>2 DEF IInv, TypeOK
<1>2. QED
      BY <1>1, Inductive, PTL

\* A client that reads the version characteristics in order gets the versions of
\* what runs, for every number of images and of versions in a page, and whatever
\* it reads in between: the list is in RAM when a later page is read, also after
\* a reset.
THEOREM PagesComplete == Spec => []PagesRight
<1>1. IInv => PagesRight
  <2> SUFFICES ASSUME IInv, link
               PROVE  IsPrefix(got, Running) /\ (pages = 3 => got = Running)
      BY DEF PagesRight
  <2>1. /\ Images \in Nat /\ Images <= 3 * Page /\ InPages(pages) \in Nat
        /\ InPages(pages) <= Images /\ pages \in 0 .. 3
        BY Numbers DEF IInv
  <2>2. PICK n : n = InPages(pages)
        OBVIOUS
  <2>3. PICK V : V = {Running[i] : i \in 1 .. Images}
        OBVIOUS
  <2>4. \A i \in 1 .. n : i \in 1 .. Images
        BY <2>1, <2>2
  <2>5. Running = [i \in 1 .. Images |-> Running[i]]
        BY DEF Running, Images
  <2>6. Running \in Seq(V) /\ Len(Running) = Images
        BY <2>1, <2>3, <2>5
  <2>7. /\ got = Top(n) /\ got \in Seq(V) /\ Len(got) = n
        /\ \A i \in 1 .. n : got[i] = Running[i]
    <3>1. got = Top(n)
          BY <2>2 DEF IInv, NotesOK
    <3>2. \A i \in 1 .. n : Running[i] \in V
          BY <2>3, <2>4
    <3>3. QED
          BY <2>1, <2>2, <3>1, <3>2 DEF Top
  <2>8. IsPrefix(got, Running)
    <3>1. \A i \in 1 .. n : Running[i] \in V /\ got[i] \in V
          BY <2>3, <2>4, <2>7
    <3>2. /\ SubSeq(got, 1, n) \in Seq(V) /\ SubSeq(Running, 1, n) \in Seq(V)
          /\ Len(SubSeq(got, 1, n)) = Len(SubSeq(Running, 1, n))
          /\ \A i \in 1 .. n - 1 + 1 : /\ SubSeq(got, 1, n)[i] = got[1 + i - 1]
                                       /\ SubSeq(Running, 1, n)[i] = Running[1 + i - 1]
          BY <2>1, <2>2, <3>1, SubSeqProperties
    <3>3. Len(SubSeq(got, 1, n)) = n
          BY <2>1, <2>2, <3>1, SubSeqProperties
    <3>4. \A i \in 1 .. n : SubSeq(got, 1, n)[i] = SubSeq(Running, 1, n)[i]
          BY <2>1, <2>2, <2>7, <3>2
    <3>5. SubSeq(got, 1, n) = SubSeq(Running, 1, n)
          BY <3>2, <3>3, <3>4, SeqEqual
    <3>6. QED
          BY <2>1, <2>2, <2>6, <2>7, <3>5 DEF IsPrefix
  <2>9. pages = 3 => got = Running
    <3>1. ASSUME pages = 3
          PROVE  n = Images
      <4>1. Page \in Nat
            BY ServiceAssumption
      <4>2. QED
            BY <2>1, <2>2, <3>1, <4>1 DEF InPages
    <3>2. QED
          BY <2>6, <2>7, <3>1, SeqEqual
  <2>10. QED
         BY <2>8, <2>9
<1>2. QED
      BY <1>1, Inductive, PTL

\* The fields of the indicator that are not empty are those of the images.
LEMMA Fields ==
    ASSUME layout \in Layouts, bank \in Banks
    PROVE  /\ {n \in 0 .. 15 : Field(Indicator, n) # {}} = {OTA_HEADER + id : id \in layout}
           /\ \A id \in layout : Field(Indicator, OTA_HEADER + id) = Location[bank]
<1>1. Location[bank] \subseteq 0 .. 1 /\ Location[bank] # {}
      BY DEF Location, Banks
<1>2. /\ layout \subseteq Ids /\ Ids = 0 .. Cardinality(Ids) - 1
      /\ OTA_HEADER \in Nat /\ Cardinality(Ids) \in Nat /\ OTA_HEADER + Cardinality(Ids) <= 16
      BY Numbers, ServiceAssumption
<1>3. \A id \in layout : id \in Nat /\ OTA_HEADER + id \in 0 .. 15
  <2>1. ASSUME NEW id \in layout
        PROVE  id \in Nat /\ OTA_HEADER + id \in 0 .. 15
    <3>1. id \in 0 .. Cardinality(Ids) - 1
          BY <1>2
    <3>2. QED
          BY <1>2, <3>1
  <2>2. QED
        BY <2>1
<1>4. ASSUME NEW n \in 0 .. 15, NEW b \in 0 .. 1, 2 * n + b \in Indicator
      PROVE  \E id \in layout : n = OTA_HEADER + id /\ b \in Location[bank]
  <2>1. PICK c \in Location[bank], id \in layout : 2 * n + b = c + (OTA_HEADER + id) * 2
        BY <1>4 DEF Indicator
  <2>2. PICK m \in 0 .. 15 : m = OTA_HEADER + id
        BY <1>3
  <2>3. c \in 0 .. 1 /\ 2 * n + b = c + m * 2
        BY <1>1, <2>1, <2>2
  <2>4. n = m /\ b = c
        BY <2>3
  <2>5. QED
        BY <2>2, <2>4
<1>5. ASSUME NEW id \in layout, NEW b \in Location[bank]
      PROVE  b \in 0 .. 1 /\ 2 * (OTA_HEADER + id) + b \in Indicator
  <2>1. b + (OTA_HEADER + id) * 2 \in Indicator
        BY DEF Indicator
  <2>2. OTA_HEADER + id \in Nat /\ b \in 0 .. 1
        BY <1>1, <1>3
  <2>3. 2 * (OTA_HEADER + id) + b = b + (OTA_HEADER + id) * 2
        BY <2>2
  <2>4. QED
        BY <2>1, <2>2, <2>3
<1>6. ASSUME NEW id \in layout
      PROVE  Field(Indicator, OTA_HEADER + id) = Location[bank]
      BY <1>3, <1>4, <1>5 DEF Field
<1>7. ASSUME NEW n \in 0 .. 15, Field(Indicator, n) # {}
      PROVE  n \in {OTA_HEADER + id : id \in layout}
      BY <1>4, <1>7 DEF Field
<1>8. QED
      BY <1>1, <1>3, <1>6, <1>7

\* Images are few, and named by numbers.
LEMMA ImageNumbers ==
    ASSUME layout \in Layouts
    PROVE  IsFiniteSet(layout) /\ (\A n \in layout : n \in Nat) /\ OTA_HEADER \in Nat
<1>1. /\ IsFiniteSet(layout) /\ layout \subseteq Ids
      BY Numbers
<1>2. Ids = 0 .. Cardinality(Ids) - 1 /\ OTA_HEADER \in Nat
      BY ServiceAssumption
<1>3. \A n \in 0 .. Cardinality(Ids) - 1 : n \in Nat
      OBVIOUS
<1>4. QED
      BY <1>1, <1>2, <1>3

\* Two numbers of a set are not at the same place in it, and their places are
\* in the set's length.
LEMMA Places ==
    ASSUME NEW set, IsFiniteSet(set), \A n \in set : n \in Nat, NEW k \in set
    PROVE  /\ Place(set, k) \in 1 .. Cardinality(set)
           /\ \A j \in set : Place(set, j) = Place(set, k) => j = k
<1> DEFINE Below(n) == {m \in set : m <= n}
<1>1. \A n : IsFiniteSet(Below(n)) /\ Cardinality(Below(n)) \in Nat
      BY FS_Subset, FS_CardinalityType
<1>2. Place(set, k) \in 1 .. Cardinality(set)
  <2>1. Cardinality(Below(k)) <= Cardinality(set) /\ Cardinality(set) \in Nat
        BY FS_Subset, FS_CardinalityType
  <2>2. k \in Below(k)
        OBVIOUS
  <2>3. Cardinality(Below(k)) # 0
        BY <1>1, <2>2, FS_EmptySet
  <2>4. Cardinality(Below(k)) \in Nat
        BY <1>1
  <2>5. Cardinality(Below(k)) \in 1 .. Cardinality(set)
        BY <2>1, <2>3, <2>4
  <2>6. QED
        BY <2>5 DEF Place
<1>3. ASSUME NEW a \in set, NEW b \in set, a < b
      PROVE  Place(set, a) # Place(set, b)
  <2>1. a \in Nat /\ b \in Nat
        OBVIOUS
  <2>2. Below(a) \in SUBSET Below(b) /\ b \in Below(b) /\ b \notin Below(a)
    <3>1. \A m \in set : m <= a => m <= b
          BY <1>3, <2>1
    <3>2. b <= b /\ ~(b <= a)
          BY <1>3, <2>1
    <3>3. QED
          BY <3>1, <3>2
  <2>3. Cardinality(Below(a)) # Cardinality(Below(b))
        BY <1>1, <2>2, FS_Subset
  <2>4. QED
        BY <2>3 DEF Place
<1>4. ASSUME NEW j \in set, Place(set, j) = Place(set, k)
      PROVE  j = k
  <2>1. j \in Nat /\ k \in Nat
        OBVIOUS
  <2>2. ~(j < k) /\ ~(k < j)
        BY <1>3, <1>4
  <2>3. QED
        BY <2>1, <2>2
<1>5. QED
      BY <1>2, <1>4

\* The version of an image that runs is at its place in the list.
LEMMA AtItsPlace ==
    ASSUME layout \in Layouts, NEW id \in layout
    PROVE  /\ Place(layout, id) \in 1 .. Images
           /\ Running[Place(layout, id)] = Version[bank][id]
<1>1. IsFiniteSet(layout) /\ \A n \in layout : n \in Nat
      BY ImageNumbers
<1>2. PICK p : p = Place(layout, id)
      OBVIOUS
<1>3. p \in 1 .. Cardinality(layout) /\ \A j \in layout : Place(layout, j) = p => j = id
      BY <1>1, <1>2, Places
<1>4. (CHOOSE n \in layout : Place(layout, n) = p) = id
      BY <1>2, <1>3
<1>5. Ordered(layout)[p] = id
      BY <1>3, <1>4 DEF Ordered
<1>6. QED
      BY <1>2, <1>3, <1>5 DEF Running, Images

\* A field has the place among the fields that its image has among the images.
LEMMA FieldPlace ==
    ASSUME layout \in Layouts, NEW id \in layout,
           NEW fields, fields = {OTA_HEADER + x : x \in layout}
    PROVE  Place(fields, OTA_HEADER + id) = Place(layout, id)
<1>1. IsFiniteSet(layout) /\ (\A x \in layout : x \in Nat) /\ OTA_HEADER \in Nat
      BY ImageNumbers
<1>2. PICK S : S = {m \in layout : m <= id}
      OBVIOUS
<1>3. PICK T : T = {m \in fields : m <= OTA_HEADER + id}
      OBVIOUS
<1>4. PICK f : f = [x \in S |-> OTA_HEADER + x]
      OBVIOUS
<1>5. IsFiniteSet(S)
      BY <1>1, <1>2, FS_Subset
<1>6. f \in Bijection(S, T)
  <2>1. \A x \in S : f[x] \in T
        BY <1>1, <1>2, <1>3, <1>4
  <2>2. \A x, y \in S : f[x] = f[y] => x = y
        BY <1>1, <1>2, <1>4
  <2>3. \A t \in T : \E x \in S : f[x] = t
        BY <1>1, <1>2, <1>3, <1>4
  <2>4. QED
        BY <1>4, <2>1, <2>2, <2>3 DEF Bijection, Injection, Surjection, IsInjective
<1>7. Cardinality(T) = Cardinality(S)
      BY <1>5, <1>6, FS_Bijection DEF ExistsBijection
<1>8. QED
      BY <1>2, <1>3, <1>7 DEF Place

\* The device info and the version pages speak of the same images, for every
\* flash map and each bank: one field for each image, at OTA_HEADER and behind,
\* and for each field the version of its image (ota_service.c:105-140, 226-412).
THEOREM InfoTrue == Spec => []InfoAgrees
<1>1. IInv /\ PagesRight => InfoAgrees
  <2> SUFFICES ASSUME IInv, PagesRight, link, info # {}, pages = 3,
                      NEW fields, fields = {n \in 0 .. 15 : Field(info, n) # {}}
               PROVE  /\ fields = {OTA_HEADER + id : id \in layout}
                      /\ Cardinality(fields) = Len(got)
                      /\ \A n \in fields :
                            /\ Field(info, n) = Location[bank]
                            /\ got[Place(fields, n)] = Version[bank][n - OTA_HEADER]
      BY DEF InfoAgrees
  <2>1. info = Indicator /\ got = Running /\ layout \in Layouts
        BY DEF IInv, NotesOK, PagesRight
  <2>2. /\ fields = {OTA_HEADER + id : id \in layout}
        /\ \A id \in layout : Field(info, OTA_HEADER + id) = Location[bank]
        BY <2>1, Fields DEF IInv
  <2>3. IsFiniteSet(layout) /\ (\A id \in layout : id \in Nat) /\ OTA_HEADER \in Nat
        BY <2>1, ImageNumbers
  <2>4. Cardinality(fields) = Images
    <3>1. PICK f : f = [id \in layout |-> OTA_HEADER + id]
          OBVIOUS
    <3>2. f \in Bijection(layout, fields)
          BY <2>2, <2>3, <3>1 DEF Bijection, Injection, Surjection, IsInjective
    <3>3. QED
          BY <2>3, <3>2, FS_Bijection DEF ExistsBijection, Images
  <2>5. Len(Running) = Images
        BY Numbers DEF IInv, Running, Images
  <2>6. ASSUME NEW n \in fields
        PROVE  /\ Field(info, n) = Location[bank]
               /\ got[Place(fields, n)] = Version[bank][n - OTA_HEADER]
    <3>1. PICK id \in layout : n = OTA_HEADER + id
          BY <2>2
    <3>2. n - OTA_HEADER = id
          BY <2>3, <3>1
    <3>3. Place(fields, n) = Place(layout, id)
          BY <2>1, <2>2, <3>1, FieldPlace
    <3>4. Running[Place(layout, id)] = Version[bank][id]
          BY <2>1, AtItsPlace
    <3>5. QED
          BY <2>1, <2>2, <3>1, <3>2, <3>3, <3>4
  <2>7. QED
        BY <2>1, <2>2, <2>4, <2>5, <2>6
<1>2. QED
      BY <1>1, Inductive, PagesComplete, PTL
=============================================================================

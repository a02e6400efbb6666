# Verification of the Realtek Zephyr OTA update

TLA+ models of the over-the-air update of this repository, checked with TLC, and
theorems about them, checked with TLAPS. The models are read off the code under
`src/subsys/dfu/` and `src/applications/matter_common/`; `PROJECT.json` says for every definition which lines it stands for.

## 1. Inventory

| Part | Source | State it keeps | Operations | Modelled by |
|---|---|---|---|---|
| Application task and its queues | `silent_ota.c` | `io_queue_handle`, `evt_queue_handle` | `app_send_msg_to_apptask`, the loop of `silent_ota_task`, `app_handle_io_msg` | `AppTask`, `MsgPipe` |
| DFU service | `dfu_service.c` | `g_dfu_para` (image id, offset, length), the RAM buffer and its fill, `buffer_check_en`, `is_ota_procedure`, `dfu_resend_offset`, `temp_image_num`, `temp_image_info` | packets, the control point commands, `dfu_buffer_check_process`, `dfu_service_handle_valid_fw`, `dfu_service_handle_active_image` | `DfuService`, `AnyClient` |
| Flash access and validation | `dfu_flash.c` | the flash: contents, ready bits, block protection | erase, write with read-back, erase with retry, `dfu_update`, `dfu_check_checksum`, `dfu_set_image_ready` | `NorFlash`, `DfuFlash` |
| The silent update as a whole | the three above | connection, `dfu_active_rst_pending`, OTA header of the active bank | a session, link loss, resets, power loss | `SilentOta`, `OtaUpdate` |
| OTA information service | `ota_service.c` | `ota_active_bank_info` (count, images, indicator), `image_version`, `switch_to_ota_mode_pending` | reads of device information, version pages and strings; the write that asks for OTA mode | `OtaService` |
| Matter OTA processor | `matter_ota.c` | `matter_ota_db`: buffer and its fill, parser state, image index, size and id, `is_data_valid` | prepare, process a block, finalize, apply, abort | `MatterOta`, `OtaUpdate` |
| Copy of an image between banks | `dfu_flash.c`, `dfu_service.c` | - | `dfu_copy_img` | not modelled |
| Normal OTA application | `dfu_main.c`, `dfu_application.c`, `dfu_task.c` | timers, task | compiled out (`SUPPORT_NORMAL_OTA` is 0) | not modelled |
| Printing, samples, CLI, host tools | `dfu_common.c`, `samples/`, `ot-cli`, `tool/` | none | - | not modelled |

How they interact. The Bluetooth thread calls `dfu_srv_write_cb` for each write; it runs a
packet or a command to its end, writing the flash on the way, and answers with a
notification. It ends with a callback of the application (`app_dfu_srv_cb`), which posts
`VALID_FW` to the application task, or, for `ACTIVE_IMAGE_RESET`, erases the OTA header of
the active bank and asks for a disconnection. The application task validates an image and
sets its ready bit, concurrently with the Bluetooth thread; they share the image id, the
entries of the combined bank and the flash. The disconnected callback does the pending reset.
Before an update the client reads the OTA information service, whose callbacks share a list and
a count in RAM. The Matter processor is another way to the same banks: the Matter SDK calls it
in one thread, block after block. It writes and checks images by `dfu_write_data_to_flash` and
`dfu_checksum`, which this repository declares nowhere and which are modelled from their calls, and
readies them by `dfu_set_ready` (`dfu_flash.c:293`, declared in `dfu_flash.h:108`), which writes
without unlocking the flash.

What is hard: the two threads share variables without a lock; flash operations fail, and
block protection must be off for them and on otherwise; a reset can come anywhere and leaves
only the flash; the session state outlives the connection; sender and device must agree on
an offset through lost packets and retries; and activation is destructive, as it erases what
the device boots from. `PROJECT.json` lists these under `hazards`, line by line.

What makes each part correct:
- queues: an event for each message; nothing lost, handled once, in order;
- service: the buffer never overflows, whatever mode and order of commands; the offset told
  to the client is the truth; the resend point is where one erase undoes a failure;
- flash: a ready image is whole; it is protected between calls; nothing outside the
  temporary banks changes; images validated before stay;
- update: the device switches to the new images all at once, only when it holds them all,
  and an update ends;
- information service: the version pages, read in order, list what runs, and hold for each field
  of the device information the version of the image that the field is for;
- Matter processor: however the file is cut into blocks, each piece is taken for what it is;
  a file that fits is never refused for want of room; what is finalized is whole.

## 2. The modules

- `AppTask` - the two queues. `SendIo`, `SendIoFail`, `SendEvt`, `Return` are the steps of
  `app_send_msg_to_apptask`; `RecvEvt`, `RecvIo`, `HandleIoMsg` those of `silent_ota_task`.
- `MsgPipe` - what the two queues promise together: one bounded FIFO. `AppTask` implements
  it (`PipeRefinement`).
- `NorFlash` - the flash as a value: cells, the set of ready headers, protection. An operation
  that may fail is the set of its outcomes. The driver and the chip are external and modelled
  from how `dfu_flash.c` uses them; the wrappers are from the code.
- `DfuFlash` - the functions of `dfu_flash.c` as operators from a flash to outcomes.
- `DfuService` - the variables of `dfu_service.c` and one action per packet kind and command.
  The commands that only answer (`RECEIVE_IC_TYPE`, `CHECK_IMAGE_VER`, `HANDSHAKE`) are there
  too, as they take the place of a notification among the others.
- `AnyClient` - `DfuService` under a client that sends anything in any order.
- `SilentOta` - `DfuService` under a client that follows the protocol, with the application
  task (five steps, so that the Bluetooth thread comes in between), the connection, resets,
  power losses, also in the middle of an update or an activation, and the activation. What
  one client may do and what may happen to it is a record of `Clients`: the plan (its images,
  in order), the packet lengths, whether it uses the buffer check, whether it starts over without
  a reset, whether it may decline, whether damage may be missed, and the bounds of faults, lost
  connections, power losses and bad packets. A run checks all its clients at once.
- `OtaUpdate` - what an update with bank switching promises. `SilentOta` implements it
  (`UpdateRefinement`): `held` is the set of images of the plan that stand whole and ready at
  their place, `switched` that the OTA header of the active bank is gone. `MatterOta`
  implements it too. There `switched` is what the boot loader makes of a reboot, any reboot: apply
  writes nothing, so nothing in the flash tells its reboot from a power loss.
- `OtaService` - the callbacks of `ota_service.c`, one action each, with a client that notes what
  it reads page by page.
- `MatterOta` - the block parser. `caller` and `given` are the Matter SDK, `pc` says which of the
  functions of `rtk_matter_ota_process_block` runs next, and the other variables are the fields
  of `matter_ota_db`. The buffer is not kept as content: it is the piece of the file that ends
  where the blocks given so far end, so what a parser finds in it follows from its place
  (`BufStart`), and at a wrong place it finds anything. `from` and `stored` say what the other
  bank holds of each image. Lengths are in units of the instance. Every reset is `Reboot`: the boot
  loader, which is external, takes the other bank when all its images are ready, old ones or new,
  and some are of the update (`BootsOther`). `checksum_readies` says whether `dfu_checksum` sets the
  image ready that it passes, as `dfu_check_checksum` does; nothing in the repository tells.
- `MCDual`, `MCSingle`, `MCAnyClient`, `MCAppTask`, `MCOtaService`, `MCMatter` - the instances
  for TLC.
- `AppTask_proofs`, `DfuService_proofs` (with the flash operations), `AnyClient_proofs`,
  `SilentOta_proofs`, `SilentReady_proofs` (with bank switching), `SilentSingle_proofs` (without),
  `OtaService_proofs`, `MatterOta_proofs` - the proofs.

A cell of the flash stands for a fixed number of bytes. The content of a cell is `<<m, i>>`,
cell `i` of image `m`, or blank, or torn (half erased, or programmed over something else).
Cell 0 of an image is its header. The ready bit is kept apart from the content, because the
hash is computed with it masked; it can be cleared by programming and set by erasing only. Programming
clears it in `dfu_set_ready`, and with data that has it cleared: `Released` are the headers
that a client sends with `not_ready` = 0. `dfu_update` forces the bit to 1 in a header at offset 0 if
its first write is longer than the offset of the uuid (`UUID`, `dfu_flash.c:807`), and passes any other
on as it came (`SentReady`). Offsets and addresses have the width of 32 bits (`Wrap`), also in the check
of the length.

Definitions named in a comment as "wrong variant, for the mutation runs" are used by no
specification: `PROJECT.json` (`mutants`) names for every property of every passing run a
definition that, replaced by its wrong variant, makes TLC find the property violated.

## 3. The runs

In `MCSingle` a sector is four cells and the buffer two (as 4096 and 2048 bytes), eight
and four in `MCDual`; images span two sectors, start at a sector's start and, in the combined
bank, in its middle; packets of one and two cells make writes end before, at and behind the
end of a sector. That gives all the cases of `dfu_update` and of the resend point.

Passing:

| Run | What it shows | Bounds |
|---|---|---|
| `app_task` | queues paired, FIFO implemented, every message handled | 2 senders, 2 messages, queues of 3 |
| `dual` | sender and device in step, retries repair, only whole images ready, none ready that is being overwritten, protection, nothing outside the banks, `OtaUpdate` implemented | five clients, see below |
| `dual_live` | the update ends | 1 fault, 1 power loss, 1 lost connection, free choice to start over, an io queue of one message |
| `single` | two images in the combined bank, or user data in its own: the second image leaves the first alone; activation sets them ready, a declined update none | 2 power losses, also between two ready bits, 2 lost connections |
| `any_client` | buffer, resend point and protection under any order of commands; a header with `not_ready` = 0 becomes ready only where `dfu_update` lets it pass | 1 fault, every reachable state |
| `ota_info` | the version pages tell what runs, and each field of the image indicator names an image that runs, with its version at its place in the pages | 7 flash maps, each bank; every reachable state |
| `matter` | the parser is in step for every way to cut a file into blocks, blocks find room, what is finalized is whole, the boot loader finds the new images all or nothing, the update completes | 4 files, blocks of 1 to 3, 2 faults, 1 power loss (also in a write) or abort |

The clients of `dual`: with 2 faults, 2 power losses and a damaged or lost packet; with 3 faults;
with 2 lost connections, a fault and damage that the 16-bit xor misses, which resets the device
before it starts over; and two without buffer check, one with a whole update over a fault, a lost
connection and a power loss, one with a packet that is lost or damaged unseen.

Three faults are as many as the erase retry has rounds, so that the erase can fail for good.
A power loss, a lost connection and a fault each reset what the next one would act on, so one
or two of each reach the states that differ. `any_client` has no bound but the fault and the
small banks: offsets and lengths are finite. Its cells are all headers with `not_ready` = 0, and two of
its packets fill the buffer, so that a first write may end before the uuid or behind it. The flash maps of `ota_info` end in the middle, at
the end and at the start of each of the three pages, with pages of two for five. The files of
`matter` have payloads from one unit to more than the buffer, MP info of no, one and two units,
an MP header without its items, and as many images as overflow the count.

What some of the properties do not say. `InStep` of `dual` is about clients that start each image at
offset 0; an offset in the middle of an image (`RECEIVE_FW_IMAGE_INFO`) is met by `any_client` only.
`ResendAligned` says that the resend point stays the start of a sector, not of which one: after
`REPORT_TARGET_INFO` in the middle of an image the difference of the offsets wraps and the point
moves on (`dfu_service.c:461`); the client then announces offset 0, which sets it back, so that
`ResendPoint` holds in `dual`. `InsideBanks` is checked with bank switching only. In `single` nothing fails
and no packet is lost, so `PrefixIntact` and `ValidatedKept` there are about the sector that two images
share, and `DeclinedNotReady` says that nothing is ready before activation; the erase of `SYSTEM_RESET`
is the subject of `declined`.

Violated, each a disagreement between the code and what it says of itself (`findings`):

| Run | What happens |
|---|---|
| `retry_erase` | the retry of the second image of the combined bank erases the first one: the erase misses `total_offset` (`dfu_service.c:484`, `dfu_flash.c:842`) |
| `stale_ready` | after a lost connection the pending validation makes an image ready while a new session overwrites it (`dfu_service.c:598`, `dfu_flash.c:830`) |
| `ready_fault` | a ready bit that could not be written goes unnoticed, and the active bank is given up (`dfu_flash.c:301`, `291`) |
| `user_last` | with user data after another image, activation looks for the entries of the combined bank in the user data bank; before it, user data is forgotten (`dfu_service.c:635`, `960`) |
| `declined` | `SYSTEM_RESET` erases with the flash protected: a declined image stays ready (`dfu_service.c:1007`, `dfu_flash.c:96`) |

The same models show more under other clients. With `MCTooBig` as `Clients` of `Single.cfg` and
`InsideBanks`: two images that fit one by one overrun the combined bank, as the length check leaves
`total_offset` out (`dfu_flash.c:408`, `363`). With `MCUserOnly` and `ActivatedReady`:
`IMAGE_USER_DATA` is never set ready, as the loop stops before it (`dfu_service.c:653`, `647`). A
client that starts over without a reset breaks `ReadyIntact` and `Bootable` too, by the way of
`stale_ready`. And a client without buffer check whose only packet of an image shorter than the
buffer is lost has the image of before validated, and is told `SUCCESS`: `VALID_FW` does not look at
how much was received (`dfu_service.c:589`), so `Bootable` fails for `MCUnchecked` with both images
and a bad packet.

What `MatterOta` relies on is in `Fits`. From sixteen sub headers on, `pack_header_len` wraps
(`matter_ota.c:185`) and the parser goes on inside the pack header; an image that ends, MP header
and all, in the block that brings its MP header leaves more in the buffer than the room for a block
leaves free, as one call handles one header and one payload; and `rtk_matter_ota_finalize` returns 0
also when a ready bit could not be written (`matter_ota.c:412`; `dfu_set_ready` unlocks nothing and looks
at no result), so that `FinalizedWhole` fails with `"ready"` in `FaultKinds`. And with a `dfu_checksum`
that sets the image ready, over a bank whose old images are still ready, the first new image is ready
beside the old ones as soon as it is written: a reboot then mixes them, so `UpdateRefinement` of
`MatterOta` is about a `dfu_checksum` that leaves the bit alone. The other properties hold for both.

The comment on the image indicator has the OTA header as image 0, in bits 1 and 0
(`ota_service.c:88-103`); the code puts it at field 2 (`OTA_HEADER`, lines 31 and 136), behind SOCV_CFG and
SYS_CFG, and every other image two fields later than the comment too. `InfoAgrees` follows the code, and its
mutant is the numbering of the comment.

The passing runs keep away from these by their setting: `single` has no flash faults, images
that fit together and no update that mixes user data with others, `dual` and `dual_live` no
failing ready bit, only `dual_live` starts over without a reset, and `matter` has no failing
ready bit.

Fairness. `AppTask`: a thread inside `app_send_msg_to_apptask` and the task keep running, as no
call of theirs blocks but the receive on the empty event queue; nothing makes a sender send.
`SilentOta`: the client goes on while it can, the application task and the disconnection that
was asked for make progress, and a device that resets boots. Faults, losses and resets are not
fair: they are bounded. No fairness is asked of which packet length the client takes.
`MatterOta`: the caller goes on while it can, as the SDK calls the processor in one thread, and it
starts again after a failure (`Completes`).

Assumptions. Under protection erase and program commands change nothing and fail. A sector
erase or a program operation that fails leaves the old content or a torn one. The hash
check passes exactly for a whole image and reads the flash in one step; the application task
does not preempt a handler of the Bluetooth thread, which runs at higher priority. A
notification goes to whichever connection is up. A reset does not return to its caller. The
client starts an image at offset 0. Activation sets all headers in one step, unless the power is
lost in it. `OtaService`: each value fits in one read of the smallest MTU; the versions do not
change while the device runs. `MatterOta`: the caller starts with prepare and gives no block after
one that failed, as the processor dereferences `matter_ota_db` without a test; `dfu_checksum`
passes for a whole image only, and always or never sets it ready; a write at offset 0 erases; the write of
`dfu_set_ready` succeeds although nothing unlocked the flash; and the boot loader goes by the ready
bits of the other bank. A power loss comes also in the middle of the erase or the write of `dfu_update`
(`UpdateCut`), for the clients with buffer check; not between two rounds of the erase of a retry, nor in
the middle of a write of a client without buffer check, where it comes before or after.

## 4. The proofs

`AppTask_proofs` holds for every finite set of senders, every set of messages and all lengths
with `MaxIo <= MaxEvt`. The inductive invariant is `TypeOK /\ Paired`: `Paired` alone says how
many messages wait - one for each event queued, about to be queued, or taken - and the
bound of the io queue then bounds events and posting senders together, so that the event
queue has room for each (`EventSendNeverFails`), the task finds its message
(`TaskNeverMisses`) and none is left (`NoMessageStranded`). `Posting` is finite because the
senders are, and its cardinality changes by one with each send. `ImplementsPipe` is the
refinement without its fairness: the initial state and every step map to `MsgPipe`.

`DfuService_proofs` first says what the operations of the flash keep, for every flash and every layout
whose banks lie inside the flash: each outcome is a flash again (a fault is counted only while
the bound allows it), no operation but `dfu_set_image_ready` and the writing of a header of `SentReady`
makes a header ready, and each says what it does to the protection. `dfu_update` may fail with the flash open, and the retry
loop closes it (`UpdateType`, `RetryType`).

`AnyClient_proofs` composes these to one lemma about every step of the service (`FlashStep`) and
gets from it, for every order of commands, every layout, every size of sector, buffer and packet,
and any number of faults: `TypeCorrect`; `FlashProtected` (a failed update either is followed by
the retries, or resets the device, or touched nothing because the image id has no bank);
`OnlyUserDataReadied` (no header becomes ready but those of `ClientReadies`, which are programmed as the
client sent them, and the user data that activation sets ready); `BufferNeverOverflows` (the limit without buffer check is below the one with it,
so enabling it half way is harmless); and `ResendPointAligned`. The last rests on arithmetic with
variable divisors: a step by one sector with the wrap of the offsets stays a multiple of the sector because
the width of the offsets is one (`Wrap % SECTOR = 0`, 2^32 and 4096 in the code).
`AnyClient` has no application task: what validation adds is in `SilentOta`.

`MatterOta_proofs` holds for every set of files that fit (`Fitting`), every length of headers, buffer
and blocks, and any number of failures and power losses. `TypeCorrect` needs no file to fit. The
inductive invariant `IInv` has a part for each thing that could go wrong: `Control` (which states
of the caller, of the program counter and of the parser go together), `Position` (where the buffer
starts in the file, before each of the three parsers), `Piece` (what is known of the image being
written), `Room` (what is left in the buffer after a call), `Passed` (every image of the other bank
the parser is past stands whole) and `Finalizing` (the images finalize is past are ready).
`InStep` is not inductive, as it speaks of the time between calls only. `ParserInStep`,
`BlocksFit`, `FinalizeHonest` and `ReadyOnlyWhole` follow from it. `Refinement` maps every step
to one of `OtaUpdate` or a stutter; its heart is that any reboot, apply's or a power loss in the
middle of anything, switches only to a bank that holds the whole update (`BootsWhole`). That needs
one more invariant, `Unmixed`: as long as some old image is still ready in the other bank, no new
one is, since all of them are written before the first is set ready, and writing one takes the bit off
the old one.

`DfuService_proofs` then has what the commands of the service do to the flash (`FlashPacket`,
`FlashReport`, `FlashActivate`, `FlashReset`) and to the offsets; `AnyClient_proofs` and `SilentOta_proofs` both use it.

`SilentOta_proofs` holds for every plan, layout, size of sector, buffer and packet, and any number of
faults, lost connections and power losses, under `Sizes`: the buffer is no longer than a sector
(`DFU_TEMP_BUFFER_SIZE` 2048, a sector 4096), and an image is shorter than the wrap of its 32-bit length.
`SidesInStep` and `ResendPointInSector` need no more, so they hold with and without bank switching.
Neither is inductive: `SessionInv` adds what each state of the client knows of the service
(`Shape`: which answer is on its way; `SendOK`, `ReportOK`: how `pos`, `sent`, the offset and the
fill of the buffer go together before, during and after a report). `DeviceInv` says the same of the
task and the flash, and with `BankSwitch` gives `TypeCorrect` and `FlashProtected`.

The last part of `SilentOta_proofs` is about the content of the flash. `PrefixKept`: what the service counts as
received of the image is in the flash or in the buffer, intact, through every retry and every resend.
The inductive form `PrefixOK` also says that a damaged packet is still in the part the next report
covers. `BanksKept`: an update writes, erases and sets ready nothing outside the temporary banks of
its images. It assumes `Fits` (banks start and end on sectors, and each image that a client sends fits in its
bank; the writer tests that, but the erase of a retry does not; and the headers are sent with
`not_ready` = 1, `Released = {}`) and `NoUserData` (after user data
ACTIVE_IMAGE_RESET sets other ids ready too).
Both rest on lemmas of `DfuService_proofs` on the cells that an operation may change (`EraseCells`,
`UpdateCells`, `RetryCells`, `UpdateInside`).

`SilentReady_proofs` is about what an update with bank switching makes ready.
- `WholeWhenReady` and `SentNotReady` take the hypotheses above and three more. `OwnBanks`: each
  image has a temporary bank, and no two share cells. `OldLodged`: what an earlier update left lies
  at the start of a bank, or outside them all. Both are the layout of `src/bin/rtl8752h/dual_bank/flash_map.h`, where the
  banks follow each other and each image starts its bank. `Patient`: a client that loses the
  connection has the device reset before it starts over; the run `stale_ready` shows that
  `ReadyIntact` fails without. The invariant has two parts. `TurnsOK`: client and task take
  turns, so that nothing is validated while packets arrive - this is what `Patient` is for.
  `ReadyOK`: every ready header has its whole image behind it (`Housed`), no header claims more
  than its bank holds (`HeadersFit`, from the check in `check_dfu_update_image_length`), and while
  an image is sent its bank is not ready. Its core is the relation `Work` of `DfuService_proofs`: an
  update or a retry sets nothing ready and leaves the other banks alone; from the start of an
  image on it either changes nothing or leaves the header of its bank not ready; and no header
  appears whose image does not fit.
- `AlwaysBoots`, `SwitchedReady` (`ActivatedReady`: no reset is pending unless all is ready) and
  `Refinement`, to `OtaUpdate`, assume `Careful`: also `Telling` (a client uses
  the buffer check or damages no packet), `OneEach` and `NewImages` (the images of an update have
  different ids, and are not the old ones), and that setting the ready bit does not fail; the run
  `ready_fault` shows that `Bootable` fails without the last. `FirstOK`: once a report wrote the
  start of an image, no header of another image is left in its bank, so that validation cannot
  take the old image for the new one. `WholeOK`: all of it is sent when the client asks for
  validation. `HoldOK`: the task validates the image of the client. `HeldOK`: the device holds the
  images before the current one. What `Telling` excludes is the client `MCUnseen`, whose first packet
  may be lost unseen.

`SilentSingle_proofs` is about an update without bank switching: images one behind the other in a
combined bank, or one image of user data in a bank of its own. Every theorem in it holds for
every plan, layout, size of sector, buffer, packet and word, and any number of lost connections
and power losses, also in the middle of a write of a client with buffer check (`UpdateCut`) or between
two ready bits. The hypotheses are `Steady`:
- `Sizes` and `Patient` as above, and `OneBank`: the images of a plan share a bank of whole sectors with
  room for all of them, and a plan with user data is that one image, with the only user data bank.
  The code checks the room for each image alone (`MCTooBig` above), and mixing user data with others is
  the finding of `user_last`.
- no failing flash operation, since a retry erases the images before (`retry_erase`);
- buffer check, unless all packets arrive, and no damage that the checksum misses;
- `WholeWords`: images and packets are whole words, as `dfu_update` refuses other lengths;
- the headers are sent with `not_ready` = 1;
- `OldWhole`: what an earlier update left is whole, and lies in the bank from its header on or apart from it.

The theorems are `AllReadyWhenActivated`, `NoneReadyWhenDeclined`, `WholeInOneBank`, `ImagesStay` (the
action property `ValidatedKept`), `TypesInOneBank`, `ProtectedInOneBank`, `PrefixInOneBank`,
`SentNotReadyInOneBank` and `OneBankKept`. One inductive invariant, `SteadyInv`, gives them all.
Its centre is a frontier (`Laid`): all images stand up to a cell, the rest of that cell's sector is blank,
and no header before the next sector is ready. `LaidOK` says where the frontier is in each state of the
client - at the place of the image before it is sent, at the offset of the service while it is, behind
it from validation on. A write at the frontier erases exactly the sectors that begin behind
it (`CleanUpdate`), so it succeeds and moves the frontier (`Grown`). That writes follow each other without
a gap needs to know where the service writes: `CountOK` says how many entries of `temp_image_info` are
counted in each state, so that the newest one is the image that is sent, which takes the task and
its answer into account. The offsets of a plan are a recursive function; that it satisfies its equation is
proved by the least counterexample (`OffsetsAre`). `WordsOK` keeps both sides between two words.
`EndOK` keeps what activation set ready, and what a refused update did not: `SYSTEM_RESET` finds
the flash protected and erases nothing.

Why activation sets exactly the images of the plan ready is `PlanHeaders`: the counted entries
are those of the plan, and `dfu_service_handle_active_image` walks them alone.

`OtaService_proofs` holds for every set of flash maps and banks, every number of versions per page and
every order of reads, switches, reconnections and resets. `TypeCorrect`, `PagesComplete` and `InfoTrue`
follow from `IInv`: the counts of the device are not made yet, or they are right; the list of versions is
right as soon as the client noted a page; and a client that is connected noted a prefix of what runs that ends with a page.
The pages tile the list (`NextPage`). `InfoTrue`: the fields that are not empty are those of the images there
are (`ImageNumbers`), and a field has the same place among them as its image among the images (`FieldPlace`), which
is where `AtItsPlace` finds its version.
The model assumes that versions do not change while the device runs, and `Ids` is finite.

The instance `MCDual` satisfies the hypotheses of `SilentOta_proofs` and `SilentReady_proofs`, except that
`MCUnseen` does not satisfy `Telling`, and that its headers are sent with `not_ready` = 0: TLC finds the
properties true for them too, as the first write of each client reaches beyond the uuid. `MCSingle` with the clients of `single` satisfies `Steady`, and TLC finds
`SteadyInv` true in every state of that run.

Only model-checked: liveness (`EveryMsgHandled`, both `Completes`) and the fairness part of
`PipeRefinement`, since liveness and `ENABLED` are out of the prover's reach. Every safety invariant of a passing run,
and every action property, is stated by a theorem. The proofs are checked from nothing in about
a quarter of an hour.

## 5. Not modelled

- `COPY_IMG` and `dfu_copy_img` (`dfu_flash.c:992`): the device information says that copying is not
  supported (`ota_service.c:254`), and the copy would write to a protected flash. It also leaves
  `p_ota_temp_buffer_head` moved; a project that enables it should model that.
- The normal OTA application: compiled out, and the place that would switch to it does nothing
  (`silent_ota.c:269`).
- Hashing, AES, the 16-bit checksum of the buffer and the order of versions as computations: the
  models have their outcome. `OTA_ONLY_SUPPORT_UPGRADE` is off, so `dfu_soc_check_img_version`
  answers true.
- The flash driver, the boot loader, Zephyr's Bluetooth host and the Matter SDK: external.
- Printing, the samples, the command line and the host tools: no state of the update.

## 6. What could follow

1. `AlwaysBoots` with a client of `MCUnseen`'s kind, and `ReadyIntact` with damage that the checksum misses
   in one bank; and `ReadyIntact` for headers sent with `not_ready` = 0 by clients whose first write reaches
   beyond the uuid.
2. Flash faults in the user data bank without bank switching, where no image lies before the one
   that is retried, and the application task under any client.
3. The checksum of the buffer as a function, with the damage it misses.

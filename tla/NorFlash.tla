------------------------------ MODULE NorFlash ------------------------------
(***************************************************************************)
(* The NOR flash under the DFU service: the Zephyr flash driver and the    *)
(* Realtek block protection, as the wrappers of src/subsys/dfu/dfu_flash.c *)
(* use them.                                                               *)
(*                                                                         *)
(* A flash is a record:                                                    *)
(*   mem     what each cell holds.  A cell stands for a fixed number of    *)
(*           bytes; a sector is SECTOR cells.                              *)
(*   ready   the addresses whose image header has not_ready = 0.  The bit  *)
(*           is kept apart from the content of the cell.  Programming can  *)
(*           clear it, in dfu_set_ready or with data that has it cleared,  *)
(*           and only erasing sets it.                                     *)
(*   bp      whether block protection is on.  With it on the flash ignores *)
(*           erase and program commands (dfu_flash.c:96).                  *)
(*   faults  how many faults happened, bounded by MaxFaults.               *)
(*                                                                         *)
(* An operation that can fail is the set of its outcomes, each a record    *)
(* with the flash after it (nor) and its result (ok).                      *)
(***************************************************************************)
EXTENDS Naturals, Sequences, FiniteSets

CONSTANTS
    FlashSize,   \* number of cells
    SECTOR,      \* FLASH_NOR_SECTOR_SIZE, in cells
    Data,        \* what a programmed cell can hold
    Erased,      \* the content of a blank cell
    Torn,        \* the content of a cell whose programming or erasing went wrong
    FaultKinds,  \* the operations that can fail: "erase", "program", "ready"
    MaxFaults    \* bound: how many of them fail in a behaviour

ASSUME FlashAssumption == /\ FlashSize \in Nat
                          /\ SECTOR \in Nat \ {0}
                          /\ MaxFaults \in Nat

Addr == 0 .. FlashSize - 1
Content == Data \cup {Erased, Torn}
Flash == [mem : [Addr -> Content], ready : SUBSET Addr, bp : BOOLEAN, faults : 0 .. MaxFaults]

CanFail(n, kind) == kind \in FaultKinds /\ n.faults < MaxFaults

Failed(n) == [nor |-> n, ok |-> FALSE]
Done(n)   == [nor |-> n, ok |-> TRUE]

\* The flash after one more fault.
Faulty(n) == [n EXCEPT !.faults = @ + 1]

unlock_flash_bp_all(n) == [n EXCEPT !.bp = FALSE]
lock_flash_bp(n)       == [n EXCEPT !.bp = TRUE]

\* The cells of the sector of address a.
SectorOf(a) == {x \in Addr : x \div SECTOR = a \div SECTOR}

\* The memory with a sector blank, and with a sector half erased.
WithSector(mem, a, c) == [x \in Addr |-> IF x \in SectorOf(a) THEN c ELSE mem[x]]

\* The flash with the sector at a blank, or half erased.
SectorSet(n, a, c) == [n EXCEPT !.mem = WithSector(@, a, c), !.ready = @ \ SectorOf(a)]

\* What an erase that does not come to its end leaves: the sector as it was or
\* half erased.
HalfErased(n, a) == {n, SectorSet(n, a, Torn)}

\* flash_erase of the sector at a; the driver refuses an address that starts
\* no sector.
dfu_flash_erase_sector(n, a) ==
    IF n.bp \/ a % SECTOR # 0 THEN {Failed(n)}
    ELSE {Done(SectorSet(n, a, Erased))}
         \cup {Failed(Faulty(h)) : h \in {x \in HalfErased(n, a) : CanFail(n, "erase")}}

\* Programming clears bits only: a blank cell takes the data, a cell that
\* holds the same data keeps it, any other cell ends up with neither.
Programmed(old, new) == IF old \in {Erased, new} THEN new ELSE Torn

\* The memory after the first k cells of data went to start.
WithData(mem, start, data, k) ==
    [x \in Addr |-> IF x \in start .. start + k - 1
                    THEN Programmed(mem[x], data[x - start + 1])
                    ELSE mem[x]]

\* The ready headers then: clear is the set of the indices at which the data
\* itself is a header with not_ready = 0.
Readied(ready, start, clear, k) ==
    ready \cup {x \in Addr : \E j \in clear \cap 1 .. k : x = start + j - 1}

\* The flash after the first k cells of data went to start.
ProgrammedUpTo(n, start, data, clear, k) ==
    [n EXCEPT !.mem = WithData(@, start, data, k), !.ready = Readied(@, start, clear, k)]

\* Reading back cell k of the data gives what was programmed.  A header whose
\* not_ready bit is already 0 differs from data that has it 1.
ReadsBack(n, start, data, clear, k) ==
    LET x == start + k - 1
    IN  /\ x \in Addr
        /\ x \in n.ready => k \in clear
        /\ Programmed(n.mem[x], data[k]) = data[k]

\* flash_write that clears the not_ready bit of the headers at the addresses
\* hs.  Protection or a failing write leaves a header alone, and the caller
\* cannot tell: dfu_set_ready ignores the result of the write.
ClearNotReady(n, hs) ==
    IF n.bp THEN {n}
    ELSE {[n EXCEPT !.mem    = [x \in Addr |-> IF x \in hs \ bad THEN
                                   (IF @[x] = Erased THEN Torn ELSE @[x]) ELSE @[x]],
                    !.ready  = @ \cup (hs \ bad),
                    !.faults = @ + Cardinality(bad)] :
             bad \in {b \in SUBSET hs :
                        b # {} => /\ "ready" \in FaultKinds
                                  /\ n.faults + Cardinality(b) <= MaxFaults}}
=============================================================================

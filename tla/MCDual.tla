------------------------------- MODULE MCDual -------------------------------
(* Bank switching: an OTA header of five cells and an application of       *)
(* eleven, over the ones of an earlier update, which are ready.  A sector  *)
(* is eight cells and the buffer four, as 4096 and 2048 bytes; the         *)
(* application spans two sectors.  A packet of a client without buffer     *)
(* check is three cells, so that its buffer holds one of them and, as with *)
(* 20 bytes, no write of it starts a sector but the first.  Behind the     *)
(* banks lies an image that no update touches.                             *)
EXTENDS SilentOta

MCTotal    == [otaNew |-> 5, appNew |-> 11, otaOld |-> 4, appOld |-> 10, next |-> 2]
MCImage    == DOMAIN MCTotal
MCData     == UNION {{m} \X (0 .. MCTotal[m] - 1) : m \in MCImage}
MCIds      == {"none", "OTA", "App", "IMAGE_USER_DATA", "IMAGE_USER_DATA2"}
MCUserData == {"IMAGE_USER_DATA", "IMAGE_USER_DATA2"}
MCUserLoop == {"IMAGE_USER_DATA2"}
MCIdOf     == [otaNew |-> "OTA", appNew |-> "App", otaOld |-> "OTA", appOld |-> "App",
               next |-> "IMAGE_USER_DATA"]
MCBase     == [i \in MCIds |-> CASE i = "OTA" -> 8 [] i = "App" -> 16 [] OTHER -> 0]
MCSize     == [i \in MCIds |-> CASE i = "OTA" -> 8 [] i = "App" -> 16 [] OTHER -> 0]
MCOld      == [otaOld |-> 8, appOld |-> 16, next |-> 32]
MCReleased == MCImage \X {0}
MCErased   == <<"erased", 0>>
MCTorn     == <<"torn", 0>>

\* The clients, from a plain one to whom nothing happens.
MCClient(p) == [plan |-> p, chunks |-> {2, 4}, checked |-> TRUE, restart |-> FALSE,
                decline |-> FALSE, missed |-> FALSE, faults |-> 0, drops |-> 0,
                losses |-> 0, bad |-> 0]
MCBoth      == MCClient(<<"otaNew", "appNew">>)
MCFaults    == [MCBoth EXCEPT !.faults = 2, !.losses = 2, !.bad = 1]
MCRetries   == [MCBoth EXCEPT !.faults = 3]
MCDrops     == [MCBoth EXCEPT !.faults = 1, !.drops = 2, !.bad = 1, !.missed = TRUE]
MCUnchecked(p) == [MCClient(p) EXCEPT !.chunks = {3}, !.checked = FALSE, !.faults = 1,
                                      !.drops = 1, !.losses = 1]
MCUnseen    == [MCUnchecked(<<"appNew">>) EXCEPT !.bad = 1]
MCClients   == {MCFaults, MCRetries, MCDrops, MCUnchecked(<<"otaNew", "appNew">>), MCUnseen}
MCImpatient == {[MCBoth EXCEPT !.faults = 1, !.drops = 1, !.losses = 1, !.restart = TRUE]}
MCStale     == {[MCBoth EXCEPT !.drops = 1, !.restart = TRUE]}
MCFaulty    == {[MCBoth EXCEPT !.faults = 1]}
MCDeclining == {[MCClient(<<"appNew">>) EXCEPT !.decline = TRUE]}
=============================================================================

------------------------------ MODULE MCSingle ------------------------------
(* No bank switching: two images share the combined temporary bank, the    *)
(* second one from the middle of a sector on, and user data has banks of   *)
(* its own behind it, which hold the user data of an earlier update.       *)
EXTENDS SilentOta

MCTotal    == [app |-> 5, patch |-> 6, big |-> 9, user |-> 3, user2 |-> 6,
               oldUser |-> 2, oldUser2 |-> 3]
MCImage    == DOMAIN MCTotal
MCData     == UNION {{m} \X (0 .. MCTotal[m] - 1) : m \in MCImage}
MCIds      == {"none", "App", "Patch", "IMAGE_USER_DATA", "IMAGE_USER_DATA2"}
MCUserData == {"IMAGE_USER_DATA", "IMAGE_USER_DATA2"}
MCUserLoop == {"IMAGE_USER_DATA2"}
MCIdOf     == [app |-> "App", patch |-> "Patch", big |-> "Patch",
               user |-> "IMAGE_USER_DATA", user2 |-> "IMAGE_USER_DATA2",
               oldUser |-> "IMAGE_USER_DATA", oldUser2 |-> "IMAGE_USER_DATA2"]
MCBase     == [App |-> 4, Patch |-> 4, none |-> 0, IMAGE_USER_DATA |-> 16,
               IMAGE_USER_DATA2 |-> 20]
MCSize     == [App |-> 12, Patch |-> 12, none |-> 0, IMAGE_USER_DATA |-> 4,
               IMAGE_USER_DATA2 |-> 8]
MCClient(p) == [plan |-> p, chunks |-> {1, 2}, checked |-> TRUE, restart |-> FALSE,
                decline |-> FALSE, missed |-> FALSE, faults |-> 0, drops |-> 0,
                losses |-> 0, bad |-> 0]
MCChanging(p) == [MCClient(p) EXCEPT !.losses = 2, !.drops = 2, !.decline = TRUE]
MCClients  == {MCChanging(<<"app", "patch">>), MCChanging(<<"user2">>)}
MCFaulty   == {[MCClient(<<"app", "patch">>) EXCEPT !.faults = 1]}
MCWithUser == {MCClient(<<"app", "user2">>)}
MCTooBig   == {MCClient(<<"app", "big">>)}
MCUserOnly == {MCClient(<<"user">>)}
MCOld      == [oldUser |-> 16, oldUser2 |-> 20]
MCErased   == <<"erased", 0>>
MCTorn     == <<"torn", 0>>
=============================================================================

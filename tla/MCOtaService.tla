---------------------------- MODULE MCOtaService ----------------------------
(* Six images and pages of two, so that the layouts end in the middle and  *)
(* at the end of each page.  Each bank has other versions; one has a zero  *)
(* byte in the middle and one has none.                                    *)
EXTENDS OtaService

MCIds     == 0 .. 5
MCLayouts == {{}, {0}, {0, 2}, {0, 1, 5}, {0, 2, 3, 4}, {0, 1, 2, 3, 5}, MCIds}
MCVersion == [b \in 0 .. 2 |-> [id \in MCIds |-> <<b, id>>]]
MCBytes   == [v \in (0 .. 2) \X MCIds |-> CASE v[2] = 0 -> <<v[1] + 1, 0, 1, 0>>
                                            [] v[2] = 1 -> <<v[1] + 1, 2, 3, 4>>
                                            [] OTHER    -> <<0, 0, 0, 0>>]
MCBehind  == {<< >>, <<9>>}
=============================================================================

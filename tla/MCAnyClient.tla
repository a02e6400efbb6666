---------------------------- MODULE MCAnyClient ----------------------------
(* One bank of two sectors and one of user data, and cells that are all    *)
(* headers with not_ready = 0: the properties do not look at the content.  *)
(* A word is two cells, so that dfu_update refuses odd lengths; a sector   *)
(* is three cells.  Two packets fill the buffer without buffer check, so   *)
(* that a first flush may end in front of the uuid or reach beyond it.     *)
(* The width of the offsets is just beyond the flash, so that they wrap.   *)
EXTENDS AnyClient

MCImage    == {"img"}
MCTotal    == [img |-> 1]
MCData     == {<<"img", 0>>}
MCReleased == MCData
MCIds      == {"none", "App", "IMAGE_USER_DATA2"}
MCUserData == {"IMAGE_USER_DATA2"}
MCBase     == [none |-> 0, App |-> 3, IMAGE_USER_DATA2 |-> 9]
MCSize     == [none |-> 0, App |-> 6, IMAGE_USER_DATA2 |-> 1]
MCPackets  == {<<<<"img", 0>>>>, <<<<"img", 0>>, <<"img", 0>>>>}
MCUserLoop == {"IMAGE_USER_DATA2"}
MCErased   == <<"erased", 0>>
MCTorn     == <<"torn", 0>>
\* A flash that is blank but for an image that is ready.
Holding(cells) == [mem    |-> [x \in Addr |-> IF x \in cells THEN <<"img", 0>> ELSE MCErased],
                   ready  |-> {3},
                   bp     |-> TRUE,
                   faults |-> 0]
MCStart    == {Holding({3})}
=============================================================================

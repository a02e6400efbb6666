----------------------------- MODULE OtaUpdate -----------------------------
(***************************************************************************)
(* What an update with bank switching promises, whatever happens to the    *)
(* flash, the connection and the power on the way.  The device holds a set *)
(* of images that are whole and ready for the bootloader.  It switches to  *)
(* the new images in one step, only when it holds them all, and from then  *)
(* on nothing touches them.                                                *)
(***************************************************************************)
EXTENDS Naturals

VARIABLES images,    \* the images of the update
          held,      \* those that are whole and ready
          switched   \* whether the device boots the new images

updateVars == <<images, held, switched>>

UpdateInit == held = {} /\ switched = FALSE

\* An image was received and passed its check.
Validate(m) == /\ ~switched
               /\ held' = held \cup {m}
               /\ UNCHANGED <<images, switched>>

\* The transfer of an image starts again.
Discard(m) == /\ ~switched
              /\ m \in held
              /\ held' = held \ {m}
              /\ UNCHANGED <<images, switched>>

Switch == /\ ~switched
          /\ held = images
          /\ switched' = TRUE
          /\ UNCHANGED <<images, held>>

UpdateNext == (\E m \in images : Validate(m) \/ Discard(m)) \/ Switch

UpdateSpec == UpdateInit /\ [][UpdateNext]_updateVars
=============================================================================

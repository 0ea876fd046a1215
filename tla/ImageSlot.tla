----------------------------- MODULE ImageSlot -----------------------------
(***************************************************************************)
(* What the image store promises: the component slot holds one image or    *)
(* none.  An image comes in only whole, only while a transfer offers it,   *)
(* and never over another one: the slot is empty in between.               *)
(***************************************************************************)
CONSTANTS Images, None

VARIABLES
  held,     \* the image a launch would find in the slot
  offered   \* the image the transfer under way carries

Init == held \in Images \cup {None} /\ offered = None

Keep    == held' = held
Empty   == held' = None
Install == held = None /\ offered # None /\ held' = offered

Next == offered' \in Images \cup {None} /\ (Keep \/ Empty \/ Install)

Spec == Init /\ [][Next]_<<held, offered>>
=============================================================================

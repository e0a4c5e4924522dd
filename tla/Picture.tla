------------------------------- MODULE Picture -------------------------------
(***************************************************************************)
(* What both interface boards promise of the picture: the selected source  *)
(* is seen, except that reverse gear shows the camera until the gear       *)
(* changes again or something is selected.  The program on the Pi does     *)
(* this on boards of version 4 (Screen), the firmware on older boards      *)
(* (Attiny).                                                               *)
(***************************************************************************)
CONSTANTS
  Source,   \* the sources that can be selected, the camera among them
  Camera,
  First     \* the source that is selected at the start

VARIABLES
  selected,   \* the source that is selected
  shown,      \* the source that is seen
  reversing   \* the last gear that was acted upon was reverse

vars == <<selected, shown, reversing>>

Init == selected = First /\ shown = First /\ reversing = FALSE

(* A button or the radio's screen.  It wins over the camera.               *)
Choose(src) ==
  /\ selected' = src
  /\ shown' = src
  /\ UNCHANGED reversing

Reverse ==
  /\ shown' = Camera
  /\ reversing' = TRUE
  /\ UNCHANGED selected

Forward ==
  /\ shown' = selected
  /\ reversing' = FALSE
  /\ UNCHANGED selected

Next == (\E src \in Source : Choose(src)) \/ Reverse \/ Forward

Spec == Init /\ [][Next]_vars
=============================================================================

------------------------------- MODULE MCCabin -------------------------------
(***************************************************************************)
(* Small instances of Cabin.                                               *)
(***************************************************************************)
EXTENDS Cabin

Plain(input, v4) ==
  [input |-> input, v4 |-> v4, bluetooth |-> FALSE, camera |-> TRUE,
   nextprev |-> FALSE]

AllOptions ==
  {Plain(input, v4) : input \in {"cdc", "none"}, v4 \in BOOLEAN}
    \cup {Plain(input, TRUE) : input \in {"aux", "tape"}}
    \cup {[input |-> "cdc", v4 |-> v4, bluetooth |-> TRUE, camera |-> FALSE,
           nextprev |-> TRUE] : v4 \in BOOLEAN}
=============================================================================

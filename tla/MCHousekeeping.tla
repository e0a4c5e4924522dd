--------------------------- MODULE MCHousekeeping ---------------------------
(***************************************************************************)
(* A small instance of Housekeeping: a round of two seconds, and coolant   *)
(* one degree below the warning or one above it (129 and 131).  The low    *)
(* byte of both counts as negative.                                        *)
(***************************************************************************)
EXTENDS Housekeeping

MCMsg     == {AskTime, AskDate, Flash}
MCAskAt   == {1}
MCCoolant == {[low |-> 129, high |-> 1], [low |-> 131, high |-> 1]}
=============================================================================

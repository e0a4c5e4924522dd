------------------------------ MODULE TimeFlags ------------------------------
(***************************************************************************)
(* The two members of struct ibus (src/rpi/ibus.c) that say whether the    *)
(* car has told the time and the date: Housekeeping asks for them until it *)
(* has, and Clock sets the Pi's clock when both are there.                 *)
(***************************************************************************)
VARIABLES have_time, have_date
=============================================================================

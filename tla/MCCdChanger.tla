----------------------------- MODULE MCCdChanger -----------------------------
(***************************************************************************)
(* Small instances of CdChanger.                                           *)
(***************************************************************************)
EXTENDS CdChanger

MCOwn == Own

Cdc4 == [input |-> "cdc", interval |-> TRUE, announce |-> TRUE, v4 |-> TRUE]
Cdc2 == [input |-> "cdc", interval |-> FALSE, announce |-> FALSE, v4 |-> FALSE]
Aux4 == [input |-> "aux", interval |-> TRUE, announce |-> TRUE, v4 |-> TRUE]
None == [input |-> "none", interval |-> TRUE, announce |-> TRUE, v4 |-> FALSE]

AllOptions == {Cdc4, Cdc2, Aux4, None}

(* A changer that does not announce itself, to keep the instance small.    *)
Mute == [Cdc4 EXCEPT !.announce = FALSE]

(* cd-next is handled like cd-start, tape-screen like aux-screen.          *)
Everything == (FromRadio \ {"cd-next", "tape-screen"}) \cup FromCar

StatusRadio == {"cdc-screen", "cd-info", "cd-stop", "cd-start", "cd-change",
                "immobilized"}

MCSettings ==
  {[options |-> AllOptions, radio |-> Everything,  said |-> 1, prompt |-> FALSE],
   [options |-> {Mute},     radio |-> Everything,  said |-> 2, prompt |-> FALSE],
   [options |-> {Cdc4},     radio |-> StatusRadio, said |-> 3, prompt |-> TRUE]}
=============================================================================

----------------------------- MODULE MCReceiver -----------------------------
(***************************************************************************)
(* Small instances of Receiver: bytes of three bits, two messages.         *)
(***************************************************************************)
EXTENDS Receiver

Short == <<1, 2, 0, 3>>
Long  == <<4, 3, 1, 2, 4>>

Attentive == [prompt |-> TRUE,  messages |-> {Short, Long}, damaged |-> 2]
Stalling  == [prompt |-> FALSE, messages |-> {Long},        damaged |-> 1]

MCSettings == {Attentive, Stalling}
=============================================================================

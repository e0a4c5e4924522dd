------------------------------ MODULE MCAttiny ------------------------------
(***************************************************************************)
(* Small instances of Attiny.                                              *)
(***************************************************************************)
EXTENDS Attiny

AllKinds == {"phone", "boot-pressed", "boot-released", "reverse", "forward",
             "settings", "video", "set-cdc-message", "cdc-screen",
             "custom-screen", "cdc-exit", "other"}
=============================================================================

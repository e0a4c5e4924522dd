----------------------------- MODULE MCMainLoop -----------------------------
(***************************************************************************)
(* MainLoop has one constant; the instances only give it a value.          *)
(***************************************************************************)
EXTENDS MainLoop
=============================================================================

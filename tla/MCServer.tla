------------------------------ MODULE MCServer ------------------------------
(***************************************************************************)
(* Small instances of Server: a buffer of two bytes and its end; commands  *)
(* that are good, too long, incomplete, or never finished.                 *)
(***************************************************************************)
EXTENDS Server

MCScripts == {<<Tx, CR, NL, Tx>>, <<Tx, "m", "m", NL, NL>>}
=============================================================================

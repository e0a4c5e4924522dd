----------------------------- MODULE MCSendQueue -----------------------------
(***************************************************************************)
(* Small instances of SendQueue: two messages, one urgent and one ordinary *)
(* tag.                                                                    *)
(***************************************************************************)
EXTENDS SendQueue

MCClientTag == {TagCdc, TagTime}
=============================================================================

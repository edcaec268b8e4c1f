--------------------------- MODULE MCClamdSession ---------------------------
(* ClamdSession with the bounds of the .cfg files. *)
EXTENDS ClamdSession
=============================================================================

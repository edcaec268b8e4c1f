---------------------------- MODULE MCIcapRequest ----------------------------
(* IcapRequest with the bounds of the .cfg files. *)
EXTENDS IcapRequest
=============================================================================

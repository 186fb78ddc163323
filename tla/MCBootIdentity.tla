--------------------------- MODULE MCBootIdentity ---------------------------
(***************************************************************************)
(* BootIdentity for a few boots of a disk that serves several instances.   *)
(***************************************************************************)
EXTENDS BootIdentity
=============================================================================

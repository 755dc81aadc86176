--------------------------------- MODULE Stage ---------------------------------
(***************************************************************************)
(* How far the handling of a request has come.  The modules of its parts   *)
(* share this.                                                             *)
(***************************************************************************)
VARIABLE stage
=============================================================================

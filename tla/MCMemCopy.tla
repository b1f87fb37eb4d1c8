------------------------------ MODULE MCMemCopy ------------------------------
(***************************************************************************)
(* Five bytes and two values: copying does not look at values, so two of   *)
(* them in every arrangement tell any two source bytes apart.              *)
(***************************************************************************)
EXTENDS MemCopy
=============================================================================

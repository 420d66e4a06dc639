---------------------------- MODULE MCNatwmCalm ----------------------------
(***************************************************************************)
(* Small instances of NatwmCalm for TLC.                                   *)
(***************************************************************************)
EXTENDS MCNatwm, NatwmCalm

=============================================================================

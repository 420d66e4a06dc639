---------------------------- MODULE MCMainLoop -----------------------------
(***************************************************************************)
(* A small instance of MainLoop for TLC.                                  *)
(***************************************************************************)
EXTENDS MainLoop
=============================================================================

-------------------------------- MODULE Null --------------------------------
(***************************************************************************)
(* The null pointer, which also stands for a value that is not there, for  *)
(* modules that are looked at together.                                    *)
(***************************************************************************)
CONSTANT NULL
=============================================================================

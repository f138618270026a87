------------------------------ MODULE MCOutput ------------------------------
(* Small instances of OutputController for TLC.                            *)
EXTENDS OutputController
=============================================================================

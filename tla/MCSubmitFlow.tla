---------------------------- MODULE MCSubmitFlow ----------------------------
(* Two customers, one of whose codes requires online verification.         *)
EXTENDS SubmitFlow

CONSTANTS c1, c2
=============================================================================

------------------------------ MODULE MCMyShell ------------------------------
(* An instance of MyShell for TLC.                                         *)
EXTENDS MyShell

TwoPids == {1, 2}
=============================================================================

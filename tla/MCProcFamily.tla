----------------------------- MODULE MCProcFamily -----------------------------
(* Instances of ProcFamily for TLC.  Process 1 is init.                    *)
EXTENDS ProcFamily

Four == 1 .. 4
Five == 1 .. 5
OneValue == {1}
=============================================================================

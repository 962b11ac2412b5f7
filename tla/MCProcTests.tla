----------------------------- MODULE MCProcTests -----------------------------
(* Three processes; the program is the second.                             *)
EXTENDS ProcTests

Three     == 1 .. 3
Second    == {2}
OneLimit  == {<<10, 11>>}
Arguments == {<<3, 10>>, <<1, 1000>>}
=============================================================================

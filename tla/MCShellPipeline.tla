--------------------------- MODULE MCShellPipeline ---------------------------
(* Instances of ShellPipeline for TLC.  a, b and c are programs, x is none, *)
(* f is a file that exists and g one that does not.                        *)
EXTENDS ShellPipeline

Short == UNION {[1 .. n -> {"a", "x", "f", "<", ">", ">>", "|", "history", "&"}] : n \in 1 .. 3}
Long  == {<<"a", "|", "b", "|", "c">>, <<"a", "|", "mytime", "x", "|", "b", "&">>,
          <<"a", "|", "|", "b">>, <<"a", "<", "f", "|", "b">>,
          <<"a", "<", "f", ">", "g">>, <<"<", "f", ">>", "f", "a", "b">>,
          <<"a", ">", "g", ">", "f">>, <<"x", "<", "f", ">", "g">>,
          <<"history", "<", "f", ">>", "g">>, <<"history", "|", "a", "|", "history">>,
          <<"x", "|", "history", ">", "g">>}
Lines == {l \in Short \cup Long : Kept(l) # << >> /\ Cardinality(Bars(l)) < 3}
Pipes == {<<"a", "|", "b">>}

(* Before the first line args holds empty words; a shorter or a longer line *)
(* may have left a NULL, and a place in the buffer a sign.                  *)
Left(w, n) == [k \in Index |-> IF k = n THEN w ELSE "old"]
Arrays == {Left("old", 0), Left(NULL, 4), Left(">", 3)}
=============================================================================

------------------------------ MODULE TaskLists ------------------------------
(***************************************************************************)
(* The circular lists of the kernel, on which the walks of Assignment3 go  *)
(* from node to node: the list of all tasks, and the children of a task.   *)
(* A list is the sequence of the nodes after its head.                     *)
(***************************************************************************)
EXTENDS Integers, Sequences

AtHead == 0      \* the head of a list, which is no task

Place(list, t) == CHOOSE n \in 1 .. Len(list) : list[n] = t

(* The node that follows t.                                                *)
After(list, t) ==
  LET n == Place(list, t) IN IF n < Len(list) THEN list[n + 1] ELSE AtHead

(* The list when t has been taken out.                                     *)
Without(list, t) ==
  LET n == Place(list, t) IN SubSeq(list, 1, n - 1) \o SubSeq(list, n + 1, Len(list))
=============================================================================

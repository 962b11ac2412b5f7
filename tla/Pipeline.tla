------------------------------- MODULE Pipeline -------------------------------
(***************************************************************************)
(* What a pipeline promises.  What stage k produces stage k + 1 receives,   *)
(* in the order in which it was sent, and all of it unless it ends early.  *)
(* Whether the stages run one after the other or at once is left open.     *)
(***************************************************************************)
EXTENDS Integers, Sequences

CONSTANTS
  Stage,     \* numbers of stages, from 1
  MaxUnits   \* the most units that a stage produces

VARIABLES
  sent,      \* how many units a stage has produced
  received,  \* the units it has received
  status     \* "open", "done", or "quit" if it ended without all its input

Unit(k, n) == [from |-> k, number |-> n]

Init ==
  /\ sent = [k \in Stage |-> 0]
  /\ received = [k \in Stage |-> << >>]
  /\ status = [k \in Stage |-> "open"]

Produce(k) ==
  /\ status[k] = "open" /\ sent[k] < MaxUnits
  /\ sent' = [sent EXCEPT ![k] = @ + 1]
  /\ UNCHANGED <<received, status>>

Receive(k) ==
  /\ k > 1 /\ status[k] = "open"
  /\ Len(received[k]) < sent[k - 1]
  /\ received' = [received EXCEPT ![k] = Append(@, Unit(k - 1, Len(@) + 1))]
  /\ UNCHANGED <<sent, status>>

(* A stage learns that its input has ended only when it has all of it and  *)
(* the stage before has ended.                                             *)
Finish(k) ==
  /\ status[k] = "open"
  /\ k > 1 => status[k - 1] # "open" /\ Len(received[k]) = sent[k - 1]
  /\ status' = [status EXCEPT ![k] = "done"]
  /\ UNCHANGED <<sent, received>>

Quit(k) ==
  /\ status[k] = "open"
  /\ status' = [status EXCEPT ![k] = "quit"]
  /\ UNCHANGED <<sent, received>>

Next == \E k \in Stage : Produce(k) \/ Receive(k) \/ Finish(k) \/ Quit(k)

Spec == Init /\ [][Next]_<<sent, received, status>>
=============================================================================

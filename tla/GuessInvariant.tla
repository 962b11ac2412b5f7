---------------------------- MODULE GuessInvariant ----------------------------
(***************************************************************************)
(* The inductive invariant of GuessThreads, from which its safety          *)
(* properties and the refinement of LetterSearch follow.                   *)
(***************************************************************************)
EXTENDS GuessThreads

Client == {p \in Thread : p[1] = "client"}
Server == {p \in Thread : p[1] = "server"}

(* The threads of a process that have advanced thread_no.                  *)
Counted(s) == {i \in Id : pc[<<s, i>>] \notin Unnumbered \cup {"store"}}

(***************************************************************************)
(* Starting up: the mutex protects the counter, so the numbers taken are   *)
(* distinct and there are as many as the counter says.                     *)
(***************************************************************************)
StartInv ==
  /\ \A p \in Thread : pc[p] \in Starting \cup Playing[p[1]]
  /\ \A p \in Thread : tid[p] = NoId <=> pc[p] \in Unnumbered
  /\ \A p \in Thread : pc[p] \in Critical => locked[p[1]]
  /\ \A p, q \in Thread : p[1] = q[1] /\ pc[p] \in Critical /\ pc[q] \in Critical => p = q
  /\ \A p \in Thread : pc[p] = "store" => tid[p] = thread_no[p[1]]
  /\ \A p \in Thread : tid[p] # NoId /\ pc[p] # "store" => tid[p] < thread_no[p[1]]
  /\ \A s \in Side : thread_no[s] = Cardinality(Counted(s))

DistinctIds ==
  \A p, q \in Thread : p[1] = q[1] /\ tid[p] = tid[q] /\ tid[p] # NoId => p = q

MainInv ==
  \A s \in Side : \A i \in Id :
    /\ pc[<<s, i>>] = "unborn" <=> created[s] <= i
    /\ i < joined[s] => pc[<<s, i>>] = "exit"

(* A loop stays in the block of its thread.                                *)
LoopInv ==
  \A p \in Thread :
    pc[p] \in {"fill", "scan", "found", "compare"} =>
      Low(tid[p]) <= at[p] /\ at[p] <= High(tid[p])

(***************************************************************************)
(* The right to touch block i passes from thread i of the client to the    *)
(* first semaphore, to thread i of the server, to the second semaphore and *)
(* back.  It is with the client unless the client is in sem_wait.          *)
(***************************************************************************)
ServerOn(i) == \E q \in Server : tid[q] = i /\ pc[q] \in {"compare", "post"}

WithClient(i) == shm3[i] = 0 /\ shm3[i + M] = 0 /\ ~ServerOn(i)

AwayFromClient(i) ==
  \/ shm3[i] = 1 /\ shm3[i + M] = 0 /\ ~ServerOn(i)
  \/ shm3[i] = 0 /\ shm3[i + M] = 1 /\ ~ServerOn(i)
  \/ shm3[i] = 0 /\ shm3[i + M] = 0 /\ ServerOn(i)

BatonInv ==
  /\ \A i \in Id : WithClient(i) \/ AwayFromClient(i)
  /\ \A i \in Id : thread_no["client"] <= i => WithClient(i)
  /\ \A p \in Client : tid[p] # NoId /\ pc[p] # "wait" => WithClient(tid[p])
  /\ \A p \in Client : pc[p] = "wait" => AwayFromClient(tid[p])

(* A block is as the server left it until the client fills it.             *)
Untouched(i) == \A k \in Block(i) : shm1[k] = Blank /\ shm2[k] = 0

FillInv ==
  /\ \A i \in Id : thread_no["client"] <= i => Untouched(i)
  /\ \A p \in Client : pc[p] \in {"store", "unlock"} => Untouched(tid[p])
  /\ \A p \in Client : pc[p] = "fill" =>
       \A k \in Block(tid[p]) :
         shm2[k] = 0 /\ shm1[k] = IF k < at[p] THEN First ELSE Blank

(* A verdict of 0 on a position is about the guess that is there now.      *)
Judged(k) == shm2[k] = 0 => shm1[k] # secret[k]

GuessInv ==
  /\ \A k \in Position : shm1[k] = Blank \/ (First <= shm1[k] /\ shm1[k] <= secret[k])
  /\ \A p \in Client : pc[p] \in {"post", "wait", "scan", "exit"} =>
       \A k \in Block(tid[p]) : shm1[k] # Blank

JudgedInv ==
  /\ \A p \in Client : pc[p] = "scan" => \A k \in Block(tid[p]) : at[p] <= k => Judged(k)
  /\ \A q \in Server : pc[q] = "compare" => \A k \in Block(tid[q]) : k < at[q] => Judged(k)
  /\ \A q \in Server : pc[q] = "post" => \A k \in Block(tid[q]) : Judged(k)
  /\ \A i \in Id : shm3[i + M] = 1 => \A k \in Block(i) : Judged(k)

(* What a thread has seen to be right is right.                            *)
RightInv ==
  /\ \A p \in Client : pc[p] = "scan" /\ ~flag[p] =>
       \A k \in Block(tid[p]) : k < at[p] => shm2[k] = 1
  /\ \A q \in Server : pc[q] = "found" =>
       \A k \in Block(tid[q]) : k < at[q] => shm2[k] = 1
  /\ \A p \in Thread : pc[p] = "exit" =>
       \A k \in Block(tid[p]) : shm2[k] = 1

(* The inductive invariant: where the threads are, and what the segments   *)
(* hold.                                                                   *)
ControlInv ==
  /\ TypeOK
  /\ StartInv
  /\ DistinctIds
  /\ MainInv
  /\ LoopInv
  /\ BatonInv

DataInv ==
  /\ FillInv
  /\ GuessInv
  /\ VerdictStands
  /\ JudgedInv
  /\ RightInv

(* Every state of a session satisfies the inductive invariant.             *)
IInv == ControlInv /\ DataInv
=============================================================================

------------------------- MODULE GuessThreads_proofs -------------------------
(***************************************************************************)
(* The safety of a session of the guessing game, for every length of the   *)
(* string, every number of threads and every alphabet.                     *)
(***************************************************************************)
EXTENDS GuessInvariant, FiniteSetTheorems, TLAPS

-----------------------------------------------------------------------------
(* Arithmetic of the blocks                                                *)

LEMMA ChunkNat == N \div M \in Nat /\ M * (N \div M) <= N
  BY SizeAssumption

LEMMA MultMono ==
  ASSUME NEW i \in Int, NEW j \in Int, NEW c \in Nat, i <= j
  PROVE  i * c <= j * c
  OBVIOUS

LEMMA LowInt == \A i \in Int : Low(i) \in Int
  BY ChunkNat DEF Low

LEMMA BlockBounds ==
  ASSUME NEW i \in Id
  PROVE  /\ Low(i) \in Nat /\ High(i) \in Nat
         /\ Low(i) <= High(i) /\ High(i) <= N
  <1> DEFINE c == N \div M
  <1>1. c \in Nat /\ M * c <= N
    BY ChunkNat
  <1>2. 0 * c <= i * c /\ i * c <= (i + 1) * c /\ (i + 1) * c <= M * c
    BY <1>1, MultMono, SizeAssumption DEF Id
  <1>3. i * c \in Int /\ (i + 1) * c \in Int /\ M * c \in Int /\ 0 * c = 0
    BY <1>1, SizeAssumption DEF Id
  <1> QED
    BY <1>1, <1>2, <1>3, SizeAssumption DEF Low, High

(* The blocks of two threads have no position in common.                   *)
LEMMA BlocksDisjoint ==
  ASSUME NEW i \in Id, NEW j \in Id, i # j
  PROVE  \/ High(i) <= Low(j)
         \/ High(j) <= Low(i)
  <1> DEFINE c == N \div M
  <1>1. c \in Nat
    BY ChunkNat
  <1>2. CASE i < j
    <2>1. (i + 1) * c <= j * c
      BY <1>1, <1>2, MultMono DEF Id
    <2> QED  BY <2>1 DEF Low, High
  <1>3. CASE j < i
    <2>1. (j + 1) * c <= i * c
      BY <1>1, <1>3, MultMono DEF Id
    <2> QED  BY <2>1 DEF Low, High
  <1> QED
    BY <1>2, <1>3 DEF Id

-----------------------------------------------------------------------------
(* The actions                                                             *)

ClientLoop(p) ==
  \/ Fill(p) \/ FillEnds(p) \/ ClientPost(p) \/ ClientWait(p)
  \/ ScanWrong(p) \/ ScanRight(p) \/ ScanEnds(p)

ServerLoop(p) ==
  \/ FoundWrong(p) \/ FoundRight(p) \/ FoundEnds(p)
  \/ ServerWait(p) \/ Compare(p) \/ CompareEnds(p) \/ ServerPost(p)

StepCases ==
  \/ \E s \in Side : Create(s) \/ Join(s)
  \/ \E p \in Thread : Start(p)
  \/ \E p \in Client : ClientLoop(p)
  \/ \E p \in Server : ServerLoop(p)
  \/ UNCHANGED vars

LEMMA Threads == Client \subseteq Thread /\ Server \subseteq Thread
  BY DEF Client, Server

LEMMA NextCases == [Next]_vars => StepCases
  <1>1. \A i \in Id : <<"client", i>> \in Client /\ <<"server", i>> \in Server
    BY DEF Client, Server, Thread, Side
  <1>2. CASE \E s \in Side : Main(s)
    BY <1>2 DEF Main, StepCases
  <1>3. ASSUME NEW i \in Id, ClientThread(<<"client", i>>)
        PROVE  StepCases
    BY <1>1, Threads, <1>3 DEF ClientThread, ClientLoop, StepCases
  <1>4. ASSUME NEW i \in Id, ServerThread(<<"server", i>>)
        PROVE  StepCases
    BY <1>1, Threads, <1>4 DEF ServerThread, ServerLoop, StepCases
  <1>5. CASE Ended \/ UNCHANGED vars
    BY <1>5 DEF Ended, StepCases
  <1> QED
    BY <1>2, <1>3, <1>4, <1>5 DEF Next

-----------------------------------------------------------------------------
(* Type correctness                                                        *)

LEMMA CharTypes ==
  /\ Blank \in Char /\ First \in Char /\ Alphabet \subseteq Char
  /\ \A c \in Char : NextChar(c) \in Char
  BY CharAssumption DEF Char, NextChar

(* Counting a semaphore up, or down from a positive value, keeps the array *)
(* of semaphores an array of naturals, whatever the index.                 *)
LEMMA SemType ==
  ASSUME NEW S, NEW f \in [S -> Nat], NEW j
  PROVE  /\ [f EXCEPT ![j] = @ + 1] \in [S -> Nat]
         /\ f[j] > 0 => [f EXCEPT ![j] = @ - 1] \in [S -> Nat]
  <1>1. CASE j \in S
    BY <1>1
  <1>2. CASE j \notin S
    <2>1. [f EXCEPT ![j] = @ + 1] = f /\ [f EXCEPT ![j] = @ - 1] = f
      BY <1>2
    <2> QED  BY <2>1
  <1> QED
    BY <1>1, <1>2

LEMMA InitType == Init => TypeOK
  BY CharTypes, SizeAssumption
  DEF Init, TypeOK, Sem, Thread, Side, Starting, Unnumbered

LEMMA TypeStep == TypeOK /\ [Next]_vars => TypeOK'
  <1> SUFFICES ASSUME TypeOK, [Next]_vars PROVE TypeOK'
    OBVIOUS
  <1> USE DEF TypeOK, memory, mains, startup, Goto
  <1>1. ASSUME NEW s \in Side, Create(s) \/ Join(s) PROVE TypeOK'
    <2>1. CASE Create(s)
      <3>1. created[s] + 1 \in 0 .. M
        BY <2>1, SizeAssumption DEF Create
      <3> QED  BY <2>1, <3>1 DEF Create, Starting, Unnumbered
    <2>2. CASE Join(s)
      <3>1. joined[s] + 1 \in 0 .. M
        BY <2>2, SizeAssumption DEF Join
      <3> QED  BY <2>2, <3>1 DEF Join
    <2> QED  BY <1>1, <2>1, <2>2
  <1>2. ASSUME NEW p \in Thread, Start(p) PROVE TypeOK'
    <2>1. p[1] \in Side
      BY DEF Thread
    <2> USE <2>1 DEF Starting, Unnumbered, Critical, Playing
    <2>2. CASE Lock(p)
      BY <2>2 DEF Lock
    <2>3. CASE LoadNumber(p)
      BY <2>3 DEF LoadNumber
    <2>4. CASE StoreNumber(p)
      BY <2>4 DEF StoreNumber, NoId
    <2>5. CASE Unlock(p)
      <3>1. Low(tid[p]) \in Int
        BY LowInt DEF NoId
      <3> QED  BY <2>5, <3>1 DEF Unlock
    <2> QED  BY <1>2, <2>2, <2>3, <2>4, <2>5 DEF Start
  <1>3. ASSUME NEW p \in Client, ClientLoop(p) PROVE TypeOK'
    <2>1. p \in Thread
      BY Threads
    <2>0. Low(tid[p]) \in Int
      BY <2>1, LowInt DEF NoId
    <2> USE <2>1 DEF Playing, Advance, Restart
    <2>2. CASE Fill(p)
      <3>1. shm1' \in [Position -> Char]
        BY <2>2, CharTypes DEF Fill
      <3> QED  BY <2>2, <2>0, <3>1 DEF Fill
    <2>3. CASE FillEnds(p)
      BY <2>3 DEF FillEnds
    <2>4. CASE ClientPost(p)
      <3>1. shm3' \in [Sem -> Nat]
        BY <2>4, SemType DEF ClientPost, sem_post
      <3> QED  BY <2>4, <2>0, <3>1 DEF ClientPost
    <2>5. CASE ClientWait(p)
      <3>1. shm3' \in [Sem -> Nat]
        BY <2>5, SemType DEF ClientWait, sem_wait
      <3> QED  BY <2>5, <2>0, <3>1 DEF ClientWait
    <2>6. CASE ScanWrong(p)
      <3>1. shm1' \in [Position -> Char]
        BY <2>6, CharTypes DEF ScanWrong
      <3> QED  BY <2>6, <2>0, <3>1 DEF ScanWrong
    <2>7. CASE ScanRight(p)
      BY <2>7 DEF ScanRight
    <2>8. CASE ScanEnds(p)
      BY <2>8 DEF ScanEnds
    <2> QED  BY <1>3, <2>2, <2>3, <2>4, <2>5, <2>6, <2>7, <2>8 DEF ClientLoop
  <1>4. ASSUME NEW p \in Server, ServerLoop(p) PROVE TypeOK'
    <2>1. p \in Thread
      BY Threads
    <2>0. Low(tid[p]) \in Int
      BY <2>1, LowInt DEF NoId
    <2> USE <2>1 DEF Playing, Advance, Restart
    <2>2. CASE FoundWrong(p)
      BY <2>2 DEF FoundWrong
    <2>3. CASE FoundRight(p)
      BY <2>3 DEF FoundRight
    <2>4. CASE FoundEnds(p)
      BY <2>4 DEF FoundEnds
    <2>5. CASE ServerWait(p)
      <3>1. shm3' \in [Sem -> Nat]
        BY <2>5, SemType DEF ServerWait, sem_wait
      <3> QED  BY <2>5, <2>0, <3>1 DEF ServerWait
    <2>6. CASE Compare(p)
      <3>1. shm2' \in [Position -> {0, 1}]
        BY <2>6 DEF Compare
      <3> QED  BY <2>6, <2>0, <3>1 DEF Compare
    <2>7. CASE CompareEnds(p)
      BY <2>7 DEF CompareEnds
    <2>8. CASE ServerPost(p)
      <3>1. shm3' \in [Sem -> Nat]
        BY <2>8, SemType DEF ServerPost, sem_post
      <3> QED  BY <2>8, <2>0, <3>1 DEF ServerPost
    <2> QED  BY <1>4, <2>2, <2>3, <2>4, <2>5, <2>6, <2>7, <2>8 DEF ServerLoop
  <1>5. CASE UNCHANGED vars
    BY <1>5 DEF vars
  <1> QED
    BY NextCases, <1>1, <1>2, <1>3, <1>4, <1>5 DEF StepCases

(* The segments, the counters and the threads keep their types.            *)
THEOREM TypeCorrect == Spec => []TypeOK
  <1>1. Init => TypeOK
    BY InitType
  <1>2. TypeOK /\ [Next]_vars => TypeOK'
    BY TypeStep
  <1> QED
    BY <1>1, <1>2, PTL DEF Spec

-----------------------------------------------------------------------------
(* Starting up                                                             *)

LEMMA ThreadPair ==
  ASSUME NEW p \in Thread
  PROVE  p[1] \in Side /\ p[2] \in Id /\ p = <<p[1], p[2]>>
  BY DEF Thread

LEMMA PairThread ==
  ASSUME NEW s \in Side, NEW i \in Id
  PROVE  <<s, i>> \in Thread /\ <<s, i>>[1] = s /\ <<s, i>>[2] = i
  BY DEF Thread

(* What a step of the loops of one thread leaves alone.                    *)
LEMMA LoopFrame ==
  ASSUME TypeOK, NEW p \in Thread,
         \/ p[1] = "client" /\ ClientLoop(p)
         \/ p[1] = "server" /\ ServerLoop(p)
  PROVE  /\ UNCHANGED <<secret, created, joined, locked, thread_no, tid>>
         /\ pc[p] \in Playing[p[1]] \ {"exit"} /\ pc'[p] \in Playing[p[1]]
         /\ \A q \in Thread : q # p => pc'[q] = pc[q] /\ at'[q] = at[q] /\ flag'[q] = flag[q]
  <1> USE DEF TypeOK, memory, mains, startup, Goto, Advance, Restart, Playing
  <1>1. CASE p[1] = "client" /\ ClientLoop(p)
    BY <1>1 DEF ClientLoop, Fill, FillEnds, ClientPost, ClientWait,
                ScanWrong, ScanRight, ScanEnds
  <1>2. CASE p[1] = "server" /\ ServerLoop(p)
    BY <1>2 DEF ServerLoop, FoundWrong, FoundRight, FoundEnds,
                ServerWait, Compare, CompareEnds, ServerPost
  <1> QED
    BY <1>1, <1>2

(* The counter is the number of threads that have advanced it, so a thread *)
(* that has not yet done so finds it below M.                              *)
NumbersInRange == \A p \in Thread : tid[p] # NoId => tid[p] \in Id

LEMMA NumberBound == TypeOK /\ StartInv => NumbersInRange
  <1> SUFFICES ASSUME TypeOK, StartInv, NEW p \in Thread, tid[p] # NoId
               PROVE  tid[p] \in Id
    BY DEF NumbersInRange
  <1> DEFINE s == p[1]
  <1>1. s \in Side /\ p[2] \in Id /\ p = <<s, p[2]>>
    BY ThreadPair
  <1>2. IsFiniteSet(Id) /\ Cardinality(Id) = M
    BY SizeAssumption, FS_Interval DEF Id
  <1>3. Counted(s) \subseteq Id
    BY DEF Counted
  <1>4. IsFiniteSet(Counted(s)) /\ Cardinality(Counted(s)) <= M
    BY <1>2, <1>3, FS_Subset
  <1>5. tid[p] \in Nat
    BY DEF TypeOK
  <1>6. CASE pc[p] = "store"
    <2>1. p[2] \notin Counted(s)
      BY <1>1, <1>6 DEF Counted
    <2>2. Cardinality(Counted(s)) # M
      BY <1>1, <1>2, <1>3, <2>1, FS_Subset
    <2>3. tid[p] = Cardinality(Counted(s))
      BY <1>1, <1>6 DEF StartInv
    <2> QED
      BY <1>4, <1>5, <2>2, <2>3, SizeAssumption DEF Id
  <1>7. CASE pc[p] # "store"
    <2>1. tid[p] < Cardinality(Counted(s))
      BY <1>1, <1>7 DEF StartInv
    <2>2. Cardinality(Counted(s)) \in Nat
      BY <1>4, FS_CardinalityType
    <2> QED
      BY <1>4, <1>5, <2>1, <2>2, SizeAssumption DEF Id
  <1> QED
    BY <1>6, <1>7

LEMMA StartInit == Init => StartInv /\ DistinctIds /\ MainInv
  <1> SUFFICES ASSUME Init PROVE StartInv /\ DistinctIds /\ MainInv
    OBVIOUS
  <1> USE DEF Init, Unnumbered, Starting, Critical
  <1>1. \A s \in Side : Counted(s) = {}
    BY PairThread DEF Counted
  <1>2. StartInv
    BY <1>1, FS_EmptySet, ThreadPair DEF StartInv
  <1>3. DistinctIds
    BY DEF DistinctIds
  <1>4. MainInv
    <2>1. \A s \in Side : \A i \in Id : pc[<<s, i>>] = "unborn" /\ created[s] = 0 /\ joined[s] = 0
      BY PairThread
    <2>2. \A i \in Id : i \in Int /\ 0 <= i
      BY SizeAssumption DEF Id
    <2> SUFFICES ASSUME NEW s \in Side, NEW i \in Id
                 PROVE  /\ pc[<<s, i>>] = "unborn" <=> created[s] <= i
                        /\ i < joined[s] => pc[<<s, i>>] = "exit"
      BY DEF MainInv
    <2>3. created[s] <= i /\ ~(i < joined[s])
      BY <2>1, <2>2
    <2> QED  BY <2>1, <2>3
  <1> QED
    BY <1>2, <1>3, <1>4

LEMMA StartStep ==
  TypeOK /\ StartInv /\ DistinctIds /\ MainInv /\ [Next]_vars => StartInv' /\ DistinctIds'
  <1> SUFFICES ASSUME TypeOK, StartInv, DistinctIds, MainInv, [Next]_vars
               PROVE  StartInv' /\ DistinctIds'
    OBVIOUS
  <1> USE DEF Unnumbered, Starting, Critical, memory, mains, startup, Goto
  <1>1. ASSUME NEW s \in Side, Create(s) PROVE StartInv' /\ DistinctIds'
    <2> DEFINE p == <<s, created[s]>>
    <2>1. p \in Thread /\ created[s] \in Id
      BY <1>1, PairThread, SizeAssumption DEF Create, TypeOK, Id
    <2>2. pc[p] = "unborn"
      BY <2>1 DEF MainInv, TypeOK, Id
    <2>3. pc' = [pc EXCEPT ![p] = "lock"] /\ UNCHANGED <<locked, thread_no, tid>>
      BY <1>1 DEF Create
    <2>4. \A t \in Side : Counted(t)' = Counted(t)
      <3>1. \A q \in Thread : pc'[q] = IF q = p THEN "lock" ELSE pc[q]
        BY <2>1, <2>3 DEF TypeOK
      <3> HIDE DEF p
      <3> QED  BY <2>1, <2>2, <3>1, PairThread DEF Counted
    <2>5. StartInv'
      BY <2>1, <2>2, <2>3, <2>4 DEF StartInv, TypeOK
    <2>6. DistinctIds'
      BY <2>3 DEF DistinctIds
    <2> QED  BY <2>5, <2>6
  <1>2. ASSUME NEW s \in Side, Join(s) PROVE StartInv' /\ DistinctIds'
    BY <1>2 DEF Join, StartInv, DistinctIds, Counted
  <1>3. ASSUME NEW p \in Thread, Lock(p) PROVE StartInv' /\ DistinctIds'
    <2>1. /\ pc[p] = "lock" /\ ~locked[p[1]]
          /\ pc' = [pc EXCEPT ![p] = "load"] /\ locked' = [locked EXCEPT ![p[1]] = TRUE]
          /\ UNCHANGED <<thread_no, tid>>
      BY <1>3 DEF Lock
    <2>2. \A t \in Side : Counted(t)' = Counted(t)
      BY <2>1, PairThread DEF Counted, TypeOK
    <2>3. \A q \in Thread : q[1] = p[1] => pc[q] \notin Critical
      BY <2>1 DEF StartInv
    <2>4. StartInv'
      BY <2>1, <2>2, <2>3, ThreadPair DEF StartInv, TypeOK
    <2>5. DistinctIds'
      BY <2>1 DEF DistinctIds
    <2> QED  BY <2>4, <2>5
  <1>4. ASSUME NEW p \in Thread, LoadNumber(p) PROVE StartInv' /\ DistinctIds'
    <2>1. /\ pc[p] = "load" /\ pc' = [pc EXCEPT ![p] = "store"]
          /\ tid' = [tid EXCEPT ![p] = thread_no[p[1]]]
          /\ UNCHANGED <<locked, thread_no>>
      BY <1>4 DEF LoadNumber
    <2>2. \A t \in Side : Counted(t)' = Counted(t)
      BY <2>1, PairThread DEF Counted, TypeOK
    <2>3. \A q \in Thread : q # p /\ q[1] = p[1] => pc[q] # "store"
      BY <2>1 DEF StartInv
    <2>4. \A q \in Thread : q # p /\ q[1] = p[1] => tid[q] # thread_no[p[1]]
      BY <2>3, ThreadPair DEF StartInv, TypeOK, NoId
    <2>5. thread_no[p[1]] # NoId
      BY ThreadPair DEF TypeOK, NoId
    <2>6. StartInv'
      BY <2>1, <2>2, <2>5 DEF StartInv, TypeOK
    <2>7. DistinctIds'
      BY <2>1, <2>4 DEF DistinctIds, TypeOK
    <2> QED  BY <2>6, <2>7
  <1>5. ASSUME NEW p \in Thread, StoreNumber(p) PROVE StartInv' /\ DistinctIds'
    <2> DEFINE s == p[1]
    <2>1. /\ pc[p] = "store" /\ pc' = [pc EXCEPT ![p] = "unlock"]
          /\ thread_no' = [thread_no EXCEPT ![s] = tid[p] + 1]
          /\ UNCHANGED <<locked, tid>>
      BY <1>5 DEF StoreNumber
    <2>2. s \in Side /\ p[2] \in Id /\ p = <<s, p[2]>>
      BY ThreadPair
    <2>3. tid[p] = thread_no[s] /\ thread_no[s] \in Nat /\ thread_no'[s] = thread_no[s] + 1
      BY <2>1, <2>2 DEF StartInv, TypeOK
    <2>4. \A t \in Side : t # s => Counted(t)' = Counted(t)
      BY <2>1, <2>2, PairThread DEF Counted, TypeOK
    <2>5. Counted(s)' = Counted(s) \cup {p[2]} /\ p[2] \notin Counted(s)
      BY <2>1, <2>2, PairThread DEF Counted, TypeOK
    <2>6. IsFiniteSet(Counted(s))
      <3>1. IsFiniteSet(Id) /\ Counted(s) \subseteq Id
        BY FS_Interval, SizeAssumption DEF Counted, Id
      <3> QED  BY <3>1, FS_Subset
    <2>7. Cardinality(Counted(s)') = Cardinality(Counted(s)) + 1
      BY <2>5, <2>6, FS_AddElement
    <2>8. \A t \in Side : thread_no'[t] = Cardinality(Counted(t)')
      BY <2>1, <2>3, <2>4, <2>7 DEF StartInv, TypeOK
    <2>9. \A q \in Thread : tid'[q] # NoId /\ pc'[q] # "store" => tid'[q] < thread_no'[q[1]]
      <3> SUFFICES ASSUME NEW q \in Thread, tid[q] # NoId, pc'[q] # "store"
                   PROVE  tid[q] < thread_no'[q[1]]
        BY <2>1
      <3>1. CASE q = p
        BY <2>3, <3>1
      <3>2. CASE q # p
        <4>1. tid[q] < thread_no[q[1]]
          BY <2>1, <3>2 DEF StartInv, TypeOK
        <4>2. tid[q] \in Nat /\ q[1] \in Side
          BY ThreadPair DEF TypeOK
        <4> QED  BY <2>1, <2>3, <4>1, <4>2 DEF TypeOK
      <3> QED  BY <3>1, <3>2
    <2>10. \A q \in Thread : q # p /\ q[1] = s => pc[q] # "store"
      BY <2>1 DEF StartInv
    <2>11. StartInv'
      BY <2>1, <2>8, <2>9, <2>10 DEF StartInv, TypeOK
    <2>12. DistinctIds'
      BY <2>1 DEF DistinctIds
    <2> QED  BY <2>11, <2>12
  <1>6. ASSUME NEW p \in Thread, Unlock(p) PROVE StartInv' /\ DistinctIds'
    <2> DEFINE l == IF p[1] = "client" THEN "fill" ELSE "found"
    <2>1. /\ pc[p] = "unlock" /\ pc' = [pc EXCEPT ![p] = l]
          /\ locked' = [locked EXCEPT ![p[1]] = FALSE]
          /\ UNCHANGED <<thread_no, tid>>
      BY <1>6 DEF Unlock
    <2>2. l \in Playing[p[1]] /\ l \notin Starting
      BY ThreadPair DEF Playing, Side
    <2>3. \A t \in Side : Counted(t)' = Counted(t)
      BY <2>1, <2>2, PairThread DEF Counted, TypeOK
    <2>4. \A q \in Thread : q # p /\ q[1] = p[1] => pc[q] \notin Critical
      BY <2>1 DEF StartInv
    <2> HIDE DEF l
    <2>5. StartInv'
      BY <2>1, <2>2, <2>3, <2>4, ThreadPair DEF StartInv, TypeOK
    <2>6. DistinctIds'
      BY <2>1 DEF DistinctIds
    <2> QED  BY <2>5, <2>6
  <1>7. ASSUME NEW p \in Thread,
               \/ p[1] = "client" /\ ClientLoop(p)
               \/ p[1] = "server" /\ ServerLoop(p)
        PROVE  StartInv' /\ DistinctIds'
    <2>1. /\ UNCHANGED <<locked, thread_no, tid>>
          /\ pc[p] \in Playing[p[1]] /\ pc'[p] \in Playing[p[1]]
          /\ \A q \in Thread : q # p => pc'[q] = pc[q]
      BY <1>7, LoopFrame
    <2>2. \A l \in Playing[p[1]] : l \notin Starting
      BY ThreadPair DEF Playing, Side
    <2>3. \A t \in Side : Counted(t)' = Counted(t)
      BY <2>1, <2>2, PairThread DEF Counted
    <2>4. StartInv'
      BY <2>1, <2>2, <2>3 DEF StartInv
    <2>5. DistinctIds'
      BY <2>1 DEF DistinctIds
    <2> QED  BY <2>4, <2>5
  <1>8. CASE UNCHANGED vars
    BY <1>8 DEF vars, StartInv, DistinctIds, Counted
  <1> QED
    BY NextCases, <1>1, <1>2, <1>3, <1>4, <1>5, <1>6, <1>7, <1>8
    DEF StepCases, Start, Client, Server

-----------------------------------------------------------------------------
(* The main threads                                                        *)

LEMMA MainStep == TypeOK /\ StartInv /\ MainInv /\ [Next]_vars => MainInv'
  <1> SUFFICES ASSUME TypeOK, StartInv, MainInv, [Next]_vars PROVE MainInv'
    OBVIOUS
  <1> USE DEF memory, mains, startup, Goto
  <1>1. ASSUME NEW t \in Side, Create(t) PROVE MainInv'
    <2> SUFFICES ASSUME NEW s \in Side, NEW i \in Id
                 PROVE  /\ pc'[<<s, i>>] = "unborn" <=> created'[s] <= i
                        /\ i < joined'[s] => pc'[<<s, i>>] = "exit"
      BY DEF MainInv
    <2>1. created[t] \in Id /\ created[s] \in Int /\ i \in Int
      BY <1>1, SizeAssumption DEF Create, TypeOK, Id
    <2>2. /\ pc' = [pc EXCEPT ![<<t, created[t]>>] = "lock"]
          /\ created' = [created EXCEPT ![t] = @ + 1] /\ joined' = joined
      BY <1>1 DEF Create
    <2>3. /\ pc[<<s, i>>] = "unborn" <=> created[s] <= i
          /\ i < joined[s] => pc[<<s, i>>] = "exit"
      BY DEF MainInv
    <2>4. pc[<<t, created[t]>>] = "unborn"
      BY <2>1 DEF MainInv, Id
    <2>5. CASE s = t /\ i = created[t]
      <3>1. pc'[<<s, i>>] = "lock"
        BY <2>2, <2>5, PairThread DEF TypeOK
      <3>2. created'[s] = i + 1
        BY <2>2, <2>5 DEF TypeOK
      <3>3. ~(i < joined[s])
        BY <2>3, <2>4, <2>5
      <3> QED  BY <2>1, <2>2, <3>1, <3>2, <3>3
    <2>6. CASE s # t \/ i # created[t]
      <3>1. pc'[<<s, i>>] = pc[<<s, i>>]
        BY <2>2, <2>6, PairThread DEF TypeOK
      <3>2. created'[s] <= i <=> created[s] <= i
        BY <2>1, <2>2, <2>6 DEF TypeOK
      <3> QED  BY <2>2, <2>3, <3>1, <3>2
    <2> QED  BY <2>5, <2>6
  <1>2. ASSUME NEW t \in Side, Join(t) PROVE MainInv'
    <2> SUFFICES ASSUME NEW s \in Side, NEW i \in Id
                 PROVE  /\ pc'[<<s, i>>] = "unborn" <=> created'[s] <= i
                        /\ i < joined'[s] => pc'[<<s, i>>] = "exit"
      BY DEF MainInv
    <2>1. /\ pc' = pc /\ created' = created
          /\ joined' = [joined EXCEPT ![t] = @ + 1]
          /\ pc[<<t, joined[t]>>] = "exit"
      BY <1>2 DEF Join
    <2>2. /\ pc[<<s, i>>] = "unborn" <=> created[s] <= i
          /\ i < joined[s] => pc[<<s, i>>] = "exit"
      BY DEF MainInv
    <2>3. i < joined'[s] => i < joined[s] \/ (s = t /\ i = joined[t])
      BY <2>1 DEF TypeOK, Id
    <2> QED  BY <2>1, <2>2, <2>3
  <1>3. ASSUME UNCHANGED <<created, joined>>, NEW p \in Thread,
               pc[p] \notin {"unborn", "exit"}, pc'[p] # "unborn",
               \A q \in Thread : q # p => pc'[q] = pc[q]
        PROVE  MainInv'
    <2> SUFFICES ASSUME NEW s \in Side, NEW i \in Id
                 PROVE  /\ pc'[<<s, i>>] = "unborn" <=> created[s] <= i
                        /\ i < joined[s] => pc'[<<s, i>>] = "exit"
      BY <1>3 DEF MainInv
    <2>1. /\ pc[<<s, i>>] = "unborn" <=> created[s] <= i
          /\ i < joined[s] => pc[<<s, i>>] = "exit"
      BY DEF MainInv
    <2> QED  BY <1>3, <2>1, PairThread
  <1>4. ASSUME NEW p \in Thread, Start(p) PROVE MainInv'
    <2>1. /\ UNCHANGED <<created, joined>>
          /\ pc[p] \notin {"unborn", "exit"} /\ pc'[p] # "unborn"
          /\ \A q \in Thread : q # p => pc'[q] = pc[q]
      BY <1>4 DEF Start, Lock, LoadNumber, StoreNumber, Unlock, TypeOK
    <2> QED  BY <1>3, <2>1
  <1>5. ASSUME NEW p \in Thread,
               \/ p[1] = "client" /\ ClientLoop(p)
               \/ p[1] = "server" /\ ServerLoop(p)
        PROVE  MainInv'
    <2>1. /\ UNCHANGED <<created, joined>>
          /\ pc[p] \in Playing[p[1]] \ {"exit"} /\ pc'[p] \in Playing[p[1]]
          /\ \A q \in Thread : q # p => pc'[q] = pc[q]
      BY <1>5, LoopFrame
    <2>2. "unborn" \notin Playing[p[1]]
      BY ThreadPair DEF Playing, Side
    <2> QED  BY <1>3, <2>1, <2>2
  <1>6. CASE UNCHANGED vars
    BY <1>6 DEF vars, MainInv
  <1> QED
    BY NextCases, <1>1, <1>2, <1>4, <1>5, <1>6 DEF StepCases, Client, Server

-----------------------------------------------------------------------------
(* The loops stay in their blocks                                          *)

LEMMA LoopStep ==
  TypeOK /\ StartInv /\ LoopInv /\ [Next]_vars => LoopInv'
  <1> SUFFICES ASSUME TypeOK, StartInv, LoopInv, [Next]_vars PROVE LoopInv'
    OBVIOUS
  <1> USE DEF memory, mains, startup, Goto
  <1> DEFINE Looping == {"fill", "scan", "found", "compare"}
  <1>0. ASSUME NEW p \in Thread, tid[p] # NoId
        PROVE  /\ tid[p] \in Id /\ Low(tid[p]) \in Int /\ High(tid[p]) \in Int
               /\ Low(tid[p]) <= High(tid[p])
    BY <1>0, NumberBound, BlockBounds DEF NumbersInRange
  <1>1. ASSUME NEW p \in Thread,
               \A q \in Thread : q # p => pc'[q] = pc[q] /\ at'[q] = at[q] /\ tid'[q] = tid[q],
               pc'[p] \in Looping =>
                 /\ tid'[p] = tid[p]
                 /\ Low(tid[p]) <= at'[p] /\ at'[p] <= High(tid[p])
        PROVE  LoopInv'
    BY <1>1 DEF LoopInv
  <1>2. ASSUME NEW s \in Side, Create(s) PROVE LoopInv'
    <2> DEFINE p == <<s, created[s]>>
    <2>1. p \in Thread
      BY <1>2, PairThread, SizeAssumption DEF Create, TypeOK, Id
    <2>2. pc' = [pc EXCEPT ![p] = "lock"] /\ UNCHANGED <<at, tid>>
      BY <1>2 DEF Create
    <2> HIDE DEF p
    <2> QED  BY <1>1, <2>1, <2>2 DEF TypeOK
  <1>3. ASSUME NEW s \in Side, Join(s) PROVE LoopInv'
    BY <1>3 DEF Join, LoopInv
  <1>4. ASSUME NEW p \in Thread, Start(p) PROVE LoopInv'
    <2>1. CASE Lock(p) \/ LoadNumber(p) \/ StoreNumber(p)
      BY <1>1, <2>1 DEF Lock, LoadNumber, StoreNumber, TypeOK
    <2>2. CASE Unlock(p)
      <3>1. tid[p] # NoId
        BY <2>2 DEF Unlock, StartInv, Unnumbered
      <3> QED  BY <1>0, <1>1, <2>2, <3>1 DEF Unlock, TypeOK
    <2> QED  BY <1>4, <2>1, <2>2 DEF Start
  <1>5. ASSUME NEW p \in Client, ClientLoop(p) PROVE LoopInv'
    <2>1. p \in Thread /\ at[p] \in Int
      BY Threads DEF TypeOK
    <2>2. tid[p] # NoId
      BY <1>5, <2>1 DEF StartInv, Unnumbered, ClientLoop, Fill, FillEnds, ClientPost,
                        ClientWait, ScanWrong, ScanRight, ScanEnds
    <2>3. CASE Fill(p) \/ ScanWrong(p) \/ ScanRight(p)
      BY <1>0, <1>1, <2>1, <2>2, <2>3
      DEF Fill, ScanWrong, ScanRight, Advance, InBlock, LoopInv, TypeOK
    <2>4. CASE FillEnds(p) \/ ClientPost(p) \/ ScanEnds(p)
      BY <1>1, <2>1, <2>4 DEF FillEnds, ClientPost, ScanEnds, TypeOK
    <2>5. CASE ClientWait(p)
      BY <1>0, <1>1, <2>1, <2>2, <2>5 DEF ClientWait, Restart, TypeOK
    <2> QED  BY <1>5, <2>3, <2>4, <2>5 DEF ClientLoop
  <1>6. ASSUME NEW p \in Server, ServerLoop(p) PROVE LoopInv'
    <2>1. p \in Thread /\ at[p] \in Int
      BY Threads DEF TypeOK
    <2>2. tid[p] # NoId
      BY <1>6, <2>1 DEF StartInv, Unnumbered, ServerLoop, FoundWrong, FoundRight, FoundEnds,
                        ServerWait, Compare, CompareEnds, ServerPost
    <2>3. CASE FoundRight(p) \/ Compare(p)
      BY <1>0, <1>1, <2>1, <2>2, <2>3 DEF FoundRight, Compare, Advance, InBlock, LoopInv, TypeOK
    <2>4. CASE FoundWrong(p) \/ FoundEnds(p) \/ CompareEnds(p)
      BY <1>1, <2>1, <2>4 DEF FoundWrong, FoundEnds, CompareEnds, TypeOK
    <2>5. CASE ServerWait(p) \/ ServerPost(p)
      BY <1>0, <1>1, <2>1, <2>2, <2>5 DEF ServerWait, ServerPost, Restart, TypeOK
    <2> QED  BY <1>6, <2>3, <2>4, <2>5 DEF ServerLoop
  <1>7. CASE UNCHANGED vars
    BY <1>7 DEF vars, LoopInv
  <1> QED
    BY NextCases, <1>2, <1>3, <1>4, <1>5, <1>6, <1>7 DEF StepCases

-----------------------------------------------------------------------------
(* The right to touch a block                                              *)

LEMMA SemIndex ==
  ASSUME NEW i \in Id
  PROVE  /\ i \in Sem /\ i + M \in Sem /\ i # i + M
         /\ \A j \in Id : j # i + M /\ (j # i => j + M # i + M)
  BY SizeAssumption DEF Id, Sem

(* Nothing moves when the semaphores and the server's compare phases stay. *)
LEMMA BatonFrame ==
  ASSUME UNCHANGED shm3,
         \A q \in Server :
           /\ pc'[q] \in {"compare", "post"} <=> pc[q] \in {"compare", "post"}
           /\ pc[q] \in {"compare", "post"} => tid'[q] = tid[q]
  PROVE  \A i : /\ ServerOn(i)' <=> ServerOn(i)
                /\ WithClient(i)' <=> WithClient(i)
                /\ AwayFromClient(i)' <=> AwayFromClient(i)
  <1>1. \A i : ServerOn(i)' <=> ServerOn(i)
    BY DEF ServerOn
  <1> QED
    BY <1>1 DEF WithClient, AwayFromClient

LEMMA BatonStep ==
  TypeOK /\ StartInv /\ DistinctIds /\ MainInv /\ BatonInv /\ [Next]_vars => BatonInv'
  <1> SUFFICES ASSUME TypeOK, StartInv, DistinctIds, MainInv, BatonInv, [Next]_vars
               PROVE  BatonInv'
    OBVIOUS
  <1> USE Threads DEF memory, mains, startup, Goto
  <1>0. \A p \in Thread : tid[p] # NoId => tid[p] \in Id
    BY NumberBound DEF NumbersInRange
  (* Steps that leave the tokens and the numbers alone. *)
  <1>1. ASSUME UNCHANGED <<shm3, thread_no, tid>>,
               \A q \in Server : pc'[q] \in {"compare", "post"} <=> pc[q] \in {"compare", "post"},
               \A p \in Client : tid[p] # NoId => (pc'[p] = "wait" <=> pc[p] = "wait"),
               \A p \in Client : pc'[p] = "wait" => tid[p] # NoId
        PROVE  BatonInv'
    <2>1. \A i : /\ WithClient(i)' <=> WithClient(i)
                 /\ AwayFromClient(i)' <=> AwayFromClient(i)
      BY <1>1, BatonFrame
    <2> QED  BY <1>1, <2>1 DEF BatonInv
  <1>w. \A p \in Client : pc[p] = "wait" => tid[p] # NoId
    BY DEF StartInv, Unnumbered
  <1>2. ASSUME NEW s \in Side, Create(s) PROVE BatonInv'
    <2> DEFINE p == <<s, created[s]>>
    <2>1. p \in Thread /\ created[s] \in Id
      BY <1>2, PairThread, SizeAssumption DEF Create, TypeOK, Id
    <2>2. pc' = [pc EXCEPT ![p] = "lock"] /\ UNCHANGED <<shm3, thread_no, tid>>
      BY <1>2 DEF Create
    <2>3. pc[p] = "unborn"
      BY <2>1 DEF MainInv, Id
    <2> HIDE DEF p
    <2> QED  BY <1>1, <1>w, <2>1, <2>2, <2>3 DEF TypeOK
  <1>3. ASSUME NEW s \in Side, Join(s) PROVE BatonInv'
    BY <1>1, <1>3, <1>w DEF Join
  <1>4. ASSUME NEW p \in Thread, Lock(p) \/ Unlock(p) PROVE BatonInv'
    BY <1>1, <1>4, <1>w DEF Lock, Unlock, TypeOK
  <1>5. ASSUME NEW p \in Thread, LoadNumber(p) PROVE BatonInv'
    <2>1. /\ pc[p] = "load" /\ pc' = [pc EXCEPT ![p] = "store"]
          /\ tid' = [tid EXCEPT ![p] = thread_no[p[1]]]
          /\ UNCHANGED <<shm3, thread_no>>
      BY <1>5 DEF LoadNumber
    <2>2. \A i : /\ WithClient(i)' <=> WithClient(i)
                 /\ AwayFromClient(i)' <=> AwayFromClient(i)
      BY <2>1, BatonFrame DEF TypeOK
    <2>3. thread_no[p[1]] \in Id
      <3>1. TypeOK' /\ StartInv'
        BY TypeStep, StartStep
      <3>n. NumbersInRange'
        BY <3>1, NumberBound, PTL
      <3>2. tid'[p] # NoId => tid'[p] \in Id
        BY <3>n DEF NumbersInRange
      <3>3. tid'[p] = thread_no[p[1]]
        BY <2>1 DEF TypeOK
      <3>4. thread_no[p[1]] # NoId
        BY ThreadPair DEF TypeOK, NoId
      <3> QED  BY <3>2, <3>3, <3>4
    <2>4. \A q \in Client : tid'[q] # NoId /\ pc'[q] # "wait" => WithClient(tid'[q])
      <3> SUFFICES ASSUME NEW q \in Client, tid'[q] # NoId, pc'[q] # "wait"
                   PROVE  WithClient(tid'[q])
        OBVIOUS
      <3>1. CASE q = p
        <4>1. thread_no["client"] \in Id /\ tid'[q] = thread_no["client"]
          BY <2>1, <2>3, <3>1 DEF Client, TypeOK
        <4> QED  BY <4>1 DEF BatonInv, Id
      <3>2. CASE q # p
        BY <2>1, <3>2 DEF BatonInv, TypeOK
      <3> QED  BY <3>1, <3>2
    <2>5. \A q \in Client : pc'[q] = "wait" => AwayFromClient(tid'[q])
      BY <2>1 DEF BatonInv, TypeOK
    <2> QED  BY <2>1, <2>2, <2>4, <2>5 DEF BatonInv
  <1>6. ASSUME NEW p \in Thread, StoreNumber(p) PROVE BatonInv'
    <2>1. /\ pc[p] = "store" /\ pc' = [pc EXCEPT ![p] = "unlock"]
          /\ thread_no' = [thread_no EXCEPT ![p[1]] = tid[p] + 1]
          /\ UNCHANGED <<shm3, tid>>
      BY <1>6 DEF StoreNumber
    <2>2. \A i : /\ WithClient(i)' <=> WithClient(i)
                 /\ AwayFromClient(i)' <=> AwayFromClient(i)
      BY <2>1, BatonFrame DEF TypeOK
    <2>3. tid[p] = thread_no[p[1]]
      BY <2>1 DEF StartInv
    <2>4. \A i \in Id : thread_no'["client"] <= i => thread_no["client"] <= i
      BY <2>1, <2>3 DEF TypeOK, Id, Side
    <2> QED  BY <2>1, <2>2, <2>4 DEF BatonInv, TypeOK
  (* The client gives the block away ... *)
  <1>7. ASSUME NEW p \in Client, ClientPost(p) PROVE BatonInv'
    <2>0. pc[p] \notin Unnumbered
      BY <1>7 DEF ClientPost, Unnumbered
    <2> PICK i \in Id : i = tid[p] /\ i # NoId
      BY <1>0, <2>0 DEF StartInv
    <2>1. /\ pc[p] = "post" /\ pc' = [pc EXCEPT ![p] = "wait"]
          /\ shm3' = [shm3 EXCEPT ![i] = @ + 1] /\ UNCHANGED <<thread_no, tid>>
      BY <1>7 DEF ClientPost, sem_post
    <2>3. \A j : ServerOn(j)' <=> ServerOn(j)
      BY <2>1 DEF ServerOn, Client, Server, TypeOK
    <2>4. WithClient(i)
      BY <2>1 DEF BatonInv
    <2>5. AwayFromClient(i)'
      BY <2>1, <2>3, <2>4, SemIndex DEF WithClient, AwayFromClient, TypeOK
    <2>6. \A j \in Id : j # i => /\ WithClient(j)' <=> WithClient(j)
                                 /\ AwayFromClient(j)' <=> AwayFromClient(j)
      BY <2>1, <2>3, SemIndex DEF WithClient, AwayFromClient, TypeOK
    <2>7. \A q \in Client : q # p /\ tid[q] # NoId => tid[q] # i
      BY DEF DistinctIds, Client
    <2>8. thread_no["client"] > i
      BY <2>1 DEF StartInv, Client
    <2>9. \A j \in Id : thread_no["client"] <= j => j # i
      BY <2>8 DEF TypeOK, Side, Id
    <2>10. \A j \in Id : thread_no'["client"] <= j => WithClient(j)'
      BY <2>1, <2>6, <2>9 DEF BatonInv
    <2>11. \A q \in Client : tid'[q] # NoId /\ pc'[q] # "wait" => WithClient(tid[q])'
      BY <1>0, <2>1, <2>6, <2>7 DEF BatonInv, TypeOK
    <2>12. \A q \in Client : pc'[q] = "wait" => AwayFromClient(tid[q])'
      BY <1>0, <1>w, <2>1, <2>5, <2>6, <2>7 DEF BatonInv, TypeOK
    <2>13. \A j \in Id : WithClient(j)' \/ AwayFromClient(j)'
      BY <2>5, <2>6 DEF BatonInv
    <2> QED  BY <2>1, <2>10, <2>11, <2>12, <2>13 DEF BatonInv
  (* ... and gets it back. *)
  <1>8. ASSUME NEW p \in Client, ClientWait(p) PROVE BatonInv'
    <2>0. pc[p] \notin Unnumbered
      BY <1>8 DEF ClientWait, Unnumbered
    <2> PICK i \in Id : i = tid[p] /\ i # NoId
      BY <1>0, <2>0 DEF StartInv
    <2>1. /\ pc[p] = "wait" /\ pc' = [pc EXCEPT ![p] = "scan"] /\ shm3[i + M] > 0
          /\ shm3' = [shm3 EXCEPT ![i + M] = @ - 1] /\ UNCHANGED <<thread_no, tid>>
      BY <1>8 DEF ClientWait, sem_wait
    <2>3. \A j : ServerOn(j)' <=> ServerOn(j)
      BY <2>1 DEF ServerOn, Client, Server, TypeOK
    <2>4. AwayFromClient(i)
      BY <2>1 DEF BatonInv
    <2>5. WithClient(i)'
      BY <2>1, <2>3, <2>4, SemIndex DEF WithClient, AwayFromClient, TypeOK
    <2>6. \A j \in Id : j # i => /\ WithClient(j)' <=> WithClient(j)
                                 /\ AwayFromClient(j)' <=> AwayFromClient(j)
      BY <2>1, <2>3, SemIndex DEF WithClient, AwayFromClient, TypeOK
    <2>7. \A q \in Client : q # p /\ tid[q] # NoId => tid[q] # i
      BY DEF DistinctIds, Client
    <2>8. \A j \in Id : thread_no'["client"] <= j => WithClient(j)'
      BY <2>1, <2>5, <2>6 DEF BatonInv
    <2>9. \A q \in Client : tid'[q] # NoId /\ pc'[q] # "wait" => WithClient(tid[q])'
      BY <1>0, <2>1, <2>5, <2>6, <2>7 DEF BatonInv, TypeOK
    <2>10. \A q \in Client : pc'[q] = "wait" => AwayFromClient(tid[q])'
      BY <1>0, <1>w, <2>1, <2>6, <2>7 DEF BatonInv, TypeOK
    <2>11. \A j \in Id : WithClient(j)' \/ AwayFromClient(j)'
      BY <2>5, <2>6 DEF BatonInv
    <2> QED  BY <2>1, <2>8, <2>9, <2>10, <2>11 DEF BatonInv
  <1>9. ASSUME NEW p \in Client,
               \/ Fill(p) \/ FillEnds(p) \/ ScanWrong(p) \/ ScanRight(p) \/ ScanEnds(p)
        PROVE  BatonInv'
    <2>1. p \notin Server
      BY DEF Client, Server
    <2> QED
      BY <1>1, <1>9, <1>w, <2>1
      DEF Fill, FillEnds, ScanWrong, ScanRight, ScanEnds, TypeOK
  (* The server takes the block ... *)
  <1>10. ASSUME NEW p \in Server, ServerWait(p) PROVE BatonInv'
    <2>0. pc[p] \notin Unnumbered
      BY <1>10 DEF ServerWait, Unnumbered
    <2> PICK i \in Id : i = tid[p] /\ i # NoId
      BY <1>0, <2>0 DEF StartInv
    <2>1. /\ pc[p] = "wait" /\ pc' = [pc EXCEPT ![p] = "compare"] /\ shm3[i] > 0
          /\ shm3' = [shm3 EXCEPT ![i] = @ - 1] /\ UNCHANGED <<thread_no, tid>>
      BY <1>10 DEF ServerWait, sem_wait
    <2>3. ServerOn(i)'
      BY <2>1 DEF ServerOn, TypeOK
    <2>4. \A j : j # i => (ServerOn(j)' <=> ServerOn(j))
      BY <2>1 DEF ServerOn, TypeOK
    <2>5. \A j \in Id : j # i => /\ WithClient(j)' <=> WithClient(j)
                                 /\ AwayFromClient(j)' <=> AwayFromClient(j)
      BY <2>1, <2>4, SemIndex DEF WithClient, AwayFromClient, TypeOK
    <2>6. AwayFromClient(i) => AwayFromClient(i)'
      BY <2>1, <2>3, SemIndex DEF AwayFromClient, TypeOK
    <2>7. ~WithClient(i)
      BY <2>1 DEF WithClient
    <2>8. \A q \in Client : pc'[q] = pc[q]
      BY <2>1 DEF Client, Server, TypeOK
    <2>9. \A j \in Id : thread_no'["client"] <= j => WithClient(j)'
      BY <2>1, <2>5, <2>7 DEF BatonInv
    <2>10. \A q \in Client : tid'[q] # NoId /\ pc'[q] # "wait" => WithClient(tid[q])'
      BY <1>0, <2>1, <2>5, <2>7, <2>8 DEF BatonInv
    <2>11. \A q \in Client : pc'[q] = "wait" => AwayFromClient(tid[q])'
      BY <1>0, <1>w, <2>1, <2>5, <2>6, <2>8 DEF BatonInv
    <2>12. \A j \in Id : WithClient(j)' \/ AwayFromClient(j)'
      BY <2>5, <2>6, <2>7 DEF BatonInv
    <2> QED  BY <2>1, <2>9, <2>10, <2>11, <2>12 DEF BatonInv
  (* ... and gives it back. *)
  <1>11. ASSUME NEW p \in Server, ServerPost(p) PROVE BatonInv'
    <2>0. pc[p] \notin Unnumbered
      BY <1>11 DEF ServerPost, Unnumbered
    <2> PICK i \in Id : i = tid[p] /\ i # NoId
      BY <1>0, <2>0 DEF StartInv
    <2>1. /\ pc[p] = "post" /\ pc' = [pc EXCEPT ![p] = "found"]
          /\ shm3' = [shm3 EXCEPT ![i + M] = @ + 1] /\ UNCHANGED <<thread_no, tid>>
      BY <1>11 DEF ServerPost, sem_post
    <2>3. ServerOn(i) /\ ~WithClient(i)
      BY <2>1 DEF ServerOn, WithClient
    <2>4. \A q \in Server : q # p => tid[q] # i
      BY DEF DistinctIds, Server
    <2>5. ~ServerOn(i)'
      BY <2>1, <2>4 DEF ServerOn, TypeOK
    <2>6. \A j : j # i => (ServerOn(j)' <=> ServerOn(j))
      BY <2>1 DEF ServerOn, TypeOK
    <2>7. \A j \in Id : j # i => /\ WithClient(j)' <=> WithClient(j)
                                 /\ AwayFromClient(j)' <=> AwayFromClient(j)
      BY <2>1, <2>6, SemIndex DEF WithClient, AwayFromClient, TypeOK
    <2>8. AwayFromClient(i) => AwayFromClient(i)'
      BY <2>1, <2>3, <2>5, SemIndex DEF AwayFromClient, TypeOK
    <2>9. \A q \in Client : pc'[q] = pc[q]
      BY <2>1 DEF Client, Server, TypeOK
    <2>10. \A j \in Id : thread_no'["client"] <= j => WithClient(j)'
      BY <2>1, <2>3, <2>7 DEF BatonInv
    <2>11. \A q \in Client : tid'[q] # NoId /\ pc'[q] # "wait" => WithClient(tid[q])'
      BY <1>0, <2>1, <2>3, <2>7, <2>9 DEF BatonInv
    <2>12. \A q \in Client : pc'[q] = "wait" => AwayFromClient(tid[q])'
      BY <1>0, <1>w, <2>1, <2>7, <2>8, <2>9 DEF BatonInv
    <2>13. \A j \in Id : WithClient(j)' \/ AwayFromClient(j)'
      BY <2>3, <2>7, <2>8 DEF BatonInv
    <2> QED  BY <2>1, <2>10, <2>11, <2>12, <2>13 DEF BatonInv
  <1>12. ASSUME NEW p \in Server,
                \/ FoundWrong(p) \/ FoundRight(p) \/ FoundEnds(p)
                \/ Compare(p) \/ CompareEnds(p)
         PROVE  BatonInv'
    <2>1. p \notin Client
      BY DEF Client, Server
    <2> QED
      BY <1>1, <1>12, <1>w, <2>1
      DEF FoundWrong, FoundRight, FoundEnds, Compare, CompareEnds, TypeOK
  <1>13. CASE UNCHANGED vars
    BY <1>1, <1>13, <1>w DEF vars
  <1> QED
    BY NextCases, <1>2, <1>3, <1>4, <1>5, <1>6, <1>7, <1>8, <1>9, <1>10, <1>11, <1>12, <1>13
    DEF StepCases, Start, ClientLoop, ServerLoop

-----------------------------------------------------------------------------
(* What a step does to the segments, and what a thread can rely on         *)

LEMMA BlockOf ==
  ASSUME NEW i \in Id, NEW k \in Block(i)
  PROVE  /\ k \in Position /\ k \in Int /\ Low(i) <= k /\ k < High(i)
         /\ \A j \in Id : k \in Block(j) => i = j
  <1>1. k \in Position /\ k \in Int /\ Low(i) <= k /\ k < High(i)
    BY SizeAssumption DEF Block, Position
  <1>2. ASSUME NEW j \in Id, k \in Block(j), i # j PROVE FALSE
    <2>1. Low(j) <= k /\ k < High(j)
      BY <1>2 DEF Block
    <2> QED  BY <1>1, <1>2, <2>1, BlocksDisjoint, BlockBounds
  <1> QED
    BY <1>1, <1>2

(* A loop that has not ended is at a position of its block, and the        *)
(* positions of the block divide into those before and those still to go.  *)
LEMMA AtBlock ==
  ASSUME ControlInv, NEW p \in Thread,
         pc[p] \in {"fill", "scan", "found", "compare"}
  PROVE  /\ tid[p] \in Id /\ tid[p] # NoId /\ at[p] \in Int
         /\ InBlock(p) => at[p] \in Block(tid[p])
         /\ \A k \in Block(tid[p]) : k \in Int /\ k < High(tid[p])
         /\ ~InBlock(p) => \A k \in Block(tid[p]) : k < at[p]
  <1> USE DEF ControlInv
  <1>1. tid[p] \in Id /\ tid[p] # NoId
    BY NumberBound DEF NumbersInRange, StartInv, Unnumbered
  <1>2. at[p] \in Int
    BY DEF TypeOK
  <1>3. Low(tid[p]) <= at[p] /\ at[p] <= High(tid[p])
    BY DEF LoopInv
  <1>4. Low(tid[p]) \in Nat /\ High(tid[p]) \in Nat /\ High(tid[p]) <= N
    BY <1>1, BlockBounds
  <1>5. InBlock(p) => at[p] \in Block(tid[p])
    BY <1>2, <1>3, <1>4, SizeAssumption DEF InBlock, Block, Position
  <1>6. \A k \in Block(tid[p]) : k \in Int /\ k < High(tid[p])
    BY <1>1, BlockOf
  <1>7. ~InBlock(p) => \A k \in Block(tid[p]) : k < at[p]
    BY <1>2, <1>4, <1>6 DEF InBlock
  <1> QED
    BY <1>1, <1>2, <1>5, <1>6, <1>7

LEMMA Numbered ==
  ASSUME ControlInv, NEW p \in Thread, pc[p] \notin Unnumbered
  PROVE  tid[p] \in Id /\ tid[p] # NoId
  BY NumberBound DEF ControlInv, NumbersInRange, StartInv

Unmoved(p) == UNCHANGED <<pc[p], at[p], tid[p], flag[p]>>

(* Every thread stays where it is, or makes a step of its own.             *)
LEMMA Moves ==
  ASSUME ControlInv, [Next]_vars
  PROVE  /\ \A p \in Client : Unmoved(p) \/ pc'[p] = "lock" \/ Start(p) \/ ClientLoop(p)
         /\ \A p \in Server : Unmoved(p) \/ pc'[p] = "lock" \/ Start(p) \/ ServerLoop(p)
  <1> USE Threads DEF ControlInv, TypeOK, Unmoved, memory, mains, startup, Goto
  <1>1. ASSUME NEW s \in Side, Create(s), NEW p \in Thread
        PROVE  Unmoved(p) \/ pc'[p] = "lock"
    <2> DEFINE q == <<s, created[s]>>
    <2>1. pc' = [pc EXCEPT ![q] = "lock"] /\ UNCHANGED <<at, tid, flag>>
      BY <1>1 DEF Create
    <2> HIDE DEF q
    <2> QED  BY <2>1
  <1>2. ASSUME NEW s \in Side, Join(s), NEW p \in Thread
        PROVE  Unmoved(p)
    BY <1>2 DEF Join
  <1>3. ASSUME NEW q \in Thread, Start(q), NEW p \in Thread
        PROVE  Unmoved(p) \/ p = q
    BY <1>3 DEF Start, Lock, LoadNumber, StoreNumber, Unlock
  <1>4. ASSUME NEW q \in Client, ClientLoop(q), NEW p \in Thread
        PROVE  Unmoved(p) \/ p = q
    BY <1>4, LoopFrame DEF Client
  <1>5. ASSUME NEW q \in Server, ServerLoop(q), NEW p \in Thread
        PROVE  Unmoved(p) \/ p = q
    BY <1>5, LoopFrame DEF Server
  <1>6. Client \cap Server = {}
    BY DEF Client, Server
  <1>7. ASSUME UNCHANGED vars, NEW p \in Thread PROVE Unmoved(p)
    BY <1>7 DEF vars
  <1> QED
    BY NextCases, <1>1, <1>2, <1>3, <1>4, <1>5, <1>6, <1>7 DEF StepCases

(* A segment changes at one position, in a loop of the thread whose block  *)
(* the position is in.                                                     *)
LEMMA MemoryStep ==
  ASSUME ControlInv, [Next]_vars
  PROVE  /\ UNCHANGED secret
         /\ \A k \in Position :
              /\ \/ shm1'[k] = shm1[k]
                 \/ \E p \in Client : (Fill(p) \/ ScanWrong(p)) /\ at[p] = k
              /\ \/ shm2'[k] = shm2[k]
                 \/ \E q \in Server : Compare(q) /\ at[q] = k
  <1> USE Threads DEF ControlInv, TypeOK, memory, mains, startup
  <1>1. CASE \E s \in Side : Create(s) \/ Join(s)
    BY <1>1 DEF Create, Join
  <1>2. CASE \E p \in Thread : Start(p)
    BY <1>2 DEF Start, Lock, LoadNumber, StoreNumber, Unlock
  <1>3. ASSUME NEW p \in Client, ClientLoop(p)
        PROVE  /\ UNCHANGED <<secret, shm2>>
               /\ \/ UNCHANGED shm1
                  \/ /\ Fill(p) \/ ScanWrong(p)
                     /\ \A k \in Position : k # at[p] => shm1'[k] = shm1[k]
    BY <1>3 DEF ClientLoop, Fill, FillEnds, ClientPost, ClientWait,
                ScanWrong, ScanRight, ScanEnds
  <1>4. ASSUME NEW q \in Server, ServerLoop(q)
        PROVE  /\ UNCHANGED <<secret, shm1>>
               /\ \/ UNCHANGED shm2
                  \/ /\ Compare(q)
                     /\ \A k \in Position : k # at[q] => shm2'[k] = shm2[k]
    BY <1>4 DEF ServerLoop, FoundWrong, FoundRight, FoundEnds,
                ServerWait, Compare, CompareEnds, ServerPost
  <1>5. CASE UNCHANGED vars
    BY <1>5 DEF vars
  <1> QED
    BY NextCases, <1>1, <1>2, <1>3, <1>4, <1>5 DEF StepCases

(* The second semaphore of a pair gets its token from the server.          *)
LEMMA TokenStep ==
  ASSUME ControlInv, [Next]_vars, NEW i \in Id, shm3'[i + M] = 1
  PROVE  shm3[i + M] = 1 \/ (\E q \in Server : ServerPost(q) /\ tid[q] = i)
  <1> USE Threads DEF ControlInv, memory, mains, startup
  <1>1. CASE \E s \in Side : Create(s) \/ Join(s)
    BY <1>1 DEF Create, Join
  <1>2. CASE \E p \in Thread : Start(p)
    BY <1>2 DEF Start, Lock, LoadNumber, StoreNumber, Unlock
  <1>3. ASSUME NEW p \in Client, ClientLoop(p) PROVE shm3[i + M] = 1
    <2>1. CASE ClientPost(p)
      <3>1. tid[p] \in Id
        BY <2>1, Numbered DEF ClientPost, Unnumbered
      <3> QED  BY <2>1, <3>1, SemIndex DEF ClientPost, sem_post, TypeOK
    <2>2. CASE ClientWait(p)
      <3>1. tid[p] \in Id
        BY <2>2, Numbered DEF ClientWait, Unnumbered
      <3>2. shm3[i + M] \in {0, 1}
        BY DEF BatonInv, WithClient, AwayFromClient
      <3> QED  BY <2>2, <3>1, <3>2, SemIndex DEF ClientWait, sem_wait, TypeOK
    <2>3. CASE ~ClientPost(p) /\ ~ClientWait(p)
      BY <1>3, <2>3 DEF ClientLoop, Fill, FillEnds, ScanWrong, ScanRight, ScanEnds
    <2> QED  BY <2>1, <2>2, <2>3
  <1>4. ASSUME NEW q \in Server, ServerLoop(q)
        PROVE  shm3[i + M] = 1 \/ (ServerPost(q) /\ tid[q] = i)
    <2>1. CASE ServerWait(q)
      <3>1. tid[q] \in Id
        BY <2>1, Numbered DEF ServerWait, Unnumbered
      <3> QED  BY <2>1, <3>1, SemIndex DEF ServerWait, sem_wait, TypeOK
    <2>2. CASE ServerPost(q)
      <3>1. tid[q] \in Id
        BY <2>2, Numbered DEF ServerPost, Unnumbered
      <3> QED  BY <2>2, <3>1, SemIndex DEF ServerPost, sem_post, TypeOK
    <2>3. CASE ~ServerWait(q) /\ ~ServerPost(q)
      BY <1>4, <2>3 DEF ServerLoop, FoundWrong, FoundRight, FoundEnds, Compare, CompareEnds
    <2> QED  BY <2>1, <2>2, <2>3
  <1>5. CASE UNCHANGED vars
    BY <1>5 DEF vars
  <1> QED
    BY NextCases, <1>1, <1>2, <1>3, <1>4, <1>5 DEF StepCases

(* The server compares or has compared a block only while the client waits.*)
LEMMA Ownership ==
  ASSUME ControlInv, NEW p \in Client, NEW q \in Server,
         pc[p] \notin Unnumbered, pc[p] # "wait", tid[q] = tid[p]
  PROVE  pc[q] \notin {"compare", "post"}
  <1>1. tid[p] # NoId
    BY Threads, Numbered
  <1> QED
    BY <1>1, Threads DEF ControlInv, BatonInv, WithClient, ServerOn

(* What other threads leave alone.                                         *)
LEMMA ClientBlock ==
  ASSUME ControlInv, [Next]_vars, NEW p \in Client, pc[p] \notin Unnumbered
  PROVE  /\ \A k \in Block(tid[p]) :
              at[p] # k \/ at'[p] = at[p] \/ pc[p] \notin {"fill", "scan"}
                => shm1'[k] = shm1[k]
         /\ pc[p] # "wait" => \A k \in Block(tid[p]) : shm2'[k] = shm2[k]
  <1>1. p \in Thread /\ tid[p] \in Id /\ tid[p] # NoId
    BY Threads, Numbered
  <1>2. ASSUME NEW k \in Block(tid[p]),
               at[p] # k \/ at'[p] = at[p] \/ pc[p] \notin {"fill", "scan"}
        PROVE  shm1'[k] = shm1[k]
    <2>1. k \in Position
      BY <1>1, BlockOf
    <2>2. ASSUME NEW q \in Client, Fill(q) \/ ScanWrong(q), at[q] = k PROVE FALSE
      <3>1. q \in Thread /\ pc[q] \in {"fill", "scan"} /\ InBlock(q)
        BY <2>2, Threads DEF Fill, ScanWrong
      <3>2. tid[q] \in Id /\ k \in Block(tid[q]) /\ at[q] \in Int
        BY <2>2, <3>1, AtBlock
      <3>3. tid[q] = tid[p]
        BY <1>1, <3>2, BlockOf
      <3>4. q = p
        BY <1>1, <3>1, <3>3 DEF ControlInv, DistinctIds, Client
      <3>5. at'[q] = at[q] + 1
        BY <2>2, <3>1 DEF Fill, ScanWrong, Advance, ControlInv, TypeOK
      <3> QED  BY <1>2, <2>2, <3>1, <3>2, <3>4, <3>5
    <2> QED  BY <2>1, <2>2, MemoryStep
  <1>3. ASSUME pc[p] # "wait", NEW k \in Block(tid[p])
        PROVE  shm2'[k] = shm2[k]
    <2>1. k \in Position
      BY <1>1, BlockOf
    <2>2. ASSUME NEW q \in Server, Compare(q), at[q] = k PROVE FALSE
      <3>1. q \in Thread /\ pc[q] = "compare" /\ InBlock(q)
        BY <2>2, Threads DEF Compare
      <3>2. tid[q] \in Id /\ k \in Block(tid[q])
        BY <2>2, <3>1, AtBlock
      <3>3. tid[q] = tid[p]
        BY <1>1, <3>2, BlockOf
      <3> QED  BY <1>3, <3>1, <3>3, Ownership
    <2> QED  BY <2>1, <2>2, MemoryStep
  <1> QED
    BY <1>2, <1>3

LEMMA ServerBlock ==
  ASSUME ControlInv, [Next]_vars, NEW p \in Server, pc[p] \notin Unnumbered
  PROVE  /\ \A k \in Block(tid[p]) :
              at[p] # k \/ at'[p] = at[p] \/ pc[p] # "compare"
                => shm2'[k] = shm2[k]
         /\ pc[p] \in {"compare", "post"} => \A k \in Block(tid[p]) : shm1'[k] = shm1[k]
  <1>1. p \in Thread /\ tid[p] \in Id /\ tid[p] # NoId
    BY Threads, Numbered
  <1>2. ASSUME NEW k \in Block(tid[p]),
               at[p] # k \/ at'[p] = at[p] \/ pc[p] # "compare"
        PROVE  shm2'[k] = shm2[k]
    <2>1. k \in Position
      BY <1>1, BlockOf
    <2>2. ASSUME NEW q \in Server, Compare(q), at[q] = k PROVE FALSE
      <3>1. q \in Thread /\ pc[q] = "compare" /\ InBlock(q)
        BY <2>2, Threads DEF Compare
      <3>2. tid[q] \in Id /\ k \in Block(tid[q]) /\ at[q] \in Int
        BY <2>2, <3>1, AtBlock
      <3>3. tid[q] = tid[p]
        BY <1>1, <3>2, BlockOf
      <3>4. q = p
        BY <1>1, <3>1, <3>3 DEF ControlInv, DistinctIds, Server
      <3>5. at'[q] = at[q] + 1
        BY <2>2, <3>1 DEF Compare, Advance, ControlInv, TypeOK
      <3> QED  BY <1>2, <2>2, <3>1, <3>2, <3>4, <3>5
    <2> QED  BY <2>1, <2>2, MemoryStep
  <1>3. ASSUME pc[p] \in {"compare", "post"}, NEW k \in Block(tid[p])
        PROVE  shm1'[k] = shm1[k]
    <2>1. k \in Position
      BY <1>1, BlockOf
    <2>2. ASSUME NEW q \in Client, Fill(q) \/ ScanWrong(q), at[q] = k PROVE FALSE
      <3>1. q \in Thread /\ pc[q] \in {"fill", "scan"} /\ InBlock(q)
        BY <2>2, Threads DEF Fill, ScanWrong
      <3>2. tid[q] \in Id /\ k \in Block(tid[q])
        BY <2>2, <3>1, AtBlock
      <3>3. tid[q] = tid[p]
        BY <1>1, <3>2, BlockOf
      <3> QED  BY <1>3, <3>1, <3>3, Ownership DEF Unnumbered
    <2> QED  BY <2>1, <2>2, MemoryStep
  <1> QED
    BY <1>2, <1>3

(* While the block is with nobody, nobody changes it: before its client    *)
(* has started, and when the verdicts wait for the client.                 *)
LEMMA IdleBlock ==
  ASSUME ControlInv, [Next]_vars, NEW i \in Id,
         thread_no["client"] <= i \/ shm3[i + M] = 1
  PROVE  \A k \in Block(i) : shm1'[k] = shm1[k] /\ shm2'[k] = shm2[k]
  <1> SUFFICES ASSUME NEW k \in Block(i) PROVE shm1'[k] = shm1[k] /\ shm2'[k] = shm2[k]
    OBVIOUS
  <1>1. k \in Position
    BY BlockOf
  <1>2. ~ServerOn(i)
    BY SizeAssumption DEF ControlInv, BatonInv, WithClient, AwayFromClient
  <1>3. ASSUME NEW q \in Client, Fill(q) \/ ScanWrong(q), at[q] = k PROVE FALSE
    <2>1. q \in Thread /\ pc[q] \in {"fill", "scan"} /\ InBlock(q)
      BY <1>3, Threads DEF Fill, ScanWrong
    <2>2. tid[q] \in Id /\ tid[q] # NoId /\ k \in Block(tid[q])
      BY <1>3, <2>1, AtBlock
    <2>3. tid[q] = i
      BY <2>2, BlockOf
    <2>4. i < thread_no["client"]
      BY <2>1, <2>2, <2>3 DEF ControlInv, StartInv, Client
    <2>5. WithClient(i)
      BY <2>1, <2>2, <2>3 DEF ControlInv, BatonInv
    <2> QED  BY <2>4, <2>5 DEF WithClient, ControlInv, TypeOK, Side, Id
  <1>4. ASSUME NEW q \in Server, Compare(q), at[q] = k PROVE FALSE
    <2>1. q \in Thread /\ pc[q] = "compare" /\ InBlock(q)
      BY <1>4, Threads DEF Compare
    <2>2. tid[q] \in Id /\ k \in Block(tid[q])
      BY <1>4, <2>1, AtBlock
    <2>3. tid[q] = i
      BY <2>2, BlockOf
    <2> QED  BY <1>2, <2>1, <2>3 DEF ServerOn
  <1> QED
    BY <1>1, <1>3, <1>4, MemoryStep

-----------------------------------------------------------------------------
(* The contents of the segments                                            *)

LEMMA NextNumber ==
  ASSUME ControlInv, [Next]_vars, NEW p \in Thread, LoadNumber(p)
  PROVE  tid'[p] = thread_no[p[1]] /\ thread_no[p[1]] \in Id
  <1>1. TypeOK' /\ StartInv'
    BY TypeStep, StartStep DEF ControlInv
  <1>2. NumbersInRange'
    BY <1>1, NumberBound, PTL
  <1>3. tid'[p] = thread_no[p[1]]
    BY DEF LoadNumber, ControlInv, TypeOK
  <1>4. thread_no[p[1]] # NoId
    BY ThreadPair DEF ControlInv, TypeOK, NoId
  <1> QED
    BY <1>2, <1>3, <1>4 DEF NumbersInRange

LEMMA NumbersGrow ==
  ASSUME ControlInv, [Next]_vars
  PROVE  \A s \in Side : thread_no[s] \in Nat /\ thread_no'[s] \in Nat /\ thread_no[s] <= thread_no'[s]
  <1> USE Threads DEF ControlInv, TypeOK, memory, mains, startup
  <1>0. \A s \in Side : thread_no[s] \in Nat
    OBVIOUS
  <1>1. CASE \E s \in Side : Create(s) \/ Join(s)
    BY <1>1 DEF Create, Join
  <1>2. ASSUME NEW p \in Thread, Start(p)
        PROVE  \A s \in Side : thread_no'[s] \in Nat /\ thread_no[s] <= thread_no'[s]
    <2>1. CASE StoreNumber(p)
      <3>1. p[1] \in Side /\ tid[p] = thread_no[p[1]]
        BY <2>1, ThreadPair DEF StoreNumber, StartInv
      <3> QED  BY <2>1, <3>1 DEF StoreNumber
    <2>2. CASE ~StoreNumber(p)
      BY <1>2, <2>2 DEF Start, Lock, LoadNumber, Unlock
    <2> QED  BY <2>1, <2>2
  <1>3. CASE \E p \in Client : ClientLoop(p)
    BY <1>3, LoopFrame DEF Client
  <1>4. CASE \E p \in Server : ServerLoop(p)
    BY <1>4, LoopFrame DEF Server
  <1>5. CASE UNCHANGED vars
    BY <1>5 DEF vars
  <1> QED
    BY NextCases, <1>0, <1>1, <1>2, <1>3, <1>4, <1>5 DEF StepCases

(* What a step of a thread does to the thread itself.                      *)
LEMMA StartSteps ==
  ASSUME ControlInv, NEW p \in Thread, Start(p)
  PROVE  \/ Lock(p) /\ pc'[p] = "load"
         \/ LoadNumber(p) /\ pc'[p] = "store"
         \/ StoreNumber(p) /\ pc[p] = "store" /\ pc'[p] = "unlock" /\ tid'[p] = tid[p]
         \/ /\ Unlock(p) /\ pc[p] = "unlock" /\ tid'[p] = tid[p] /\ at'[p] = Low(tid[p])
            /\ pc'[p] = IF p[1] = "client" THEN "fill" ELSE "found"
  BY DEF ControlInv, TypeOK, Start, Lock, LoadNumber, StoreNumber, Unlock, Goto, startup

LEMMA ClientSteps ==
  ASSUME ControlInv, NEW p \in Client, ClientLoop(p)
  PROVE  /\ tid'[p] = tid[p]
         /\ \/ /\ Fill(p) /\ InBlock(p) /\ pc[p] = "fill" /\ pc'[p] = "fill"
               /\ at'[p] = at[p] + 1 /\ shm1' = [shm1 EXCEPT ![at[p]] = First]
            \/ FillEnds(p) /\ ~InBlock(p) /\ pc[p] = "fill" /\ pc'[p] = "post"
            \/ ClientPost(p) /\ pc[p] = "post" /\ pc'[p] = "wait"
            \/ /\ ClientWait(p) /\ pc[p] = "wait" /\ pc'[p] = "scan"
               /\ at'[p] = Low(tid[p]) /\ shm3[tid[p] + M] > 0
               /\ UNCHANGED <<shm1, shm2>>
            \/ /\ ScanWrong(p) /\ InBlock(p) /\ pc[p] = "scan" /\ pc'[p] = "scan"
               /\ at'[p] = at[p] + 1 /\ shm2[at[p]] = 0 /\ flag'[p] = TRUE
               /\ shm1' = [shm1 EXCEPT ![at[p]] = NextChar(@)]
            \/ /\ ScanRight(p) /\ InBlock(p) /\ pc[p] = "scan" /\ pc'[p] = "scan"
               /\ at'[p] = at[p] + 1 /\ shm2[at[p]] # 0 /\ flag'[p] = flag[p]
            \/ /\ ScanEnds(p) /\ ~InBlock(p) /\ pc[p] = "scan"
               /\ pc'[p] = IF flag[p] THEN "post" ELSE "exit"
  <1>1. p \in Thread /\ p[1] = "client"
    BY DEF Client
  <1> QED
    BY <1>1 DEF ControlInv, TypeOK, ClientLoop, Fill, FillEnds, ClientPost, ClientWait,
                ScanWrong, ScanRight, ScanEnds, Goto, Advance, Restart, sem_wait

LEMMA ServerSteps ==
  ASSUME ControlInv, NEW q \in Server, ServerLoop(q)
  PROVE  /\ tid'[q] = tid[q]
         /\ \/ FoundWrong(q) /\ pc'[q] = "wait"
            \/ /\ FoundRight(q) /\ InBlock(q) /\ pc[q] = "found" /\ pc'[q] = "found"
               /\ at'[q] = at[q] + 1 /\ shm2[at[q]] # 0
            \/ FoundEnds(q) /\ ~InBlock(q) /\ pc[q] = "found" /\ pc'[q] = "exit"
            \/ /\ ServerWait(q) /\ pc[q] = "wait" /\ pc'[q] = "compare"
               /\ at'[q] = Low(tid[q])
            \/ /\ Compare(q) /\ InBlock(q) /\ pc[q] = "compare" /\ pc'[q] = "compare"
               /\ at'[q] = at[q] + 1
               /\ shm2' = [shm2 EXCEPT ![at[q]] =
                             IF shm1[at[q]] = secret[at[q]] THEN 1 ELSE 0]
            \/ CompareEnds(q) /\ ~InBlock(q) /\ pc[q] = "compare" /\ pc'[q] = "post"
            \/ /\ ServerPost(q) /\ pc[q] = "post" /\ pc'[q] = "found"
               /\ at'[q] = Low(tid[q])
  <1>1. q \in Thread /\ q[1] = "server"
    BY DEF Server
  <1> QED
    BY <1>1 DEF ControlInv, TypeOK, ServerLoop, FoundWrong, FoundRight, FoundEnds,
                ServerWait, Compare, CompareEnds, ServerPost, Goto, Advance, Restart

LEMMA FillStep ==
  ASSUME ControlInv, FillInv, [Next]_vars
  PROVE  FillInv'
  <1> USE Threads
  <1>1. ASSUME NEW i \in Id, thread_no'["client"] <= i PROVE Untouched(i)'
    <2>1. thread_no["client"] <= i
      BY <1>1, NumbersGrow DEF Side, Id
    <2> QED  BY <2>1, IdleBlock DEF FillInv, Untouched
  <1>2. ASSUME NEW p \in Client, pc'[p] \in {"store", "unlock"}
        PROVE  Untouched(tid[p])'
    <2>1. CASE Unmoved(p)
      <3>1. pc[p] \in {"store", "unlock"} /\ tid'[p] = tid[p]
        BY <1>2, <2>1 DEF Unmoved
      <3> QED  BY <3>1, ClientBlock DEF FillInv, Untouched, Unnumbered
    <2>2. CASE LoadNumber(p)
      <3>1. tid'[p] = thread_no["client"] /\ thread_no["client"] \in Id
        BY <2>2, NextNumber DEF Client
      <3> QED  BY <3>1, IdleBlock DEF FillInv, Untouched, Id
    <2>3. CASE StoreNumber(p)
      <3>1. pc[p] = "store" /\ tid'[p] = tid[p]
        BY <2>3, StartSteps DEF Start, StoreNumber, ControlInv, TypeOK
      <3> QED  BY <3>1, ClientBlock DEF FillInv, Untouched, Unnumbered
    <2> QED  BY <1>2, <2>1, <2>2, <2>3, Moves, StartSteps, ClientSteps DEF Client
  <1>3. ASSUME NEW p \in Client, pc'[p] = "fill", NEW k \in Block(tid'[p])
        PROVE  shm2'[k] = 0 /\ shm1'[k] = IF k < at'[p] THEN First ELSE Blank
    <2>1. CASE Unmoved(p)
      <3>1. pc[p] = "fill" /\ tid'[p] = tid[p] /\ at'[p] = at[p]
        BY <1>3, <2>1 DEF Unmoved
      <3> QED  BY <3>1, ClientBlock DEF FillInv, Unnumbered
    <2>2. CASE pc[p] = "unlock" /\ tid'[p] = tid[p] /\ at'[p] = Low(tid[p])
      <3>1. tid[p] \in Id
        BY <2>2, Numbered DEF Unnumbered
      <3>2. ~(k < Low(tid[p]))
        BY <2>2, <3>1, BlockOf, BlockBounds
      <3> QED  BY <2>2, <3>2, ClientBlock DEF FillInv, Untouched, Unnumbered
    <2>3. CASE /\ InBlock(p) /\ pc[p] = "fill" /\ tid'[p] = tid[p]
               /\ at'[p] = at[p] + 1 /\ shm1' = [shm1 EXCEPT ![at[p]] = First]
      <3>1. tid[p] \in Id /\ at[p] \in Int /\ k \in Int /\ k \in Position
        BY <1>3, <2>3, AtBlock, BlockOf
      <3>2. shm2'[k] = 0
        BY <2>3, ClientBlock DEF FillInv, Unnumbered
      <3>3. CASE k = at[p]
        <4>1. shm1'[k] = First
          BY <2>3, <3>1, <3>3 DEF ControlInv, TypeOK
        <4> QED  BY <2>3, <3>1, <3>2, <3>3, <4>1
      <3>4. CASE k # at[p]
        <4>1. shm1'[k] = shm1[k]
          BY <2>3, <3>4, ClientBlock DEF Unnumbered
        <4>2. k < at[p] <=> k < at'[p]
          BY <2>3, <3>1, <3>4
        <4> QED  BY <2>3, <3>2, <4>1, <4>2 DEF FillInv
      <3> QED  BY <3>3, <3>4
    <2> QED  BY <1>3, <2>1, <2>2, <2>3, Moves, StartSteps, ClientSteps DEF Client
  <1> QED
    BY <1>1, <1>2, <1>3 DEF FillInv

-----------------------------------------------------------------------------
(* Guesses and verdicts                                                    *)

LEMMA Letters ==
  ASSUME NEW c \in Alphabet
  PROVE  c \in Int /\ First <= c /\ c <= CharMax
  <1>1. c \in First .. CharMax
    BY CharAssumption
  <1> QED
    BY <1>1, CharAssumption

(* A step that changes a guess changes Blank to First, or a guess that is  *)
(* below the secret letter to the next letter; it does so where the        *)
(* verdict is 0.                                                           *)
LEMMA GuessChanges ==
  ASSUME ControlInv, DataInv, [Next]_vars, NEW k \in Position
  PROVE  /\ secret' = secret
         /\ \/ shm1'[k] = shm1[k]
            \/ /\ shm2[k] = 0
               /\ \/ shm1[k] = Blank /\ shm1'[k] = First
                  \/ shm1[k] # Blank /\ shm1[k] < secret[k] /\ shm1'[k] = shm1[k] + 1
  <1> USE Threads DEF DataInv
  <1>0. secret[k] \in Alphabet
    BY DEF ControlInv, TypeOK
  <1>1. /\ shm1[k] \in Char /\ shm1 \in [Position -> Char]
        /\ secret[k] \in Int /\ secret[k] <= CharMax
    BY <1>0, Letters DEF ControlInv, TypeOK
  <1>2. ASSUME NEW p \in Client, Fill(p), at[p] = k
        PROVE  shm2[k] = 0 /\ shm1[k] = Blank /\ shm1'[k] = First
    <2>1. pc[p] = "fill" /\ InBlock(p) /\ shm1' = [shm1 EXCEPT ![at[p]] = First]
      BY <1>2 DEF Fill
    <2>2. at[p] \in Block(tid[p]) /\ at[p] \in Int
      BY <2>1, AtBlock
    <2>3. shm2[k] = 0 /\ shm1[k] = Blank
      BY <1>2, <2>1, <2>2 DEF FillInv
    <2> QED  BY <1>1, <1>2, <2>1, <2>3
  <1>3. ASSUME NEW p \in Client, ScanWrong(p), at[p] = k
        PROVE  /\ shm2[k] = 0 /\ shm1[k] # Blank /\ shm1[k] < secret[k]
               /\ shm1'[k] = shm1[k] + 1
    <2>1. /\ pc[p] = "scan" /\ InBlock(p) /\ shm2[k] = 0
          /\ shm1' = [shm1 EXCEPT ![at[p]] = NextChar(@)]
      BY <1>3 DEF ScanWrong
    <2>2. at[p] \in Block(tid[p]) /\ at[p] \in Int
      BY <2>1, AtBlock
    <2>3. shm1[k] # secret[k]
      BY <1>3, <2>1, <2>2 DEF JudgedInv, Judged
    <2>4. shm1[k] # Blank
      BY <1>3, <2>1, <2>2 DEF GuessInv
    <2>5. shm1[k] < secret[k]
      BY <1>1, <2>3, <2>4, CharAssumption DEF GuessInv, Char
    <2>6. NextChar(shm1[k]) = shm1[k] + 1
      BY <1>1, <2>5, CharAssumption DEF NextChar, Char
    <2> QED  BY <1>1, <1>3, <2>1, <2>4, <2>5, <2>6
  <1> QED
    BY <1>2, <1>3, MemoryStep

(* A step that changes a verdict makes it the verdict on the guess.        *)
LEMMA VerdictChanges ==
  ASSUME ControlInv, [Next]_vars, NEW k \in Position
  PROVE  \/ shm2'[k] = shm2[k]
         \/ /\ shm1'[k] = shm1[k]
            /\ shm2'[k] = IF shm1[k] = secret[k] THEN 1 ELSE 0
  <1>1. ASSUME NEW q \in Server, Compare(q), at[q] = k
        PROVE  shm1' = shm1 /\ shm2'[k] = IF shm1[k] = secret[k] THEN 1 ELSE 0
    BY <1>1 DEF Compare, ControlInv, TypeOK
  <1> QED
    BY <1>1, MemoryStep

LEMMA GuessStep ==
  ASSUME ControlInv, DataInv, [Next]_vars
  PROVE  GuessInv' /\ VerdictStands'
  <1> USE Threads DEF DataInv
  <1>1. ASSUME NEW k \in Position
        PROVE  shm1'[k] = Blank \/ (First <= shm1'[k] /\ shm1'[k] <= secret'[k])
    <2>0. secret[k] \in Alphabet /\ shm1[k] \in Char
      BY DEF ControlInv, TypeOK
    <2>1. secret'[k] = secret[k] /\ secret[k] \in Int /\ First <= secret[k]
      BY <2>0, GuessChanges, Letters
    <2>3. shm1[k] \in Int /\ First \in Int
      BY <2>0, CharAssumption DEF Char
    <2>2. shm1[k] = Blank \/ (First <= shm1[k] /\ shm1[k] <= secret[k])
      BY DEF GuessInv
    <2> QED  BY <2>1, <2>2, <2>3, GuessChanges
  <1>2. ASSUME NEW p \in Client, pc'[p] \in {"post", "wait", "scan", "exit"},
               NEW k \in Block(tid'[p])
        PROVE  shm1'[k] # Blank
    <2>1. tid'[p] = tid[p] /\ pc[p] \in {"fill", "post", "wait", "scan", "exit"}
      BY <1>2, Moves, StartSteps, ClientSteps DEF Client, Unmoved
    <2>2. k \in Position
      BY <1>2, <2>1, Numbered, BlockOf DEF Unnumbered
    <2>3. shm1[k] # Blank
      <3>1. CASE pc[p] = "fill"
        <4>1. ~InBlock(p)
          BY <1>2, <3>1, Moves, StartSteps, ClientSteps DEF Client, Unmoved
        <4>2. k < at[p]
          BY <2>1, <3>1, <4>1, AtBlock
        <4> QED  BY <2>1, <3>1, <4>2, CharAssumption DEF FillInv
      <3>2. CASE pc[p] # "fill"
        BY <2>1, <3>2 DEF GuessInv
      <3> QED  BY <3>1, <3>2
    <2>4. shm1[k] \in Int /\ First <= shm1[k]
      BY <2>2, <2>3 DEF GuessInv, ControlInv, TypeOK, Char
    <2> QED  BY <2>2, <2>3, <2>4, GuessChanges, CharAssumption
  <1>3. ASSUME NEW k \in Position, shm2'[k] = 1
        PROVE  shm1'[k] = secret'[k]
    BY <1>3, GuessChanges, VerdictChanges DEF VerdictStands
  <1> QED
    BY <1>1, <1>2, <1>3 DEF GuessInv, VerdictStands

(* A verdict of 0 stays fresh where the guess does not change.             *)
LEMMA StillJudged ==
  ASSUME ControlInv, DataInv, [Next]_vars, NEW k \in Position,
         Judged(k), shm1'[k] = shm1[k]
  PROVE  Judged(k)'
  BY GuessChanges, VerdictChanges DEF Judged

LEMMA JudgedStep ==
  ASSUME ControlInv, DataInv, [Next]_vars
  PROVE  JudgedInv'
  <1> USE Threads DEF DataInv
  <1>1. ASSUME NEW p \in Client, pc'[p] = "scan", NEW k \in Block(tid'[p]), at'[p] <= k
        PROVE  Judged(k)'
    <2>1. tid'[p] = tid[p] /\ pc[p] \in {"wait", "scan"}
      BY <1>1, Moves, StartSteps, ClientSteps DEF Client, Unmoved
    <2>2. tid[p] \in Id /\ k \in Position /\ k \in Int
      BY <1>1, <2>1, Numbered, BlockOf DEF Unnumbered
    <2>3. CASE pc[p] = "wait"
      <3>1. shm3[tid[p] + M] > 0
        BY <1>1, <2>3, Moves, StartSteps, ClientSteps DEF Client, Unmoved
      <3>2. shm3[tid[p] + M] = 1
        BY <2>2, <3>1 DEF ControlInv, BatonInv, WithClient, AwayFromClient
      <3>3. Judged(k)
        BY <1>1, <2>1, <2>2, <3>2 DEF JudgedInv
      <3>4. shm1'[k] = shm1[k]
        BY <1>1, <2>1, <2>2, <3>2, IdleBlock
      <3> QED  BY <2>2, <3>3, <3>4, StillJudged
    <2>4. CASE pc[p] = "scan"
      <3>1. at[p] \in Int
        BY <2>4, AtBlock
      <3>2. at'[p] = at[p] \/ at'[p] = at[p] + 1
        BY <1>1, <2>4, Moves, StartSteps, ClientSteps DEF Client, Unmoved
      <3>3. Judged(k)
        BY <1>1, <2>1, <2>2, <2>4, <3>1, <3>2 DEF JudgedInv
      <3>4. shm1'[k] = shm1[k]
        BY <1>1, <2>1, <2>2, <2>4, <3>1, <3>2, ClientBlock DEF Unnumbered
      <3> QED  BY <2>2, <3>3, <3>4, StillJudged
    <2> QED  BY <2>1, <2>3, <2>4
  <1>2. ASSUME NEW q \in Server, pc'[q] = "compare", NEW k \in Block(tid'[q]), k < at'[q]
        PROVE  Judged(k)'
    <2>1. tid'[q] = tid[q] /\ pc[q] \in {"wait", "compare"}
      BY <1>2, Moves, StartSteps, ServerSteps DEF Server, Unmoved
    <2>2. tid[q] \in Id /\ k \in Position /\ k \in Int /\ Low(tid[q]) <= k
      BY <1>2, <2>1, Numbered, BlockOf DEF Unnumbered
    <2>3. CASE pc[q] = "wait"
      <3>1. at'[q] = Low(tid[q])
        BY <1>2, <2>3, Moves, StartSteps, ServerSteps DEF Server, Unmoved
      <3> QED  BY <1>2, <2>2, <3>1, BlockBounds
    <2>4. CASE pc[q] = "compare"
      <3>1. at[q] \in Int
        BY <2>4, AtBlock
      <3>2. shm1'[k] = shm1[k]
        BY <1>2, <2>1, <2>4, ServerBlock DEF Unnumbered
      <3>3. CASE k < at[q]
        BY <1>2, <2>1, <2>2, <2>4, <3>2, <3>3, StillJudged DEF JudgedInv
      <3>4. CASE ~(k < at[q])
        <4>1. /\ k = at[q]
              /\ shm2' = [shm2 EXCEPT ![at[q]] =
                            IF shm1[at[q]] = secret[at[q]] THEN 1 ELSE 0]
          <5>1. at'[q] # at[q]
            BY <1>2, <3>4
          <5>2. /\ at'[q] = at[q] + 1
                /\ shm2' = [shm2 EXCEPT ![at[q]] =
                              IF shm1[at[q]] = secret[at[q]] THEN 1 ELSE 0]
            BY <1>2, <2>4, <5>1, Moves, StartSteps, ServerSteps DEF Server, Unmoved
          <5> QED  BY <1>2, <2>2, <3>1, <3>4, <5>2
        <4>2. shm2'[k] = 0 => shm1[k] # secret[k]
          BY <2>2, <4>1 DEF ControlInv, TypeOK
        <4> QED  BY <2>2, <3>2, <4>2, GuessChanges DEF Judged
      <3> QED  BY <3>3, <3>4
    <2> QED  BY <2>1, <2>3, <2>4
  <1>3. ASSUME NEW q \in Server, pc'[q] = "post", NEW k \in Block(tid'[q])
        PROVE  Judged(k)'
    <2>1. /\ tid'[q] = tid[q] /\ pc[q] \in {"compare", "post"}
          /\ pc[q] = "compare" => ~InBlock(q)
      BY <1>3, Moves, StartSteps, ServerSteps DEF Server, Unmoved
    <2>2. k \in Position /\ shm1'[k] = shm1[k]
      BY <1>3, <2>1, Numbered, BlockOf, ServerBlock DEF Unnumbered
    <2>3. Judged(k)
      BY <1>3, <2>1, AtBlock DEF JudgedInv
    <2> QED  BY <2>2, <2>3, StillJudged
  <1>4. ASSUME NEW i \in Id, shm3'[i + M] = 1, NEW k \in Block(i)
        PROVE  Judged(k)'
    <2>1. k \in Position
      BY BlockOf
    <2>2. CASE shm3[i + M] = 1
      BY <2>1, <2>2, IdleBlock, StillJudged DEF JudgedInv
    <2>3. ASSUME NEW q \in Server, ServerPost(q), tid[q] = i
          PROVE  Judged(k)'
      <3>1. pc[q] = "post"
        BY <2>3 DEF ServerPost
      <3> QED  BY <2>1, <2>3, <3>1, ServerBlock, StillJudged DEF JudgedInv, Unnumbered
    <2> QED  BY <1>4, <2>2, <2>3, TokenStep
  <1> QED
    BY <1>1, <1>2, <1>3, <1>4 DEF JudgedInv

LEMMA RightStep ==
  ASSUME ControlInv, DataInv, [Next]_vars
  PROVE  RightInv'
  <1> USE Threads DEF DataInv
  <1>0. \A k \in Position : shm2[k] \in {0, 1}
    BY DEF ControlInv, TypeOK
  <1>1. ASSUME NEW p \in Client, pc'[p] = "scan", ~flag'[p],
               NEW k \in Block(tid'[p]), k < at'[p]
        PROVE  shm2'[k] = 1
    <2>1. tid'[p] = tid[p] /\ pc[p] \in {"wait", "scan"}
      BY <1>1, Moves, StartSteps, ClientSteps DEF Client, Unmoved
    <2>2. tid[p] \in Id /\ k \in Position /\ k \in Int /\ Low(tid[p]) <= k
      BY <1>1, <2>1, Numbered, BlockOf DEF Unnumbered
    <2>3. CASE pc[p] = "wait"
      <3>1. at'[p] = Low(tid[p])
        BY <1>1, <2>3, Moves, StartSteps, ClientSteps DEF Client, Unmoved
      <3> QED  BY <1>1, <2>2, <3>1, BlockBounds
    <2>4. CASE pc[p] = "scan"
      <3>1. at[p] \in Int
        BY <2>4, AtBlock
      <3>2. /\ ~flag[p]
            /\ at'[p] = at[p] \/ (at'[p] = at[p] + 1 /\ shm2[at[p]] # 0)
        BY <1>1, <2>4, Moves, StartSteps, ClientSteps DEF Client, Unmoved
      <3>3. k < at[p] \/ (k = at[p] /\ shm2[k] # 0)
        BY <1>1, <2>2, <3>1, <3>2
      <3>4. shm2[k] = 1
        BY <1>0, <1>1, <2>1, <2>2, <2>4, <3>2, <3>3 DEF RightInv
      <3> QED  BY <1>1, <2>1, <2>4, <3>4, ClientBlock DEF Unnumbered
    <2> QED  BY <2>1, <2>3, <2>4
  <1>2. ASSUME NEW q \in Server, pc'[q] = "found", NEW k \in Block(tid'[q]), k < at'[q]
        PROVE  shm2'[k] = 1
    <2>1. /\ tid'[q] = tid[q] /\ pc[q] \in {"unlock", "post", "found"}
          /\ pc[q] # "found" => at'[q] = Low(tid[q])
      BY <1>2, Moves, StartSteps, ServerSteps DEF Server, Unmoved
    <2>2. tid[q] \in Id /\ k \in Position /\ k \in Int /\ Low(tid[q]) <= k
      BY <1>2, <2>1, Numbered, BlockOf DEF Unnumbered
    <2>3. CASE pc[q] # "found"
      BY <1>2, <2>1, <2>2, <2>3, BlockBounds
    <2>4. CASE pc[q] = "found"
      <3>1. at[q] \in Int
        BY <2>4, AtBlock
      <3>2. at'[q] = at[q] \/ (at'[q] = at[q] + 1 /\ shm2[at[q]] # 0)
        BY <1>2, <2>4, Moves, StartSteps, ServerSteps DEF Server, Unmoved
      <3>3. k < at[q] \/ (k = at[q] /\ shm2[k] # 0)
        BY <1>2, <2>2, <3>1, <3>2
      <3>4. shm2[k] = 1
        BY <1>0, <1>2, <2>1, <2>2, <2>4, <3>3 DEF RightInv
      <3> QED  BY <1>2, <2>1, <2>4, <3>4, ServerBlock DEF Unnumbered
    <2> QED  BY <2>3, <2>4
  <1>3. ASSUME NEW p \in Client, pc'[p] = "exit", NEW k \in Block(tid'[p])
        PROVE  shm2'[k] = 1
    <2>1. /\ tid'[p] = tid[p] /\ pc[p] \in {"scan", "exit"}
          /\ pc[p] = "scan" => ~InBlock(p) /\ ~flag[p]
      BY <1>3, Moves, StartSteps, ClientSteps DEF Client, Unmoved
    <2>2. shm2[k] = 1
      BY <1>3, <2>1, AtBlock DEF RightInv
    <2> QED  BY <1>3, <2>1, <2>2, ClientBlock DEF Unnumbered
  <1>4. ASSUME NEW q \in Server, pc'[q] = "exit", NEW k \in Block(tid'[q])
        PROVE  shm2'[k] = 1
    <2>1. /\ tid'[q] = tid[q] /\ pc[q] \in {"found", "exit"}
          /\ pc[q] = "found" => ~InBlock(q)
      BY <1>4, Moves, StartSteps, ServerSteps DEF Server, Unmoved
    <2>2. shm2[k] = 1
      BY <1>4, <2>1, AtBlock DEF RightInv
    <2> QED  BY <1>4, <2>1, <2>2, ServerBlock DEF Unnumbered
  <1>5. Thread = Client \cup Server
    BY DEF Thread, Client, Server, Side
  <1> QED
    BY <1>1, <1>2, <1>3, <1>4, <1>5 DEF RightInv

-----------------------------------------------------------------------------
(* The inductive invariant and what follows from it                        *)

LEMMA InvInit == Init => IInv
  <1> SUFFICES ASSUME Init PROVE IInv
    OBVIOUS
  <1>1. TypeOK /\ StartInv /\ DistinctIds /\ MainInv
    BY InitType, StartInit
  <1>2. \A p \in Thread : pc[p] = "unborn" /\ tid[p] = NoId
    BY DEF Init
  <1>3. LoopInv
    BY <1>2 DEF LoopInv
  <1>4. \A i \in Id : WithClient(i)
    BY <1>2, SemIndex, Threads DEF Init, WithClient, ServerOn
  <1>5. BatonInv
    BY <1>2, <1>4, Threads DEF BatonInv
  <1>6. \A k \in Position : shm1[k] = Blank /\ shm2[k] = 0
    BY DEF Init
  <1>7. \A i \in Id : Block(i) \subseteq Position
    BY DEF Block
  <1>8. FillInv /\ GuessInv /\ VerdictStands /\ RightInv
    BY <1>2, <1>6, <1>7, Threads DEF FillInv, Untouched, GuessInv, VerdictStands, RightInv
  <1>9. \A i \in Id : shm3[i + M] = 0
    BY <1>4 DEF WithClient
  <1>10. JudgedInv
    BY <1>2, <1>9, Threads DEF JudgedInv
  <1> QED
    BY <1>1, <1>3, <1>5, <1>8, <1>10 DEF IInv, ControlInv, DataInv

LEMMA InvStep == IInv /\ [Next]_vars => IInv'
  <1> SUFFICES ASSUME ControlInv, DataInv, [Next]_vars PROVE IInv'
    BY DEF IInv
  <1>1. ControlInv'
    BY TypeStep, StartStep, MainStep, LoopStep, BatonStep DEF ControlInv
  <1>2. DataInv'
    BY FillStep, GuessStep, JudgedStep, RightStep DEF DataInv
  <1> QED
    BY <1>1, <1>2 DEF IInv

(* The invariant of a session.                                             *)
THEOREM Invariant == Spec => []IInv
  <1> QED
    BY InvInit, InvStep, PTL DEF Spec

LEMMA RaceFree == IInv => NoDataRace
  <1> SUFFICES ASSUME ControlInv, NEW p \in Thread, NEW q \in Thread, p # q,
                      NEW cell \in Writes(p), cell \in Reads(q) \cup Writes(q)
               PROVE  FALSE
    BY DEF IInv, NoDataRace
  <1> USE DEF ControlInv
  <1>1. /\ pc[p] \in {"fill", "scan", "compare"} /\ InBlock(p)
        /\ cell = IF pc[p] = "compare" THEN <<"shm2", at[p]>> ELSE <<"shm1", at[p]>>
    BY DEF Writes
  <1>2. /\ pc[q] \in {"fill", "scan", "found", "compare"} /\ InBlock(q)
        /\ \/ pc[q] \in {"fill", "scan"} /\ cell = <<"shm1", at[q]>>
           \/ pc[q] = "compare" /\ cell = <<"shm2", at[q]>>
           \/ pc[q] \in {"scan", "found"} /\ cell = <<"shm2", at[q]>>
           \/ pc[q] = "compare" /\ cell = <<"shm1", at[q]>>
    BY DEF Reads, Writes
  <1>3. at[p] = at[q]
    BY <1>1, <1>2
  <1>4. /\ tid[p] \in Id /\ tid[p] # NoId /\ at[p] \in Block(tid[p])
        /\ tid[q] \in Id /\ tid[q] # NoId /\ at[q] \in Block(tid[q])
    BY <1>1, <1>2, AtBlock
  <1>5. tid[p] = tid[q]
    BY <1>3, <1>4, BlockOf
  <1>6. p[1] # q[1]
    BY <1>4, <1>5 DEF DistinctIds
  <1>7. /\ pc[p] \in {"fill", "scan"} => p \in Client
        /\ pc[q] \in {"fill", "scan"} => q \in Client
        /\ pc[p] = "compare" => p \in Server
        /\ pc[q] \in {"found", "compare"} => q \in Server
    BY ThreadPair DEF StartInv, Starting, Unnumbered, Critical, Playing, Client, Server, Side
  <1>8. CASE p \in Client /\ q \in Server
    <2>1. pc[q] = "compare"
      BY <1>1, <1>2, <1>7, <1>8 DEF Client, Server
    <2> QED  BY <1>1, <1>5, <1>7, <1>8, <2>1, Ownership DEF Client, Server, Unnumbered
  <1>9. CASE p \in Server /\ q \in Client
    <2>1. pc[p] = "compare" /\ pc[q] \in {"fill", "scan"}
      BY <1>1, <1>2, <1>7, <1>9 DEF Client, Server
    <2> QED  BY <1>5, <1>9, <2>1, Ownership DEF Unnumbered
  <1> QED
    BY <1>6, <1>8, <1>9, ThreadPair DEF Client, Server, Side

(* The char and int accesses of the two programs never race.               *)
THEOREM RaceFreedom == Spec => []NoDataRace
  <1> QED
    BY Invariant, RaceFree, PTL

LEMMA Bounded == IInv => NeverOvershoots
  <1> SUFFICES ASSUME ControlInv, DataInv, NEW k \in Position
               PROVE  shm1[k] <= secret[k]
    BY DEF IInv, NeverOvershoots
  <1>1. secret[k] \in Alphabet
    BY DEF ControlInv, TypeOK
  <1>2. secret[k] \in Int /\ First <= secret[k]
    BY <1>1, Letters
  <1> QED
    BY <1>2, CharAssumption DEF DataInv, GuessInv

(* No guess passes the secret letter.                                      *)
THEOREM GuessBounded == Spec => []NeverOvershoots
  <1> QED
    BY Invariant, Bounded, PTL

LEMMA Fresh == IInv => VerdictIsFresh
  <1> SUFFICES ASSUME ControlInv, DataInv, NEW p \in Thread,
                      pc[p] = "scan", InBlock(p), shm2[at[p]] = 0
               PROVE  shm1[at[p]] # secret[at[p]]
    BY DEF IInv, VerdictIsFresh
  <1>1. p \in Client
    BY ThreadPair DEF ControlInv, StartInv, Starting, Unnumbered, Critical, Playing, Client, Side
  <1>2. at[p] \in Int /\ at[p] \in Block(tid[p])
    BY AtBlock
  <1> QED
    BY <1>1, <1>2 DEF DataInv, JudgedInv, Judged

(* A verdict of 1 is never out of date.                                    *)
THEOREM VerdictsStand == Spec => []VerdictStands
  <1>1. IInv => VerdictStands
    BY DEF IInv, DataInv
  <1> QED
    BY <1>1, Invariant, PTL

(* The verdict 0 that the client acts on is about the guess it replaces.   *)
THEOREM VerdictsFresh == Spec => []VerdictIsFresh
  <1> QED
    BY Invariant, Fresh, PTL

LEMMA Tokens == IInv => OneToken /\ NoLostWakeup
  <1> SUFFICES ASSUME ControlInv PROVE OneToken /\ NoLostWakeup
    BY DEF IInv
  <1>1. OneToken
    BY DEF ControlInv, BatonInv, WithClient, AwayFromClient, OneToken
  <1>2. NoLostWakeup
    <2> SUFFICES ASSUME NEW i \in Id, NEW c \in Id, NEW s \in Id,
                        tid[<<"client", c>>] = i, pc[<<"client", c>>] = "wait",
                        tid[<<"server", s>>] = i, pc[<<"server", s>>] = "wait"
                 PROVE  shm3[i] + shm3[i + M] = 1
      BY DEF NoLostWakeup
    <2>1. /\ <<"client", c>> \in Client
          /\ <<"server", s>> \in Server /\ <<"server", s>> \in Thread
      BY PairThread DEF Client, Server, Side
    <2>2. AwayFromClient(i)
      BY <2>1 DEF ControlInv, BatonInv
    <2>3. \A q \in Server : tid[q] = i => q = <<"server", s>>
      BY <2>1, Threads DEF ControlInv, DistinctIds, Server, Id, NoId
    <2>4. ~ServerOn(i)
      BY <2>3 DEF ServerOn
    <2> QED  BY <2>2, <2>4 DEF AwayFromClient
  <1> QED
    BY <1>1, <1>2

(* The semaphores of a pair carry at most one token.                       *)
THEOREM TokensUnique == Spec => []OneToken
  <1> QED
    BY Invariant, Tokens, PTL

(* A pair of threads never waits for each other with no token on its way.  *)
THEOREM WakeupsKept == Spec => []NoLostWakeup
  <1> QED
    BY Invariant, Tokens, PTL

-----------------------------------------------------------------------------
(* A session implements LetterSearch                                       *)

(* The threads that have exited, and their numbers, stay.                  *)
LEMMA RetiredSame ==
  ASSUME \A p \in Thread : /\ pc'[p] = "exit" <=> pc[p] = "exit"
                           /\ pc[p] = "exit" => tid'[p] = tid[p]
  PROVE  \A s : Retired(s)' = Retired(s)
  BY DEF Retired

LEMMA RetiredOneMore ==
  ASSUME NEW p \in Thread, pc[p] # "exit", pc'[p] = "exit", UNCHANGED tid,
         \A q \in Thread : q # p => pc'[q] = pc[q]
  PROVE  /\ Retired(p[1])' = Retired(p[1]) \cup {tid[p]}
         /\ \A s : s # p[1] => Retired(s)' = Retired(s)
  BY DEF Retired

LEMMA SearchStep ==
  ASSUME IInv, [Next]_vars
  PROVE  [Search!Next]_(Search!vars)
  <1> USE Threads DEF IInv, memory, mains, startup, Goto
  <1> DEFINE done == <<Retired("client"), Retired("server")>>
  <1>0. \A i \in Id : Search!Block(i) = Block(i)
    BY DEF Search!Block, Block, Search!Position, Position, Search!Low, Low, Search!High, High
  <1>1. ASSUME UNCHANGED <<secret, shm1, pc>>,
               \A p \in Thread : pc[p] = "exit" => tid'[p] = tid[p]
        PROVE  UNCHANGED Search!vars
    BY <1>1, RetiredSame DEF Search!vars
  <1>2. ASSUME NEW s \in Side, Create(s) \/ Join(s) PROVE UNCHANGED Search!vars
    <2>1. CASE Create(s)
      <3> DEFINE p == <<s, created[s]>>
      <3>1. p \in Thread /\ pc[p] = "unborn"
        <4>1. created[s] \in Id
          BY <2>1, SizeAssumption DEF Create, ControlInv, TypeOK, Id
        <4> QED  BY <4>1, PairThread DEF ControlInv, MainInv, Id
      <3>2. pc' = [pc EXCEPT ![p] = "lock"] /\ UNCHANGED <<secret, shm1, tid>>
        BY <2>1 DEF Create
      <3> HIDE DEF p
      <3>3. \A q \in Thread : pc'[q] = "exit" <=> pc[q] = "exit"
        BY <3>1, <3>2 DEF ControlInv, TypeOK
      <3> QED  BY <3>2, <3>3, RetiredSame DEF Search!vars
    <2>2. CASE Join(s)
      BY <1>1, <2>2 DEF Join
    <2> QED  BY <1>2, <2>1, <2>2
  <1>3. ASSUME NEW p \in Thread, Start(p) PROVE UNCHANGED Search!vars
    <2>1. \A q \in Thread : /\ pc'[q] = "exit" <=> pc[q] = "exit"
                            /\ pc[q] = "exit" => tid'[q] = tid[q]
      BY <1>3 DEF Start, Lock, LoadNumber, StoreNumber, Unlock, ControlInv, TypeOK
    <2>2. UNCHANGED <<secret, shm1>>
      BY <1>3 DEF Start, Lock, LoadNumber, StoreNumber, Unlock
    <2> QED  BY <2>1, <2>2, RetiredSame DEF Search!vars
  <1>4. ASSUME NEW p \in Client, ClientLoop(p)
        PROVE  [Search!Next]_(Search!vars)
    <2>0. pc[p] # "exit" /\ p[1] = "client" /\ UNCHANGED <<secret, tid>>
      BY <1>4, LoopFrame DEF ControlInv, Client
    <2>1. \A q \in Thread : q # p => pc'[q] = pc[q]
      BY <1>4, LoopFrame DEF ControlInv, Client
    <2>2. ASSUME pc'[p] # "exit" PROVE UNCHANGED <<Retired("client"), Retired("server")>>
      BY <2>0, <2>1, <2>2, RetiredSame
    <2>3. CASE Fill(p)
      <3>1. /\ pc[p] = "fill" /\ InBlock(p) /\ shm1' = [shm1 EXCEPT ![at[p]] = First]
            /\ pc' = pc
        BY <2>3 DEF Fill
      <3>2. tid[p] \in Id /\ at[p] \in Block(tid[p]) /\ at[p] \in Int
        BY <3>1, AtBlock
      <3>3. shm1[at[p]] = Blank
        BY <3>1, <3>2 DEF DataInv, FillInv
      <3>4. Search!FirstGuess(at[p])
        BY <2>0, <2>2, <3>1, <3>3 DEF Search!FirstGuess
      <3> QED  BY <1>0, <3>2, <3>4 DEF Search!Next, Search!Id, Id
    <2>4. CASE ScanWrong(p)
      <3>1. /\ pc[p] = "scan" /\ InBlock(p) /\ shm2[at[p]] = 0 /\ pc' = pc
            /\ shm1' = [shm1 EXCEPT ![at[p]] = NextChar(@)]
        BY <2>4 DEF ScanWrong
      <3>2. tid[p] \in Id /\ at[p] \in Block(tid[p]) /\ at[p] \in Int /\ at[p] \in Position
        BY <3>1, AtBlock, BlockOf
      <3>3. shm1[at[p]] # Blank
        BY <3>1, <3>2 DEF DataInv, GuessInv
      <3>4. shm1[at[p]] # secret[at[p]]
        BY <3>1, <3>2 DEF DataInv, JudgedInv, Judged
      <3>5. secret[at[p]] \in Alphabet /\ shm1[at[p]] \in Char
        BY <3>2 DEF ControlInv, TypeOK
      <3>6. secret[at[p]] \in Int /\ secret[at[p]] <= CharMax /\ shm1[at[p]] \in Int
        <4>1. secret[at[p]] \in Int /\ secret[at[p]] <= CharMax
          BY <3>5, Letters
        <4>2. shm1[at[p]] \in Int
          BY <3>5, CharAssumption DEF Char
        <4> QED  BY <4>1, <4>2
      <3>7. shm1[at[p]] < secret[at[p]]
        BY <3>2, <3>3, <3>4, <3>6 DEF DataInv, GuessInv
      <3>8. NextChar(shm1[at[p]]) = shm1[at[p]] + 1
        BY <3>6, <3>7, CharAssumption DEF NextChar
      <3>9. shm1' = [shm1 EXCEPT ![at[p]] = shm1[at[p]] + 1]
        BY <3>1, <3>8
      <3>10. Search!NextGuess(at[p])
        BY <2>0, <2>2, <3>1, <3>3, <3>7, <3>9 DEF Search!NextGuess
      <3> QED  BY <1>0, <3>2, <3>10 DEF Search!Next, Search!Id, Id
    <2>5. CASE ScanEnds(p) /\ ~flag[p]
      <3>1. /\ pc[p] = "scan" /\ ~InBlock(p) /\ pc'[p] = "exit"
            /\ UNCHANGED <<secret, shm1>>
        BY <2>5 DEF ScanEnds, ControlInv, TypeOK
      <3>2. tid[p] \in Id /\ \A k \in Block(tid[p]) : k < at[p] /\ k \in Position
        BY <3>1, AtBlock, BlockOf
      <3>3. \A k \in Block(tid[p]) : shm1[k] = secret[k]
        BY <2>5, <3>1, <3>2 DEF DataInv, RightInv, VerdictStands
      <3>4. Search!Guessed(tid[p])
        BY <1>0, <3>2, <3>3 DEF Search!Guessed
      <3>5. /\ Retired("client")' = Retired("client") \cup {tid[p]}
            /\ Retired("server")' = Retired("server")
        BY <2>0, <2>1, <3>1, RetiredOneMore
      <3>6. Search!ClientRetires(tid[p])
        BY <3>1, <3>4, <3>5 DEF Search!ClientRetires
      <3> QED  BY <3>2, <3>6 DEF Search!Next, Search!Id, Id
    <2>6. CASE \/ FillEnds(p) \/ ClientPost(p) \/ ClientWait(p) \/ ScanRight(p)
               \/ ScanEnds(p) /\ flag[p]
      <3>1. pc'[p] # "exit" /\ UNCHANGED shm1
        BY <2>6 DEF FillEnds, ClientPost, ClientWait, ScanRight, ScanEnds, ControlInv, TypeOK
      <3> QED  BY <2>0, <2>2, <3>1 DEF Search!vars
    <2> QED  BY <1>4, <2>3, <2>4, <2>5, <2>6 DEF ClientLoop
  <1>5. ASSUME NEW q \in Server, ServerLoop(q)
        PROVE  [Search!Next]_(Search!vars)
    <2>0. pc[q] # "exit" /\ q[1] = "server" /\ UNCHANGED <<secret, tid>>
      BY <1>5, LoopFrame DEF ControlInv, Server
    <2>1. \A p \in Thread : p # q => pc'[p] = pc[p]
      BY <1>5, LoopFrame DEF ControlInv, Server
    <2>2. UNCHANGED shm1
      BY <1>5 DEF ServerLoop, FoundWrong, FoundRight, FoundEnds, ServerWait,
                  Compare, CompareEnds, ServerPost
    <2>3. CASE FoundEnds(q)
      <3>1. pc[q] = "found" /\ ~InBlock(q) /\ pc'[q] = "exit"
        BY <2>3 DEF FoundEnds, ControlInv, TypeOK
      <3>2. tid[q] \in Id /\ \A k \in Block(tid[q]) : k < at[q] /\ k \in Position
        BY <3>1, AtBlock, BlockOf
      <3>3. \A k \in Block(tid[q]) : shm1[k] = secret[k]
        BY <3>1, <3>2 DEF DataInv, RightInv, VerdictStands
      <3>4. Search!Guessed(tid[q])
        BY <1>0, <3>2, <3>3 DEF Search!Guessed
      <3>5. /\ Retired("server")' = Retired("server") \cup {tid[q]}
            /\ Retired("client")' = Retired("client")
        BY <2>0, <2>1, <3>1, RetiredOneMore
      <3>6. Search!ServerRetires(tid[q])
        BY <2>0, <2>2, <3>4, <3>5 DEF Search!ServerRetires
      <3> QED  BY <3>2, <3>6 DEF Search!Next, Search!Id, Id
    <2>4. CASE ~FoundEnds(q)
      <3>1. pc'[q] # "exit"
        BY <1>5, <2>4
        DEF ServerLoop, FoundWrong, FoundRight, ServerWait, Compare, CompareEnds, ServerPost,
            ControlInv, TypeOK
      <3>2. UNCHANGED <<Retired("client"), Retired("server")>>
        BY <2>0, <2>1, <3>1, RetiredSame
      <3> QED  BY <2>0, <2>2, <3>2 DEF Search!vars
    <2> QED  BY <2>3, <2>4
  <1>6. ASSUME UNCHANGED vars PROVE UNCHANGED Search!vars
    BY <1>1, <1>6 DEF vars
  <1> QED
    BY NextCases, <1>2, <1>3, <1>4, <1>5, <1>6 DEF StepCases

(* The threads, semaphores and segments implement the search: every guess  *)
(* goes up one letter at a time to the secret letter, and no thread of     *)
(* either process exits before its whole block is guessed.                 *)
THEOREM Refinement == Spec => SearchSpec
  <1>1. Init => Search!Init
    <2> SUFFICES ASSUME Init PROVE Search!Init
      OBVIOUS
    <2>1. Retired("client") = {} /\ Retired("server") = {}
      BY DEF Init, Retired
    <2> QED  BY <2>1 DEF Init, Search!Init, Search!Position, Position
  <1>2. IInv /\ [Next]_vars => [Search!Next]_(Search!vars)
    BY SearchStep
  <1> QED
    BY <1>1, <1>2, Invariant, PTL DEF Spec, SearchSpec, Search!Spec

-----------------------------------------------------------------------------
(* What the server reports                                                 *)

LEMMA DivBounds ==
  ASSUME NEW k \in Nat, NEW c \in Nat \ {0}
  PROVE  k \div c \in Int /\ (k \div c) * c <= k /\ k < (k \div c + 1) * c
  OBVIOUS

(* When M divides N, every position is in the block of some number.        *)
LEMMA Covered ==
  ASSUME N % M = 0, NEW k \in Position
  PROVE  \E i \in Id : k \in Block(i)
  <1> DEFINE c == N \div M
             i == k \div c
  <1>1. c \in Nat /\ N = M * c /\ k \in Nat /\ k < N
    BY SizeAssumption DEF Position
  <1>2. c # 0
    BY <1>1, SizeAssumption
  <1>3. i \in Int /\ i * c <= k /\ k < (i + 1) * c
    <2> HIDE DEF c
    <2> QED  BY <1>1, <1>2, DivBounds
  <1>4. (i + 1) * c = High(i) /\ i * c = Low(i)
    BY DEF High, Low
  <1> HIDE DEF c, i
  <1>5. 0 <= i
    <2> SUFFICES ASSUME i + 1 <= 0 PROVE FALSE
      BY <1>3
    <2>1. (i + 1) * c <= 0 * c
      BY <1>1, <1>3, MultMono
    <2>2. 0 * c = 0 /\ (i + 1) * c \in Int
      BY <1>1, <1>3
    <2> QED  BY <1>1, <1>3, <2>1, <2>2
  <1>6. i < M
    <2> SUFFICES ASSUME M <= i PROVE FALSE
      BY <1>3, SizeAssumption
    <2>1. M * c <= i * c
      BY <1>1, <1>3, SizeAssumption, MultMono
    <2>2. M * c \in Int /\ i * c \in Int
      BY <1>1, <1>3, SizeAssumption
    <2> QED  BY <1>1, <1>3, <2>1, <2>2
  <1>7. i \in Id
    BY <1>3, <1>5, <1>6, SizeAssumption DEF Id
  <1>8. k \in Block(i)
    BY <1>3, <1>4 DEF Block
  <1> QED
    BY <1>7, <1>8

(* M threads with distinct numbers below M have all the numbers.           *)
LEMMA AllNumbersTaken ==
  ASSUME ControlInv, \A j \in Id : tid[<<"server", j>>] # NoId, NEW i \in Id
  PROVE  \E q \in Server : tid[q] = i
  <1> SUFFICES ASSUME \A q \in Server : tid[q] # i PROVE FALSE
    OBVIOUS
  <1> DEFINE f == [j \in Id |-> tid[<<"server", j>>]]
             T == Id \ {i}
  <1>1. \A j \in Id : <<"server", j>> \in Server /\ <<"server", j>> \in Thread
    BY PairThread DEF Server, Side
  <1>2. f \in [Id -> T]
    BY <1>1, NumberBound DEF NumbersInRange, ControlInv
  <1>3. IsFiniteSet(Id) /\ Cardinality(Id) = M
    BY SizeAssumption, FS_Interval DEF Id
  <1>4. IsFiniteSet(T) /\ Cardinality(T) = M - 1
    BY <1>3, FS_RemoveElement
  <1>5. PICK x \in Id, y \in Id : x # y /\ f[x] = f[y]
    <2> HIDE DEF f, T
    <2>1. Cardinality(T) < Cardinality(Id)
      BY <1>3, <1>4, SizeAssumption
    <2> QED  BY <1>2, <1>3, <1>4, <2>1, FS_PigeonHole
  <1>6. <<"server", x>> = <<"server", y>>
    BY <1>1, <1>5 DEF ControlInv, DistinctIds, Server
  <1> QED
    BY <1>5, <1>6

LEMMA Reported == N % M = 0 /\ IInv => ClientFoundTheString
  <1> SUFFICES ASSUME N % M = 0, ControlInv, DataInv, joined["server"] = M, NEW k \in Position
               PROVE  shm1[k] = secret[k]
    BY DEF IInv, ClientFoundTheString
  <1>1. PICK i \in Id : k \in Block(i)
    BY Covered
  <1>2. \A j \in Id : pc[<<"server", j>>] = "exit" /\ <<"server", j>> \in Thread
    <2> SUFFICES ASSUME NEW j \in Id
                 PROVE  pc[<<"server", j>>] = "exit" /\ <<"server", j>> \in Thread
      OBVIOUS
    <2>1. "server" \in Side /\ j < joined["server"]
      BY SizeAssumption DEF Side, Id
    <2> QED  BY <2>1, PairThread DEF ControlInv, MainInv
  <1>3. \A j \in Id : tid[<<"server", j>>] # NoId
    BY <1>2 DEF ControlInv, StartInv, Unnumbered
  <1>4. PICK q \in Server : tid[q] = i
    BY <1>3, AllNumbersTaken
  <1>5. pc[q] = "exit" /\ q \in Thread
    BY <1>2, ThreadPair, Threads DEF Server
  <1> QED
    BY <1>1, <1>4, <1>5 DEF DataInv, RightInv, VerdictStands

(* When the number of threads divides the length of the string, the server *)
(* is right to report, once it has joined its threads, that the client     *)
(* found the string.                                                       *)
THEOREM FoundWhenDivisible == ASSUME N % M = 0 PROVE Spec => []ClientFoundTheString
  <1>1. IInv => ClientFoundTheString
    BY Reported
  <1> QED
    BY <1>1, Invariant, PTL
=============================================================================

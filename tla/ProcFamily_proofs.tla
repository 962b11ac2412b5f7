--------------------------- MODULE ProcFamily_proofs ---------------------------
(***************************************************************************)
(* Types, the lists that a walk follows, and which processes it reaches,   *)
(* for any number of processes, callers and limits.                        *)
(***************************************************************************)
EXTENDS ProcFamily, TaskLists_proofs

-----------------------------------------------------------------------------
(* The kernel: trees, lists and lines of descent                           *)

TaskState == {"free", "copied", "alive", "zombie", "gone"}

KernelTypes ==
  /\ state \in [Task -> TaskState]
  /\ parent \in [Task -> Task \cup {None}]
  /\ children \in [Task -> Seq(Task)]
  /\ line \in [Task -> SUBSET Task]

(* Whoever has a parent has one that is alive.                             *)
Parented(t) ==
  IF parent[t] = None THEN state[t] \in {"free", "gone"} \/ t = init
  ELSE state[t] \in {"copied", "alive", "zombie"} /\ state[parent[t]] = "alive"

(* The list of p has the children of p, each of them once.                 *)
ListOf(p) ==
  /\ Distinct(children[p])
  /\ \A t \in Task : t \in Range(children[p]) <=> Listed(t) /\ parent[t] = p

TreeInv ==
  /\ state[init] = "alive" /\ parent[init] = None
  /\ \A t \in Task : Parented(t)
  /\ \A p \in Task : ListOf(p)

(* Everybody descends from init, and from all that his parent descends     *)
(* from.                                                                   *)
LineOf(t) ==
  /\ t \in line[t] /\ init \in line[t]
  /\ parent[t] # None => line[parent[t]] \subseteq line[t]

LineInv ==
  /\ line[init] = {init}
  /\ \A t \in Task : state[t] \in {"copied", "alive", "zombie"} => LineOf(t)

KernelInv == KernelTypes /\ TreeInv /\ LineInv

-----------------------------------------------------------------------------
(* The calls                                                               *)

(* The fields of three numbers, each of its type.                          *)
FieldTypes == fields \in [Task -> (Task \cup {-1}) \X (Value \cup {-1}) \X (Value \cup {-1})]

Calls ==
  [pc : {"idle", "walk", "astray"}, args : {NotSet} \cup (Task \X Value \X Value),
   before : SUBSET Task, calm : BOOLEAN, alone : BOOLEAN, stack : Seq(Frame)]

(* An activation points into the lists, and never to init as a child.      *)
FrameOf(f) ==
  /\ f.cur \in InLists
  /\ f.at \in Task => f.at \in InLists /\ f.at # init /\ f.store = 4
  /\ f.at = AtHead => f.store = 4

StackOf(c) ==
  LET s == call[c].stack IN
  /\ call[c].args \in Task \X Value \X Value
  /\ Len(s) >= 1
  /\ \A k \in 1 .. Len(s) : FrameOf(s[k])
  /\ \A k \in 1 .. Len(s) - 1 : s[k].at \in Task

(* While nobody exits, an activation is at a child of its process, which   *)
(* descends from the process of the call.                                  *)
CalmFrame(f, root) ==
  /\ Listed(f.cur) /\ root \in line[f.cur]
  /\ f.at \in Task => Listed(f.at) /\ parent[f.at] = f.cur

CalmInv(c) ==
  InWalk(c) /\ call[c].calm =>
    \A k \in 1 .. Len(call[c].stack) : CalmFrame(call[c].stack[k], call[c].args[1])

CallInv ==
  /\ FieldTypes /\ call \in [Caller -> Calls]
  /\ \A c \in Caller : (InWalk(c) => StackOf(c)) /\ CalmInv(c)

(* While nobody else calls either, what a walk has left behind has been    *)
(* set: the fields of each process on the stack, and all that was below    *)
(* the children its loop has passed.                                       *)
Family == [x \in Task |-> Below(x)]

Done(c, x) == \A t \in Family[x] \cap call[c].before : fields[t] = call[c].args

SetFrame(c, f) ==
  LET list == children[f.cur] IN
  /\ \A i \in 1 .. 3 : i < f.store => fields[f.cur][i] = call[c].args[i]
  /\ f.at \in Task => \A j \in 1 .. Len(list) : j < Place(list, f.at) => Done(c, list[j])
  /\ f.at = AtHead => \A j \in 1 .. Len(list) : Done(c, list[j])

SetInv(c) ==
  LET s == call[c].stack IN
  InWalk(c) /\ call[c].calm /\ call[c].alone =>
    /\ \A d \in Caller : InWalk(d) => d = c
    /\ s[1].cur = call[c].args[1]
    /\ \A k \in 1 .. Len(s) - 1 : s[k + 1].cur = s[k].at
    /\ \A k \in 1 .. Len(s) : SetFrame(c, s[k])

BeforeInv ==
  \A c \in Caller : \A t \in call[c].before : state[t] \notin {"free", "copied"}

FamilyInv == KernelInv /\ CallInv /\ BeforeInv /\ \A c \in Caller : SetInv(c)

-----------------------------------------------------------------------------
(* Below is the least set closed under children                            *)

LEMMA BelowSelf ==
  ASSUME NEW t \in Task
  PROVE  t \in Below(t) /\ Below(t) \subseteq Task
  BY DEF Below

LEMMA BelowClosed ==
  ASSUME NEW t \in Task, NEW u \in Task, Listed(u), parent[u] \in Below(t)
  PROVE  u \in Below(t)
  <1>1. ASSUME NEW S \in SUBSET Task, t \in S,
               \A v \in Task : Listed(v) /\ parent[v] \in S => v \in S
        PROVE  u \in S
    <2>1. parent[u] \in S
      BY <1>1 DEF Below
    <2> QED  BY <1>1, <2>1
  <1> QED
    BY <1>1 DEF Below

LEMMA BelowLeast ==
  ASSUME NEW t \in Task, NEW S \in SUBSET Task, t \in S,
         \A u \in Task : Listed(u) /\ parent[u] \in S => u \in S
  PROVE  Below(t) \subseteq S
  BY DEF Below

(* What is below a process: itself, and what is below its children.        *)
LEMMA BelowChildren ==
  ASSUME KernelInv, NEW x \in Task, NEW t \in Below(x), t # x
  PROVE  \E s \in Range(children[x]) : t \in Below(s)
  <1> DEFINE S == {x} \cup {u \in Task : \E s \in Range(children[x]) : u \in Below(s)}
  <1>1. \A s \in Task : s \in Range(children[x]) <=> Listed(s) /\ parent[s] = x
    BY DEF KernelInv, TreeInv, ListOf
  <1>2. Range(children[x]) \subseteq Task
    <2>1. children[x] \in Seq(Task)
      BY DEF KernelInv, KernelTypes
    <2> QED  BY <2>1, RangeOfSeq
  <1>3. ASSUME NEW u \in Task, Listed(u), parent[u] \in S
        PROVE  u \in S
    <2>1. CASE parent[u] = x
      BY <1>1, <1>3, <2>1, BelowSelf
    <2>2. CASE parent[u] # x
      <3>1. PICK s \in Range(children[x]) : parent[u] \in Below(s)
        BY <1>3, <2>2
      <3>2. u \in Below(s)
        BY <1>2, <1>3, <3>1, BelowClosed
      <3> QED  BY <3>2
    <2> QED  BY <2>1, <2>2
  <1>4. S \in SUBSET Task /\ x \in S
    OBVIOUS
  <1> HIDE DEF S
  <1>5. Below(x) \subseteq S
    BY <1>3, <1>4, BelowLeast
  <1> QED
    BY <1>5 DEF S

-----------------------------------------------------------------------------
(* The initial trees                                                       *)

LEMMA ByPidList ==
  ASSUME TaskAssumption, NEW S \in SUBSET Task
  PROVE  ByPid(S) \in Seq(Task) /\ Distinct(ByPid(S)) /\ Range(ByPid(S)) = S
  <1> DEFINE N == Cardinality(S)
             b == ByPid(S)
  <1>1. IsFiniteSet(S) /\ N \in Nat /\ S \subseteq Nat
    BY FS_Subset, FS_CardinalityType DEF TaskAssumption
  <1>2. b \in [1 .. N -> S] /\ \A m, n \in 1 .. N : m < n => b[m] < b[n]
    <2>1. PICK s : Ordered(s, S)
      BY <1>1, OrderExists
    <2> QED  BY <2>1 DEF Ordered, ByPid
  <1> HIDE DEF b
  <1>3. b \in Seq(Task) /\ DOMAIN b = 1 .. N
    <2>1. \A i \in 1 .. N : b[i] \in Task
      BY <1>2
    <2>2. b = [i \in 1 .. N |-> b[i]]
      BY <1>2
    <2> QED  BY <1>1, <1>2, <2>1, <2>2
  <1>4. ASSUME NEW j \in 1 .. N, NEW k \in 1 .. N, b[j] = b[k]
        PROVE  j = k
    <2>1. b[j] \in Nat /\ b[k] \in Nat
      BY <1>1, <1>2
    <2>2. ~(j < k) /\ ~(k < j)
      BY <1>2, <1>4, <2>1
    <2> QED  BY <2>2
  <1>5. Distinct(b)
    BY <1>3, <1>4 DEF Distinct
  <1>6. b \in Injection(1 .. N, S)
    BY <1>2, <1>4 DEF Injection, IsInjective
  <1>7. Cardinality(1 .. N) = N /\ IsFiniteSet(1 .. N)
    <2>1. 1 \in Int /\ N \in Int /\ (IF 1 > N THEN 0 ELSE N - 1 + 1) = N
      BY <1>1
    <2> QED  BY <2>1, FS_Interval
  <1>8. b \in Surjection(1 .. N, S)
    BY <1>1, <1>6, <1>7, FS_Injection
  <1>9. Range(b) = S
    BY <1>2, <1>3, <1>8 DEF Surjection, Range
  <1> QED
    BY <1>3, <1>5, <1>9 DEF b

LEMMA InitTypes ==
  ASSUME TaskAssumption, Init
  PROVE  KernelTypes /\ TreeInv
  <1> USE DEF TaskAssumption
  <1>1. None \notin Task /\ init \in Task
    BY DEF None
  <1>2. state \in [Task -> TaskState] /\ parent \in [Task -> Task \cup {None}]
    BY DEF Init, TaskState
  <1>3. \A p \in Task : children[p] = ByPid({s \in Task : parent[s] = p})
    BY DEF Init
  <1>4. \A p \in Task : children[p] \in Seq(Task) /\ Distinct(children[p])
                        /\ Range(children[p]) = {s \in Task : parent[s] = p}
    BY <1>3, ByPidList
  <1>5. children \in [Task -> Seq(Task)]
    BY <1>4 DEF Init
  <1>6. line \in [Task -> SUBSET Task]
    BY DEF Init
  <1>7. state[init] = "alive" /\ parent[init] = None
    BY <1>1 DEF Init
  <1>8. \A t \in Task : Parented(t)
    BY <1>1 DEF Init, Parented
  <1>9. ASSUME NEW p \in Task PROVE ListOf(p)
    <2>1. \A t \in Task : parent[t] = p => state[t] = "alive"
      BY <1>1 DEF Init
    <2>2. \A t \in Task : parent[t] = p => Listed(t)
      BY <2>1 DEF Listed
    <2> QED  BY <1>4, <2>2 DEF ListOf
  <1> QED
    BY <1>2, <1>5, <1>6, <1>7, <1>8, <1>9 DEF KernelTypes, TreeInv

LEMMA InitLines ==
  ASSUME TaskAssumption, Init
  PROVE  LineInv
  <1> USE DEF TaskAssumption
  <1>1. None \notin Task /\ init \in Task
    BY DEF None
  <1>2. \A t, s \in Task : s \in line[t] <=> t \in Below(s)
    BY DEF Init
  <1>3. \A t \in Task : line[t] \subseteq Task
    BY DEF Init
  <1>4. \A t \in Task : state[t] \in {"alive", "free"}
    BY DEF Init
  <1>5. \A t \in Task : state[t] = "alive" /\ t # init =>
           parent[t] \in Task /\ parent[t] < t /\ state[parent[t]] = "alive"
    BY DEF Init
  <1>6. parent[init] = None
    BY <1>1 DEF Init
  <1>7. ASSUME NEW s \in Task, s # init
        PROVE  init \notin Below(s)
    <2> DEFINE S == Task \ {init}
    <2>1. s \in S /\ S \in SUBSET Task /\ \A u \in Task : Listed(u) /\ parent[u] \in S => u \in S
      BY <1>1, <1>6, <1>7
    <2> HIDE DEF S
    <2>2. Below(s) \subseteq S
      BY <2>1, BelowLeast
    <2> QED  BY <2>2 DEF S
  <1>8. line[init] = {init}
    BY <1>1, <1>2, <1>3, <1>7, BelowSelf
  <1>9. ASSUME {t \in Task : state[t] = "alive" /\ init \notin line[t]} # {}
        PROVE  FALSE
    <2> DEFINE Bad == {t \in Task : state[t] = "alive" /\ init \notin line[t]}
    <2>1. Bad \in SUBSET Nat
      OBVIOUS
    <2>2. PICK t \in Bad : \A u \in Bad : t <= u
      BY <1>9, <2>1, LeastNumber
    <2>3. t # init
      BY <1>8, <2>2
    <2>4. parent[t] \in Task /\ parent[t] < t /\ state[parent[t]] = "alive" /\ t \in Task
      BY <1>5, <2>2, <2>3
    <2>5. ~(t <= parent[t])
      <3>1. parent[t] \in Nat /\ t \in Nat
        BY <2>4
      <3> QED  BY <2>4, <3>1
    <2>6. parent[t] \notin Bad
      BY <2>2, <2>5
    <2>7. parent[t] \in Below(init)
      BY <1>1, <1>2, <2>4, <2>6
    <2>8. Listed(t)
      BY <2>2 DEF Listed
    <2>9. t \in Below(init)
      BY <1>1, <2>4, <2>7, <2>8, BelowClosed
    <2> QED  BY <1>1, <1>2, <2>2, <2>9
  <1>10. ASSUME NEW t \in Task, state[t] \in {"copied", "alive", "zombie"}
         PROVE  LineOf(t)
    <2>1. state[t] = "alive" /\ Listed(t)
      BY <1>4, <1>10 DEF Listed
    <2>2. t \in line[t] /\ init \in line[t]
      BY <1>2, <1>9, <2>1, BelowSelf
    <2>3. ASSUME parent[t] # None, NEW s \in line[parent[t]]
          PROVE  s \in line[t]
      <3>1. t # init /\ parent[t] \in Task
        BY <1>5, <1>6, <2>1, <2>3
      <3>2. s \in Task /\ parent[t] \in Below(s)
        BY <1>2, <1>3, <2>3, <3>1
      <3>3. t \in Below(s)
        BY <2>1, <3>2, BelowClosed
      <3> QED  BY <1>2, <3>2, <3>3
    <2> QED  BY <2>2, <2>3 DEF LineOf
  <1> QED
    BY <1>8, <1>10 DEF LineInv

LEMMA InitFamily ==
  ASSUME TaskAssumption, Init
  PROVE  FamilyInv
  <1>1. KernelInv
    BY InitTypes, InitLines DEF KernelInv
  <1>2. fields = [t \in Task |-> <<-1, -1, -1>>] /\ call = [c \in Caller |-> Outside("idle")]
    BY DEF Init, NotSet
  <1>3. FieldTypes
    BY <1>2 DEF FieldTypes
  <1>4. ASSUME NEW c \in Caller
        PROVE  call[c] \in Calls /\ ~InWalk(c) /\ call[c].before = {}
    <2>1. call[c] = Outside("idle")
      BY <1>2
    <2>2. << >> \in Seq(Frame)
      BY EmptySeq
    <2> QED  BY <2>1, <2>2 DEF Outside, Calls, InWalk
  <1>5. CallInv
    BY <1>2, <1>3, <1>4 DEF CallInv, CalmInv
  <1>6. BeforeInv /\ \A c \in Caller : SetInv(c)
    BY <1>4 DEF BeforeInv, SetInv
  <1> QED
    BY <1>1, <1>5, <1>6 DEF FamilyInv

-----------------------------------------------------------------------------
(* The steps of the kernel keep its lists and lines                        *)

LEMMA InvParents ==
  ASSUME TaskAssumption, KernelInv
  PROVE  /\ None \notin Task /\ init \in Task
         /\ \A u \in Task : parent[u] # None => parent[u] \in Task /\ state[parent[u]] = "alive"
                                               /\ state[u] \in {"copied", "alive", "zombie"}
         /\ \A u \in Task : parent[u] = None => state[u] \in {"free", "gone"} \/ u = init
  BY DEF TaskAssumption, None, KernelInv, KernelTypes, TreeInv, Parented

LEMMA CopyKernel ==
  ASSUME TaskAssumption, KernelInv, NEW t \in Task, Copy(t)
  PROVE  KernelInv'
  <1>1. PICK n \in Task :
          /\ state[n] = "free"
          /\ state' = [state EXCEPT ![n] = "copied"]
          /\ parent' = [parent EXCEPT ![n] = t]
          /\ line' = [line EXCEPT ![n] = line[t] \cup {n}]
    BY DEF Copy
  <1>2. state[t] = "alive" /\ children' = children
    BY DEF Copy, AtWork
  <1>3. KernelTypes
    BY DEF KernelInv
  <1>4. KernelTypes'
    BY <1>1, <1>2, <1>3 DEF KernelTypes, TaskState
  <1>5. \A u \in Task : u # n => state'[u] = state[u] /\ parent'[u] = parent[u] /\ line'[u] = line[u]
    BY <1>1, <1>3 DEF KernelTypes
  <1>6. state'[n] = "copied" /\ parent'[n] = t /\ line'[n] = line[t] \cup {n} /\ t # n
    BY <1>1, <1>2, <1>3 DEF KernelTypes
  <1>7. \A u \in Task : parent[u] # n
    BY <1>1, InvParents
  <1>8. state'[init] = "alive" /\ parent'[init] = None /\ n # init
    BY <1>1, <1>5, InvParents DEF KernelInv, TreeInv
  <1>9. ASSUME NEW u \in Task PROVE Parented(u)'
    <2>1. CASE u = n
      BY <1>2, <1>5, <1>6, <2>1, InvParents DEF Parented
    <2>2. CASE u # n
      <3>1. Parented(u) /\ (parent[u] # None => parent[u] \in Task)
        BY InvParents DEF KernelInv, TreeInv
      <3> QED  BY <1>5, <1>7, <2>2, <3>1 DEF Parented
    <2> QED  BY <2>1, <2>2
  <1>10. \A u \in Task : Listed(u)' <=> Listed(u)
    BY <1>1, <1>5, <1>6 DEF Listed
  <1>11. ASSUME NEW p \in Task PROVE ListOf(p)'
    <2>1. \A u \in Task : Listed(u)' /\ parent'[u] = p <=> Listed(u) /\ parent[u] = p
      BY <1>1, <1>5, <1>10 DEF Listed
    <2>2. ListOf(p)
      BY DEF KernelInv, TreeInv
    <2> QED  BY <1>2, <2>1, <2>2 DEF ListOf
  <1>12. LineInv'
    <2>1. line'[init] = {init}
      BY <1>5, <1>8, InvParents DEF KernelInv, LineInv
    <2>2. ASSUME NEW u \in Task, state'[u] \in {"copied", "alive", "zombie"} PROVE LineOf(u)'
      <3>1. CASE u = n
        <4>1. LineOf(t)
          BY <1>2 DEF KernelInv, LineInv
        <4> QED  BY <1>5, <1>6, <3>1, <4>1 DEF LineOf
      <3>2. CASE u # n
        <4>1. LineOf(u) /\ (parent[u] # None => parent[u] \in Task)
          BY <1>5, <2>2, <3>2, InvParents DEF KernelInv, LineInv
        <4> QED  BY <1>5, <1>7, <3>2, <4>1 DEF LineOf
      <3> QED  BY <3>1, <3>2
    <2> QED  BY <2>1, <2>2 DEF LineInv
  <1> QED
    BY <1>4, <1>8, <1>9, <1>11, <1>12 DEF KernelInv, TreeInv

LEMMA LinkKernel ==
  ASSUME TaskAssumption, KernelInv, NEW n \in Task, Link(n)
  PROVE  KernelInv'
  <1> DEFINE p == parent[n]
  <1>1. /\ state[n] = "copied" /\ state' = [state EXCEPT ![n] = "alive"]
        /\ children' = [children EXCEPT ![p] = Append(@, n)]
        /\ parent' = parent /\ line' = line
    BY DEF Link
  <1>2. KernelTypes
    BY DEF KernelInv
  <1>3. p \in Task /\ state[p] = "alive" /\ p # n
    BY <1>1, InvParents DEF KernelInv, TreeInv
  <1> HIDE DEF p
  <1>4. Append(children[p], n) \in Seq(Task) /\ Range(Append(children[p], n)) = Range(children[p]) \cup {n}
        /\ (n \notin Range(children[p]) => Distinct(Append(children[p], n)))
    <2>1. children[p] \in Seq(Task) /\ Distinct(children[p])
      BY <1>2, <1>3 DEF KernelTypes, KernelInv, TreeInv, ListOf
    <2> QED  BY <2>1, AppendList
  <1>5. KernelTypes'
    BY <1>1, <1>2, <1>3, <1>4 DEF KernelTypes, TaskState
  <1>6. \A u \in Task : u # n => state'[u] = state[u]
    BY <1>1, <1>2 DEF KernelTypes
  <1>7. state'[n] = "alive"
    BY <1>1, <1>2 DEF KernelTypes
  <1>8. \A u \in Task : Listed(u)' <=> Listed(u) \/ u = n
    BY <1>1, <1>6, <1>7 DEF Listed
  <1>9. ~Listed(n) /\ parent[n] = p
    BY <1>1 DEF Listed, p
  <1>10. \A u \in Task : Parented(u)'
    <2>1. \A u \in Task : Parented(u) /\ (parent[u] # None => parent[u] \in Task)
      BY InvParents DEF KernelInv, TreeInv
    <2> QED  BY <1>1, <1>3, <1>6, <1>7, <1>9, <2>1 DEF Parented
  <1>11. ASSUME NEW q \in Task PROVE ListOf(q)'
    <2>1. ListOf(q)
      BY DEF KernelInv, TreeInv
    <2>2. CASE q = p
      <3>1. children'[q] = Append(children[p], n)
        BY <1>1, <1>2, <1>3, <2>2 DEF KernelTypes
      <3>2. n \notin Range(children[p])
        BY <1>9, <2>1, <2>2 DEF ListOf
      <3>3. \A u \in Task : u \in Range(children'[q]) <=> Listed(u)' /\ parent'[u] = q
        BY <1>1, <1>4, <1>8, <1>9, <2>1, <2>2, <3>1 DEF ListOf
      <3> QED  BY <1>4, <3>1, <3>2, <3>3 DEF ListOf
    <2>3. CASE q # p
      <3>1. children'[q] = children[q]
        BY <1>1, <1>2, <2>3 DEF KernelTypes
      <3>2. \A u \in Task : u \in Range(children'[q]) <=> Listed(u)' /\ parent'[u] = q
        BY <1>1, <1>8, <1>9, <2>1, <2>3, <3>1 DEF ListOf
      <3> QED  BY <2>1, <3>1, <3>2 DEF ListOf
    <2> QED  BY <2>2, <2>3
  <1>12. LineInv'
    <2>1. line'[init] = {init}
      BY <1>1 DEF KernelInv, LineInv
    <2>2. \A u \in Task : state'[u] \in {"copied", "alive", "zombie"} => LineOf(u)'
      BY <1>1, <1>6 DEF KernelInv, LineInv, LineOf
    <2> QED  BY <2>1, <2>2 DEF LineInv
  <1>13. state'[init] = "alive" /\ parent'[init] = None
    BY <1>1, <1>6, <1>7, InvParents DEF KernelInv, TreeInv
  <1> QED
    BY <1>5, <1>10, <1>11, <1>12, <1>13 DEF KernelInv, TreeInv

LEMMA ExitKernel ==
  ASSUME TaskAssumption, KernelInv, NEW t \in Task, Exit(t)
  PROVE  KernelInv'
  <1>1. /\ state[t] = "alive" /\ ~Forking(t) /\ t # init
        /\ state' = [state EXCEPT ![t] = "zombie"]
        /\ parent' = [s \in Task |-> IF Listed(s) /\ parent[s] = t THEN init ELSE parent[s]]
        /\ children' = [children EXCEPT ![init] = @ \o children[t], ![t] = << >>]
        /\ line' = line
    BY DEF Exit, AtWork
  <1>2. KernelTypes /\ init \in Task
    BY InvParents DEF KernelInv
  <1>3. /\ children[init] \o children[t] \in Seq(Task)
        /\ Range(children[init] \o children[t]) = Range(children[init]) \cup Range(children[t])
        /\ Distinct(children[init] \o children[t])
    <2>1. /\ children[init] \in Seq(Task) /\ Distinct(children[init])
          /\ children[t] \in Seq(Task) /\ Distinct(children[t])
      BY <1>2 DEF KernelTypes, KernelInv, TreeInv, ListOf
    <2>2. Range(children[init]) \cap Range(children[t]) = {}
      <3>1. ASSUME NEW u \in Range(children[init]), u \in Range(children[t]) PROVE FALSE
        <4>1. u \in Task
          BY <2>1, RangeOfSeq
        <4> QED  BY <1>1, <1>2, <3>1, <4>1 DEF KernelInv, TreeInv, ListOf
      <3> QED  BY <3>1
    <2> QED  BY <2>1, <2>2, ConcatList
  <1>4. \A u \in Task : u # t => state'[u] = state[u]
    BY <1>1, <1>2 DEF KernelTypes
  <1>5. state'[t] = "zombie"
    BY <1>1, <1>2 DEF KernelTypes
  <1>6. \A u \in Task : Listed(u)' <=> Listed(u)
    BY <1>1, <1>4, <1>5 DEF Listed
  <1>7. \A u \in Task : parent'[u] = IF Listed(u) /\ parent[u] = t THEN init ELSE parent[u]
    BY <1>1
  <1>8. \A u \in Task : ~Listed(u) => parent[u] # t
    BY <1>1, InvParents DEF Forking, Listed
  <1>9. /\ children'[init] = children[init] \o children[t] /\ children'[t] = << >>
        /\ \A q \in Task : q # init /\ q # t => children'[q] = children[q]
    BY <1>1, <1>2 DEF KernelTypes
  <1>10. KernelTypes'
    <2>1. state' \in [Task -> TaskState]
      BY <1>1, <1>2 DEF KernelTypes, TaskState
    <2>2. parent' \in [Task -> Task \cup {None}]
      BY <1>1, <1>2 DEF KernelTypes
    <2>3. << >> \in Seq(Task)
      BY EmptySeq
    <2>4. children' \in [Task -> Seq(Task)]
      BY <1>1, <1>2, <1>3, <2>3 DEF KernelTypes
    <2>5. line' \in [Task -> SUBSET Task]
      BY <1>1, <1>2 DEF KernelTypes
    <2> QED  BY <2>1, <2>2, <2>4, <2>5 DEF KernelTypes
  <1>11. state'[init] = "alive" /\ parent'[init] = None
    <2>1. init \in Task /\ None \notin Task
      BY InvParents
    <2> QED  BY <1>1, <1>4, <1>7, <2>1 DEF KernelInv, TreeInv
  <1>12. ASSUME NEW u \in Task PROVE Parented(u)'
    <2>1. Parented(u) /\ (parent[u] # None => parent[u] \in Task) /\ t # None /\ init # None
      BY InvParents DEF KernelInv, TreeInv
    <2>2. CASE parent[u] = t
      BY <1>4, <1>5, <1>7, <1>8, <1>11, <2>1, <2>2 DEF Parented, Listed
    <2>3. CASE parent[u] # t
      BY <1>1, <1>4, <1>5, <1>7, <2>1, <2>3 DEF Parented
    <2> QED  BY <2>2, <2>3
  <1>13. ASSUME NEW q \in Task PROVE ListOf(q)'
    <2>1. ListOf(q) /\ ListOf(init) /\ ListOf(t)
      BY <1>2 DEF KernelInv, TreeInv
    <2>2. CASE q = init
      BY <1>1, <1>3, <1>6, <1>7, <1>9, <2>1, <2>2 DEF ListOf
    <2>3. CASE q = t
      <3>1. \A u \in Task : u \notin Range(children'[q])
        BY <1>9, <2>3, EmptySeq DEF Range
      <3>2. Distinct(children'[q])
        BY <1>9, <2>3, EmptySeq DEF Distinct
      <3>3. \A u \in Task : ~(Listed(u)' /\ parent'[u] = q)
        BY <1>1, <1>6, <1>7, <2>3
      <3> QED  BY <3>1, <3>2, <3>3 DEF ListOf
    <2>4. CASE q # init /\ q # t
      BY <1>6, <1>7, <1>9, <2>1, <2>4 DEF ListOf
    <2> QED  BY <2>2, <2>3, <2>4
  <1>14. LineInv'
    <2>1. line'[init] = {init} /\ line[init] = {init}
      BY <1>1 DEF KernelInv, LineInv
    <2>2. ASSUME NEW u \in Task, state'[u] \in {"copied", "alive", "zombie"} PROVE LineOf(u)'
      <3>1. LineOf(u)
        BY <1>1, <1>4, <2>2 DEF KernelInv, LineInv
      <3> QED  BY <1>1, <1>7, <2>1, <3>1 DEF LineOf
    <2> QED  BY <2>1, <2>2 DEF LineInv
  <1> QED
    BY <1>10, <1>11, <1>12, <1>13, <1>14 DEF KernelInv, TreeInv

LEMMA ReleaseKernel ==
  ASSUME TaskAssumption, KernelInv, NEW t \in Task, Release(t)
  PROVE  KernelInv'
  <1> DEFINE p == parent[t]
  <1>1. /\ state[t] = "zombie" /\ state' = [state EXCEPT ![t] = "gone"]
        /\ parent' = [parent EXCEPT ![t] = None]
        /\ children' = [children EXCEPT ![p] = Without(@, t)]
        /\ line' = line
    BY DEF Release
  <1>2. KernelTypes /\ state[init] = "alive" /\ parent[init] = None
    BY DEF KernelInv, TreeInv
  <1>3. p \in Task /\ state[p] = "alive" /\ p # t /\ t # init
    BY <1>1, <1>2, InvParents
  <1>4. ~Forking(t) /\ \A u \in Task : parent[u] # t
    BY <1>1, InvParents DEF Forking
  <1> HIDE DEF p
  <1>5. Listed(t) /\ parent[t] = p
    BY <1>1 DEF Listed, p
  <1>6. /\ Without(children[p], t) \in Seq(Task) /\ Distinct(Without(children[p], t))
        /\ Range(Without(children[p], t)) = Range(children[p]) \ {t}
    <2>1. children[p] \in Seq(Task) /\ Distinct(children[p]) /\ t \in Range(children[p])
      BY <1>2, <1>3, <1>5 DEF KernelTypes, KernelInv, TreeInv, ListOf
    <2> QED  BY <2>1, WithoutList
  <1>7. KernelTypes'
    BY <1>1, <1>2, <1>3, <1>6 DEF KernelTypes, TaskState
  <1>8. /\ \A u \in Task : u # t => state'[u] = state[u] /\ parent'[u] = parent[u]
        /\ state'[t] = "gone" /\ parent'[t] = None
    BY <1>1, <1>2 DEF KernelTypes
  <1>9. \A u \in Task : Listed(u)' <=> Listed(u) /\ u # t
    BY <1>8 DEF Listed
  <1>10. ASSUME NEW u \in Task PROVE Parented(u)'
    <2>1. Parented(u) /\ (parent[u] # None => parent[u] \in Task)
      BY InvParents DEF KernelInv, TreeInv
    <2>2. CASE u = t
      BY <1>8, <2>2 DEF Parented
    <2>3. CASE u # t
      BY <1>4, <1>8, <2>1, <2>3 DEF Parented
    <2> QED  BY <2>2, <2>3
  <1>11. ASSUME NEW q \in Task PROVE ListOf(q)'
    <2>1. ListOf(q) /\ None \notin Task
      BY InvParents DEF KernelInv, TreeInv
    <2>2. \A u \in Task : Listed(u)' /\ parent'[u] = q <=> Listed(u) /\ u # t /\ parent[u] = q
      BY <1>8, <1>9, <2>1
    <2>3. CASE q = p
      <3>1. children'[q] = Without(children[p], t)
        BY <1>1, <1>2, <1>3, <2>3 DEF KernelTypes
      <3> QED  BY <1>6, <2>1, <2>2, <2>3, <3>1 DEF ListOf
    <2>4. CASE q # p
      <3>1. children'[q] = children[q]
        BY <1>1, <1>2, <2>4 DEF KernelTypes
      <3> QED  BY <1>5, <2>1, <2>2, <2>4, <3>1 DEF ListOf
    <2> QED  BY <2>3, <2>4
  <1>12. LineInv'
    <2>1. line'[init] = {init}
      BY <1>1 DEF KernelInv, LineInv
    <2>2. ASSUME NEW u \in Task, state'[u] \in {"copied", "alive", "zombie"} PROVE LineOf(u)'
      <3>1. u # t /\ LineOf(u)
        BY <1>8, <2>2 DEF KernelInv, LineInv
      <3> QED  BY <1>1, <1>8, <3>1 DEF LineOf
    <2> QED  BY <2>1, <2>2 DEF LineInv
  <1>13. state'[init] = "alive" /\ parent'[init] = None
    BY <1>2, <1>3, <1>8, InvParents
  <1> QED
    BY <1>7, <1>10, <1>11, <1>12, <1>13 DEF KernelInv, TreeInv

-----------------------------------------------------------------------------
(* fork: a process that is in no list yet changes, or comes to the end of  *)
(* the list of its parent                                                  *)

Grown(n) ==
  /\ call' = call
  /\ state[n] \in {"free", "copied"} /\ state'[n] \in {"copied", "alive"}
  /\ \A u \in Task : u # n => /\ state'[u] = state[u] /\ parent'[u] = parent[u]
                              /\ line'[u] = line[u] /\ fields'[u] = fields[u]
  /\ \A p \in Task : children'[p] = children[p] \/ children'[p] = Append(children[p], n)
  /\ \A x \in Task : Family'[x] \subseteq Family[x] \cup {n}

LEMMA CopyGrown ==
  ASSUME TaskAssumption, KernelInv, FieldTypes, NEW t \in Task, Copy(t)
  PROVE  FieldTypes' /\ \E n \in Task : Grown(n)
  <1>1. PICK n \in Task :
          /\ state[n] = "free"
          /\ state' = [state EXCEPT ![n] = "copied"]
          /\ parent' = [parent EXCEPT ![n] = t]
          /\ fields' = [fields EXCEPT ![n] = fields[t]]
          /\ line' = [line EXCEPT ![n] = line[t] \cup {n}]
    BY DEF Copy
  <1>2. children' = children /\ call' = call
    BY DEF Copy
  <1>3. FieldTypes'
    BY <1>1 DEF FieldTypes
  <1>4. \A u \in Task : u # n => /\ state'[u] = state[u] /\ parent'[u] = parent[u]
                                 /\ line'[u] = line[u] /\ fields'[u] = fields[u]
    BY <1>1 DEF KernelInv, KernelTypes, FieldTypes
  <1>5. state'[n] = "copied"
    BY <1>1 DEF KernelInv, KernelTypes
  <1>6. \A u \in Task : Listed(u)' <=> Listed(u)
    BY <1>1, <1>4, <1>5 DEF Listed
  <1>7. ASSUME NEW x \in Task PROVE Below(x)' \subseteq Below(x)
    <2> DEFINE S == Below(x)
    <2>1. S \in SUBSET Task /\ x \in S
      BY BelowSelf
    <2>2. \A u \in Task : Listed(u) /\ parent[u] \in S => u \in S
      BY BelowClosed
    <2> HIDE DEF S
    <2>3. \A u \in Task : Listed(u)' /\ parent'[u] \in S => u \in S
      BY <1>1, <1>4, <1>6, <2>2 DEF Listed
    <2>4. Below(x)' \subseteq S
      BY <2>1, <2>3 DEF Below
    <2> QED  BY <2>4 DEF S
  <1>8. \A x \in Task : Family'[x] \subseteq Family[x] \cup {n}
    BY <1>7 DEF Family
  <1>9. Grown(n)
    BY <1>1, <1>2, <1>4, <1>5, <1>8 DEF Grown
  <1> QED
    BY <1>3, <1>9

LEMMA LinkGrown ==
  ASSUME TaskAssumption, KernelInv, FieldTypes, NEW n \in Task, Link(n)
  PROVE  FieldTypes' /\ Grown(n)
  <1>1. /\ state[n] = "copied" /\ state' = [state EXCEPT ![n] = "alive"]
        /\ children' = [children EXCEPT ![parent[n]] = Append(@, n)]
        /\ parent' = parent /\ line' = line /\ fields' = fields /\ call' = call
    BY DEF Link
  <1>2. FieldTypes'
    BY <1>1 DEF FieldTypes
  <1>3. \A u \in Task : u # n => state'[u] = state[u]
    BY <1>1 DEF KernelInv, KernelTypes
  <1>4. state'[n] = "alive"
    BY <1>1 DEF KernelInv, KernelTypes
  <1>5. \A p \in Task : children'[p] = children[p] \/ children'[p] = Append(children[p], n)
    BY <1>1 DEF KernelInv, KernelTypes
  <1>6. \A u \in Task : parent[u] # n
    BY <1>1, InvParents
  <1>7. ASSUME NEW x \in Task PROVE Below(x)' \subseteq Below(x) \cup {n}
    <2> DEFINE S == Below(x) \cup {n}
    <2>1. S \in SUBSET Task /\ x \in S
      BY BelowSelf
    <2>2. ASSUME NEW u \in Task, Listed(u)', parent'[u] \in S PROVE u \in S
      <3>1. parent[u] \in Below(x)
        BY <1>1, <1>6, <2>2
      <3>2. u # n => Listed(u)
        BY <1>3, <2>2 DEF Listed
      <3> QED  BY <3>1, <3>2, BelowClosed
    <2> HIDE DEF S
    <2>3. Below(x)' \subseteq S
      BY <2>1, <2>2 DEF Below
    <2> QED  BY <2>3 DEF S
  <1>8. \A x \in Task : Family'[x] \subseteq Family[x] \cup {n}
    BY <1>7 DEF Family
  <1>9. Grown(n)
    BY <1>1, <1>3, <1>4, <1>5, <1>8 DEF Grown
  <1> QED
    BY <1>2, <1>9

LEMMA GrownCalls ==
  ASSUME TaskAssumption, KernelInv, CallInv, BeforeInv, FieldTypes', NEW n \in Task, Grown(n)
  PROVE  CallInv' /\ BeforeInv'
  <1>1. call' = call
    BY DEF Grown
  <1>2. \A u \in InLists : u # n /\ u \in Task /\ u \in InLists'
    BY DEF Grown, InLists
  <1>3. \A u \in Task : Listed(u) => u # n /\ Listed(u)' /\ line'[u] = line[u] /\ parent'[u] = parent[u]
    BY DEF Grown, Listed
  <1>4. ASSUME NEW c \in Caller, InWalk(c) PROVE StackOf(c)'
    <2>1. StackOf(c)
      BY <1>4 DEF CallInv
    <2> QED  BY <1>1, <1>2, <2>1 DEF StackOf, FrameOf
  <1>5. ASSUME NEW c \in Caller, InWalk(c), call[c].calm,
               NEW k \in 1 .. Len(call[c].stack)
        PROVE  CalmFrame(call[c].stack[k], call[c].args[1])'
    <2> DEFINE f == call[c].stack[k]
               r == call[c].args[1]
    <2>1. CalmFrame(f, r) /\ f.cur \in Task
      BY <1>4, <1>5 DEF CallInv, CalmInv, StackOf, FrameOf, InLists
    <2>2. f' = f /\ r' = r
      BY <1>1
    <2> HIDE DEF f, r
    <2>3. CalmFrame(f, r)'
      BY <1>3, <2>1, <2>2 DEF CalmFrame
    <2> QED  BY <2>3 DEF f, r
  <1>6. ASSUME NEW c \in Caller PROVE CalmInv(c)'
    BY <1>1, <1>5 DEF CalmInv, InWalk
  <1>7. call' \in [Caller -> Calls]
    BY <1>1 DEF CallInv
  <1>8. CallInv'
    BY <1>1, <1>4, <1>6, <1>7 DEF CallInv, InWalk
  <1>9. BeforeInv'
    <2>1. \A c \in Caller : call[c].before \subseteq Task
      BY DEF CallInv, Calls
    <2> QED  BY <1>1, <2>1 DEF BeforeInv, Grown
  <1> QED
    BY <1>8, <1>9

LEMMA BelowUnlisted ==
  ASSUME TaskAssumption, KernelInv, NEW n \in Task, state[n] \in {"free", "copied"}
  PROVE  Below(n) \subseteq {n}
  <1> DEFINE S == {n}
  <1>1. \A u \in Task : parent[u] # n
    BY InvParents
  <1>2. S \in SUBSET Task /\ n \in S /\ \A u \in Task : Listed(u) /\ parent[u] \in S => u \in S
    BY <1>1
  <1> HIDE DEF S
  <1>3. Below(n) \subseteq S
    BY <1>2, BelowLeast
  <1> QED
    BY <1>3 DEF S

(* What a frame of a walk that is alone points to.                         *)
LEMMA FrameFacts ==
  ASSUME TaskAssumption, KernelInv, CallInv, NEW c \in Caller, InWalk(c), NEW k \in 1 .. Len(call[c].stack)
  PROVE  /\ call[c].stack[k] \in Frame /\ FrameOf(call[c].stack[k])
         /\ call[c].stack[k].cur \in Task
         /\ children[call[c].stack[k].cur] \in Seq(Task)
         /\ Distinct(children[call[c].stack[k].cur])
         /\ call[c].calm => CalmFrame(call[c].stack[k], call[c].args[1])
         /\ call[c].calm /\ call[c].stack[k].at \in Task =>
              call[c].stack[k].at \in Range(children[call[c].stack[k].cur])
  <1> DEFINE f == call[c].stack[k]
  <1>1. f \in Frame
    BY ElementOfSeq DEF CallInv, Calls
  <1>2. FrameOf(f)
    BY DEF CallInv, StackOf
  <1>3. call[c].calm => CalmFrame(f, call[c].args[1])
    BY DEF CallInv, CalmInv
  <1> HIDE DEF f
  <1>4. f.cur \in Task
    BY <1>1 DEF Frame
  <1>5. children[f.cur] \in Seq(Task) /\ ListOf(f.cur)
    BY <1>4 DEF KernelInv, KernelTypes, TreeInv
  <1>6. call[c].calm /\ f.at \in Task => f.at \in Range(children[f.cur])
    BY <1>3, <1>5 DEF CalmFrame, ListOf
  <1> QED
    BY <1>1, <1>2, <1>3, <1>4, <1>5, <1>6 DEF f, ListOf

LEMMA GrownSet ==
  ASSUME TaskAssumption, KernelInv, CallInv, BeforeInv, KernelInv',
         NEW n \in Task, Grown(n), NEW c \in Caller, SetInv(c)
  PROVE  SetInv(c)'
  <1> SUFFICES ASSUME InWalk(c), call[c].calm, call[c].alone
               PROVE  SetInv(c)'
    BY DEF Grown, SetInv, InWalk
  <1> DEFINE s == call[c].stack
             before == call[c].before
             args == call[c].args
  <1>1. call' = call
    BY DEF Grown
  <1>2. n \notin before /\ \A u \in Task : u # n => fields'[u] = fields[u]
    BY DEF Grown, BeforeInv
  <1>3. ASSUME NEW x \in Task, Done(c, x) PROVE \A t \in Family'[x] \cap before : fields'[t] = args
    <2>1. Family'[x] \subseteq Family[x] \cup {n} /\ Family[x] \subseteq Task
      BY BelowSelf DEF Grown, Family
    <2>2. ASSUME NEW t \in Family'[x], t \in before PROVE fields'[t] = args
      <3>1. t # n /\ t \in Family[x] /\ t \in Task
        BY <1>2, <2>1, <2>2
      <3>2. fields[t] = args
        BY <1>3, <2>2, <3>1 DEF Done
      <3> QED  BY <1>2, <3>1, <3>2
    <2> QED  BY <2>2
  <1>4. \A t \in Family'[n] \cap before : fields'[t] = args
    <2>1. Family'[n] \subseteq Family[n] \cup {n}
      BY DEF Grown
    <2>2. Family[n] \subseteq {n}
      BY BelowUnlisted DEF Grown, Family
    <2> QED  BY <1>2, <2>1, <2>2
  <1>5. ASSUME NEW k \in 1 .. Len(s)
        PROVE  SetFrame(c, s[k])'
    <2> DEFINE f == s[k]
               list == children[f.cur]
               new  == children'[f.cur]
    <2>1. f \in Frame /\ f.cur \in Task /\ list \in Seq(Task) /\ FrameOf(f)
          /\ (f.at \in Task => f.at \in Range(list))
      BY <1>5, FrameFacts
    <2>2. SetFrame(c, f)
      BY <1>5 DEF SetInv
    <2>3. f' = f
      BY <1>1
    <2> HIDE DEF f
    <2>4. f.cur # n
      BY <2>1 DEF FrameOf, InLists, Grown
    <2>5. \A i \in 1 .. 3 : i < f.store => fields'[f.cur][i] = args[i]
      BY <1>2, <2>1, <2>2, <2>4 DEF SetFrame
    <2>6. new = list \/ new = Append(list, n)
      BY <2>1 DEF Grown
    <2>7. new \in Seq(Task) /\ Distinct(new) /\ Len(list) \in Nat
      <3>1. new \in Seq(Task)
        BY <2>1 DEF KernelInv, KernelTypes
      <3>2. ListOf(f.cur)'
        BY <2>1, <2>3 DEF KernelInv, TreeInv
      <3>3. Distinct(new)
        BY <2>3, <3>2 DEF ListOf
      <3> QED  BY <2>1, <3>1, <3>3, LenProperties
    <2>8. ASSUME NEW j \in 1 .. Len(new)
          PROVE  \/ j \in 1 .. Len(list) /\ new[j] = list[j]
                 \/ ~(j <= Len(list)) /\ new[j] = n
      <3>1. CASE new = list  BY <3>1
      <3>2. CASE new = Append(list, n)
        <4>1. Len(new) = Len(list) + 1 /\ new[Len(list) + 1] = n
              /\ \A i \in 1 .. Len(list) : new[i] = list[i]
          BY <2>1, <3>2, AppendProperties
        <4>2. j \in 1 .. Len(list) \/ (j = Len(list) + 1 /\ ~(j <= Len(list)))
          BY <2>7, <4>1
        <4> QED  BY <4>1, <4>2
      <3> QED  BY <2>6, <3>1, <3>2
    <2>9. \A j \in 1 .. Len(list) : list[j] \in Task
      BY <2>1, ElementOfSeq
    <2>10. ASSUME f.at \in Task, NEW j \in 1 .. Len(new), j < Place(new, f.at)
           PROVE  \A t \in Family'[new[j]] \cap before : fields'[t] = args
      <3>1. Place(new, f.at) = Place(list, f.at)
        <4>1. f.at \in Range(list) /\ list \in Seq(Task)
          BY <2>1, <2>10
        <4>2. new = Append(list, n) => Distinct(Append(list, n))
          BY <2>7
        <4> HIDE DEF list, new
        <4>3. Distinct(Append(list, n)) => Place(Append(list, n), f.at) = Place(list, f.at)
          BY <4>1, AppendPlace
        <4> QED  BY <2>6, <4>2, <4>3
      <3>2. Place(list, f.at) \in 1 .. Len(list)
        BY <2>1, <2>10, PlaceIn
      <3>3. j <= Len(list)
        BY <2>7, <2>10, <3>1, <3>2
      <3>4. j \in 1 .. Len(list) /\ new[j] = list[j] /\ j < Place(list, f.at)
        BY <2>8, <2>10, <3>1, <3>3
      <3>5. Done(c, list[j])
        BY <2>2, <2>10, <3>4 DEF SetFrame
      <3> QED  BY <1>3, <2>9, <3>4, <3>5
    <2>11. ASSUME f.at = AtHead, NEW j \in 1 .. Len(new)
           PROVE  \A t \in Family'[new[j]] \cap before : fields'[t] = args
      <3>1. CASE j \in 1 .. Len(list) /\ new[j] = list[j]
        <4>1. Done(c, list[j])
          BY <2>2, <2>11, <3>1 DEF SetFrame
        <4> QED  BY <1>3, <2>9, <3>1, <4>1
      <3>2. CASE new[j] = n
        BY <1>4, <3>2
      <3> QED  BY <2>8, <2>11, <3>1, <3>2
    <2>12. SetFrame(c, f)'
      BY <1>1, <2>3, <2>5, <2>10, <2>11 DEF SetFrame, Done
    <2> QED  BY <2>12 DEF f
  <1> QED
    BY <1>1, <1>5 DEF SetInv, InWalk

-----------------------------------------------------------------------------
(* exit and wait: nobody is calm any more                                  *)

LEMMA DisturbedCalls ==
  ASSUME TaskAssumption, CallInv, BeforeInv, call' = Disturbed, fields' = fields,
         \A u \in Task : state[u] \notin {"free", "copied"} => state'[u] \notin {"free", "copied"}
  PROVE  CallInv' /\ BeforeInv' /\ \A c \in Caller : SetInv(c)'
  <1>1. call \in [Caller -> Calls]
    BY DEF CallInv
  <1>2. ASSUME NEW c \in Caller
        PROVE  /\ call'[c] \in Calls
               /\ call'[c].pc = call[c].pc /\ call'[c].args = call[c].args
               /\ call'[c].before = call[c].before /\ call'[c].stack = call[c].stack
               /\ call[c].pc = "walk" => ~call'[c].calm
    <2>1. call'[c] = [call[c] EXCEPT !.calm = call[c].pc = "idle"] /\ call[c] \in Calls
      BY <1>1 DEF Disturbed
    <2>2. (call[c].pc = "idle") \in BOOLEAN
      OBVIOUS
    <2> QED  BY <2>1, <2>2 DEF Calls
  <1>3. call' \in [Caller -> Calls]
    BY <1>2 DEF Disturbed
  <1>4. \A c \in Caller : InWalk(c)' => InWalk(c) /\ ~call'[c].calm
    BY <1>2 DEF InWalk
  <1>5. \A u \in Task : u \in InLists => u \in InLists'
    BY DEF InLists
  <1>6. ASSUME NEW c \in Caller, InWalk(c)' PROVE StackOf(c)'
    <2>1. StackOf(c)
      BY <1>4, <1>6 DEF CallInv
    <2>2. InLists \subseteq InLists'
      BY <1>5 DEF InLists
    <2> QED  BY <1>2, <2>1, <2>2 DEF StackOf, FrameOf
  <1>7. CallInv'
    BY <1>3, <1>4, <1>6 DEF CallInv, CalmInv, FieldTypes
  <1>8. BeforeInv'
    BY <1>1, <1>2 DEF BeforeInv, Calls
  <1>9. \A c \in Caller : SetInv(c)'
    BY <1>4 DEF SetInv
  <1> QED
    BY <1>7, <1>8, <1>9

LEMMA KernelStep ==
  ASSUME TaskAssumption, FamilyInv, NEW t \in Task,
         Copy(t) \/ Link(t) \/ Exit(t) \/ Release(t)
  PROVE  FamilyInv'
  <1>1. KernelInv /\ CallInv /\ BeforeInv /\ FieldTypes /\ \A c \in Caller : SetInv(c)
    BY DEF FamilyInv, CallInv
  <1>2. ASSUME NEW n \in Task, Grown(n), KernelInv', FieldTypes'
        PROVE  FamilyInv'
    <2>1. CallInv' /\ BeforeInv'
      BY <1>1, <1>2, GrownCalls
    <2>2. \A c \in Caller : SetInv(c)'
      BY <1>1, <1>2, GrownSet
    <2> QED  BY <1>2, <2>1, <2>2 DEF FamilyInv
  <1>3. CASE Copy(t)
    BY <1>1, <1>2, <1>3, CopyKernel, CopyGrown
  <1>4. CASE Link(t)
    BY <1>1, <1>2, <1>4, LinkKernel, LinkGrown
  <1>5. CASE Exit(t)
    <2>1. call' = Disturbed /\ fields' = fields /\ state' = [state EXCEPT ![t] = "zombie"]
      BY <1>5 DEF Exit
    <2>2. \A u \in Task : state[u] \notin {"free", "copied"} => state'[u] \notin {"free", "copied"}
      BY <1>1, <2>1 DEF KernelInv, KernelTypes
    <2>3. CallInv' /\ BeforeInv' /\ \A c \in Caller : SetInv(c)'
      BY <1>1, <2>1, <2>2, DisturbedCalls
    <2> QED  BY <1>1, <1>5, <2>3, ExitKernel DEF FamilyInv
  <1>6. CASE Release(t)
    <2>1. call' = Disturbed /\ fields' = fields /\ state' = [state EXCEPT ![t] = "gone"]
      BY <1>6 DEF Release
    <2>2. \A u \in Task : state[u] \notin {"free", "copied"} => state'[u] \notin {"free", "copied"}
      BY <1>1, <2>1 DEF KernelInv, KernelTypes
    <2>3. CallInv' /\ BeforeInv' /\ \A c \in Caller : SetInv(c)'
      BY <1>1, <2>1, <2>2, DisturbedCalls
    <2> QED  BY <1>1, <1>6, <2>3, ReleaseKernel DEF FamilyInv
  <1> QED
    BY <1>3, <1>4, <1>5, <1>6

-----------------------------------------------------------------------------
(* A call begins                                                           *)

LEMMA KernelSame ==
  ASSUME KernelInv, UNCHANGED kernel
  PROVE  KernelInv' /\ Family' = Family /\ children' = children
  <1> USE DEF kernel
  <1>1. KernelTypes'
    BY DEF KernelInv, KernelTypes
  <1>2. TreeInv'
    BY DEF KernelInv, TreeInv, Parented, ListOf, Listed
  <1>3. LineInv'
    BY DEF KernelInv, LineInv, LineOf
  <1>4. Family' = Family
    BY DEF Family, Below, Listed
  <1> QED
    BY <1>1, <1>2, <1>3, <1>4 DEF KernelInv

LEMMA ActivationFacts ==
  ASSUME TaskAssumption, NEW t \in InLists
  PROVE  /\ Activation(t) \in Frame /\ FrameOf(Activation(t))
         /\ Begin # AtHead /\ Begin \notin Task /\ AtHead \notin Task
  BY DEF Activation, Frame, FrameOf, InLists, Begin, AtHead, TaskAssumption

LEMMA CallStep ==
  ASSUME TaskAssumption, FamilyInv, NEW c \in Caller, Call(c)
  PROVE  FamilyInv'
  <1>1. KernelInv /\ CallInv /\ BeforeInv /\ call \in [Caller -> Calls]
    BY DEF FamilyInv, CallInv
  <1>2. PICK t \in Task, limit \in Value, interval \in Value :
          Listed(t) /\ Begins(c, <<t, limit, interval>>, Activation(t))
    BY DEF Call
  <1>3. UNCHANGED kernel /\ fields' = fields /\ call[c].pc = "idle"
    BY <1>1 DEF Call, AtWork, InCall
  <1>4. KernelInv' /\ Family' = Family /\ children' = children
    BY <1>1, <1>3, KernelSame
  <1> DEFINE args == <<t, limit, interval>>
             f    == Activation(t)
  <1>5. f \in Frame /\ FrameOf(f) /\ f.cur = t /\ f.store = 1 /\ f.at = Begin
    <2>1. t \in InLists
      BY <1>2 DEF InLists, Listed
    <2> QED  BY <2>1, ActivationFacts DEF Activation
  <1>6. Begin # AtHead /\ Begin \notin Task
    BY DEF Begin, AtHead, TaskAssumption
  <1>7. /\ call'[c] = [pc |-> "walk", args |-> args, before |-> InLists, calm |-> TRUE,
                       alone |-> \A e \in Caller : ~InWalk(e), stack |-> <<f>>]
        /\ \A d \in Caller : d # c => call'[d] = [call[d] EXCEPT !.alone = call[d].pc = "idle"]
        /\ call' = [d \in Caller |-> call'[d]]
    BY <1>2 DEF Begins
  <1> HIDE DEF f
  <1>8. /\ call'[c].pc = "walk" /\ call'[c].args = args /\ call'[c].before = InLists
        /\ call'[c].stack = <<f>> /\ (call'[c].alone => \A e \in Caller : ~InWalk(e))
    BY <1>7
  <1>9. ASSUME NEW d \in Caller, d # c
        PROVE  /\ call'[d] \in Calls /\ call'[d].pc = call[d].pc /\ call'[d].args = call[d].args
               /\ call'[d].before = call[d].before /\ call'[d].stack = call[d].stack
               /\ call'[d].calm = call[d].calm
               /\ call[d].pc = "walk" => ~call'[d].alone
    <2>1. call'[d] = [call[d] EXCEPT !.alone = call[d].pc = "idle"] /\ call[d] \in Calls
      BY <1>1, <1>7, <1>9
    <2>2. (call[d].pc = "idle") \in BOOLEAN
      OBVIOUS
    <2> QED  BY <2>1, <2>2 DEF Calls
  <1>10. <<f>> \in Seq(Frame) /\ Len(<<f>>) = 1 /\ <<f>>[1] = f
    BY <1>5
  <1>11. args \in Task \X Value \X Value /\ args[1] = t
    OBVIOUS
  <1>12. call'[c] \in Calls
    <2>1. InLists \in SUBSET Task /\ (\A e \in Caller : ~InWalk(e)) \in BOOLEAN
      BY DEF InLists
    <2> QED  BY <1>7, <1>10, <1>11, <2>1 DEF Calls
  <1>13. call' \in [Caller -> Calls]
    BY <1>7, <1>9, <1>12
  <1>14. \A g : FrameOf(g) => FrameOf(g)'
    BY <1>3 DEF FrameOf, InLists, kernel
  <1>15. \A g, r : CalmFrame(g, r) => CalmFrame(g, r)'
    BY <1>3 DEF CalmFrame, Listed, kernel
  <1>16. StackOf(c)' /\ CalmInv(c)'
    <2>1. FrameOf(f)'
      BY <1>5, <1>14 DEF f
    <2>2. \A k \in 1 .. Len(<<f>>) : k = 1
      BY <1>10
    <2>3. StackOf(c)'
      BY <1>8, <1>10, <1>11, <2>1, <2>2 DEF StackOf
    <2>4. CalmFrame(f, t)
      <3>1. LineOf(t)
        BY <1>1, <1>2 DEF KernelInv, LineInv, Listed
      <3> QED  BY <1>2, <1>5, <1>6, <3>1 DEF CalmFrame, LineOf
    <2>5. CalmFrame(f, t)'
      BY <1>15, <2>4 DEF f
    <2> QED  BY <1>8, <1>10, <1>11, <2>2, <2>3, <2>5 DEF CalmInv
  <1>17. ASSUME NEW d \in Caller, d # c
         PROVE  (InWalk(d)' => StackOf(d)') /\ CalmInv(d)' /\ SetInv(d)'
    <2>1. (InWalk(d) => StackOf(d)) /\ CalmInv(d)
      BY <1>1 DEF CallInv
    <2>2. InWalk(d)' => StackOf(d)'
      BY <1>9, <1>14, <1>17, <2>1 DEF StackOf, InWalk
    <2>3. CalmInv(d)'
      BY <1>9, <1>15, <1>17, <2>1 DEF CalmInv, InWalk
    <2>4. SetInv(d)'
      BY <1>9, <1>17 DEF SetInv, InWalk
    <2> QED  BY <2>2, <2>3, <2>4
  <1>18. SetInv(c)'
    <2>1. call'[c].alone => \A d \in Caller : InWalk(d)' => d = c
      BY <1>8, <1>9 DEF InWalk
    <2>2. \A i \in 1 .. 3 : ~(i < 1)
      OBVIOUS
    <2>3. SetFrame(c, f)'
      BY <1>5, <1>6, <2>2 DEF SetFrame
    <2>4. \A k \in 1 .. Len(<<f>>) : k = 1
      BY <1>10
    <2>5. ~\E k \in 1 .. Len(<<f>>) - 1 : TRUE
      BY <1>10
    <2> QED  BY <1>5, <1>8, <1>10, <1>11, <2>1, <2>3, <2>4, <2>5 DEF SetInv
  <1>19. BeforeInv'
    BY <1>1, <1>3, <1>8, <1>9 DEF BeforeInv, InLists, kernel
  <1>20. CallInv'
    <2>1. FieldTypes'
      BY <1>1, <1>3 DEF CallInv, FieldTypes
    <2> QED  BY <1>13, <1>16, <1>17, <2>1 DEF CallInv
  <1> QED
    BY <1>4, <1>17, <1>18, <1>19, <1>20 DEF FamilyInv

-----------------------------------------------------------------------------
(* A step of a walk: it ends, or has a new top                             *)

LEMMA WalkFrame ==
  ASSUME TaskAssumption, FamilyInv, NEW c \in Caller, InWalk(c), UNCHANGED kernel,
         call' \in [Caller -> Calls], \A d \in Caller : d # c => call'[d] = call[d],
         call'[c].before \subseteq call[c].before,
         FieldTypes', InWalk(c)' => StackOf(c)', CalmInv(c)', SetInv(c)'
  PROVE  FamilyInv'
  <1>1. KernelInv /\ CallInv /\ BeforeInv /\ \A d \in Caller : SetInv(d)
    BY DEF FamilyInv
  <1>2. KernelInv'
    BY <1>1, KernelSame
  <1>3. ASSUME NEW d \in Caller, d # c
        PROVE  (InWalk(d)' => StackOf(d)') /\ CalmInv(d)' /\ SetInv(d)'
    <2>1. (InWalk(d) => StackOf(d)) /\ CalmInv(d) /\ SetInv(d) /\ call'[d] = call[d]
      BY <1>1, <1>3 DEF CallInv
    <2>2. InWalk(d)' => StackOf(d)'
      BY <2>1 DEF StackOf, InWalk, FrameOf, InLists, kernel
    <2>3. CalmInv(d)'
      BY <2>1 DEF CalmInv, InWalk, CalmFrame, Listed, kernel
    <2>4. SetInv(d)'
      BY <1>3, <2>1 DEF SetInv, InWalk
    <2> QED  BY <2>2, <2>3, <2>4
  <1>4. BeforeInv'
    BY <1>1 DEF BeforeInv, kernel
  <1> QED
    BY <1>2, <1>3, <1>4 DEF FamilyInv, CallInv

LEMMA LeaveStep ==
  ASSUME TaskAssumption, FamilyInv, NEW c \in Caller, InWalk(c), UNCHANGED <<kernel, fields>>,
         NEW pc \in {"idle", "astray"}, Leave(c, pc)
  PROVE  FamilyInv'
  <1>1. call \in [Caller -> Calls] /\ FieldTypes
    BY DEF FamilyInv, CallInv
  <1>2. call'[c] = Outside(pc) /\ \A d \in Caller : d # c => call'[d] = call[d]
    BY <1>1 DEF Leave
  <1>3. Outside(pc) \in Calls
    BY EmptySeq DEF Outside, Calls
  <1>4. call' \in [Caller -> Calls]
    BY <1>1, <1>3 DEF Leave
  <1>5. ~InWalk(c)' /\ call'[c].before = {}
    BY <1>2 DEF InWalk, Outside
  <1>6. FieldTypes'
    BY <1>1 DEF FieldTypes
  <1> QED
    BY <1>2, <1>4, <1>5, <1>6, WalkFrame DEF CalmInv, SetInv

(* The stack of c becomes s, whose lower frames it had, and whose top is g. *)
NewTop(c, s, g) ==
  LET M == Len(s) IN
  /\ call' = [call EXCEPT ![c].stack = s]
  /\ s \in Seq(Frame) /\ M >= 1 /\ M - 1 <= Len(call[c].stack)
  /\ s[M] = g /\ \A k \in 1 .. M - 1 : s[k] = call[c].stack[k] /\ s[k].at \in Task

(* What a new top that has been chosen well keeps.                         *)
GoodTop(c, s, g) ==
  LET list == children[g.cur]
      args == call[c].args
  IN
  /\ IF Len(s) = 1 THEN g.cur = args[1] ELSE g.cur = s[Len(s) - 1].at
  /\ \A i \in 1 .. 3 : i < g.store => fields'[g.cur][i] = args[i]
  /\ \A x \in Task : fields[x] = args => fields'[x] = args
  /\ \A x \in Task : \A i \in 1 .. 3 : fields[x][i] = args[i] => fields'[x][i] = args[i]
  /\ g.at \in Task => \A j \in 1 .. Len(list) : j < Place(list, g.at) => Done(c, list[j])
  /\ g.at = AtHead => \A j \in 1 .. Len(list) : Done(c, list[j])

LEMMA NewTopStep ==
  ASSUME TaskAssumption, FamilyInv, NEW c \in Caller, InWalk(c), UNCHANGED kernel, FieldTypes',
         NEW s, NEW g, NewTop(c, s, g), FrameOf(g),
         call[c].calm => CalmFrame(g, call[c].args[1]),
         call[c].calm /\ call[c].alone => GoodTop(c, s, g)
  PROVE  FamilyInv'
  <1> DEFINE M == Len(s)
             old == call[c].stack
             args == call[c].args
             before == call[c].before
  <1>1. KernelInv /\ CallInv /\ call \in [Caller -> Calls] /\ StackOf(c) /\ CalmInv(c) /\ SetInv(c)
    BY DEF FamilyInv, CallInv
  <1>2. call' = [call EXCEPT ![c].stack = s] /\ s \in Seq(Frame) /\ M >= 1 /\ M - 1 <= Len(old)
        /\ s[M] = g /\ \A k \in 1 .. M - 1 : s[k] = old[k] /\ s[k].at \in Task
    BY DEF NewTop
  <1>3. /\ call'[c] \in Calls /\ call'[c].stack = s
        /\ call'[c].pc = "walk" /\ call'[c].args = args /\ call'[c].before = before
        /\ call'[c].calm = call[c].calm /\ call'[c].alone = call[c].alone
        /\ \A d \in Caller : d # c => call'[d] = call[d]
        /\ call' \in [Caller -> Calls]
    <2>1. call'[c] = [call[c] EXCEPT !.stack = s] /\ call[c] \in Calls /\ s \in Seq(Frame)
      BY <1>1, <1>2
    <2>2. /\ call'[c] \in Calls /\ call'[c].stack = s
          /\ call'[c].pc = "walk" /\ call'[c].args = args /\ call'[c].before = before
          /\ call'[c].calm = call[c].calm /\ call'[c].alone = call[c].alone
      BY <2>1 DEF Calls, InWalk
    <2>3. \A d \in Caller : d # c => call'[d] = call[d]
      BY <1>1, <1>2
    <2>4. call' \in [Caller -> Calls]
      BY <1>1, <1>2, <2>1, <2>2
    <2> QED  BY <2>2, <2>3, <2>4
  <1>4. M \in Nat /\ Len(old) \in Nat /\ old \in Seq(Frame)
    BY <1>1, <1>2, LenProperties DEF Calls
  <1>5. ASSUME NEW k \in 1 .. M
        PROVE  k = M \/ (k \in 1 .. M - 1 /\ k \in 1 .. Len(old) /\ s[k] = old[k])
    <2>1. k = M \/ (k \in 1 .. M - 1 /\ k \in 1 .. Len(old))
      <3> HIDE DEF M, old
      <3> QED  BY <1>2, <1>4, <1>5
    <2> QED  BY <1>2, <2>1
  <1> HIDE DEF M
  <1>6. StackOf(c)'
    <2>1. \A k \in 1 .. M : FrameOf(s[k])
      BY <1>1, <1>2, <1>5 DEF StackOf
    <2>2. \A k \in 1 .. M : FrameOf(s[k])'
      BY <1>2, <2>1 DEF FrameOf, InLists, kernel
    <2> QED  BY <1>1, <1>2, <1>3, <1>4, <2>2 DEF StackOf, M
  <1>7. CalmInv(c)'
    <2>1. call[c].calm => \A k \in 1 .. M : CalmFrame(s[k], args[1])
      BY <1>1, <1>2, <1>5 DEF CalmInv
    <2>2. call[c].calm => \A k \in 1 .. M : CalmFrame(s[k], args[1])'
      BY <1>2, <1>3, <2>1 DEF CalmFrame, Listed, kernel
    <2> QED  BY <1>2, <1>3, <2>2 DEF CalmInv, M
  <1>8. SetInv(c)'
    <2> SUFFICES ASSUME call[c].calm, call[c].alone
                 PROVE  SetInv(c)'
      BY <1>3 DEF SetInv
    <2>1. GoodTop(c, s, g) /\ Family' = Family /\ children' = children
      BY <1>1, KernelSame
    <2>2. \A d \in Caller : InWalk(d)' => d = c
      BY <1>1, <1>3 DEF SetInv, InWalk
    <2>3. s[1].cur = args[1]
      <3>1. CASE M = 1
        BY <1>2, <2>1, <3>1 DEF GoodTop, M
      <3>2. CASE M # 1
        <4>1. 1 \in 1 .. M - 1
          BY <1>2, <1>4, <3>2
        <4>2. old[1].cur = args[1]
          BY <1>1 DEF SetInv
        <4> QED  BY <1>2, <4>1, <4>2
      <3> QED  BY <3>1, <3>2
    <2>4. ASSUME NEW k \in 1 .. M - 1 PROVE s[k + 1].cur = s[k].at
      <3>1. k + 1 \in 1 .. M /\ k \in Nat
        BY <1>4
      <3>2. CASE k + 1 = M
        <4>1. M # 1 /\ M - 1 = k
          BY <1>4, <3>1, <3>2
        <4> QED  BY <1>2, <2>1, <3>2, <4>1 DEF GoodTop, M
      <3>3. CASE k + 1 # M
        <4>1. s[k + 1] = old[k + 1] /\ s[k] = old[k] /\ k + 1 \in 1 .. Len(old)
          BY <1>2, <1>5, <3>1, <3>3
        <4>2. k \in 1 .. Len(old) - 1
          <5> HIDE DEF old
          <5> QED  BY <1>4, <3>1, <4>1
        <4>3. old[k + 1].cur = old[k].at
          BY <1>1, <4>2 DEF SetInv
        <4> QED  BY <4>1, <4>3
      <3> QED  BY <3>2, <3>3
    <2>5. ASSUME NEW x, Done(c, x), x \in Task PROVE \A t \in Family'[x] \cap before : fields'[t] = args
      <3>1. Family[x] \subseteq Task
        BY <2>5, BelowSelf DEF Family
      <3> QED  BY <2>1, <2>5, <3>1 DEF Done, GoodTop
    <2>6. ASSUME NEW p \in Task, NEW j \in 1 .. Len(children[p])
          PROVE  children[p][j] \in Task
      <3>1. children[p] \in Seq(Task)
        BY <1>1 DEF KernelInv, KernelTypes
      <3> QED  BY <3>1, ElementOfSeq
    <2>7. ASSUME NEW k \in 1 .. M
          PROVE  SetFrame(c, s[k])'
      <3> DEFINE f == s[k]
                 list == children[f.cur]
      <3>1. f \in Frame /\ f.cur \in Task
        <4>1. s[k] \in Frame
          BY <1>2, ElementOfSeq DEF M
        <4> QED  BY <4>1 DEF Frame
      <3>2. /\ \A i \in 1 .. 3 : i < f.store => fields'[f.cur][i] = args[i]
            /\ f.at \in Task => \A j \in 1 .. Len(list) : j < Place(list, f.at) => Done(c, list[j])
            /\ f.at = AtHead => \A j \in 1 .. Len(list) : Done(c, list[j])
        <4>1. CASE k = M
          BY <1>2, <2>1, <4>1 DEF GoodTop
        <4>2. CASE k # M
          <5>1. f = old[k] /\ k \in 1 .. Len(old)
            BY <1>5, <4>2
          <5>2. SetFrame(c, f)
            BY <1>1, <5>1 DEF SetInv
          <5> HIDE DEF f
          <5>3. \A i \in 1 .. 3 : i < f.store => fields'[f.cur][i] = args[i]
            BY <2>1, <3>1, <5>2 DEF SetFrame, GoodTop
          <5> QED  BY <5>2, <5>3 DEF SetFrame
        <4> QED  BY <4>1, <4>2
      <3>3. \A j \in 1 .. Len(list) : list[j] \in Task
        BY <2>6, <3>1
      <3> HIDE DEF f
      <3>4. f.at \in Task => \A j \in 1 .. Len(list) : j < Place(list, f.at) =>
                               \A t \in Family'[list[j]] \cap before : fields'[t] = args
        BY <2>5, <3>2, <3>3
      <3>5. f.at = AtHead => \A j \in 1 .. Len(list) :
                               \A t \in Family'[list[j]] \cap before : fields'[t] = args
        BY <2>5, <3>2, <3>3
      <3>6. SetFrame(c, f)'
        BY <1>3, <2>1, <3>2, <3>4, <3>5 DEF SetFrame, Done, f
      <3> QED  BY <3>6 DEF f
    <2> QED  BY <1>3, <2>2, <2>3, <2>4, <2>7 DEF SetInv, M
  <1> QED
    BY <1>3, <1>6, <1>7, <1>8, WalkFrame

-----------------------------------------------------------------------------
(* The four steps of a walk                                                *)

LEMMA TopFacts ==
  ASSUME TaskAssumption, FamilyInv, NEW c \in Caller, InWalk(c)
  PROVE  LET f == Top(c)
             n == Len(call[c].stack)
         IN /\ n \in Nat /\ n >= 1 /\ n \in 1 .. n /\ call[c].stack \in Seq(Frame)
            /\ call[c].args \in Task \X Value \X Value
            /\ f \in Frame /\ FrameOf(f) /\ f.cur \in Task /\ f.store \in 1 .. 4
            /\ children[f.cur] \in Seq(Task) /\ ListOf(f.cur)
            /\ call[c].calm => CalmFrame(f, call[c].args[1])
            /\ call[c].calm /\ call[c].alone =>
                 /\ SetFrame(c, f)
                 /\ IF n = 1 THEN f.cur = call[c].args[1] ELSE f.cur = call[c].stack[n - 1].at
  <1> DEFINE n == Len(call[c].stack)
             f == Top(c)
  <1>1. KernelInv /\ CallInv /\ StackOf(c) /\ SetInv(c)
    BY DEF FamilyInv, CallInv
  <1>2. n \in Nat /\ n >= 1 /\ call[c].stack \in Seq(Frame) /\ call[c].args \in Task \X Value \X Value
    BY <1>1, LenProperties DEF CallInv, Calls, StackOf
  <1> HIDE DEF n
  <1>3. n \in 1 .. n
    BY <1>2
  <1>4. f = call[c].stack[n]
    BY DEF Top, n
  <1>5. /\ f \in Frame /\ FrameOf(f) /\ f.cur \in Task /\ children[f.cur] \in Seq(Task)
        /\ call[c].calm => CalmFrame(f, call[c].args[1])
    BY <1>1, <1>3, <1>4, FrameFacts DEF n
  <1>6. f.store \in 1 .. 4 /\ ListOf(f.cur)
    <2> HIDE DEF f
    <2> QED  BY <1>1, <1>5 DEF Frame, KernelInv, TreeInv
  <1>7. ASSUME call[c].calm, call[c].alone
        PROVE  SetFrame(c, f) /\ IF n = 1 THEN f.cur = call[c].args[1] ELSE f.cur = call[c].stack[n - 1].at
    <2>1. SetFrame(c, f)
      BY <1>1, <1>3, <1>4, <1>7 DEF SetInv, n
    <2>2. ASSUME n # 1 PROVE n - 1 \in 1 .. n - 1 /\ (n - 1) + 1 = n
      BY <1>2, <2>2
    <2>3. n # 1 => call[c].stack[n].cur = call[c].stack[n - 1].at
      BY <1>1, <1>7, <2>2 DEF SetInv, n
    <2>4. n = 1 => call[c].stack[n].cur = call[c].args[1]
      BY <1>1, <1>7 DEF SetInv
    <2> QED  BY <1>4, <2>1, <2>3, <2>4
  <1> QED
    BY <1>2, <1>3, <1>5, <1>6, <1>7 DEF n

LEMMA SetTopNew ==
  ASSUME TaskAssumption, FamilyInv, NEW c \in Caller, InWalk(c), NEW g \in Frame, SetTop(c, g)
  PROVE  \E s : /\ NewTop(c, s, g) /\ Len(s) = Len(call[c].stack)
                /\ Len(s) # 1 => s[Len(s) - 1] = call[c].stack[Len(s) - 1]
  <1> DEFINE old == call[c].stack
             n   == Len(old)
             s   == [old EXCEPT ![n] = g]
  <1>1. old \in Seq(Frame) /\ n \in Nat /\ n >= 1 /\ n \in 1 .. n /\ StackOf(c)
    BY TopFacts DEF FamilyInv, CallInv
  <1>2. s \in Seq(Frame) /\ Len(s) = n /\ \A j \in 1 .. n : s[j] = IF j = n THEN g ELSE old[j]
    BY <1>1, ExceptSeq
  <1>3. call' = [call EXCEPT ![c].stack = s]
    BY DEF SetTop
  <1> HIDE DEF s, n
  <1>4. \A j \in 1 .. n - 1 : j # n /\ j \in 1 .. n
    BY <1>1
  <1>5. n - 1 <= n /\ (n # 1 => n - 1 \in 1 .. n - 1)
    BY <1>1
  <1>6. \A j \in 1 .. n - 1 : s[j] = old[j] /\ s[j].at \in Task
    BY <1>1, <1>2, <1>4 DEF StackOf, n
  <1>7. NewTop(c, s, g)
    BY <1>1, <1>2, <1>3, <1>5, <1>6 DEF NewTop, n
  <1> QED
    BY <1>2, <1>5, <1>6, <1>7 DEF n

Stored(x, i, args) == fields' = [fields EXCEPT ![x][i] = args[i]]

LEMMA FieldStore ==
  ASSUME FieldTypes, NEW x \in Task, NEW i \in 1 .. 3, NEW args \in Task \X Value \X Value,
         Stored(x, i, args)
  PROVE  /\ FieldTypes' /\ fields'[x][i] = args[i]
         /\ \A y \in Task : y # x => fields'[y] = fields[y]
         /\ \A y \in Task : fields[y] = args => fields'[y] = args
         /\ \A y \in Task : \A j \in 1 .. 3 : fields[y][j] = args[j] => fields'[y][j] = args[j]
  <1> DEFINE T == (Task \cup {-1}) \X (Value \cup {-1}) \X (Value \cup {-1})
             v == fields[x]
             w == [v EXCEPT ![i] = args[i]]
  <1>1. v \in T /\ fields \in [Task -> T]
    BY DEF FieldTypes
  <1>2. fields'[x] = w /\ (\A y \in Task : y # x => fields'[y] = fields[y]) /\ fields' = [fields EXCEPT ![x] = w]
    BY <1>1 DEF Stored
  <1>3. PICK a \in Task \cup {-1}, b \in Value \cup {-1}, d \in Value \cup {-1} : v = <<a, b, d>>
    BY <1>1
  <1>4. w = IF i = 1 THEN <<args[1], b, d>> ELSE IF i = 2 THEN <<a, args[2], d>> ELSE <<a, b, args[3]>>
    <2>1. i = 1 \/ i = 2 \/ i = 3
      OBVIOUS
    <2> QED  BY <1>3, <2>1
  <1> HIDE DEF w
  <1>5. w \in T
    BY <1>3, <1>4
  <1>6. w[i] = args[i] /\ \A j \in 1 .. 3 : v[j] = args[j] => w[j] = args[j]
    BY <1>3, <1>4
  <1>7. v = args => w = args
    <2>1. PICK p \in Task, q \in Value, r \in Value : args = <<p, q, r>>
      OBVIOUS
    <2> QED  BY <1>3, <1>4, <2>1
  <1>8. FieldTypes'
    BY <1>1, <1>2, <1>5 DEF FieldTypes
  <1> QED
    BY <1>2, <1>6, <1>7, <1>8

LEMMA ReleasedStep ==
  ASSUME TaskAssumption, FamilyInv, NEW c \in Caller, InWalk(c), UNCHANGED kernel,
         NEW t \in Task, OnReleased(c, t)
  PROVE  FamilyInv'
  BY LeaveStep DEF OnReleased

LEMMA StoreStep ==
  ASSUME TaskAssumption, FamilyInv, NEW c \in Caller, Store(c)
  PROVE  FamilyInv'
  <1> DEFINE f == Top(c)
             g == [f EXCEPT !.store = @ + 1]
             args == call[c].args
  <1>1. InWalk(c) /\ f.store < 4 /\ UNCHANGED kernel
    BY DEF Store
  <1>2. /\ f \in Frame /\ FrameOf(f) /\ f.cur \in Task /\ f.store \in 1 .. 3
        /\ args \in Task \X Value \X Value
        /\ call[c].calm => CalmFrame(f, args[1])
        /\ call[c].calm /\ call[c].alone =>
             /\ SetFrame(c, f)
             /\ IF Len(call[c].stack) = 1 THEN f.cur = args[1] ELSE f.cur = call[c].stack[Len(call[c].stack) - 1].at
    BY <1>1, TopFacts
  <1>3. CASE OnReleased(c, f.cur)
    BY <1>1, <1>2, <1>3, ReleasedStep
  <1>4. CASE /\ fields' = [fields EXCEPT ![f.cur][f.store] = args[f.store]]
             /\ SetTop(c, g)
    <2> HIDE DEF f, args
    <2>1. FieldTypes
      BY DEF FamilyInv, CallInv
    <2>2. /\ FieldTypes' /\ fields'[f.cur][f.store] = args[f.store]
          /\ \A y \in Task : fields[y] = args => fields'[y] = args
          /\ \A y \in Task : \A j \in 1 .. 3 : fields[y][j] = args[j] => fields'[y][j] = args[j]
      <3>1. PICK x \in Task, i \in 1 .. 3, a \in Task \X Value \X Value :
              x = f.cur /\ i = f.store /\ a = args
        BY <1>2
      <3>2. Stored(x, i, a)
        BY <1>4, <3>1 DEF Stored
      <3>3. /\ FieldTypes' /\ fields'[x][i] = a[i]
            /\ \A y \in Task : fields[y] = a => fields'[y] = a
            /\ \A y \in Task : \A j \in 1 .. 3 : fields[y][j] = a[j] => fields'[y][j] = a[j]
        BY <2>1, <3>2, FieldStore
      <3> QED  BY <3>1, <3>3
    <2>3. g \in Frame /\ g.cur = f.cur /\ g.at = f.at /\ g.store = f.store + 1
      BY <1>2 DEF Frame
    <2>4. g.at \notin Task /\ g.at # AtHead /\ FrameOf(g)
      <3>1. f.store # 4
        BY <1>2
      <3> QED  BY <1>2, <2>3, <3>1 DEF FrameOf
    <2> HIDE DEF g
    <2>5. PICK s : /\ NewTop(c, s, g) /\ Len(s) = Len(call[c].stack)
                   /\ Len(s) # 1 => s[Len(s) - 1] = call[c].stack[Len(s) - 1]
      BY <1>1, <1>4, <2>3, SetTopNew
    <2>6. call[c].calm => CalmFrame(g, args[1])
      BY <1>2, <2>3, <2>4 DEF CalmFrame
    <2>7. call[c].calm /\ call[c].alone => \A i \in 1 .. 3 : i < g.store => fields'[g.cur][i] = args[i]
      <3>1. \A i \in 1 .. 3 : i < g.store => i < f.store \/ i = f.store
        BY <1>2, <2>3
      <3>2. call[c].calm /\ call[c].alone => \A i \in 1 .. 3 : i < f.store => fields[f.cur][i] = args[i]
        BY <1>2 DEF SetFrame, args
      <3>3. ASSUME call[c].calm, call[c].alone, NEW i \in 1 .. 3, i < g.store
            PROVE  fields'[f.cur][i] = args[i]
        <4>1. CASE i < f.store
          BY <1>2, <2>2, <3>2, <3>3, <4>1
        <4>2. CASE i = f.store
          BY <2>2, <4>2
        <4> QED  BY <3>1, <3>3, <4>1, <4>2
      <3> QED  BY <2>3, <3>3
    <2>8. call[c].calm /\ call[c].alone => GoodTop(c, s, g)
      BY <1>2, <2>2, <2>3, <2>4, <2>5, <2>7 DEF GoodTop, args
    <2> QED  BY <1>1, <2>2, <2>4, <2>5, <2>6, <2>8, NewTopStep DEF args
  <1> QED
    BY <1>3, <1>4 DEF Store

(* The children of a process that is in the lists.                         *)
LEMMA ChildFacts ==
  ASSUME TaskAssumption, KernelInv, NEW p \in Task, NEW t \in Range(children[p])
  PROVE  t \in Task /\ Listed(t) /\ t \in InLists /\ parent[t] = p /\ t # init
  <1>1. children[p] \in Seq(Task) /\ ListOf(p)
    BY DEF KernelInv, KernelTypes, TreeInv
  <1>2. t \in Task
    BY <1>1, RangeOfSeq
  <1> QED
    BY <1>1, <1>2, InvParents DEF ListOf, InLists, Listed, KernelInv, TreeInv

LEMMA EnterStep ==
  ASSUME TaskAssumption, FamilyInv, NEW c \in Caller, Enter(c)
  PROVE  FamilyInv'
  <1> DEFINE f == Top(c)
             list == children[f.cur]
             g == [f EXCEPT !.at = Eldest(f.cur)]
             args == call[c].args
  <1>1. InWalk(c) /\ f.store = 4 /\ f.at = Begin /\ UNCHANGED kernel /\ KernelInv /\ FieldTypes
    BY DEF Enter, FamilyInv, CallInv
  <1>2. /\ f \in Frame /\ FrameOf(f) /\ f.cur \in Task
        /\ list \in Seq(Task) /\ ListOf(f.cur)
        /\ call[c].calm => CalmFrame(f, args[1])
        /\ call[c].calm /\ call[c].alone =>
             /\ SetFrame(c, f)
             /\ IF Len(call[c].stack) = 1 THEN f.cur = args[1] ELSE f.cur = call[c].stack[Len(call[c].stack) - 1].at
    BY <1>1, TopFacts
  <1>3. CASE OnReleased(c, f.cur)
    BY <1>1, <1>2, <1>3, ReleasedStep
  <1>4. CASE SetTop(c, g) /\ fields' = fields
    <2> HIDE DEF f, args
    <2>1. Begin \notin Task /\ AtHead \notin Task
      BY DEF Begin, AtHead, TaskAssumption
    <2>2. list # << >> =>
            /\ Eldest(f.cur) = list[1] /\ 1 \in 1 .. Len(list) /\ list[1] \in Range(list)
            /\ Place(list, list[1]) = 1
      <3>1. ASSUME list # << >> PROVE Len(list) \in Nat /\ Len(list) >= 1 /\ DOMAIN list = 1 .. Len(list)
        BY <1>2, <3>1, EmptySeq, LenProperties
      <3>2. ASSUME list # << >> PROVE 1 \in 1 .. Len(list)
        BY <3>1, <3>2
      <3>3. ASSUME list # << >> PROVE Place(list, list[1]) = 1
        <4>1. Distinct(list)
          BY <1>2 DEF ListOf
        <4> QED  BY <1>2, <3>2, <3>3, <4>1, PlaceUnique
      <3>4. ASSUME list # << >> PROVE list[1] \in Range(list) /\ Eldest(f.cur) = list[1]
        <4>1. Head(list) = list[1]
          BY <1>2, <3>4, HeadTailProperties
        <4> QED  BY <3>1, <3>2, <3>4, <4>1 DEF Range, Eldest
      <3> QED  BY <3>2, <3>3, <3>4
    <2>3. list = << >> => Eldest(f.cur) = AtHead /\ Len(list) = 0
      BY <1>2, EmptySeq DEF Eldest
    <2>4. list # << >> => Listed(list[1]) /\ list[1] \in InLists /\ parent[list[1]] = f.cur /\ list[1] # init
                          /\ list[1] \in Task
      BY <1>1, <1>2, <2>2, ChildFacts
    <2>5. Eldest(f.cur) \in Task \cup {AtHead}
      BY <2>2, <2>3, <2>4
    <2>6. g \in Frame /\ g.cur = f.cur /\ g.at = Eldest(f.cur) /\ g.store = 4
      BY <1>1, <1>2, <2>5 DEF Frame
    <2> HIDE DEF g, list
    <2>7. FrameOf(g)
      BY <1>2, <2>1, <2>2, <2>3, <2>4, <2>6 DEF FrameOf
    <2>8. call[c].calm => CalmFrame(g, args[1])
      BY <1>2, <2>1, <2>2, <2>3, <2>4, <2>6 DEF CalmFrame
    <2>9. PICK s : /\ NewTop(c, s, g) /\ Len(s) = Len(call[c].stack)
                   /\ Len(s) # 1 => s[Len(s) - 1] = call[c].stack[Len(s) - 1]
      BY <1>1, <1>4, <2>6, SetTopNew DEF g
    <2>10. ASSUME call[c].calm, call[c].alone PROVE GoodTop(c, s, g)
      <3>1. \A i \in 1 .. 3 : i < g.store => fields'[g.cur][i] = args[i]
        BY <1>1, <1>2, <1>4, <2>6, <2>10 DEF SetFrame, args
      <3>2. \A j \in 1 .. Len(list) : ~(j < 1)
        OBVIOUS
      <3>3. g.at \in Task => list # << >> /\ Place(list, g.at) = 1
        BY <2>1, <2>2, <2>3, <2>6
      <3>4. g.at = AtHead => Len(list) = 0
        BY <2>1, <2>2, <2>3, <2>4, <2>6
      <3>5. Len(list) = 0 => 1 .. Len(list) = {}
        OBVIOUS
      <3> QED  BY <1>2, <1>4, <2>6, <2>9, <2>10, <3>1, <3>2, <3>3, <3>4, <3>5 DEF GoodTop, args, list
    <2>11. FieldTypes'
      BY <1>1, <1>4 DEF FieldTypes
    <2> QED  BY <1>1, <2>7, <2>8, <2>9, <2>10, <2>11, NewTopStep DEF args
  <1> QED
    BY <1>3, <1>4 DEF Enter

LEMMA DescendStep ==
  ASSUME TaskAssumption, FamilyInv, NEW c \in Caller, Descend(c)
  PROVE  FamilyInv'
  <1> DEFINE f == Top(c)
             g == Activation(f.at)
             old == call[c].stack
             s == Append(old, g)
             n == Len(old)
             args == call[c].args
  <1>1. /\ InWalk(c) /\ f.at \in Task /\ UNCHANGED kernel /\ fields' = fields /\ KernelInv /\ FieldTypes
        /\ call' = [call EXCEPT ![c].stack = s] /\ StackOf(c)
    BY DEF Descend, Push, FamilyInv, CallInv
  <1>2. /\ n \in Nat /\ n >= 1 /\ n \in 1 .. n /\ old \in Seq(Frame)
        /\ f \in Frame /\ FrameOf(f) /\ f.cur \in Task
        /\ call[c].calm => CalmFrame(f, args[1])
    BY <1>1, TopFacts
  <1>3. f = old[n]
    BY DEF Top
  <1> HIDE DEF f
  <1>4. g \in Frame /\ FrameOf(g) /\ Begin # AtHead /\ Begin \notin Task
    BY <1>1, <1>2, ActivationFacts DEF FrameOf
  <1>5. g.cur = f.at /\ g.store = 1 /\ g.at = Begin
    BY DEF Activation
  <1> HIDE DEF g
  <1>6. s \in Seq(Frame) /\ Len(s) = n + 1 /\ s[n + 1] = g /\ \A k \in 1 .. n : s[k] = old[k]
    BY <1>2, <1>4, AppendProperties
  <1> HIDE DEF s, n
  <1>7. n + 1 >= 1 /\ (n + 1) - 1 = n /\ n <= n /\ n + 1 # 1
    BY <1>2
  <1>8. ASSUME NEW k \in 1 .. n PROVE s[k] = old[k] /\ s[k].at \in Task
    <2>1. k = n \/ k \in 1 .. n - 1
      BY <1>2, <1>8
    <2>2. \A j \in 1 .. n - 1 : old[j].at \in Task
      BY <1>1 DEF StackOf, n
    <2> QED  BY <1>1, <1>3, <1>6, <2>1, <2>2
  <1>9. NewTop(c, s, g)
    BY <1>1, <1>6, <1>7, <1>8 DEF NewTop, n
  <1>10. ASSUME call[c].calm PROVE CalmFrame(g, args[1])
    <2>1. /\ Listed(f.at) /\ parent[f.at] = f.cur /\ args[1] \in line[f.cur]
      BY <1>1, <1>2, <1>10 DEF CalmFrame
    <2>2. LineOf(f.at) /\ parent[f.at] # None
      BY <1>1, <1>2, <2>1, InvParents DEF KernelInv, LineInv, Listed
    <2> QED  BY <1>4, <1>5, <2>1, <2>2 DEF CalmFrame, LineOf
  <1>11. GoodTop(c, s, g)
    <2>1. \A i \in 1 .. 3 : ~(i < 1)
      OBVIOUS
    <2>2. s[Len(s) - 1].at = f.at /\ Len(s) # 1
      BY <1>2, <1>3, <1>6, <1>7
    <2> QED  BY <1>1, <1>4, <1>5, <2>1, <2>2 DEF GoodTop
  <1>12. FieldTypes'
    BY <1>1 DEF FieldTypes
  <1> QED
    BY <1>1, <1>4, <1>9, <1>10, <1>11, <1>12, NewTopStep

(* A process whose children have all been done, and that has its fields.   *)
LEMMA DoneAll ==
  ASSUME TaskAssumption, KernelInv, NEW c \in Caller, NEW x \in Task, fields[x] = call[c].args,
         \A j \in 1 .. Len(children[x]) : Done(c, children[x][j])
  PROVE  Done(c, x)
  <1>1. children[x] \in Seq(Task)
    BY DEF KernelInv, KernelTypes
  <1>2. ASSUME NEW t \in Below(x), t \in call[c].before PROVE fields[t] = call[c].args
    <2>1. CASE t = x
      BY <2>1
    <2>2. CASE t # x
      <3>1. PICK u \in Range(children[x]) : t \in Below(u)
        BY <2>2, BelowChildren
      <3>2. PICK j \in 1 .. Len(children[x]) : children[x][j] = u
        BY <1>1, <3>1, RangeEquality
      <3>3. u \in Task
        BY <1>1, <3>1, RangeOfSeq
      <3>4. t \in Family[u]
        BY <3>1, <3>3 DEF Family
      <3>5. Done(c, u)
        BY <3>2
      <3> QED  BY <1>2, <3>4, <3>5 DEF Done
    <2> QED  BY <2>1, <2>2
  <1>3. Family[x] = Below(x)
    BY DEF Family
  <1> QED
    BY <1>2, <1>3 DEF Done

(* An activation at the end of its list has done all below its process.    *)
LEMMA TopDone ==
  ASSUME TaskAssumption, FamilyInv, NEW c \in Caller, InWalk(c), call[c].calm, call[c].alone,
         Top(c).at = AtHead
  PROVE  Done(c, Top(c).cur)
  <1> DEFINE f == Top(c)
             args == call[c].args
  <1>1. KernelInv /\ FieldTypes
    BY DEF FamilyInv, CallInv
  <1>2. FrameOf(f) /\ f.cur \in Task /\ SetFrame(c, f) /\ args \in Task \X Value \X Value
    BY TopFacts
  <1> HIDE DEF f
  <1>3. f.at = AtHead /\ f.store = 4
    BY <1>2 DEF FrameOf, f
  <1>4. fields[f.cur][1] = args[1] /\ fields[f.cur][2] = args[2] /\ fields[f.cur][3] = args[3]
    BY <1>2, <1>3 DEF SetFrame
  <1>5. fields[f.cur] = args
    <2>1. fields[f.cur] \in (Task \cup {-1}) \X (Value \cup {-1}) \X (Value \cup {-1})
      BY <1>1, <1>2 DEF FieldTypes
    <2> QED  BY <1>2, <1>4, <2>1
  <1>6. \A j \in 1 .. Len(children[f.cur]) : Done(c, children[f.cur][j])
    BY <1>2, <1>3 DEF SetFrame
  <1>7. Done(c, f.cur)
    BY <1>1, <1>2, <1>5, <1>6, DoneAll
  <1> QED
    BY <1>7 DEF f

LEMMA Front ==
  ASSUME NEW S, NEW s \in Seq(S), Len(s) >= 1
  PROVE  /\ SubSeq(s, 1, Len(s) - 1) \in Seq(S)
         /\ Len(SubSeq(s, 1, Len(s) - 1)) = Len(s) - 1
         /\ \A k \in 1 .. Len(s) - 1 : SubSeq(s, 1, Len(s) - 1)[k] = s[k]
  <1> DEFINE n == Len(s)
             r == SubSeq(s, 1, n - 1)
  <1>1. n \in Nat /\ n >= 1 /\ \A k \in 1 .. n : s[k] \in S
    BY LenProperties, ElementOfSeq
  <1> HIDE DEF n
  <1>2. \A k \in 1 .. n - 1 : s[k] \in S
    BY <1>1
  <1>3. n - 1 \in Int /\ 1 \in Int /\ (IF 1 <= n - 1 THEN (n - 1) - 1 + 1 ELSE 0) = n - 1
        /\ (n - 1) - 1 + 1 = n - 1
    BY <1>1
  <1>4. /\ r \in Seq(S) /\ Len(r) = IF 1 <= n - 1 THEN (n - 1) - 1 + 1 ELSE 0
        /\ \A k \in 1 .. (n - 1) - 1 + 1 : r[k] = s[1 + k - 1]
    BY <1>2, <1>3, SubSeqProperties
  <1>5. \A k \in 1 .. n - 1 : 1 + k - 1 = k
    BY <1>1
  <1> HIDE DEF r
  <1>6. r \in Seq(S) /\ Len(r) = n - 1 /\ \A k \in 1 .. n - 1 : r[k] = s[k]
    BY <1>3, <1>4, <1>5
  <1> QED
    BY <1>6 DEF n, r

(* The activation below the top.                                           *)
LEMMA SecondFacts ==
  ASSUME TaskAssumption, FamilyInv, NEW c \in Caller, InWalk(c), Len(call[c].stack) # 1
  PROVE  LET old  == call[c].stack
             m    == Len(old) - 1
             f    == old[m]
         IN /\ m \in Nat /\ m >= 1 /\ m \in 1 .. m
            /\ f \in Frame /\ f.cur \in Task /\ FrameOf(f) /\ f.at \in Task
            /\ call[c].calm => CalmFrame(f, call[c].args[1])
            /\ call[c].calm /\ call[c].alone =>
                 /\ SetFrame(c, f) /\ Top(c).cur = f.at
                 /\ IF m = 1 THEN f.cur = call[c].args[1] ELSE f.cur = old[m - 1].at
  <1> DEFINE old == call[c].stack
             n   == Len(old)
             m   == n - 1
             f   == old[m]
  <1>1. n \in Nat /\ n >= 1 /\ StackOf(c) /\ KernelInv /\ CallInv /\ SetInv(c)
    BY TopFacts DEF FamilyInv, CallInv
  <1> HIDE DEF n
  <1>2. m \in Nat /\ m >= 1 /\ m \in 1 .. m /\ m \in 1 .. n - 1 /\ m \in 1 .. n /\ m + 1 = n
        /\ (m # 1 => m - 1 \in 1 .. n - 1 /\ (m - 1) + 1 = m)
    <2>1. n # 1
      BY DEF n
    <2> QED  BY <1>1, <2>1
  <1> HIDE DEF m
  <1>3. f \in Frame /\ f.cur \in Task /\ FrameOf(f) /\ (call[c].calm => CalmFrame(f, call[c].args[1]))
    BY <1>1, <1>2, FrameFacts DEF n
  <1>4. f.at \in Task
    BY <1>1, <1>2 DEF StackOf, n
  <1>5. ASSUME call[c].calm, call[c].alone
        PROVE  /\ SetFrame(c, f) /\ Top(c).cur = f.at
               /\ IF m = 1 THEN f.cur = call[c].args[1] ELSE f.cur = old[m - 1].at
    <2>1. /\ old[1].cur = call[c].args[1]
          /\ \A k \in 1 .. n - 1 : old[k + 1].cur = old[k].at
          /\ \A k \in 1 .. n : SetFrame(c, old[k])
      BY <1>1, <1>5 DEF SetInv, n
    <2>2. Top(c) = old[n]
      BY DEF Top, n
    <2>3. m # 1 => old[m].cur = old[m - 1].at
      BY <1>2, <2>1
    <2> QED  BY <1>2, <2>1, <2>2, <2>3
  <1> QED
    BY <1>2, <1>3, <1>4, <1>5 DEF m, n

LEMMA AfterChild ==
  ASSUME TaskAssumption, KernelInv, NEW t \in Task, t # init, Listed(t)
  PROVE  /\ parent[t] \in Task /\ children[parent[t]] \in Seq(Task)
         /\ t \in Range(children[parent[t]]) /\ Distinct(children[parent[t]])
         /\ Following(t) \in Task \cup {AtHead}
         /\ Following(t) \in Task =>
              Listed(Following(t)) /\ parent[Following(t)] = parent[t] /\ Following(t) # init
  <1> DEFINE p == parent[t]
             list == children[p]
  <1>1. p \in Task
    BY InvParents DEF Listed
  <1> HIDE DEF p
  <1>2. list \in Seq(Task) /\ ListOf(p)
    BY <1>1 DEF KernelInv, KernelTypes, TreeInv
  <1>3. t \in Range(list) /\ Distinct(list)
    BY <1>2 DEF ListOf, p
  <1>4. After(list, t) = AtHead \/ After(list, t) \in Range(list)
    BY <1>2, <1>3, AfterPlace
  <1>5. AtHead \notin Task
    BY DEF AtHead, TaskAssumption
  <1>6. After(list, t) \in Range(list) =>
          /\ After(list, t) \in Task /\ Listed(After(list, t)) /\ parent[After(list, t)] = p
          /\ After(list, t) # init
    BY <1>1, ChildFacts
  <1>7. Following(t) = After(list, t)
    BY DEF Following, p
  <1> QED
    BY <1>1, <1>2, <1>3, <1>4, <1>5, <1>6, <1>7 DEF p

LEMMA ReturnStep ==
  ASSUME TaskAssumption, FamilyInv, NEW c \in Caller, Return(c)
  PROVE  FamilyInv'
  <1> DEFINE old == call[c].stack
             n   == Len(old)
             m   == n - 1
             st  == SubSeq(old, 1, m)
             f   == st[Len(st)]
             next == Following(f.at)
             g   == [f EXCEPT !.at = next]
             s   == [st EXCEPT ![Len(st)] = g]
             args == call[c].args
  <1>1. /\ InWalk(c) /\ Top(c).at = AtHead /\ UNCHANGED kernel /\ fields' = fields
        /\ KernelInv /\ FieldTypes /\ StackOf(c)
    BY DEF Return, FamilyInv, CallInv
  <1>2. n \in Nat /\ n >= 1 /\ old \in Seq(Frame)
    BY <1>1, TopFacts
  <1>3. st \in Seq(Frame) /\ Len(st) = m /\ \A k \in 1 .. m : st[k] = old[k]
    BY <1>2, Front
  <1>4. \/ st = << >> /\ Leave(c, "idle")
        \/ st # << >> /\ OnReleased(c, f.at)
        \/ st # << >> /\ state[f.at] # "gone" /\ Leave(c, "astray")
        \/ st # << >> /\ state[f.at] # "gone" /\ call' = [call EXCEPT ![c].stack = s]
    BY DEF Return
  <1>5. CASE Leave(c, "idle") \/ Leave(c, "astray")
    BY <1>1, <1>5, LeaveStep
  <1>6. ASSUME st # << >>
        PROVE  n # 1 /\ f = old[m]
    <2>1. m # 0
      BY <1>3, <1>6, EmptySeq
    <2> HIDE DEF n
    <2>2. n # 1 /\ m \in 1 .. m
      BY <1>2, <2>1
    <2> QED  BY <1>3, <2>2
  <1>7. CASE st # << >> /\ OnReleased(c, f.at)
    <2>1. f.at \in Task
      BY <1>1, <1>6, <1>7, SecondFacts
    <2> QED  BY <1>1, <1>7, <2>1, ReleasedStep
  <1>8. CASE st # << >> /\ state[f.at] # "gone" /\ call' = [call EXCEPT ![c].stack = s]
    <2>1. /\ m \in Nat /\ m >= 1 /\ m \in 1 .. m
          /\ f \in Frame /\ f.cur \in Task /\ FrameOf(f) /\ f.at \in Task
          /\ call[c].calm => CalmFrame(f, args[1])
          /\ call[c].calm /\ call[c].alone =>
                 /\ SetFrame(c, f) /\ Top(c).cur = f.at
                 /\ IF m = 1 THEN f.cur = args[1] ELSE f.cur = old[m - 1].at
      BY <1>1, <1>6, <1>8, SecondFacts
    <2> HIDE DEF f
    <2>2. f.at \in InLists /\ f.at # init /\ f.store = 4
      BY <2>1 DEF FrameOf
    <2>3. Listed(f.at)
      BY <1>1, <1>8, <2>1, <2>2 DEF InLists, Listed, KernelInv, KernelTypes, TaskState
    <2> DEFINE p == parent[f.at]
               list == children[p]
    <2>4. /\ p \in Task /\ list \in Seq(Task) /\ f.at \in Range(list) /\ Distinct(list)
          /\ next \in Task \cup {AtHead}
          /\ next \in Task => Listed(next) /\ parent[next] = p /\ next # init
      BY <1>1, <2>1, <2>2, <2>3, AfterChild
    <2>5. next = After(list, f.at)
      BY DEF Following
    <2> HIDE DEF next, p, list
    <2>6. g \in Frame /\ g.cur = f.cur /\ g.at = next /\ g.store = 4
      BY <2>1, <2>2, <2>4 DEF Frame
    <2>7. FrameOf(g)
      BY <2>1, <2>4, <2>6 DEF FrameOf, InLists, Listed
    <2>8. ASSUME call[c].calm PROVE CalmFrame(g, args[1]) /\ p = f.cur
      BY <2>1, <2>4, <2>6, <2>8 DEF CalmFrame, p
    <2> HIDE DEF g
    <2>9. s \in Seq(Frame) /\ Len(s) = m /\ \A j \in 1 .. m : s[j] = IF j = m THEN g ELSE st[j]
      <3>1. Len(st) \in 1 .. Len(st) /\ st \in Seq(Frame) /\ Len(st) = m
        BY <1>3, <2>1
      <3> HIDE DEF st, m
      <3>2. s \in Seq(Frame) /\ Len(s) = Len(st)
            /\ \A j \in 1 .. Len(st) : s[j] = IF j = Len(st) THEN g ELSE st[j]
        BY <2>6, <3>1, ExceptSeq
      <3> QED  BY <3>1, <3>2
    <2>10. call' = [call EXCEPT ![c].stack = s]
      BY <1>8
    <2> HIDE DEF s
    <2>11. \A k \in 1 .. m - 1 : k \in 1 .. m /\ k # m /\ k \in 1 .. n - 1
      <3> HIDE DEF n
      <3> QED  BY <1>2
    <2>12. m - 1 <= n
      <3> HIDE DEF n
      <3> QED  BY <1>2
    <2>13. \A k \in 1 .. m - 1 : s[k] = old[k] /\ s[k].at \in Task
      BY <1>1, <1>3, <2>9, <2>11 DEF StackOf
    <2>14. NewTop(c, s, g)
      BY <2>1, <2>9, <2>10, <2>12, <2>13 DEF NewTop
    <2>15. ASSUME call[c].calm, call[c].alone PROVE GoodTop(c, s, g)
      <3>1. IF Len(s) = 1 THEN g.cur = args[1] ELSE g.cur = s[Len(s) - 1].at
        <4>1. m # 1 => m - 1 \in 1 .. m - 1
          <5> HIDE DEF m
          <5> QED  BY <2>1
        <4> QED  BY <2>1, <2>6, <2>9, <2>13, <2>15, <4>1
      <3>2. p = f.cur
        BY <2>8, <2>15
      <3>3. Done(c, f.at)
        BY <1>1, <2>1, <2>15, TopDone
      <3>4. \A j \in 1 .. Len(list) : j < Place(list, f.at) => Done(c, list[j])
        BY <2>1, <2>15, <3>2 DEF SetFrame, list
      <3>5. Place(list, f.at) \in 1 .. Len(list) /\ list[Place(list, f.at)] = f.at /\ Len(list) \in Nat
        BY <2>4, PlaceIn, LenProperties
      <3>6. \A j \in 1 .. Len(list) : j <= Place(list, f.at) => Done(c, list[j])
        <4>1. ASSUME NEW j \in 1 .. Len(list), j <= Place(list, f.at)
              PROVE  j < Place(list, f.at) \/ j = Place(list, f.at)
          BY <3>5, <4>1
        <4> QED  BY <3>3, <3>4, <3>5, <4>1
      <3>7. IF Place(list, f.at) < Len(list)
              THEN next = list[Place(list, f.at) + 1] /\ next \in Range(list)
              ELSE next = AtHead /\ Place(list, f.at) = Len(list)
        BY <2>4, <2>5, AfterPlace
      <3>8. AtHead \notin Task /\ Range(list) \subseteq Task
        BY <2>4, RangeOfSeq DEF AtHead, TaskAssumption
      <3>9. ASSUME next \in Task, NEW j \in 1 .. Len(list), j < Place(list, next)
            PROVE  Done(c, list[j])
        <4>1. Place(list, f.at) < Len(list) /\ next = list[Place(list, f.at) + 1]
          BY <3>7, <3>8, <3>9
        <4>2. Place(list, f.at) + 1 \in 1 .. Len(list)
          BY <3>5, <4>1
        <4>3. Place(list, next) = Place(list, f.at) + 1
          BY <2>4, <4>1, <4>2, PlaceUnique
        <4>4. j <= Place(list, f.at)
          BY <3>5, <3>9, <4>3
        <4> QED  BY <3>6, <4>4
      <3>10. ASSUME next = AtHead, NEW j \in 1 .. Len(list)
             PROVE  Done(c, list[j])
        <4>1. Place(list, f.at) = Len(list)
          BY <3>7, <3>8, <3>10
        <4>2. j <= Place(list, f.at)
          BY <3>5, <4>1
        <4> QED  BY <3>6, <4>2
      <3>11. \A i \in 1 .. 3 : i < 4 => fields[g.cur][i] = args[i]
        BY <2>1, <2>2, <2>6, <2>15 DEF SetFrame
      <3> QED  BY <1>1, <2>6, <3>1, <3>2, <3>9, <3>10, <3>11 DEF GoodTop, list
    <2>16. FieldTypes'
      BY <1>1 DEF FieldTypes
    <2> QED  BY <1>1, <2>7, <2>8, <2>14, <2>15, <2>16, NewTopStep
  <1> QED
    BY <1>4, <1>5, <1>7, <1>8

-----------------------------------------------------------------------------
(* The invariant, and what it says of the steps                            *)

LEMMA FamilyInvariance ==
  ASSUME TaskAssumption, FamilyInv, [Next]_vars
  PROVE  FamilyInv'
  <1>1. ASSUME NEW c \in Caller, Walk(c) PROVE FamilyInv'
    BY <1>1, StoreStep, EnterStep, DescendStep, ReturnStep DEF Walk
  <1>2. CASE UNCHANGED vars
    <2>1. KernelInv /\ UNCHANGED kernel /\ call' = call /\ fields' = fields
      BY <1>2 DEF vars, FamilyInv
    <2>2. KernelInv' /\ Family' = Family /\ children' = children
      BY <2>1, KernelSame
    <2>3. CallInv'
      BY <2>1 DEF kernel, FamilyInv, CallInv, FieldTypes, StackOf, FrameOf, InLists, CalmInv,
                  CalmFrame, Listed, InWalk
    <2>4. BeforeInv'
      BY <2>1 DEF kernel, FamilyInv, BeforeInv
    <2>5. ASSUME NEW c \in Caller PROVE SetInv(c)'
      <3>1. \A f : SetFrame(c, f) => SetFrame(c, f)'
        BY <2>1, <2>2 DEF SetFrame, Done
      <3>2. SetInv(c)
        BY DEF FamilyInv
      <3> QED  BY <2>1, <3>1, <3>2 DEF SetInv, InWalk
    <2> QED  BY <2>2, <2>3, <2>4, <2>5 DEF FamilyInv
  <1> QED
    BY <1>1, <1>2, CallStep, KernelStep DEF Next

LEMMA InvTypes ==
  ASSUME TaskAssumption, FamilyInv
  PROVE  TypeOK
  <1>1. KernelTypes /\ FieldTypes /\ call \in [Caller -> Calls]
    BY DEF FamilyInv, KernelInv, CallInv
  <1>2. ASSUME NEW c \in Caller
        PROVE  /\ call[c].pc \in {"idle", "walk", "astray"}
               /\ call[c].args \in {NotSet} \cup (Task \X Value \X Value)
               /\ call[c].before \subseteq Task /\ call[c].calm \in BOOLEAN /\ call[c].alone \in BOOLEAN
               /\ call[c].stack \in Seq(Frame)
    BY <1>1 DEF Calls
  <1> QED
    BY <1>1, <1>2 DEF TypeOK, KernelTypes, FieldTypes, TaskState

(* What a step of a walk does to the others, how it can end, and where it  *)
(* stores.                                                                 *)
LEMMA WalkEffect ==
  ASSUME TaskAssumption, FamilyInv, NEW c \in Caller, Walk(c)
  PROVE  /\ InWalk(c)
         /\ \A d \in Caller : d # c => call'[d] = call[d]
         /\ call'[c].pc = "idle" => Top(c).at = AtHead /\ Len(call[c].stack) = 1
         /\ call[c].calm => call'[c].pc # "astray"
         /\ \A t \in Task : fields'[t] # fields[t] => t = Top(c).cur
  <1> DEFINE f == Top(c)
             old == call[c].stack
             n == Len(old)
  <1>1. InWalk(c) /\ call \in [Caller -> Calls] /\ FieldTypes /\ KernelInv
    BY DEF Walk, Store, Enter, Descend, Return, FamilyInv, CallInv
  <1>2. /\ n \in Nat /\ n >= 1 /\ old \in Seq(Frame) /\ FrameOf(f) /\ f.cur \in Task /\ f.store \in 1 .. 4
        /\ call[c].args \in Task \X Value \X Value
        /\ call[c].calm => CalmFrame(f, call[c].args[1])
    BY <1>1, TopFacts
  <1>3. ASSUME NEW new, call' = [call EXCEPT ![c].stack = new]
        PROVE  call'[c].pc = "walk" /\ \A d \in Caller : d # c => call'[d] = call[d]
    <2>1. call[c] \in Calls /\ call'[c] = [call[c] EXCEPT !.stack = new]
      BY <1>1, <1>3
    <2>2. call'[c].pc = "walk"
      BY <1>1, <2>1 DEF Calls, InWalk
    <2> QED  BY <1>1, <1>3, <2>2
  <1>4. ASSUME NEW pc, Leave(c, pc)
        PROVE  call'[c].pc = pc /\ \A d \in Caller : d # c => call'[d] = call[d]
    BY <1>1, <1>4 DEF Leave, Outside
  <1>5. ASSUME NEW t \in Task, OnReleased(c, t), call[c].calm => state[t] # "gone"
        PROVE  /\ call'[c].pc = "astray" /\ ~call[c].calm /\ fields' = fields
               /\ \A d \in Caller : d # c => call'[d] = call[d]
    <2>1. state[t] = "gone" /\ Leave(c, "astray") /\ fields' = fields
      BY <1>5 DEF OnReleased
    <2> QED  BY <1>4, <1>5, <2>1
  <1>6. call[c].calm => state[f.cur] # "gone"
    BY <1>2 DEF CalmFrame, Listed
  <1>7. CASE Store(c)
    <2>1. CASE OnReleased(c, f.cur)
      BY <1>1, <1>2, <1>5, <1>6, <2>1
    <2>2. CASE /\ fields' = [fields EXCEPT ![f.cur][f.store] = call[c].args[f.store]]
               /\ SetTop(c, [f EXCEPT !.store = @ + 1])
      <3>1. \A t \in Task : fields'[t] # fields[t] => t = f.cur
        BY <1>1, <2>2 DEF FieldTypes
      <3>2. call'[c].pc = "walk" /\ \A d \in Caller : d # c => call'[d] = call[d]
        BY <1>3, <2>2 DEF SetTop
      <3> QED  BY <1>1, <3>1, <3>2
    <2> QED  BY <1>7, <2>1, <2>2 DEF Store
  <1>8. CASE Enter(c)
    <2>1. CASE OnReleased(c, f.cur)
      BY <1>1, <1>2, <1>5, <1>6, <2>1
    <2>2. CASE SetTop(c, [f EXCEPT !.at = Eldest(f.cur)]) /\ fields' = fields
      <3>1. call'[c].pc = "walk" /\ \A d \in Caller : d # c => call'[d] = call[d]
        BY <1>3, <2>2 DEF SetTop
      <3> QED  BY <1>1, <2>2, <3>1
    <2> QED  BY <1>8, <2>1, <2>2 DEF Enter
  <1>9. CASE Descend(c)
    BY <1>1, <1>3, <1>9 DEF Descend, Push
  <1>10. CASE Return(c)
    <2> DEFINE m  == n - 1
               st == SubSeq(old, 1, m)
               g  == st[Len(st)]
               next == Following(g.at)
    <2>1. f.at = AtHead /\ fields' = fields
      BY <1>10 DEF Return
    <2>2. st \in Seq(Frame) /\ Len(st) = m /\ \A k \in 1 .. m : st[k] = old[k]
      BY <1>2, Front
    <2>3. \/ st = << >> /\ Leave(c, "idle")
          \/ st # << >> /\ OnReleased(c, g.at)
          \/ st # << >> /\ next = AtHead /\ parent[g.at] # g.cur
          \/ st # << >> /\ call' = [call EXCEPT ![c].stack = [st EXCEPT ![Len(st)] = [g EXCEPT !.at = next]]]
      BY <1>10 DEF Return
    <2>4. CASE st = << >> /\ Leave(c, "idle")
      <3>1. m = 0
        BY <2>2, <2>4, EmptySeq
      <3>2. n = 1
        <4> HIDE DEF n
        <4> QED  BY <1>2, <3>1
      <3> QED  BY <1>1, <1>4, <2>1, <2>4, <3>2
    <2>5. ASSUME st # << >>
          PROVE  g.at \in Task /\ (call[c].calm => Listed(g.at) /\ parent[g.at] = g.cur)
      <3>1. m # 0
        BY <2>2, <2>5, EmptySeq
      <3>2. n # 1 /\ m \in 1 .. m
        <4> HIDE DEF n
        <4> QED  BY <1>2, <3>1
      <3>3. g = old[m]
        BY <2>2, <3>2
      <3>4. FrameOf(g) /\ g.at \in Task /\ (call[c].calm => CalmFrame(g, call[c].args[1]))
        BY <1>1, <3>2, <3>3, SecondFacts
      <3> HIDE DEF g
      <3> QED  BY <3>4 DEF CalmFrame
    <2>6. CASE st # << >> /\ OnReleased(c, g.at)
      <3>1. call[c].calm => state[g.at] # "gone"
        BY <2>5, <2>6 DEF Listed
      <3> QED  BY <1>1, <1>5, <2>5, <2>6, <3>1
    <2>7. CASE st # << >> /\ next = AtHead /\ parent[g.at] # g.cur /\ ~OnReleased(c, g.at)
      <3>1. ~call[c].calm /\ Leave(c, "astray")
        BY <1>10, <2>5, <2>7 DEF Return
      <3> QED  BY <1>1, <1>4, <2>1, <3>1
    <2>8. CASE st # << >> /\ call' = [call EXCEPT ![c].stack = [st EXCEPT ![Len(st)] = [g EXCEPT !.at = next]]]
      BY <1>1, <1>3, <2>1, <2>8
    <2> QED  BY <2>3, <2>4, <2>6, <2>7, <2>8
  <1> QED
    BY <1>7, <1>8, <1>9, <1>10 DEF Walk

LEMMA StepStaysBelow ==
  ASSUME TaskAssumption, FamilyInv, Next,
         NEW c \in Caller, InWalk(c), call[c].calm, call'[c] # call[c]
  PROVE  /\ call'[c].pc # "astray"
         /\ \A t \in Task : fields'[t] # fields[t] => call[c].args[1] \in line[t]
  <1>1. call[c].pc = "walk" /\ call \in [Caller -> Calls]
    BY DEF InWalk, FamilyInv, CallInv
  <1>2. CASE \E d \in Caller : Call(d)
    <2>1. PICK d \in Caller : Call(d)
      BY <1>2
    <2>2. d # c /\ fields' = fields
      BY <1>1, <2>1 DEF Call, AtWork, InCall
    <2>3. call'[c] = [call[c] EXCEPT !.alone = call[c].pc = "idle"]
      BY <2>1, <2>2 DEF Call, Begins
    <2>4. call'[c].pc = call[c].pc
      BY <1>1, <2>3 DEF Calls
    <2> QED  BY <1>1, <2>2, <2>4
  <1>3. CASE \E d \in Caller : Walk(d)
    <2>1. PICK d \in Caller : Walk(d)
      BY <1>3
    <2>2. d = c
      BY <2>1, WalkEffect
    <2>3. CalmFrame(Top(c), call[c].args[1])
      BY TopFacts
    <2>4. call'[c].pc # "astray" /\ \A t \in Task : fields'[t] # fields[t] => t = Top(c).cur
      BY <2>1, <2>2, WalkEffect
    <2> QED  BY <2>3, <2>4 DEF CalmFrame
  <1>4. CASE \E t \in Task : Copy(t) \/ Link(t)
    BY <1>4 DEF Copy, Link
  <1>5. CASE \E t \in Task : Exit(t) \/ Release(t)
    <2>1. call' = Disturbed /\ fields' = fields
      BY <1>5 DEF Exit, Release
    <2>2. call'[c] = [call[c] EXCEPT !.calm = call[c].pc = "idle"]
      BY <2>1 DEF Disturbed
    <2>3. call'[c].pc = call[c].pc
      BY <1>1, <2>2 DEF Calls
    <2> QED  BY <1>1, <2>1, <2>3
  <1> QED
    BY <1>2, <1>3, <1>4, <1>5 DEF Next

LEMMA StepSetsMembers ==
  ASSUME TaskAssumption, FamilyInv, Next,
         NEW c \in Caller, InWalk(c), call[c].calm, call[c].alone, call'[c].pc = "idle"
  PROVE  \A t \in Below(call[c].args[1]) \cap call[c].before : fields[t] = call[c].args
  <1>1. call[c].pc = "walk" /\ call \in [Caller -> Calls]
    BY DEF InWalk, FamilyInv, CallInv
  <1>2. ASSUME NEW d \in Caller, Call(d) PROVE FALSE
    <2>1. d # c
      BY <1>1, <1>2 DEF Call, AtWork, InCall
    <2>2. call'[c] = [call[c] EXCEPT !.alone = call[c].pc = "idle"]
      BY <1>2, <2>1 DEF Call, Begins
    <2>3. call'[c].pc = call[c].pc
      BY <1>1, <2>2 DEF Calls
    <2> QED  BY <1>1, <2>3
  <1>3. ASSUME NEW d \in Caller, Walk(d)
        PROVE  Top(c).at = AtHead /\ Len(call[c].stack) = 1
    BY <1>1, <1>3, WalkEffect
  <1>4. ASSUME NEW t \in Task, Copy(t) \/ Link(t) PROVE FALSE
    BY <1>1, <1>4 DEF Copy, Link
  <1>5. ASSUME NEW t \in Task, Exit(t) \/ Release(t) PROVE FALSE
    <2>1. call'[c] = [call[c] EXCEPT !.calm = call[c].pc = "idle"]
      BY <1>5 DEF Exit, Release, Disturbed
    <2>2. call'[c].pc = call[c].pc
      BY <1>1, <2>1 DEF Calls
    <2> QED  BY <1>1, <2>2
  <1>6. Top(c).at = AtHead /\ Len(call[c].stack) = 1
    BY <1>2, <1>3, <1>4, <1>5 DEF Next
  <1>7. Done(c, Top(c).cur) /\ Top(c).cur = call[c].args[1] /\ Top(c).cur \in Task
    BY <1>6, TopFacts, TopDone
  <1> QED
    BY <1>7 DEF Done, Family

-----------------------------------------------------------------------------
(* The theorems                                                            *)

LEMMA FamilyInvariant == Spec => []FamilyInv
  <1>1. Init => FamilyInv
    BY InitFamily, TaskAssumption
  <1>2. FamilyInv /\ [Next]_vars => FamilyInv'
    BY FamilyInvariance, TaskAssumption
  <1> QED
    BY <1>1, <1>2, PTL DEF Spec

(* The kernel's lists and the state of a walk of setproclimit_dump have    *)
(* the types that the walk relies on, whatever forks, exits and calls.     *)
THEOREM FamilyTypes == Spec => []TypeOK
  <1>1. FamilyInv => TypeOK
    BY InvTypes, TaskAssumption
  <1> QED
    BY <1>1, FamilyInvariant, PTL

(* setproclimit_dump, while no process exits, follows no pointer out of    *)
(* the lists and stores only into descendants, in trees of any size and    *)
(* with any number of callers.                                             *)
THEOREM WalkStaysBelow == Spec => StaysBelow
  <1>1. FamilyInv /\ [Next]_vars =>
          [\A c \in Caller : InWalk(c) /\ call[c].calm /\ call'[c] # call[c] =>
             /\ call'[c].pc # "astray"
             /\ \A t \in Task : fields'[t] # fields[t] => call[c].args[1] \in line[t]]_vars
    BY StepStaysBelow, TaskAssumption
  <1> QED
    BY <1>1, FamilyInvariant, PTL DEF Spec, StaysBelow

(* When sys_setproclimit returns and no process exited and nobody else     *)
(* called meanwhile, all that descend from the process of the call have    *)
(* the new root and limits: the recursion of setproclimit_dump leaves out  *)
(* none, however many are forked where it walks.                           *)
THEOREM WalkSetsMembers == Spec => SetsMembers
  <1>1. FamilyInv /\ [Next]_vars =>
          [\A c \in Caller : InWalk(c) /\ call[c].calm /\ call[c].alone /\ call'[c].pc = "idle" =>
             \A t \in Below(call[c].args[1]) \cap call[c].before :
               fields[t] = call[c].args]_vars
    BY StepSetsMembers, TaskAssumption
  <1> QED
    BY <1>1, FamilyInvariant, PTL DEF Spec, SetsMembers
=============================================================================

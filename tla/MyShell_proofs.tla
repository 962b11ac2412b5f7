---------------------------- MODULE MyShell_proofs ----------------------------
(***************************************************************************)
(* The safety of the shell's job control, for every set of process ids,    *)
(* size of the history, and number of pipes, lines and events.             *)
(***************************************************************************)
EXTENDS MyShell, FiniteSetTheorems, TLAPS

-----------------------------------------------------------------------------
(* The inductive invariant                                                 *)

(* globalPid is -1 only after a fork that failed, and then the shell exits *)
(* before it forks again: no child inherits it.                            *)
TargetInv ==
  globalPid = -1 => pc \in {"failed", "exited"}

(* The shell waits for a child that it knows, and that its handlers know.  *)
WaitInv ==
  /\ pc = "forked" => pid \in Pid \cup {-1}
  /\ pc = "wait" => pid \in Pid /\ globalPid = pid

(* waitpid reports what has happened: the end of a child, or that it was   *)
(* stopped once.  A pid that is free has nothing left to report.           *)
NewsInv ==
  \A p \in Pid :
    /\ st[p] = "none" => p \notin news /\ p \notin stopped
    /\ p \in news => st[p] = "zombie" \/ p \in halted
    /\ p \in stopped => Alive(p) /\ p \in halted

(* A child is the one that the shell is about to wait for, or waits for,   *)
(* or nobody ever will.                                                    *)
ChildInv ==
  /\ \A p \in Pid : \/ st[p] = "none"
                    \/ p \in background \cup halted
                    \/ pc \in {"forked", "wait"} /\ p = pid
  /\ pc = "forked" /\ ampershandFlag /\ pid # -1 => pid \in background

ShellInv == TypeOK /\ TargetInv /\ WaitInv /\ NewsInv /\ ChildInv

-----------------------------------------------------------------------------
(* The actions                                                             *)

OfShell == BuiltIn \/ Exit \/ EndOfInput \/ Run \/ Fork \/ ForkFails \/ Assign \/ ExitFailed \/ Wait

OfChild(p) ==
  \/ ChildAssign(p) \/ Stage(p) \/ Exec(p) \/ Ends(p)
  \/ ChildHandler(p) \/ Killed(p) \/ Stop(p) \/ Continue(p)

StepCases == OfShell \/ Handler \/ Signal \/ (\E p \in Pid : OfChild(p)) \/ UNCHANGED vars

LEMMA NextCases == [Next]_vars => StepCases
  BY DEF Next, ShellStep, ChildStep, StepCases, OfShell, OfChild

LEMMA PidType == 0 \notin Pid /\ -1 \notin Pid
  BY MyShellAssumption

LEMMA TargetsType == \A t : Targets(t) \subseteq Pid
  BY DEF Targets

-----------------------------------------------------------------------------
(* Types                                                                   *)

LEMMA InitType == Init => ShellInv
  <1> SUFFICES ASSUME Init PROVE ShellInv
    OBVIOUS
  <1>1. /\ {globalPid, pid} \subseteq Pid \cup {0, -1} /\ historyArg \in 0 .. MaxLines
        /\ 0 \in 0 .. MaxPipes /\ 0 \in 0 .. MaxLines /\ events \in 0 .. MaxEvents
    BY MyShellAssumption DEF Init
  <1>2. TypeOK
    BY <1>1 DEF Init, TypeOK, Empty
  <1>3. TargetInv /\ WaitInv /\ NewsInv /\ ChildInv
    BY DEF Init, TargetInv, WaitInv, NewsInv, ChildInv
  <1> QED
    BY <1>2, <1>3 DEF ShellInv

LEMMA StoreType ==
  ASSUME TypeOK, Store
  PROVE  /\ commandHistory' \in [0 .. SIZE - 1 -> 0 .. MaxLines]
         /\ historyArg' \in 0 .. MaxLines
  BY MyShellAssumption DEF TypeOK, Store

LEMMA EventType ==
  ASSUME TypeOK, Event
  PROVE  events' \in 0 .. MaxEvents
  BY MyShellAssumption DEF TypeOK, Event

(* Each step keeps the types, given that nobody inherits a globalPid of -1. *)
LEMMA TypeStep ==
  ASSUME TypeOK, TargetInv, [Next]_vars
  PROVE  TypeOK'
  <1>1. CASE BuiltIn \/ Exit \/ Run
    BY <1>1, StoreType DEF TypeOK, BuiltIn, Exit, Run, shell, children, signals
  <1>2. CASE EndOfInput \/ Assign \/ ExitFailed
    BY <1>2 DEF TypeOK, EndOfInput, Assign, ExitFailed, history, children, signals
  <1>3. CASE Fork
    BY <1>3 DEF TypeOK, TargetInv, Fork, history, signals
  <1>4. CASE ForkFails
    BY <1>4 DEF TypeOK, ForkFails, history, children, signals
  <1>5. CASE Wait
    BY <1>5 DEF TypeOK, Wait, history
  <1>6. CASE Handler
    BY <1>6, TargetsType DEF TypeOK, Handler, shell, history, children
  <1>7. CASE Signal
    <2>1. /\ pending' \subseteq pending \cup {Shell} \cup Pid
          /\ UNCHANGED <<shell, history, children, stopped, news, halted>>
      BY <1>7 DEF Signal
    <2>2. events' \in 0 .. MaxEvents
      BY <1>7, EventType DEF Signal
    <2> QED  BY <2>1, <2>2 DEF TypeOK, shell, history, children
  <1>8. ASSUME NEW p \in Pid, OfChild(p)
        PROVE  TypeOK'
    <2>1. CASE ChildAssign(p) \/ Exec(p)
      BY <2>1 DEF TypeOK, ChildAssign, Exec, shell, history, signals
    <2>2. CASE Stage(p)
      <3>1. stages[p] - 1 \in 0 .. MaxPipes
        BY <2>2, MyShellAssumption DEF TypeOK, Stage
      <3>2. stages' \in [Pid -> 0 .. MaxPipes]
        BY <2>2, <3>1 DEF TypeOK, Stage
      <3> QED  BY <2>2, <3>2 DEF TypeOK, Stage, shell, history, signals
    <2>3. CASE Ends(p) \/ Killed(p)
      <3>1. Becomes(p, "zombie")
        BY <2>3 DEF Ends, Killed
      <3>2. /\ st' \in [Pid -> {"none", "new", "shell", "program", "zombie"}]
            /\ news' \subseteq Pid /\ stopped' \subseteq Pid /\ pending' \subseteq Pid \cup {Shell}
        BY <3>1 DEF TypeOK, Becomes
      <3> QED  BY <3>1, <3>2 DEF TypeOK, Becomes, shell, history
    <2>4. CASE ChildHandler(p)
      BY <2>4, TargetsType DEF TypeOK, ChildHandler, shell, history, children
    <2>5. CASE Stop(p) \/ Continue(p)
      <3>1. events' \in 0 .. MaxEvents
        BY <2>5, EventType DEF Stop, Continue
      <3>2. /\ stopped' \subseteq Pid /\ news' \subseteq Pid /\ halted' \subseteq Pid
            /\ UNCHANGED <<shell, history, children, pending>>
        BY <2>5 DEF TypeOK, Stop, Continue
      <3> QED  BY <3>1, <3>2 DEF TypeOK, shell, history, children
    <2> QED  BY <1>8, <2>1, <2>2, <2>3, <2>4, <2>5 DEF OfChild
  <1>9. CASE UNCHANGED vars
    BY <1>9 DEF TypeOK, vars, shell, history, children, signals
  <1> QED
    BY <1>1, <1>2, <1>3, <1>4, <1>5, <1>6, <1>7, <1>8, <1>9, NextCases DEF StepCases, OfShell

-----------------------------------------------------------------------------
(* The shell and its children                                              *)

LEMMA ControlStep ==
  ASSUME ShellInv, [Next]_vars
  PROVE  TargetInv' /\ WaitInv'
  <1> USE DEF ShellInv, TypeOK, TargetInv, WaitInv
  <1>1. CASE OfShell
    BY <1>1, PidType DEF OfShell, BuiltIn, Exit, EndOfInput, Run, Fork, ForkFails, Assign, ExitFailed, Wait, shell
  <1>2. CASE Handler \/ Signal \/ UNCHANGED vars
    BY <1>2 DEF Handler, Signal, vars, shell
  <1>3. ASSUME NEW p \in Pid, OfChild(p)
        PROVE  TargetInv' /\ WaitInv'
    BY <1>3 DEF OfChild, ChildAssign, Stage, Exec, Ends, Becomes, ChildHandler, Killed, Stop, Continue, shell
  <1> QED
    BY <1>1, <1>2, <1>3, NextCases DEF StepCases

(* What a step leaves alone leaves NewsInv and ChildInv alone.             *)
LEMMA NewsSame ==
  ASSUME NewsInv, UNCHANGED <<st, news, stopped, halted>>
  PROVE  NewsInv'
  BY DEF NewsInv, Alive

LEMMA ChildSame ==
  ASSUME ChildInv, UNCHANGED <<pc, pid, ampershandFlag>>,
         background \subseteq background', halted \subseteq halted',
         \A p \in Pid : st'[p] = "none" <=> st[p] = "none"
  PROVE  ChildInv'
  BY DEF ChildInv

LEMMA ShellStepInv ==
  ASSUME ShellInv, OfShell
  PROVE  NewsInv' /\ ChildInv'
  <1> USE DEF ShellInv
  <1>1. CASE BuiltIn \/ Exit \/ EndOfInput \/ Run \/ ForkFails \/ Assign \/ ExitFailed
    <2>1. NewsInv'
      BY <1>1, NewsSame DEF BuiltIn, Exit, EndOfInput, Run, ForkFails, Assign, ExitFailed, children, signals
    <2>2. UNCHANGED <<st, background, halted>>
      BY <1>1 DEF BuiltIn, Exit, EndOfInput, Run, ForkFails, Assign, ExitFailed, children, signals
    <2>3. ChildInv'
      BY <1>1, <2>2, PidType DEF ChildInv, BuiltIn, Exit, EndOfInput, Run, ForkFails, Assign, ExitFailed, shell
    <2> QED  BY <2>1, <2>3
  <1>2. CASE Fork
    <2> PICK p \in Pid : /\ st[p] = "none" /\ pid' = p /\ st' = [st EXCEPT ![p] = "new"]
                         /\ background' = IF ampershandFlag THEN background \cup {p} ELSE background
      BY <1>2 DEF Fork
    <2>1. pc = "fork" /\ pc' = "forked" /\ UNCHANGED <<ampershandFlag, news, stopped, halted>>
      BY <1>2 DEF Fork, signals
    <2>2. NewsInv'
      BY <2>1 DEF NewsInv, TypeOK, Alive
    <2>3. ChildInv'
      BY <2>1 DEF ChildInv, TypeOK
    <2> QED  BY <2>2, <2>3
  <1>3. CASE Wait
    <2>1. /\ pc = "wait" /\ pid \in Pid /\ pid \in news /\ pc' = "prompt"
          /\ news' = news \ {pid} /\ UNCHANGED <<pid, stopped>>
      BY <1>3 DEF Wait, WaitInv
    <2>2. CASE st[pid] = "zombie"
      <3>1. /\ st' = [st EXCEPT ![pid] = "none"]
            /\ background' = background \ {pid} /\ halted' = halted \ {pid}
        BY <1>3, <2>2 DEF Wait
      <3>2. pid \notin stopped
        BY <2>1, <2>2 DEF NewsInv, Alive
      <3>3. NewsInv'
        BY <2>1, <3>1, <3>2 DEF NewsInv, TypeOK, Alive
      <3>4. ChildInv'
        BY <2>1, <3>1 DEF ChildInv, TypeOK
      <3> QED  BY <3>3, <3>4
    <2>3. CASE st[pid] # "zombie"
      <3>1. UNCHANGED <<st, background, halted>>
        BY <1>3, <2>3 DEF Wait
      <3>2. pid \in halted
        BY <2>1, <2>3 DEF NewsInv
      <3>3. NewsInv'
        BY <2>1, <3>1 DEF NewsInv, Alive
      <3>4. ChildInv'
        BY <2>1, <3>1, <3>2 DEF ChildInv
      <3> QED  BY <3>3, <3>4
    <2> QED  BY <2>2, <2>3
  <1> QED
    BY <1>1, <1>2, <1>3 DEF OfShell

LEMMA ChildStepInv ==
  ASSUME ShellInv, NEW p \in Pid, OfChild(p)
  PROVE  NewsInv' /\ ChildInv'
  <1> USE DEF ShellInv
  <1>1. CASE ChildAssign(p) \/ Exec(p)
    <2>1. /\ CanRun(p) /\ UNCHANGED <<pc, pid, ampershandFlag, news, stopped, halted, background>>
          /\ st' \in {[st EXCEPT ![p] = s] : s \in {"shell", "program"}}
      BY <1>1 DEF ChildAssign, Exec, shell, signals
    <2>2. NewsInv'
      BY <2>1 DEF NewsInv, TypeOK, CanRun, Alive
    <2>3. ChildInv'
      BY <2>1, ChildSame DEF TypeOK, CanRun, Alive
    <2> QED  BY <2>2, <2>3
  <1>2. CASE Stage(p) \/ ChildHandler(p)
    <2>1. UNCHANGED <<pc, pid, ampershandFlag, st, news, stopped, halted, background>>
      BY <1>2 DEF Stage, ChildHandler, shell, children, signals
    <2> QED  BY <2>1, NewsSame, ChildSame
  <1>3. CASE Ends(p) \/ Killed(p)
    <2>1. /\ CanRun(p) /\ st' = [st EXCEPT ![p] = "zombie"]
          /\ news' = news \cup {p} /\ stopped' = stopped \ {p}
          /\ UNCHANGED <<pc, pid, ampershandFlag, halted, background>>
      BY <1>3 DEF Ends, Killed, Becomes, shell
    <2>2. NewsInv'
      BY <2>1 DEF NewsInv, TypeOK, CanRun, Alive
    <2>3. ChildInv'
      BY <2>1, ChildSame DEF TypeOK, CanRun, Alive
    <2> QED  BY <2>2, <2>3
  <1>4. CASE Stop(p)
    <2>1. /\ CanRun(p) /\ stopped' = stopped \cup {p} /\ halted' = halted \cup {p}
          /\ news' = news \cup {p} /\ UNCHANGED <<pc, pid, ampershandFlag, st, background>>
      BY <1>4 DEF Stop, shell, children
    <2>2. NewsInv'
      BY <2>1 DEF NewsInv, CanRun, Alive
    <2> QED  BY <2>1, <2>2, ChildSame
  <1>5. CASE Continue(p)
    <2>1. /\ p \in stopped /\ stopped' = stopped \ {p} /\ news' = news \cup {p}
          /\ UNCHANGED <<pc, pid, ampershandFlag, st, background, halted>>
      BY <1>5 DEF Continue, shell, children
    <2>2. NewsInv'
      BY <2>1 DEF NewsInv, Alive
    <2> QED  BY <2>1, <2>2, ChildSame
  <1> QED
    BY <1>1, <1>2, <1>3, <1>4, <1>5 DEF OfChild

LEMMA InvStep == ShellInv /\ [Next]_vars => ShellInv'
  <1> SUFFICES ASSUME ShellInv, [Next]_vars PROVE ShellInv'
    OBVIOUS
  <1>1. TypeOK' /\ TargetInv' /\ WaitInv'
    BY TypeStep, ControlStep DEF ShellInv
  <1>2. CASE Handler \/ Signal \/ UNCHANGED vars
    <2>1. UNCHANGED <<pc, pid, ampershandFlag, st, news, stopped, halted, background>>
      BY <1>2 DEF Handler, Signal, vars, shell, children, signals
    <2> QED  BY <1>1, <2>1, NewsSame, ChildSame DEF ShellInv
  <1> QED
    BY <1>1, <1>2, ShellStepInv, ChildStepInv, NextCases DEF StepCases, ShellInv

LEMMA Invariant == Spec => []ShellInv
  <1> QED
    BY InitType, InvStep, PTL DEF Spec

-----------------------------------------------------------------------------
(* The variables of mysh keep their types; a child never starts with a     *)
(* globalPid of -1.                                                        *)
THEOREM TypeCorrect == Spec => []TypeOK
  <1>1. ShellInv => TypeOK
    BY DEF ShellInv
  <1> QED
    BY <1>1, Invariant, PTL

(* When the shell reads a line, only background commands and commands that *)
(* were stopped are left.                                                  *)
THEOREM CleanPrompt == Spec => []PromptIsClean
  <1>1. ShellInv => PromptIsClean
    BY DEF ShellInv, ChildInv, PromptIsClean
  <1> QED
    BY <1>1, Invariant, PTL

-----------------------------------------------------------------------------
(* The signals                                                             *)

(* Only the shell's handler takes the shell's signal.                      *)
LEMMA OnlyHandler ==
  ASSUME ShellInv, [Next]_vars, Shell \in pending, Shell \notin pending'
  PROVE  Handler
  <1>1. CASE OfShell \/ Signal \/ UNCHANGED vars
    <2>1. pending \subseteq pending'
      BY <1>1 DEF OfShell, BuiltIn, Exit, EndOfInput, Run, Fork, ForkFails, Assign,
                  ExitFailed, Wait, Signal, vars, signals
    <2> QED  BY <2>1
  <1>2. ASSUME NEW p \in Pid, OfChild(p)
        PROVE  FALSE
    <2>1. pending \ {p} \subseteq pending'
      BY <1>2 DEF OfChild, ChildAssign, Stage, Exec, Ends, Becomes, ChildHandler, Killed,
                  Stop, Continue, signals
    <2>2. p # Shell
      BY PidType DEF Shell
    <2> QED  BY <2>1, <2>2
  <1> QED
    BY <1>1, <1>2, NextCases DEF StepCases

LEMMA PassedOnStep ==
  ShellInv /\ [Next]_vars
    => [pc = "wait" /\ Shell \in pending /\ Shell \notin pending' =>
          pending' = (pending \ {Shell}) \cup ({pid} \cap {p \in Pid : Alive(p)})]_vars
  <1> SUFFICES ASSUME ShellInv, [Next]_vars, pc = "wait", Shell \in pending, Shell \notin pending'
               PROVE  pending' = (pending \ {Shell}) \cup ({pid} \cap {p \in Pid : Alive(p)})
    OBVIOUS
  <1>1. pending' = (pending \ {Shell}) \cup Targets(globalPid)
    BY OnlyHandler DEF Handler
  <1>2. globalPid = pid /\ globalPid # -1
    BY PidType DEF ShellInv, WaitInv
  <1> QED
    BY <1>1, <1>2 DEF Targets

(* While the shell waits for a command, a SIGINT or SIGTERM that the shell *)
(* gets goes to that command and to no other process.                      *)
THEOREM SignalPassedOn == Spec => PassedOn
  <1> QED
    BY PassedOnStep, Invariant, PTL DEF Spec, PassedOn

LEMMA OneTargetStep ==
  ShellInv /\ [Next]_vars
    => [pc # "failed" /\ Shell \in pending /\ Shell \notin pending' =>
          Cardinality(pending' \ pending) <= 1]_vars
  <1> SUFFICES ASSUME ShellInv, [Next]_vars, pc # "failed", Shell \in pending, Shell \notin pending'
               PROVE  Cardinality(pending' \ pending) <= 1
    OBVIOUS
  <1>1. Handler
    BY OnlyHandler
  <1>2. globalPid # -1
    BY <1>1 DEF ShellInv, TargetInv, Handler
  <1>3. pending' \ pending \in SUBSET {globalPid}
    BY <1>1, <1>2 DEF Handler, Targets
  <1>4. IsFiniteSet({globalPid}) /\ Cardinality({globalPid}) = 1
    BY FS_Singleton
  <1>5. Cardinality(pending' \ pending) <= Cardinality({globalPid})
    BY <1>3, <1>4, FS_Subset
  <1> QED
    BY <1>4, <1>5

(* Unless fork has failed, a signal to the shell reaches at most one child. *)
THEOREM SignalToOne == Spec => OneTarget
  <1> QED
    BY OneTargetStep, Invariant, PTL DEF Spec, OneTarget

-----------------------------------------------------------------------------
(* The ring of the history                                                 *)

LEMMA Remainder ==
  ASSUME NEW a \in Nat
  PROVE  /\ a % SIZE \in 0 .. SIZE - 1 /\ a \div SIZE \in Int
         /\ a = SIZE * (a \div SIZE) + (a % SIZE)
  <1> SIZE \in Nat \ {0}
    BY MyShellAssumption
  <1>1. a % SIZE \in 0 .. SIZE - 1
    OBVIOUS
  <1>2. a \div SIZE \in Int
    OBVIOUS
  <1>3. a = SIZE * (a \div SIZE) + (a % SIZE)
    OBVIOUS
  <1> QED  BY <1>1, <1>2, <1>3

(* Fewer than SIZE numbers in a row have different cells.                  *)
LEMMA CellsDiffer ==
  ASSUME NEW a \in Nat, NEW b \in Nat, a < b, b - a < SIZE
  PROVE  a % SIZE # b % SIZE
  <1> SUFFICES ASSUME a % SIZE = b % SIZE PROVE FALSE
    OBVIOUS
  <1> DEFINE k == b \div SIZE - a \div SIZE
  <1>1. k \in Int /\ SIZE \in Nat \ {0}
    BY Remainder, MyShellAssumption
  <1>2. b - a = SIZE * (b \div SIZE) - SIZE * (a \div SIZE)
    <2> DEFINE qa == SIZE * (a \div SIZE)
               qb == SIZE * (b \div SIZE)
               r  == a % SIZE
    <2>1. qa \in Int /\ qb \in Int /\ r \in Int
      BY <1>1, Remainder
    <2>2. a = qa + r /\ b = qb + r
      BY Remainder
    <2> HIDE DEF qa, qb, r
    <2>3. b - a = qb - qa
      BY <2>1, <2>2
    <2> QED  BY <2>3 DEF qa, qb
  <1>3. b - a = SIZE * k
    BY <1>1, <1>2, Remainder
  <1> HIDE DEF k
  <1>4. 0 < SIZE * k /\ SIZE * k < SIZE
    BY <1>3
  <1>5. CASE k <= 0
    BY <1>1, <1>4, <1>5
  <1>6. CASE k >= 1
    BY <1>1, <1>4, <1>6
  <1> QED
    BY <1>1, <1>5, <1>6

LEMMA SmallCell ==
  ASSUME NEW a \in 0 .. SIZE - 1
  PROVE  a % SIZE = a
  BY MyShellAssumption

(* Recent, of a history f after h lines, until the ring is full and then.  *)
Ring(f, h) ==
  LET kept   == IF h < SIZE THEN h ELSE SIZE
      oldest == h - kept
  IN  \A n \in 0 .. SIZE - 1 :
        f[(oldest + n) % SIZE] = IF n < kept THEN oldest + n + 1 ELSE Empty

RingFew(f, h)  == \A n \in 0 .. SIZE - 1 : f[n] = IF n < h THEN n + 1 ELSE Empty
RingFull(f, h) == \A n \in 0 .. SIZE - 1 : f[(h - SIZE + n) % SIZE] = h - SIZE + n + 1

LEMMA FewLines ==
  ASSUME NEW f, NEW h \in Nat, h <= SIZE
  PROVE  Ring(f, h) <=> RingFew(f, h)
  <1> DEFINE kept   == IF h < SIZE THEN h ELSE SIZE
             oldest == h - kept
  <1>1. Ring(f, h) <=> \A n \in 0 .. SIZE - 1 :
                         f[(oldest + n) % SIZE] = IF n < kept THEN oldest + n + 1 ELSE Empty
    BY DEF Ring
  <1>2. kept = h /\ oldest = 0 /\ SIZE \in Nat
    BY MyShellAssumption
  <1> HIDE DEF kept, oldest
  <1>3. \A n \in 0 .. SIZE - 1 : (oldest + n) % SIZE = n /\ oldest + n + 1 = n + 1
    BY <1>2, SmallCell
  <1> QED
    BY <1>1, <1>2, <1>3 DEF RingFew

LEMMA ManyLines ==
  ASSUME NEW f, NEW h \in Nat, h >= SIZE
  PROVE  Ring(f, h) <=> RingFull(f, h)
  <1> DEFINE kept   == IF h < SIZE THEN h ELSE SIZE
             oldest == h - kept
  <1>1. Ring(f, h) <=> \A n \in 0 .. SIZE - 1 :
                         f[(oldest + n) % SIZE] = IF n < kept THEN oldest + n + 1 ELSE Empty
    BY DEF Ring
  <1>2. kept = SIZE /\ oldest = h - SIZE /\ SIZE \in Nat
    BY MyShellAssumption
  <1> HIDE DEF kept, oldest
  <1>3. \A n \in 0 .. SIZE - 1 : n < kept
    BY <1>2
  <1> QED
    BY <1>1, <1>2, <1>3 DEF RingFull

(* A line goes to the cell of the oldest line, or to the first empty one.  *)
LEMMA StoreKeepsOrder ==
  ASSUME NEW f \in [0 .. SIZE - 1 -> Nat], NEW h \in Nat, Ring(f, h)
  PROVE  Ring([f EXCEPT ![h % SIZE] = h + 1], h + 1)
  <1> DEFINE g == [f EXCEPT ![h % SIZE] = h + 1]
  <1>1. SIZE \in Nat \ {0} /\ h % SIZE \in 0 .. SIZE - 1
    BY MyShellAssumption, Remainder
  <1>2. CASE h < SIZE
    <2>1. RingFew(f, h) /\ h % SIZE = h
      BY <1>1, <1>2, FewLines, SmallCell
    <2>2. RingFew(g, h + 1)
      BY <1>1, <1>2, <2>1 DEF RingFew
    <2> QED  BY <1>1, <1>2, <2>2, FewLines
  <1>3. CASE h >= SIZE
    <2>1. RingFull(f, h)
      BY <1>3, ManyLines
    <2>2. \A n \in 0 .. SIZE - 1 : g[((h + 1) - SIZE + n) % SIZE] = (h + 1) - SIZE + n + 1
      <3> TAKE n \in 0 .. SIZE - 1
      <3> DEFINE a == h - SIZE + (n + 1)
      <3>1. (h + 1) - SIZE + n = a /\ a \in Nat
        BY <1>1, <1>3
      <3>2. CASE n = SIZE - 1
        <4>1. a = h
          BY <1>1, <3>2
        <4> QED  BY <1>1, <3>1, <4>1
      <3>3. CASE n < SIZE - 1
        <4>1. a < h /\ h - a < SIZE /\ n + 1 \in 0 .. SIZE - 1
          BY <1>1, <1>3, <3>3
        <4>2. a % SIZE # h % SIZE /\ a % SIZE \in 0 .. SIZE - 1
          BY <3>1, <4>1, CellsDiffer, Remainder
        <4>3. f[a % SIZE] = a + 1
          BY <2>1, <4>1 DEF RingFull
        <4>4. g[a % SIZE] = a + 1
          BY <4>2, <4>3
        <4> HIDE DEF a, g
        <4> QED  BY <3>1, <4>4
      <3> QED  BY <1>1, <3>2, <3>3
    <2>3. RingFull(g, h + 1)
      <3> HIDE DEF g
      <3> QED  BY <2>2 DEF RingFull
    <2> QED  BY <1>1, <1>3, <2>3, ManyLines
  <1> QED
    BY <1>1, <1>2, <1>3

LEMMA RecentStep == ShellInv /\ Recent /\ [Next]_vars => Recent'
  <1> SUFFICES ASSUME TypeOK, Recent, [Next]_vars PROVE Recent'
    BY DEF ShellInv
  <1>1. CASE BuiltIn \/ Exit \/ Run
    <2>1. Store
      BY <1>1 DEF BuiltIn, Exit, Run
    <2>2. commandHistory \in [0 .. SIZE - 1 -> Nat] /\ historyArg \in Nat
      BY MyShellAssumption DEF TypeOK
    <2>3. Ring([commandHistory EXCEPT ![historyArg % SIZE] = historyArg + 1], historyArg + 1)
      BY <2>2, StoreKeepsOrder DEF Recent, Ring
    <2>4. Ring(commandHistory', historyArg')
      BY <2>1, <2>3 DEF Store
    <2> QED  BY <2>4 DEF Recent, Ring
  <1>2. CASE UNCHANGED history
    BY <1>2 DEF history, Recent
  <1> QED
    BY <1>1, <1>2, NextCases
    DEF StepCases, OfShell, OfChild, EndOfInput, Fork, ForkFails, Assign, ExitFailed, Wait, Handler, Signal,
        ChildAssign, Stage, Exec, Ends, Killed, Becomes, ChildHandler, Stop, Continue, vars

(* The history is the last SIZE lines, in the order in which they were     *)
(* typed, however often the ring has gone round.                           *)
THEOREM HistoryRecent == Spec => []Recent
  <1>1. Init => Recent
    <2> SUFFICES ASSUME Init PROVE Recent
      OBVIOUS
    <2>1. historyArg = 0 /\ SIZE \in Nat \ {0} /\ commandHistory = [n \in 0 .. SIZE - 1 |-> Empty]
      BY MyShellAssumption DEF Init
    <2>2. RingFew(commandHistory, 0)
      BY <2>1 DEF RingFew
    <2>3. Ring(commandHistory, historyArg)
      BY <2>1, <2>2, FewLines
    <2> QED  BY <2>3 DEF Recent, Ring
  <1> QED
    BY <1>1, RecentStep, Invariant, PTL DEF Spec
=============================================================================

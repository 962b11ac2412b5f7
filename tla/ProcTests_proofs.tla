--------------------------- MODULE ProcTests_proofs ---------------------------
(***************************************************************************)
(* What getproclimit returns, for any number of processes, callers and     *)
(* limits, and what the programs that call it may rely on.                 *)
(***************************************************************************)
EXTENDS ProcTests, TaskLists_proofs

-----------------------------------------------------------------------------
(* The kernel and the calls                                                *)

Fields == {NotSet} \cup (Task \X Int \X Int)

KernelInv ==
  /\ tasks \in Seq(Task) /\ Distinct(tasks)
  /\ gone \subseteq Task /\ Listed \cap gone = {}
  /\ 1 \in Listed /\ Caller \subseteq Listed
  /\ parent \in [Task -> Task \cup {None}] /\ \A t \in Listed \ {1} : parent[t] \in Listed
  /\ fields \in [Task -> Fields]
  /\ time \in [Task -> 0 .. MaxTime]
  /\ \A t \in Task : t \notin Listed \cup gone => time[t] = 0

Calls ==
  [pc : {"idle", "read", "visit", "astray"}, task : Task \cup {None}, pointer : Pointer,
   temp : Seq(Int), at : Task \cup {AtHead}, sum : 0 .. ULong - 1,
   before : UNION {[S -> 0 .. MaxTime] : S \in SUBSET Task}]

Begun(r) == r.pc \in {"read", "visit"}

(* The tasks that are, or were, in the list.                               *)
Known == Listed \cup gone

(* A call r, when the tasks in known are or were in the list.              *)
CallOf(known, r) ==
  /\ Len(r.temp) <= 5
  /\ r.pc = "visit" => Len(r.temp) = 5
  /\ r.pc = "read" => r.sum = 0
  /\ Len(r.temp) >= 1 => r.temp[1] \in Task \cup {-1}
  /\ Len(r.temp) >= 4 => r.temp[4] \in 0 .. ULong - 1
  /\ Len(r.temp) >= 5 => r.temp[5] \in 0 .. ULong - 1
  /\ Begun(r) => r.task \in known /\ r.pointer \in {"readable", "writable"}
  /\ r.at \in known \cup {AtHead}

Answers == {<< >>} \cup Answer
Codes   == -(4095) .. 0

CallTypes ==
  /\ call \in [Caller -> Calls]
  /\ pl \in [Caller -> Answers]
  /\ ret \in [Caller -> Codes]

AllCallsOf(known) == \A c \in Caller : CallOf(known, call[c])

CallInv == CallTypes /\ AllCallsOf(Known)

-----------------------------------------------------------------------------
(* A calm call, as an assertion on a list, the fields and times of the     *)
(* tasks, and the record of the call.                                      *)

FirstOf(before) == [t \in Task |-> IF t \in DOMAIN before THEN before[t] ELSE 0]

FamilyOf(list, fl, root) == {t \in Range(list) : fl[t][1] = root}

(* Those members of the family that a walk has passed that is at at.       *)
Passed(list, fl, root, at) ==
  {t \in FamilyOf(list, fl, root) : at = AtHead \/ Place(list, t) < Place(list, at)}

Summed(done, tm, first, sum) ==
  \E s \in SumFunctionOnSet(first, done) .. SumFunctionOnSet(tm, done) : sum = s % ULong

(* min becomes the greater of the times, and max the lesser.               *)
Between(family, done, tm, first, old, min, max) ==
  /\ \A t \in done : first[t] <= min /\ (t \in old => max <= tm[t])
  /\ \E t \in family : min <= tm[t]
  /\ \E t \in family : max <= tm[t]
  /\ \E t \in family : first[t] <= min
  /\ \E t \in family : first[t] <= max

(* What is read of the task of the call, field by field.                   *)
ReadOf(fl, tm, r) ==
  /\ \A n \in 1 .. 3 : n <= Len(r.temp) => r.temp[n] = fl[r.task][n]
  /\ r.pc = "read" => \A n \in 4 .. 5 : n <= Len(r.temp) =>
       FirstOf(r.before)[r.task] <= r.temp[n] /\ r.temp[n] <= tm[r.task]

CalmCall(list, fl, tm, r) ==
  LET done == Passed(list, fl, r.temp[1], r.at)
      first == FirstOf(r.before)
  IN
  /\ r.task \in Range(list) /\ DOMAIN r.before \subseteq Range(list)
  /\ r.at \in Range(list) \cup {AtHead}
  /\ \A t \in DOMAIN r.before : r.before[t] <= tm[t]
  /\ ReadOf(fl, tm, r)
  /\ r.pc = "visit" /\ r.temp[1] # -1 =>
       /\ Summed(done, tm, first, r.sum)
       /\ Between(FamilyOf(list, fl, r.temp[1]), done, tm, first, DOMAIN r.before,
                  r.temp[4], r.temp[5])

CalmInv ==
  \A c \in Caller : Begun(call[c]) /\ Calm(c) => CalmCall(tasks, fields, time, call[c])

TimesInv == KernelInv /\ CallInv /\ CalmInv

-----------------------------------------------------------------------------
(* The programs                                                            *)

Programs == [name : {"test1", "test3", "any"}, line : 1 .. 9, calm : BOOLEAN, args : Int \X Int \X Int]

(* Since the program g has set the limits of p, as it asked in args, they  *)
(* are what it reads, and the totals it reads grow.  The arguments are, as *)
(* in CalmCall, the list, the fields and the times of the tasks, and what  *)
(* belongs to the caller: its program, its call and its struct.            *)
OwnLimits(list, fl, tm, p, g, r, answer) ==
  LET set == <<p, g.args[2], g.args[3]>>
  IN
  /\ p \in Range(list) /\ fl[p] = set
  /\ Begun(r) => r.task = p /\ r.pointer = "writable" /\ r.before # << >>
  /\ g.line \in {3, 5, 7} /\ r.pc = "idle" => answer # << >>
  /\ answer # << >> =>
       /\ <<answer.root_pid, answer.time_limit, answer.time_interval>> = set
       /\ answer.total_cpu_time <= SumFunctionOnSet(tm, FamilyOf(list, fl, p))
       /\ Begun(r) =>
            answer.total_cpu_time <= SumFunctionOnSet(FirstOf(r.before), FamilyOf(list, fl, p))

ProcessOf(list, c, pid) == IF pid = -1 THEN c ELSE IF pid \in Range(list) THEN pid ELSE None

ProgramOf(list, fl, tm, c, g, r, answer, result) ==
  /\ g.name = "test1" => g.args[2] = 10
  /\ g.name = "any" => ~g.calm
  /\ g.line = 1 => ~g.calm /\ (g.name # "any" => answer = << >> /\ r.pc = "idle")
  /\ Begun(r) /\ g.name # "any" => result = 0 /\ g.line \in {3, 5, 7}
  /\ g.calm /\ result = 0 => OwnLimits(list, fl, tm, ProcessOf(list, c, g.args[1]), g, r, answer)

ProgInv ==
  \A c \in Caller : ProgramOf(tasks, fields, time, c, prog[c], call[c], pl[c], ret[c])

TestsInv == TimesInv /\ prog \in [Caller -> Programs] /\ ProgInv

-----------------------------------------------------------------------------
(* The steps of the machine, whichever program makes them                  *)

SetCall == \E c \in Caller, pid, limit, interval \in Int : sys_setproclimit(c, pid, limit, interval)
GetCall == \E c \in Caller, pid \in Int, pointer \in Pointer : sys_getproclimit(c, pid, pointer)
NoCall  == \E c \in Caller : ret' = [ret EXCEPT ![c] = -ENOSYS] /\ UNCHANGED <<kernel, call, pl>>

TimesStep ==
  \/ SetCall \/ GetCall \/ NoCall
  \/ \E c \in Caller : Walk(c)
  \/ \E t \in Task : Run(t) \/ Fork(t) \/ Release(t) \/ Regroup(t)
  \/ UNCHANGED vars

LEMMA SyscallStep ==
  ASSUME NEW c \in Caller, NEW n, NEW a \in Int, NEW b \in Int, NEW d \in Int, syscall(c, n, a, b, d)
  PROVE  TimesStep
  <1>1. PointerOf(b) \in Pointer
    BY DEF PointerOf, Pointer
  <1> QED
    BY <1>1 DEF syscall, TimesStep, SetCall, GetCall, NoCall

LEMMA ProgramArguments ==
  ASSUME ProcTestsAssumption, NEW name, NEW a \in Argument
  PROVE  Program(name, a).args \in Int \X Int \X Int
  <1>1. a \in Int \X Int
    BY DEF ProcTestsAssumption
  <1>2. a[1] \in Int /\ a[2] \in Int
    BY <1>1
  <1> QED
    BY <1>2 DEF Program, INTERVAL

LEMMA StepsOfTests ==
  ASSUME ProcTimesAssumption, prog \in [Caller -> Programs], TestsNext
  PROVE  TimesStep
  <1>1. ASSUME NEW c \in Caller, Step(c)
        PROVE  TimesStep
    <2>1. prog[c].args[1] \in Int /\ prog[c].args[2] \in Int /\ prog[c].args[3] \in Int
      <3>1. prog[c].args \in Int \X Int \X Int
        BY DEF Programs
      <3> QED  BY <3>1
    <2>2. CASE Assign(c)
      BY <2>1, <2>2, SyscallStep DEF Assign, setproclimit
    <2>3. CASE Get(c)
      <3>1. procLimitFields \in Int /\ 0 \in Int
        BY DEF procLimitFields
      <3> QED  BY <2>1, <2>3, <3>1, SyscallStep DEF Get, getproclimit
    <2>4. CASE Refuse(c) \/ printProcLimit(c) \/ GiveUp(c)
      BY <2>4 DEF Refuse, printProcLimit, GiveUp, TimesStep
    <2> QED  BY <1>1, <2>2, <2>3, <2>4 DEF Step
  <1>2. ASSUME NEW c \in Caller, AnyCall(c)
        PROVE  TimesStep
    <2>1. PICK pid \in Task \cup {-2, -1, 0} :
       \/ \E l \in Limits \cup {<<11, 10>>} : syscall(c, NR_setproclimit, pid, l[1], l[2])
       \/ \E word \in {0, 1, -1, ReadOnly, procLimitFields} : syscall(c, NR_getproclimit, pid, word, 0)
       \/ syscall(c, NR_syscalls, pid, 0, 0)
      BY <1>2 DEF AnyCall
    <2>2. pid \in Int /\ 0 \in Int
      BY DEF ProcTimesAssumption
    <2>3. \A l \in Limits \cup {<<11, 10>>} : l[1] \in Int /\ l[2] \in Int
      <3>1. \A l \in Limits \cup {<<11, 10>>} : l \in Int \X Int
        BY DEF ProcTimesAssumption
      <3> QED  BY <3>1
    <2>4. {0, 1, -1, ReadOnly, procLimitFields} \subseteq Int
      BY DEF ReadOnly, procLimitFields
    <2> QED  BY <2>1, <2>2, <2>3, <2>4, SyscallStep
  <1>3. ASSUME NEW t \in Task, Interfere(t)
        PROVE  TimesStep
    BY <1>3 DEF Interfere, TimesStep
  <1> QED
    BY <1>1, <1>2, <1>3 DEF TestsNext, TimesStep

-----------------------------------------------------------------------------
(* The list of processes, their fields and their times                     *)

LEMMA ListedRange ==
  ASSUME tasks \in Seq(Task)
  PROVE  Listed = Range(tasks) /\ Listed \subseteq Task
  BY LenProperties DEF Listed, Range

LEMMA BelowSelf ==
  ASSUME NEW t \in Listed
  PROVE  t \in Below(t) /\ Below(t) \subseteq Listed
  BY DEF Below

LEMMA ProcessListed ==
  ASSUME KernelInv, NEW c \in Caller, NEW pid, Process(c, pid) # None
  PROVE  Process(c, pid) \in Listed
  BY DEF Process, KernelInv

LEMMA SetFields ==
  ASSUME KernelInv, NEW t \in Listed, NEW limit \in Int, NEW interval \in Int, Set(t, limit, interval)
  PROVE  fields' \in [Task -> Fields] /\ fields'[t] = <<t, limit, interval>>
  <1>1. t \in Task
    BY ListedRange DEF KernelInv
  <1>2. <<t, limit, interval>> \in Fields
    BY <1>1 DEF Fields
  <1> QED
    BY <1>1, <1>2, BelowSelf DEF Set, KernelInv

(* What changes of the kernel's state in a step.                           *)
LEMMA KernelSame ==
  ASSUME KernelInv, UNCHANGED <<tasks, parent, gone, time>>, fields' \in [Task -> Fields]
  PROVE  KernelInv'
  <1>1. tasks' = tasks /\ parent' = parent /\ gone' = gone /\ time' = time /\ Listed' = Listed
    BY DEF Listed
  <1>2. \A t \in Listed' \ {1} : parent'[t] \in Listed'
    BY <1>1 DEF KernelInv
  <1>3. \A t \in Task : t \notin Listed' \cup gone' => time'[t] = 0
    BY <1>1 DEF KernelInv
  <1> QED
    BY <1>1, <1>2, <1>3 DEF KernelInv

LEMMA ForkKernel ==
  ASSUME ProcTimesAssumption, KernelInv, NEW t \in Task, Fork(t)
  PROVE  /\ KernelInv'
         /\ \E n \in Task \ (Listed \cup gone) :
              /\ tasks' = Append(tasks, n) /\ Listed' = Listed \cup {n}
              /\ fields' \in [Task -> Fields] /\ fields'[n] = fields[t]
              /\ \A s \in Task \ {n} : fields'[s] = fields[s]
         /\ UNCHANGED <<gone, time>>
  <1>1. PICK n \in Task :
          /\ n \notin Listed \cup gone
          /\ tasks' = Append(tasks, n)
          /\ parent' = [parent EXCEPT ![n] = t]
          /\ fields' = [fields EXCEPT ![n] = fields[t]]
    BY DEF Fork
  <1>2. t \in Listed /\ UNCHANGED <<gone, time>>
    BY DEF Fork
  <1>3. tasks' \in Seq(Task) /\ Range(tasks') = Range(tasks) \cup {n} /\ Distinct(tasks')
    BY <1>1, AppendList, ListedRange DEF KernelInv
  <1>4. Listed' = Listed \cup {n} /\ Listed \subseteq Task
    <2>1. Listed' = Range(tasks')
      BY <1>3, LenProperties DEF Listed, Range
    <2> QED  BY <1>3, <2>1, ListedRange DEF KernelInv
  <1>5. fields' \in [Task -> Fields] /\ fields'[n] = fields[t] /\ \A s \in Task \ {n} : fields'[s] = fields[s]
    BY <1>1 DEF KernelInv
  <1>6. parent' \in [Task -> Task \cup {None}] /\ \A s \in Listed' \ {1} : parent'[s] \in Listed'
    BY <1>1, <1>2, <1>4 DEF KernelInv
  <1>7. /\ gone' \subseteq Task /\ Listed' \cap gone' = {}
        /\ 1 \in Listed' /\ Caller \subseteq Listed'
        /\ time' \in [Task -> 0 .. MaxTime]
        /\ \A s \in Task : s \notin Listed' \cup gone' => time'[s] = 0
    BY <1>1, <1>2, <1>4 DEF KernelInv
  <1>8. KernelInv'
    BY <1>3, <1>5, <1>6, <1>7 DEF KernelInv
  <1> QED
    BY <1>1, <1>2, <1>4, <1>5, <1>8

LEMMA ReleaseKernel ==
  ASSUME ProcTimesAssumption, KernelInv, NEW t \in Task, Release(t)
  PROVE  KernelInv' /\ Known' = Known
  <1>1. t \in Listed /\ t # 1 /\ t \notin Caller /\ tasks' = Without(tasks, t) /\ gone' = gone \cup {t}
        /\ UNCHANGED <<fields, time>>
        /\ parent' = [s \in Task |-> IF s = t THEN None ELSE IF parent[s] = t THEN 1 ELSE parent[s]]
    BY DEF Release
  <1>2. tasks' \in Seq(Task) /\ Range(tasks') = Range(tasks) \ {t} /\ Distinct(tasks')
    BY <1>1, WithoutList, ListedRange DEF KernelInv
  <1>3. Listed' = Listed \ {t} /\ Listed \subseteq Task
    <2>1. Listed' = Range(tasks')
      BY <1>2, LenProperties DEF Listed, Range
    <2> QED  BY <1>2, <2>1, ListedRange DEF KernelInv
  <1>4. parent' \in [Task -> Task \cup {None}] /\ \A s \in Listed' \ {1} : parent'[s] \in Listed'
    BY <1>1, <1>3 DEF KernelInv, ProcTimesAssumption
  <1>5. /\ gone' \subseteq Task /\ Listed' \cap gone' = {}
        /\ 1 \in Listed' /\ Caller \subseteq Listed'
        /\ time' \in [Task -> 0 .. MaxTime]
        /\ \A s \in Task : s \notin Listed' \cup gone' => time'[s] = 0
    BY <1>1, <1>3 DEF KernelInv
  <1>6. KernelInv'
    BY <1>1, <1>2, <1>4, <1>5 DEF KernelInv
  <1> QED
    BY <1>1, <1>3, <1>6 DEF Known

LEMMA RunKernel ==
  ASSUME ProcTimesAssumption, KernelInv, NEW t \in Task, Run(t)
  PROVE  /\ KernelInv' /\ UNCHANGED <<tasks, gone, fields, call, pl, ret>>
         /\ \A s \in Task : time[s] <= time'[s]
  <1>1. t \in Listed /\ time[t] < MaxTime /\ time' = [time EXCEPT ![t] = time[t] + 1]
        /\ UNCHANGED <<tasks, parent, gone, fields, call, pl, ret>>
    BY DEF Run
  <1>2. time \in [Task -> 0 .. MaxTime] /\ MaxTime \in Nat
    BY DEF KernelInv, ProcTimesAssumption
  <1>3. time[t] + 1 \in 0 .. MaxTime
    BY <1>1, <1>2
  <1>4. time' \in [Task -> 0 .. MaxTime]
    BY <1>1, <1>2, <1>3
  <1>5. \A s \in Task : time[s] <= time'[s]
    BY <1>1, <1>2
  <1>6. \A s \in Task : s \notin Listed \cup gone => time'[s] = 0
    BY <1>1, <1>2 DEF KernelInv
  <1>7. Listed' = Listed
    BY <1>1 DEF Listed
  <1> QED
    BY <1>1, <1>4, <1>5, <1>6, <1>7 DEF KernelInv

LEMMA KernelInvariance ==
  ASSUME ProcTimesAssumption, KernelInv, TimesStep
  PROVE  KernelInv' /\ Known \subseteq Known'
  <1>1. ASSUME UNCHANGED <<tasks, parent, gone, time>>, fields' \in [Task -> Fields]
        PROVE  KernelInv' /\ Known \subseteq Known'
    BY <1>1, KernelSame DEF Known, Listed
  <1>2. CASE SetCall
    <2>1. PICK c \in Caller, pid \in Int, limit \in Int, interval \in Int : sys_setproclimit(c, pid, limit, interval)
      BY <1>2 DEF SetCall
    <2>2. UNCHANGED <<tasks, parent, gone, time>>
      BY <2>1 DEF sys_setproclimit
    <2>3. UNCHANGED fields \/ (Process(c, pid) # None /\ Set(Process(c, pid), limit, interval))
      BY <2>1 DEF sys_setproclimit
    <2>4. fields' \in [Task -> Fields]
      BY <2>3, SetFields, ProcessListed DEF KernelInv
    <2> QED  BY <1>1, <2>2, <2>4
  <1>3. CASE GetCall \/ NoCall \/ UNCHANGED vars \/ \E c \in Caller : Walk(c)
    <2>1. UNCHANGED kernel
      BY <1>3 DEF GetCall, NoCall, sys_getproclimit, Walk, Read, ReadAll, Visit, CopyOut, vars
    <2>2. UNCHANGED <<tasks, parent, gone, time>> /\ fields' \in [Task -> Fields]
      BY <2>1 DEF KernelInv, kernel
    <2> QED  BY <1>1, <2>2
  <1>4. ASSUME NEW t \in Task, Run(t) \/ Fork(t) \/ Release(t)
        PROVE  KernelInv' /\ Known \subseteq Known'
    <2>1. CASE Run(t)
      BY <2>1, RunKernel DEF Known, Listed
    <2>2. CASE Fork(t)
      BY <2>2, ForkKernel DEF Known
    <2>3. CASE Release(t)
      BY <2>3, ReleaseKernel
    <2> QED  BY <1>4, <2>1, <2>2, <2>3
  <1>5. ASSUME NEW t \in Task, Regroup(t)
        PROVE  KernelInv' /\ Known \subseteq Known'
    <2>1. PICK l \in Limits : Set(t, l[1], l[2])
      BY <1>5 DEF Regroup
    <2>2. l \in Int \X Int
      BY DEF ProcTimesAssumption
    <2>3. l[1] \in Int /\ l[2] \in Int /\ t \in Listed /\ UNCHANGED <<tasks, parent, gone, time>>
      BY <1>5, <2>2 DEF Regroup
    <2>4. fields' \in [Task -> Fields]
      BY <2>1, <2>3, SetFields
    <2> QED  BY <1>1, <2>3, <2>4
  <1> QED
    BY <1>2, <1>3, <1>4, <1>5 DEF TimesStep

-----------------------------------------------------------------------------
(* The records of the calls                                                *)

Moves(c, r) == call' = [call EXCEPT ![c] = r]

Astray == [Idle EXCEPT !.pc = "astray"]

Beginning(t, pointer, before) ==
  [Idle EXCEPT !.pc = "read", !.task = t, !.pointer = pointer, !.before = before]

WithField(r, v) == [r EXCEPT !.temp = Append(@, v)]

WithoutFamily(r) ==
  [r EXCEPT !.pc = "visit", !.sum = ULong - 1, !.temp = [r.temp EXCEPT ![4] = ULong - 1, ![5] = ULong - 1]]

AtFirst(r, t) == [r EXCEPT !.pc = "visit", !.at = t]

PastTask(r, member, i, next) == [(IF member THEN Counted(r, i) ELSE r) EXCEPT !.at = next]

LEMMA CallTyped ==
  ASSUME CallInv, NEW c \in Caller
  PROVE  /\ call[c] \in Calls /\ CallOf(Known, call[c])
         /\ call[c].temp \in Seq(Int) /\ Len(call[c].temp) \in Nat
         /\ call[c].at \in Task \cup {AtHead} /\ call[c].sum \in 0 .. ULong - 1
  <1>a. call \in [Caller -> Calls] /\ \A d \in Caller : CallOf(Known, call[d])
    BY DEF CallInv, CallTypes, AllCallsOf
  <1>1. call[c] \in Calls /\ CallOf(Known, call[c])
    BY <1>a
  <1>2. call[c].temp \in Seq(Int) /\ call[c].at \in Task \cup {AtHead} /\ call[c].sum \in 0 .. ULong - 1
    BY <1>1 DEF Calls
  <1> QED
    BY <1>1, <1>2, LenProperties

LEMMA OldCall ==
  ASSUME NEW r, NEW known, NEW more, known \subseteq more, CallOf(known, r)
  PROVE  CallOf(more, r)
  BY DEF CallOf

LEMMA CallMoves ==
  ASSUME CallInv, NEW c \in Caller, NEW r \in Calls, CallOf(Known, r), Moves(c, r),
         UNCHANGED kernel, pl' \in [Caller -> Answers], ret' \in [Caller -> Codes]
  PROVE  CallInv'
  <1>1. Known' = Known
    BY DEF kernel, Known, Listed
  <1>a. call \in [Caller -> Calls] /\ \A d \in Caller : CallOf(Known, call[d])
    BY DEF CallInv, CallTypes, AllCallsOf
  <1>2. call' \in [Caller -> Calls] /\ \A d \in Caller : call'[d] = IF d = c THEN r ELSE call[d]
    BY <1>a DEF Moves
  <1>3. \A d \in Caller : CallOf(Known, call'[d])
    BY <1>a, <1>2
  <1>4. \A d \in Caller : CallOf(Known', call'[d])
    BY <1>1, <1>3
  <1>5. AllCallsOf(Known)'
    BY <1>4 DEF AllCallsOf
  <1>6. CallTypes'
    BY <1>2 DEF CallTypes
  <1> QED
    BY <1>5, <1>6 DEF CallInv

LEMMA NoTimes ==
  /\ Len(<< >>) = 0
  /\ << >> \in Seq(Int)
  /\ << >> \in UNION {[S -> 0 .. MaxTime] : S \in SUBSET Task}
  <1>1. << >> \in Seq(Int) /\ << >> \in Seq(0 .. MaxTime) /\ Len(<< >>) = 0
    OBVIOUS
  <1>2. << >> \in [{} -> 0 .. MaxTime]
    <2>1. << >> \in [1 .. 0 -> 0 .. MaxTime]
      BY <1>1, LenProperties
    <2>2. 1 .. 0 = {}
      OBVIOUS
    <2> QED  BY <2>1, <2>2
  <1> QED
    BY <1>1, <1>2

LEMMA IdleTypes ==
  ASSUME ProcTimesAssumption, NEW known
  PROVE  /\ Idle \in Calls /\ CallOf(known, Idle)
         /\ Astray \in Calls /\ CallOf(known, Astray)
         /\ ~Begun(Idle) /\ ~Begun(Astray) /\ Idle.pc = "idle" /\ Astray.pc = "astray"
  <1>1. 0 \in 0 .. ULong - 1
    BY DEF ProcTimesAssumption
  <1>2. Idle \in Calls
    BY <1>1, NoTimes DEF Idle, Calls, Pointer
  <1>3. Astray \in Calls
    BY <1>1, NoTimes DEF Astray, Idle, Calls, Pointer
  <1> QED
    BY <1>2, <1>3, NoTimes DEF Idle, Astray, CallOf, Begun

LEMMA BeginningTypes ==
  ASSUME ProcTimesAssumption, KernelInv, NEW t \in Listed, NEW pointer \in {"readable", "writable"}
  PROVE  LET r == Beginning(t, pointer, [s \in Listed |-> time[s]])
         IN  /\ r \in Calls /\ CallOf(Known, r)
             /\ r.pc = "read" /\ r.task = t /\ r.pointer = pointer /\ r.temp = << >> /\ r.at = AtHead
             /\ r.before = [s \in Listed |-> time[s]] /\ r.before # << >>
  <1> DEFINE b == [s \in Listed |-> time[s]]
             r == Beginning(t, pointer, b)
  <1>1. Listed \subseteq Task /\ 1 \in Listed
    BY ListedRange DEF KernelInv
  <1>2. b \in [Listed -> 0 .. MaxTime]
    BY <1>1 DEF KernelInv
  <1>3. b \in UNION {[S -> 0 .. MaxTime] : S \in SUBSET Task}
    BY <1>1, <1>2
  <1>4. DOMAIN b # DOMAIN << >>
    BY <1>1
  <1> HIDE DEF b
  <1>5. 0 \in 0 .. ULong - 1 /\ t \in Task
    BY <1>1 DEF ProcTimesAssumption
  <1>6. r \in Calls
    BY <1>3, <1>5, NoTimes DEF Beginning, Idle, Calls, Pointer
  <1>7. /\ r.pc = "read" /\ r.task = t /\ r.pointer = pointer /\ r.temp = << >> /\ r.at = AtHead
        /\ r.before = b /\ r.sum = 0
    BY DEF Beginning, Idle
  <1> HIDE DEF r
  <1>8. CallOf(Known, r)
    BY <1>7, NoTimes DEF CallOf, Known, Begun
  <1>9. r.before # << >>
    BY <1>4, <1>7
  <1> QED
    BY <1>6, <1>7, <1>8, <1>9 DEF r, b

LEMMA FieldTypes ==
  ASSUME ProcTimesAssumption, KernelInv, NEW t \in Task
  PROVE  /\ fields[t][1] \in Task \cup {-1} /\ fields[t][1] \in Int
         /\ fields[t][2] \in Int /\ fields[t][3] \in Int
         /\ time[t] \in 0 .. MaxTime /\ time[t] \in 0 .. ULong - 1 /\ time[t] \in Nat
  <1>1. fields[t] = NotSet \/ fields[t] \in Task \X Int \X Int
    BY DEF KernelInv, Fields
  <1>2. time[t] \in 0 .. MaxTime
    BY DEF KernelInv
  <1>3. Task \subseteq Int /\ MaxTime \in Nat /\ ULong \in Nat /\ MaxTime < ULong
    BY DEF ProcTimesAssumption
  <1>4. time[t] \in 0 .. ULong - 1 /\ time[t] \in Nat
    BY <1>2, <1>3
  <1>5. /\ fields[t][1] \in Task \cup {-1} /\ fields[t][1] \in Int
        /\ fields[t][2] \in Int /\ fields[t][3] \in Int
    <2>1. CASE fields[t] = NotSet
      BY <2>1 DEF NotSet
    <2>2. CASE fields[t] \in Task \X Int \X Int
      BY <1>3, <2>2
    <2> QED  BY <1>1, <2>1, <2>2
  <1> QED
    BY <1>2, <1>4, <1>5

(* One more field has been read.                                           *)
LEMMA FieldRead ==
  ASSUME NEW r \in Calls, r.pc = "read", NEW known, CallOf(known, r), Len(r.temp) < 5, NEW v \in Int,
         Len(r.temp) = 0 => v \in Task \cup {-1}, Len(r.temp) >= 3 => v \in 0 .. ULong - 1
  PROVE  LET q == WithField(r, v)
         IN  /\ q \in Calls /\ CallOf(known, q)
             /\ Len(q.temp) = Len(r.temp) + 1 /\ q.temp[Len(r.temp) + 1] = v
             /\ \A n \in 1 .. Len(r.temp) : q.temp[n] = r.temp[n]
             /\ q.pc = "read" /\ q.task = r.task /\ q.pointer = r.pointer /\ q.at = r.at
             /\ q.before = r.before /\ q.sum = r.sum
  <1> DEFINE q == WithField(r, v)
             m == Len(r.temp)
  <1>1. r.temp \in Seq(Int) /\ m \in Nat
    BY LenProperties DEF Calls
  <1>2. /\ q.temp \in Seq(Int) /\ Len(q.temp) = m + 1 /\ q.temp[m + 1] = v
        /\ \A n \in 1 .. m : q.temp[n] = r.temp[n]
    <2>1. q.temp = Append(r.temp, v)
      BY DEF WithField, Calls
    <2> QED  BY <1>1, <2>1, AppendProperties
  <1>3. /\ q.pc = "read" /\ q.task = r.task /\ q.pointer = r.pointer /\ q.at = r.at
        /\ q.before = r.before /\ q.sum = r.sum
    BY DEF WithField, Calls
  <1>4. q \in Calls
    <2>1. q = [r EXCEPT !.temp = Append(r.temp, v)] /\ Append(r.temp, v) \in Seq(Int)
      BY <1>1, AppendProperties DEF WithField
    <2> HIDE DEF q
    <2> QED  BY <2>1 DEF Calls
  <1> HIDE DEF q, m
  <1>5. CallOf(known, q)
    <2>1. Len(q.temp) <= 5 /\ q.pc # "visit"
      BY <1>1, <1>2, <1>3 DEF m
    <2>2. q.temp[1] \in Task \cup {-1}
      <3>1. CASE m = 0
        BY <1>2, <3>1 DEF m
      <3>2. CASE m # 0
        <4>1. m >= 1 /\ 1 \in 1 .. m
          BY <1>1, <3>2
        <4> QED  BY <1>2, <4>1 DEF m, CallOf
      <3> QED  BY <3>1, <3>2
    <2>3. Len(q.temp) >= 4 => q.temp[4] \in 0 .. ULong - 1
      <3>1. CASE m = 3
        BY <1>2, <3>1 DEF m
      <3>2. CASE m >= 4
        <4>1. 4 \in 1 .. m
          BY <1>1, <3>2
        <4> QED  BY <1>2, <3>2, <4>1 DEF m, CallOf
      <3> QED  BY <1>1, <1>2, <3>1, <3>2
    <2>4. Len(q.temp) >= 5 => q.temp[5] \in 0 .. ULong - 1
      <3>1. CASE m = 4
        BY <1>2, <3>1 DEF m
      <3>2. m < 5
        BY DEF m
      <3> QED  BY <1>1, <1>2, <3>1, <3>2
    <2>5. q.at \in known \cup {AtHead} /\ q.task \in known /\ q.pointer \in {"readable", "writable"} /\ q.sum = 0
      BY <1>3 DEF CallOf, Begun
    <2> QED  BY <2>1, <2>2, <2>3, <2>4, <2>5 DEF CallOf
  <1> QED
    BY <1>2, <1>3, <1>4, <1>5 DEF q, m

(* All are read: the totals of no family, or the first task of the list.   *)
LEMMA LoopBegun ==
  ASSUME ProcTimesAssumption, NEW r \in Calls, r.pc = "read", NEW known, known \subseteq Task,
         CallOf(known, r), Len(r.temp) = 5, NEW t \in known
  PROVE  /\ WithoutFamily(r) \in Calls /\ CallOf(known, WithoutFamily(r))
         /\ AtFirst(r, t) \in Calls /\ CallOf(known, AtFirst(r, t))
  <1>1. r.temp \in Seq(Int) /\ ULong - 1 \in 0 .. ULong - 1 /\ ULong - 1 \in Int
    BY DEF Calls, ProcTimesAssumption
  <1>2. AtFirst(r, t) \in Calls /\ CallOf(known, AtFirst(r, t))
    BY DEF AtFirst, Calls, CallOf, Begun
  <1> DEFINE v == [r.temp EXCEPT ![4] = ULong - 1, ![5] = ULong - 1]
             q == WithoutFamily(r)
  <1>3. v \in Seq(Int) /\ Len(v) = 5 /\ v[1] = r.temp[1] /\ v[4] = ULong - 1 /\ v[5] = ULong - 1
    <2>1. v \in [1 .. 5 -> Int] /\ v[1] = r.temp[1] /\ v[4] = ULong - 1 /\ v[5] = ULong - 1
      <3>1. r.temp \in [1 .. 5 -> Int]
        BY <1>1, LenProperties
      <3>2. ULong - 1 \in Int /\ 1 \in 1 .. 5 /\ 4 \in 1 .. 5 /\ 5 \in 1 .. 5
        BY <1>1
      <3> DEFINE u == ULong - 1
      <3> HIDE DEF u
      <3>3. v = [r.temp EXCEPT ![4] = u, ![5] = u] /\ u \in Int
        BY <3>2 DEF u
      <3> HIDE DEF v
      <3>4. v \in [1 .. 5 -> Int] /\ v[1] = r.temp[1] /\ v[4] = u /\ v[5] = u
        BY <3>1, <3>2, <3>3
      <3> QED  BY <3>4 DEF u
    <2> HIDE DEF v
    <2>2. v \in Seq(Int) /\ DOMAIN v = 1 .. 5
      <3>1. 5 \in Nat
        OBVIOUS
      <3> QED  BY <2>1, <3>1, FunctionIsSeq
    <2> QED  BY <2>1, <2>2, LenProperties
  <1>4. q.temp = v /\ q.pc = "visit" /\ q.at = r.at /\ q.task = r.task /\ q.pointer = r.pointer
    BY DEF WithoutFamily, Calls
  <1>5. q \in Calls
    <2>1. q = [r EXCEPT !.pc = "visit", !.sum = ULong - 1, !.temp = v]
      BY DEF WithoutFamily, Calls
    <2> HIDE DEF v, q
    <2> QED  BY <1>1, <1>3, <2>1 DEF Calls
  <1> HIDE DEF v, q
  <1>6. CallOf(known, q)
    BY <1>1, <1>3, <1>4 DEF CallOf, Begun
  <1> QED
    BY <1>2, <1>5, <1>6 DEF q

(* A task has been passed.                                                 *)
LEMMA TaskPassed ==
  ASSUME ProcTimesAssumption, NEW r \in Calls, r.pc = "visit", NEW known, CallOf(known, r),
         NEW member \in BOOLEAN, NEW i \in 0 .. MaxTime, NEW next \in (known \cap Task) \cup {AtHead}
  PROVE  LET q == PastTask(r, member, i, next)
         IN  /\ q \in Calls /\ CallOf(known, q)
             /\ q.pc = "visit" /\ q.task = r.task /\ q.pointer = r.pointer /\ q.before = r.before
             /\ q.at = next
             /\ q.temp[1] = r.temp[1] /\ q.temp[2] = r.temp[2] /\ q.temp[3] = r.temp[3]
             /\ q.sum = IF member THEN Plus(r.sum, i) ELSE r.sum
             /\ q.temp[4] = IF member /\ r.temp[4] < i THEN i ELSE r.temp[4]
             /\ q.temp[5] = IF member /\ r.temp[5] > i THEN i ELSE r.temp[5]
  <1> DEFINE v == [r.temp EXCEPT ![4] = IF r.temp[4] < i THEN i ELSE r.temp[4],
                                 ![5] = IF r.temp[5] > i THEN i ELSE r.temp[5]]
             q == PastTask(r, member, i, next)
             n == Plus(r.sum, i)
  <1>1. /\ r.temp \in Seq(Int) /\ Len(r.temp) = 5 /\ r.temp[4] \in 0 .. ULong - 1
        /\ r.temp[5] \in 0 .. ULong - 1 /\ r.sum \in 0 .. ULong - 1
    BY DEF Calls, CallOf
  <1>2. i \in 0 .. ULong - 1 /\ i \in Int /\ Plus(r.sum, i) \in 0 .. ULong - 1
    <2>1. MaxTime \in Nat /\ ULong \in Nat /\ MaxTime < ULong /\ ULong > 0
      BY DEF ProcTimesAssumption
    <2>2. r.sum + i \in Nat
      BY <1>1
    <2> QED  BY <2>1, <2>2, ModSmall DEF Plus
  <1>3. /\ v \in [1 .. 5 -> Int] /\ v[1] = r.temp[1] /\ v[2] = r.temp[2] /\ v[3] = r.temp[3]
        /\ v[4] = (IF r.temp[4] < i THEN i ELSE r.temp[4])
        /\ v[5] = (IF r.temp[5] > i THEN i ELSE r.temp[5])
    <2>1. r.temp \in [1 .. 5 -> Int]
      BY <1>1, LenProperties
    <2> QED  BY <1>2, <2>1
  <1>4. v[4] \in 0 .. ULong - 1 /\ v[5] \in 0 .. ULong - 1
    BY <1>1, <1>2, <1>3
  <1>5. Counted(r, i) = [r EXCEPT !.sum = n, !.temp = v]
    <2> HIDE DEF n
    <2> QED  BY DEF Counted, n
  <1> HIDE DEF v
  <1>6. v \in Seq(Int) /\ Len(v) = 5
    <2>1. v \in Seq(Int) /\ DOMAIN v = 1 .. 5
      <3>1. 5 \in Nat
        OBVIOUS
      <3> QED  BY <1>3, <3>1, FunctionIsSeq
    <2> QED  BY <2>1, LenProperties
  <1>7. CASE member
    <2>1. q = [r EXCEPT !.sum = Plus(r.sum, i), !.temp = v, !.at = next]
      BY <1>5, <1>7 DEF PastTask, Calls
    <2>2. q \in Calls
      BY <1>2, <1>6, <2>1 DEF Calls
    <2>3. /\ q.pc = "visit" /\ q.task = r.task /\ q.pointer = r.pointer /\ q.before = r.before
          /\ q.at = next /\ q.temp = v /\ q.sum = Plus(r.sum, i)
      BY <2>1 DEF Calls
    <2> HIDE DEF q
    <2>4. CallOf(known, q)
      BY <1>3, <1>4, <1>6, <2>3 DEF CallOf, Begun
    <2> QED  BY <1>3, <1>7, <2>2, <2>3, <2>4 DEF q
  <1>8. CASE ~member
    <2>1. q = [r EXCEPT !.at = next]
      BY <1>8 DEF PastTask
    <2>2. q \in Calls
      BY <2>1 DEF Calls
    <2>3. /\ q.pc = "visit" /\ q.task = r.task /\ q.pointer = r.pointer /\ q.before = r.before
          /\ q.at = next /\ q.temp = r.temp /\ q.sum = r.sum
      BY <2>1 DEF Calls
    <2> HIDE DEF q
    <2>4. CallOf(known, q)
      BY <2>3 DEF CallOf, Begun
    <2> QED  BY <1>8, <2>2, <2>3, <2>4 DEF q
  <1> QED
    BY <1>7, <1>8

-----------------------------------------------------------------------------
(* What the steps of a call do to its record                               *)

LEMMA TaskKnown ==
  ASSUME ProcTimesAssumption, KernelInv
  PROVE  Known \subseteq Task /\ Listed \subseteq Known /\ \A t \in Known : t \notin gone => t \in Listed
  BY ListedRange DEF KernelInv, Known

LEMMA ReadStep ==
  ASSUME ProcTimesAssumption, KernelInv, CallInv, NEW c \in Caller, Read(c)
  PROVE  /\ call[c].pc = "read" /\ Len(call[c].temp) < 5 /\ call[c].task \in Task
         /\ \/ Moves(c, Astray) /\ call[c].task \in gone
            \/ LET n == Len(call[c].temp) + 1
                   v == IF n <= 3 THEN fields[call[c].task][n] ELSE time[call[c].task]
               IN  /\ Moves(c, WithField(call[c], v)) /\ call[c].task \in Listed
                   /\ v \in Int /\ (n = 1 => v \in Task \cup {-1}) /\ (n >= 4 => v \in 0 .. ULong - 1)
  <1> DEFINE r == call[c]
             t == r.task
             n == Len(r.temp) + 1
             v == IF n <= 3 THEN fields[t][n] ELSE time[t]
  <1>1. r.pc = "read" /\ Len(r.temp) < 5
    BY DEF Read
  <1>2. r \in Calls /\ CallOf(Known, r) /\ Len(r.temp) \in Nat
    BY CallTyped
  <1>3. t \in Known /\ t \in Task
    BY <1>1, <1>2, TaskKnown DEF CallOf, Begun
  <1>4. call \in [Caller -> Calls]
    BY DEF CallInv, CallTypes
  <1>5. CASE OnReleased(c, t)
    BY <1>1, <1>3, <1>5 DEF OnReleased, Moves, Astray
  <1>6. CASE t \notin gone /\ call' = [call EXCEPT ![c].temp = Append(@, v)]
    <2>1. Moves(c, WithField(r, v))
      BY <1>4, <1>6 DEF Moves, WithField
    <2>2. v \in Int /\ (n = 1 => v \in Task \cup {-1}) /\ (n >= 4 => v \in 0 .. ULong - 1)
      <3>1. n = 1 \/ n = 2 \/ n = 3 \/ n >= 4
        BY <1>2
      <3> HIDE DEF n
      <3>2. (n <= 3 => v = fields[t][n]) /\ (~(n <= 3) => v = time[t])
        OBVIOUS
      <3> HIDE DEF v, t
      <3>3. /\ fields[t][1] \in Task \cup {-1} /\ fields[t][1] \in Int
            /\ fields[t][2] \in Int /\ fields[t][3] \in Int
            /\ time[t] \in 0 .. ULong - 1 /\ time[t] \in Nat
        BY <1>3, FieldTypes
      <3>4. CASE n = 1
        BY <3>2, <3>3, <3>4
      <3>5. CASE n = 2 \/ n = 3
        BY <3>2, <3>3, <3>5
      <3>6. CASE n >= 4
        <4>1. n # 1 /\ ~(n <= 3)
          BY <1>2, <3>6 DEF n
        <4> QED  BY <3>2, <3>3, <4>1
      <3> QED  BY <3>1, <3>4, <3>5, <3>6
    <2>3. t \in Listed
      BY <1>3, <1>6, TaskKnown
    <2> QED  BY <1>1, <1>3, <2>1, <2>2, <2>3
  <1> QED
    BY <1>5, <1>6 DEF Read

LEMMA ReadAllStep ==
  ASSUME ProcTimesAssumption, KernelInv, CallInv, NEW c \in Caller, ReadAll(c)
  PROVE  /\ call[c].pc = "read" /\ Len(call[c].temp) = 5
         /\ Head(tasks) \in Listed /\ Head(tasks) = tasks[1] /\ Len(tasks) >= 1
         /\ \/ call[c].temp[1] = -1 /\ Moves(c, WithoutFamily(call[c]))
            \/ call[c].temp[1] # -1 /\ Moves(c, AtFirst(call[c], Head(tasks)))
  <1>1. call \in [Caller -> Calls]
    BY DEF CallInv, CallTypes
  <1>2. call[c].pc = "read" /\ Len(call[c].temp) = 5
    BY DEF ReadAll
  <1>3. tasks \in Seq(Task) /\ 1 \in Listed
    BY DEF KernelInv
  <1>4. Len(tasks) \in Nat /\ Len(tasks) >= 1
    BY <1>3, LenProperties DEF Listed
  <1>5. Head(tasks) = tasks[1]
    BY <1>3, <1>4
  <1>6. Head(tasks) \in Listed
    BY <1>4, <1>5 DEF Listed
  <1>7. CASE call[c].temp[1] = -1
    <2>1. call' = [call EXCEPT ![c] = [call[c] EXCEPT !.pc = "visit", !.sum = ULong - 1,
                                                      !.temp[4] = ULong - 1, !.temp[5] = ULong - 1]]
      BY <1>7 DEF ReadAll
    <2>2. [call[c] EXCEPT !.pc = "visit", !.sum = ULong - 1, !.temp[4] = ULong - 1, !.temp[5] = ULong - 1]
            = WithoutFamily(call[c])
      <3>1. call[c] \in Calls
        BY <1>1
      <3> QED  BY <3>1 DEF WithoutFamily, Calls
    <2> QED  BY <1>2, <1>4, <1>5, <1>6, <1>7, <2>1, <2>2 DEF Moves
  <1>8. CASE call[c].temp[1] # -1
    <2>1. Moves(c, AtFirst(call[c], Head(tasks)))
      BY <1>8 DEF ReadAll, AtFirst, Moves
    <2> QED  BY <1>2, <1>4, <1>5, <1>6, <1>8, <2>1
  <1> QED
    BY <1>7, <1>8

LEMMA VisitStep ==
  ASSUME ProcTimesAssumption, KernelInv, CallInv, NEW c \in Caller, Visit(c)
  PROVE  LET r == call[c]
             t == r.at
         IN  /\ r.pc = "visit" /\ t \in Known /\ t \in Task
             /\ \/ Moves(c, Astray) /\ t \in gone
                \/ /\ Moves(c, PastTask(r, fields[t][1] = r.temp[1], time[t], next_task(t)))
                   /\ t \in Listed /\ next_task(t) \in Listed \cup {AtHead}
                   /\ time[t] \in 0 .. MaxTime
  <1> DEFINE r == call[c]
             t == r.at
  <1>1. r.pc = "visit" /\ t # AtHead
    BY DEF Visit
  <1>2. r \in Calls /\ CallOf(Known, r)
    BY CallTyped
  <1>3. t \in Known /\ t \in Task
    BY <1>1, <1>2, TaskKnown DEF CallOf
  <1>4. call \in [Caller -> Calls]
    BY DEF CallInv, CallTypes
  <1>5. CASE OnReleased(c, t)
    BY <1>1, <1>3, <1>5 DEF OnReleased, Moves, Astray
  <1>6. CASE t \notin gone
    <2>1. Moves(c, PastTask(r, fields[t][1] = r.temp[1], time[t], next_task(t)))
      BY <1>6 DEF Visit, OnReleased, Moves, PastTask, Past
    <2>2. t \in Listed
      BY <1>3, <1>6, TaskKnown
    <2>3. next_task(t) \in Listed \cup {AtHead}
      <3>1. tasks \in Seq(Task) /\ t \in Range(tasks) /\ Listed = Range(tasks)
        BY <2>2, ListedRange DEF KernelInv
      <3> QED  BY <3>1, AfterPlace DEF next_task
    <2>4. time[t] \in 0 .. MaxTime
      BY <1>3, FieldTypes
    <2> QED  BY <1>1, <1>3, <2>1, <2>2, <2>3, <2>4
  <1> QED
    BY <1>5, <1>6 DEF Visit

LEMMA CopyOutStep ==
  ASSUME ProcTimesAssumption, CallInv, NEW c \in Caller, CopyOut(c)
  PROVE  /\ call[c].pc = "visit" /\ call[c].at = AtHead /\ Moves(c, Idle) /\ UNCHANGED kernel
         /\ Temp(c) \in Answer /\ pl' \in [Caller -> Answers] /\ ret' \in [Caller -> Codes]
         /\ \/ /\ call[c].pointer = "writable"
               /\ pl' = [pl EXCEPT ![c] = Temp(c)] /\ ret' = [ret EXCEPT ![c] = 0]
            \/ /\ call[c].pointer # "writable"
               /\ ret' = [ret EXCEPT ![c] = -EINVAL] /\ UNCHANGED pl
  <1> DEFINE r == call[c]
  <1>1. r.pc = "visit" /\ r.at = AtHead /\ Moves(c, Idle) /\ UNCHANGED kernel
    BY DEF CopyOut, Moves
  <1>2. \/ /\ call[c].pointer = "writable"
           /\ pl' = [pl EXCEPT ![c] = Temp(c)] /\ ret' = [ret EXCEPT ![c] = 0]
        \/ /\ call[c].pointer # "writable"
           /\ ret' = [ret EXCEPT ![c] = -EINVAL] /\ UNCHANGED pl
    BY DEF CopyOut
  <1>3. r \in Calls /\ CallOf(Known, r) /\ r.temp \in Seq(Int) /\ r.sum \in 0 .. ULong - 1
    BY CallTyped
  <1>4. /\ r.temp[1] \in Task \cup {-1} /\ r.temp[2] \in Int /\ r.temp[3] \in Int
        /\ r.temp[4] \in 0 .. ULong - 1 /\ r.temp[5] \in 0 .. ULong - 1
    <2>1. Len(r.temp) = 5
      BY <1>1, <1>3 DEF CallOf
    <2>2. r.temp[2] \in Int /\ r.temp[3] \in Int
      <3>1. r.temp \in [1 .. 5 -> Int]
        BY <1>3, <2>1, LenProperties
      <3> QED  BY <3>1
    <2> QED  BY <1>3, <2>1, <2>2 DEF CallOf
  <1>5. Temp(c) \in Answer
    BY <1>3, <1>4 DEF Temp, Answer
  <1>6. pl \in [Caller -> Answers] /\ ret \in [Caller -> Codes]
    BY DEF CallInv, CallTypes
  <1>7. Temp(c) \in Answers /\ 0 \in Codes /\ -EINVAL \in Codes
    BY <1>5 DEF Answers, Codes, EINVAL
  <1>8. pl' \in [Caller -> Answers] /\ ret' \in [Caller -> Codes]
    BY <1>2, <1>6, <1>7
  <1> QED
    BY <1>1, <1>2, <1>5, <1>8

LEMMA BeginStep ==
  ASSUME ProcTimesAssumption, KernelInv, CallInv, NEW c \in Caller, NEW pid, NEW pointer \in Pointer,
         sys_getproclimit(c, pid, pointer)
  PROVE  /\ call[c].pc = "idle" /\ UNCHANGED <<kernel, pl>> /\ ret' \in [Caller -> Codes]
         /\ \/ /\ Failure(Process(c, pid), pointer) # 0 /\ UNCHANGED call
               /\ ret' = [ret EXCEPT ![c] = -Failure(Process(c, pid), pointer)]
            \/ /\ UNCHANGED ret /\ Process(c, pid) \in Listed /\ pointer \in {"readable", "writable"}
               /\ Moves(c, Beginning(Process(c, pid), pointer, [s \in Listed |-> time[s]]))
  <1> DEFINE t == Process(c, pid)
             b == [s \in Listed |-> time[s]]
  <1>1. call[c].pc = "idle" /\ UNCHANGED <<kernel, pl>>
    BY DEF sys_getproclimit
  <1>2. ret \in [Caller -> Codes]
    BY DEF CallInv, CallTypes
  <1>3. -Failure(t, pointer) \in Codes
    <2>1. Failure(t, pointer) \in {0, 14, 22}
      BY DEF Failure, EINVAL, EFAULT
    <2>2. \A x \in {0, 14, 22} : -x \in Codes
      BY DEF Codes
    <2> QED  BY <2>1, <2>2
  <1>4. CASE Failure(t, pointer) # 0
    <2>1. ret' = [ret EXCEPT ![c] = -Failure(t, pointer)] /\ UNCHANGED call
      BY <1>4 DEF sys_getproclimit
    <2> QED  BY <1>1, <1>2, <1>3, <1>4, <2>1
  <1>5. CASE Failure(t, pointer) = 0
    <2>1. t # None /\ pointer \in {"readable", "writable"}
      BY <1>5 DEF Failure, EINVAL, EFAULT, Pointer
    <2>2. t \in Listed
      BY <2>1, ProcessListed
    <2>3. UNCHANGED ret /\ Moves(c, Beginning(t, pointer, b))
      BY <1>5 DEF sys_getproclimit, Moves, Beginning
    <2> QED  BY <1>1, <1>2, <2>1, <2>2, <2>3
  <1> QED
    BY <1>4, <1>5

LEMMA SetStep ==
  ASSUME ProcTimesAssumption, KernelInv, CallInv, NEW c \in Caller, NEW pid \in Int, NEW limit \in Int,
         NEW interval \in Int, sys_setproclimit(c, pid, limit, interval)
  PROVE  /\ call[c].pc = "idle" /\ UNCHANGED <<tasks, parent, gone, time, pl>> /\ ret' \in [Caller -> Codes]
         /\ \/ ret' = [ret EXCEPT ![c] = -EINVAL] /\ UNCHANGED <<fields, call>>
            \/ /\ Process(c, pid) \in Listed /\ Set(Process(c, pid), limit, interval)
               /\ Disturbed /\ ret' = [ret EXCEPT ![c] = 0]
  <1>a. ret \in [Caller -> Codes]
    BY DEF CallInv, CallTypes
  <1>1. 0 \in Codes /\ -EINVAL \in Codes
    BY DEF EINVAL, Codes
  <1> QED
    BY <1>a, <1>1, ProcessListed DEF sys_setproclimit

-----------------------------------------------------------------------------
(* Types                                                                   *)

LEMMA CallsKept ==
  ASSUME Known \subseteq Known', call' \in [Caller -> Calls], \A d \in Caller : CallOf(Known, call'[d]),
         pl' \in [Caller -> Answers], ret' \in [Caller -> Codes]
  PROVE  CallInv'
  <1>1. \A d \in Caller : CallOf(Known', call'[d])
    BY OldCall
  <1>2. AllCallsOf(Known)' /\ CallTypes'
    BY <1>1 DEF AllCallsOf, CallTypes
  <1> QED
    BY <1>2 DEF CallInv

LEMMA DisturbedCalls ==
  ASSUME CallInv, Disturbed
  PROVE  /\ call' \in [Caller -> Calls]
         /\ \A d \in Caller : /\ CallOf(Known, call'[d]) /\ call'[d].before = << >>
                             /\ call'[d].pc = call[d].pc /\ call'[d].task = call[d].task
                             /\ call'[d].pointer = call[d].pointer /\ call'[d].temp = call[d].temp
                             /\ call'[d].at = call[d].at /\ call'[d].sum = call[d].sum
  <1>1. \A d \in Caller : call'[d] = [call[d] EXCEPT !.before = << >>]
    BY DEF Disturbed
  <1>2. ASSUME NEW r \in Calls, CallOf(Known, r), NEW q, q = [r EXCEPT !.before = << >>]
        PROVE  /\ q \in Calls /\ CallOf(Known, q)
               /\ q.before = << >> /\ q.pc = r.pc /\ q.task = r.task /\ q.pointer = r.pointer
               /\ q.temp = r.temp /\ q.at = r.at /\ q.sum = r.sum
    <2>1. q \in Calls
      BY <1>2, NoTimes DEF Calls
    <2>2. /\ q.before = << >> /\ q.pc = r.pc /\ q.task = r.task /\ q.pointer = r.pointer
          /\ q.temp = r.temp /\ q.at = r.at /\ q.sum = r.sum
      BY <1>2 DEF Calls
    <2>3. CallOf(Known, q)
      BY <1>2, <2>2 DEF CallOf, Begun
    <2> QED  BY <2>1, <2>2, <2>3
  <1>3. \A d \in Caller : call[d] \in Calls /\ CallOf(Known, call[d])
    BY CallTyped
  <1>4. \A d \in Caller :
          /\ call'[d] \in Calls /\ CallOf(Known, call'[d]) /\ call'[d].before = << >>
          /\ call'[d].pc = call[d].pc /\ call'[d].task = call[d].task
          /\ call'[d].pointer = call[d].pointer /\ call'[d].temp = call[d].temp
          /\ call'[d].at = call[d].at /\ call'[d].sum = call[d].sum
    BY <1>1, <1>2, <1>3
  <1>5. call' \in [Caller -> Calls]
    <2>1. call' = [d \in Caller |-> call'[d]]
      BY DEF Disturbed
    <2> QED  BY <1>4, <2>1
  <1> QED
    BY <1>4, <1>5

LEMMA CallInvariance ==
  ASSUME ProcTimesAssumption, KernelInv, CallInv, TimesStep
  PROVE  CallInv'
  <1>1. Known \subseteq Known'
    BY KernelInvariance
  <1>2. call \in [Caller -> Calls] /\ pl \in [Caller -> Answers] /\ ret \in [Caller -> Codes]
        /\ \A d \in Caller : CallOf(Known, call[d])
    BY DEF CallInv, CallTypes, AllCallsOf
  <1>3. ASSUME UNCHANGED <<call, pl>>, ret' \in [Caller -> Codes]
        PROVE  CallInv'
    BY <1>1, <1>2, <1>3, CallsKept
  <1>4. ASSUME Disturbed, UNCHANGED pl, ret' \in [Caller -> Codes]
        PROVE  CallInv'
    BY <1>1, <1>2, <1>4, CallsKept, DisturbedCalls
  <1>5. CASE SetCall
    <2>1. PICK c \in Caller, pid \in Int, limit \in Int, interval \in Int : sys_setproclimit(c, pid, limit, interval)
      BY <1>5 DEF SetCall
    <2> QED  BY <1>3, <1>4, <2>1, SetStep
  <1>6. CASE GetCall
    <2>1. PICK c \in Caller, pid \in Int, pointer \in Pointer : sys_getproclimit(c, pid, pointer)
      BY <1>6 DEF GetCall
    <2> DEFINE r == Beginning(Process(c, pid), pointer, [s \in Listed |-> time[s]])
    <2>2. UNCHANGED <<kernel, pl>> /\ ret' \in [Caller -> Codes]
      BY <2>1, BeginStep
    <2>3. CASE UNCHANGED call
      BY <1>3, <2>2, <2>3
    <2>4. CASE Process(c, pid) \in Listed /\ pointer \in {"readable", "writable"} /\ Moves(c, r)
      <3>1. r \in Calls /\ CallOf(Known, r)
        BY <2>4, BeginningTypes
      <3> HIDE DEF r
      <3>2. pl' \in [Caller -> Answers]
        BY <1>2, <2>2
      <3> QED  BY <2>2, <2>4, <3>1, <3>2, CallMoves
    <2> QED  BY <2>1, <2>3, <2>4, BeginStep
  <1>7. CASE NoCall
    <2>1. -ENOSYS \in Codes
      BY DEF ENOSYS, Codes
    <2>2. UNCHANGED <<call, pl>> /\ ret' \in [Caller -> Codes]
      BY <1>2, <1>7, <2>1 DEF NoCall
    <2> QED  BY <1>3, <2>2
  <1>8. ASSUME NEW c \in Caller, Walk(c)
        PROVE  CallInv'
    <2> DEFINE r == call[c]
    <2>1. r \in Calls /\ CallOf(Known, r) /\ Len(r.temp) \in Nat
      BY CallTyped
    <2>2. ASSUME NEW q \in Calls, CallOf(Known, q), Moves(c, q), UNCHANGED <<kernel, pl, ret>>
          PROVE  CallInv'
      BY <1>2, <2>2, CallMoves
    <2>3. Astray \in Calls /\ CallOf(Known, Astray)
      BY IdleTypes
    <2>4. CASE Read(c)
      <3> DEFINE n == Len(r.temp) + 1
                 v == IF n <= 3 THEN fields[r.task][n] ELSE time[r.task]
      <3>1. UNCHANGED <<kernel, pl, ret>>
        BY <2>4 DEF Read
      <3>2. CASE Moves(c, Astray)
        BY <2>2, <2>3, <3>1, <3>2
      <3>3. CASE /\ Moves(c, WithField(r, v))
                 /\ v \in Int /\ (n = 1 => v \in Task \cup {-1}) /\ (n >= 4 => v \in 0 .. ULong - 1)
        <4>1. r.pc = "read" /\ Len(r.temp) < 5
          BY <2>4, ReadStep
        <4>2. (Len(r.temp) = 0 => v \in Task \cup {-1}) /\ (Len(r.temp) >= 3 => v \in 0 .. ULong - 1)
          <5>1. (Len(r.temp) = 0 => n = 1) /\ (Len(r.temp) >= 3 => n >= 4)
            BY <2>1
          <5> HIDE DEF n
          <5> QED  BY <3>3, <5>1
        <4>3. v \in Int
          BY <3>3
        <4> HIDE DEF v
        <4>4. WithField(r, v) \in Calls /\ CallOf(Known, WithField(r, v))
          BY <2>1, <4>1, <4>2, <4>3, FieldRead
        <4> QED  BY <2>2, <3>1, <3>3, <4>4
      <3> QED  BY <2>4, <3>2, <3>3, ReadStep
    <2>5. CASE ReadAll(c)
      <3>1. UNCHANGED <<kernel, pl, ret>>
        BY <2>5 DEF ReadAll
      <3>2. r.pc = "read" /\ Len(r.temp) = 5 /\ Head(tasks) \in Known /\ Known \subseteq Task
        BY <2>5, ReadAllStep, TaskKnown
      <3>3. /\ WithoutFamily(r) \in Calls /\ CallOf(Known, WithoutFamily(r))
            /\ AtFirst(r, Head(tasks)) \in Calls /\ CallOf(Known, AtFirst(r, Head(tasks)))
        BY <2>1, <3>2, LoopBegun
      <3> QED  BY <2>2, <2>5, <3>1, <3>3, ReadAllStep
    <2>6. CASE Visit(c)
      <3> DEFINE t == r.at
                 q == PastTask(r, fields[t][1] = r.temp[1], time[t], next_task(t))
      <3>1. UNCHANGED <<kernel, pl, ret>>
        BY <2>6 DEF Visit
      <3>2. CASE Moves(c, Astray)
        BY <2>2, <2>3, <3>1, <3>2
      <3>3. CASE /\ Moves(c, q) /\ next_task(t) \in Listed \cup {AtHead} /\ time[t] \in 0 .. MaxTime
        <4>1. r.pc = "visit" /\ next_task(t) \in (Known \cap Task) \cup {AtHead}
          BY <2>6, <3>3, VisitStep, TaskKnown
        <4>2. (fields[t][1] = r.temp[1]) \in BOOLEAN
          OBVIOUS
        <4>3. q \in Calls /\ CallOf(Known, q)
          BY <2>1, <3>3, <4>1, <4>2, TaskPassed
        <4> HIDE DEF q
        <4> QED  BY <2>2, <3>1, <3>3, <4>3
      <3> QED  BY <2>6, <3>2, <3>3, VisitStep
    <2>7. CASE CopyOut(c)
      BY <2>7, CopyOutStep, IdleTypes, CallMoves
    <2> QED  BY <1>8, <2>4, <2>5, <2>6, <2>7 DEF Walk
  <1>9. ASSUME NEW t \in Task, Run(t) \/ Fork(t) \/ Release(t) \/ Regroup(t)
        PROVE  CallInv'
    BY <1>2, <1>3, <1>4, <1>9 DEF Run, Fork, Release, Regroup
  <1>10. CASE UNCHANGED vars
    BY <1>2, <1>3, <1>10 DEF vars
  <1> QED
    BY <1>5, <1>6, <1>7, <1>8, <1>9, <1>10 DEF TimesStep

LEMMA InvTypes ==
  ASSUME ProcTimesAssumption, KernelInv, CallInv
  PROVE  TypeOK
  <1>1. Listed = Range(tasks) /\ tasks \in Seq(Task) /\ Distinct(tasks)
    BY ListedRange DEF KernelInv
  <1>2. Cardinality(Listed) = Len(tasks)
    BY <1>1, DistinctSize
  <1>3. Listed \subseteq Task \ gone
    BY ListedRange DEF KernelInv
  <1>4. parent \in [Task -> Task \cup {None}] /\ \A t \in Listed \ {1} : parent[t] \in Listed
    BY DEF KernelInv
  <1>5. fields \in [Task -> {NotSet} \cup (Task \X Int \X Int)] /\ time \in [Task -> 0 .. MaxTime]
    BY DEF KernelInv, Fields
  <1>6. ASSUME NEW c \in Caller
        PROVE  /\ call[c].pc \in {"idle", "read", "visit", "astray"}
               /\ call[c].task \in Task \cup {None} /\ call[c].at \in Task \cup {AtHead}
               /\ call[c].pointer \in Pointer
               /\ Len(call[c].temp) <= 5 /\ call[c].sum \in 0 .. ULong - 1
               /\ pl[c] = << >> \/ pl[c] \in Answer
               /\ ret[c] \in -(4095) .. 0
    <2>1. call[c] \in Calls /\ CallOf(Known, call[c])
      BY CallTyped
    <2>2. /\ call[c].pc \in {"idle", "read", "visit", "astray"}
          /\ call[c].task \in Task \cup {None} /\ call[c].at \in Task \cup {AtHead}
          /\ call[c].pointer \in Pointer /\ call[c].sum \in 0 .. ULong - 1
      BY <2>1 DEF Calls
    <2>3. Len(call[c].temp) <= 5
      BY <2>1 DEF CallOf
    <2>4. pl[c] \in Answers /\ ret[c] \in Codes
      BY DEF CallInv, CallTypes
    <2>5. pl[c] = << >> \/ pl[c] \in Answer
      BY <2>4 DEF Answers
    <2>6. ret[c] \in -(4095) .. 0
      BY <2>4 DEF Codes
    <2> QED  BY <2>2, <2>3, <2>5, <2>6
  <1> QED
    BY <1>2, <1>3, <1>4, <1>5, <1>6 DEF TypeOK

-----------------------------------------------------------------------------
(* Those members of a family that a walk has passed                        *)

LEMMA PassedFinite ==
  ASSUME NEW list \in Seq(Task), Distinct(list), NEW fl, NEW root, NEW at
  PROVE  /\ Passed(list, fl, root, at) \subseteq FamilyOf(list, fl, root)
         /\ FamilyOf(list, fl, root) \subseteq Range(list) /\ Range(list) \subseteq Task
         /\ IsFiniteSet(FamilyOf(list, fl, root)) /\ IsFiniteSet(Passed(list, fl, root, at))
  <1>1. Passed(list, fl, root, at) \subseteq FamilyOf(list, fl, root)
    BY DEF Passed
  <1>2. FamilyOf(list, fl, root) \subseteq Range(list)
    BY DEF FamilyOf
  <1>3. IsFiniteSet(Range(list)) /\ Range(list) \subseteq Task
    BY DistinctSize, RangeOfSeq
  <1>4. IsFiniteSet(FamilyOf(list, fl, root))
    BY <1>2, <1>3, FS_Subset
  <1>5. IsFiniteSet(Passed(list, fl, root, at))
    BY <1>1, <1>4, FS_Subset
  <1> QED
    BY <1>1, <1>2, <1>3, <1>4, <1>5

LEMMA PassedAll ==
  ASSUME NEW list, NEW fl, NEW root
  PROVE  Passed(list, fl, root, AtHead) = FamilyOf(list, fl, root)
  BY DEF Passed

LEMMA PassedNone ==
  ASSUME ProcTimesAssumption, NEW list \in Seq(Task), Distinct(list), Len(list) >= 1, NEW fl, NEW root
  PROVE  Passed(list, fl, root, list[1]) = {}
  <1>1. Len(list) \in Nat /\ 1 \in 1 .. Len(list)
    BY LenProperties
  <1>2. Place(list, list[1]) = 1 /\ list[1] \in Range(list)
    BY <1>1, PlaceUnique, LenProperties DEF Range
  <1>3. list[1] # AtHead
    BY <1>2, RangeOfSeq DEF AtHead, ProcTimesAssumption
  <1>4. \A t \in FamilyOf(list, fl, root) : ~(Place(list, t) < 1)
    <2> TAKE t \in FamilyOf(list, fl, root)
    <2>1. t \in Range(list)
      BY DEF FamilyOf
    <2>2. Place(list, t) \in 1 .. Len(list)
      BY <2>1, PlaceIn
    <2> QED  BY <1>1, <2>2
  <1> QED
    BY <1>2, <1>3, <1>4 DEF Passed

LEMMA PassedNext ==
  ASSUME ProcTimesAssumption, NEW list \in Seq(Task), Distinct(list), NEW fl, NEW root, NEW at \in Range(list)
  PROVE  /\ at \notin Passed(list, fl, root, at)
         /\ Passed(list, fl, root, After(list, at)) =
              Passed(list, fl, root, at) \cup (IF fl[at][1] = root THEN {at} ELSE {})
  <1> DEFINE F == FamilyOf(list, fl, root)
             k == Place(list, at)
             L == Len(list)
  <1>1. 0 \notin Range(list)
    BY RangeOfSeq DEF ProcTimesAssumption
  <1>2. at # AtHead
    BY <1>1 DEF AtHead
  <1>3. k \in 1 .. L /\ list[k] = at /\ L \in Nat
    BY PlaceIn, LenProperties
  <1>4. \A t \in F : Place(list, t) \in 1 .. L /\ list[Place(list, t)] = t
    <2> TAKE t \in F
    <2>1. t \in Range(list)
      BY DEF FamilyOf
    <2> QED  BY <2>1, PlaceIn
  <1>5. at \in F <=> fl[at][1] = root
    BY DEF FamilyOf
  <1>6. \A t \in F : Place(list, t) = k <=> t = at
    BY <1>3, <1>4
  <1>7. Passed(list, fl, root, at) = {t \in F : Place(list, t) < k}
    BY <1>2 DEF Passed
  <1> HIDE DEF F, k, L
  <1>8. at \notin Passed(list, fl, root, at)
    BY <1>3, <1>7 DEF k
  <1>9. CASE k < L
    <2> DEFINE u == After(list, at)
    <2>1. u = list[k + 1] /\ u \in Range(list)
      BY <1>9, AfterPlace DEF k, L
    <2>2. k + 1 \in 1 .. L
      BY <1>3, <1>9
    <2>3. Place(list, u) = k + 1
      BY <2>1, <2>2, PlaceUnique DEF L
    <2>4. u # AtHead
      BY <1>1, <2>1 DEF AtHead
    <2>5. Passed(list, fl, root, u) = {t \in F : Place(list, t) < k + 1}
      BY <2>3, <2>4 DEF Passed, F
    <2> HIDE DEF u
    <2>6. \A t \in F : Place(list, t) < k + 1 <=> (Place(list, t) < k \/ t = at)
      <3> TAKE t \in F
      <3>1. Place(list, t) \in Nat /\ k \in Nat
        BY <1>3, <1>4
      <3>2. Place(list, t) < k + 1 <=> (Place(list, t) < k \/ Place(list, t) = k)
        BY <3>1
      <3> QED  BY <1>6, <3>2
    <2>7. {t \in F : Place(list, t) < k + 1} = {t \in F : Place(list, t) < k} \cup (F \cap {at})
      BY <2>6
    <2> QED  BY <1>5, <1>7, <1>8, <2>5, <2>7 DEF u
  <1>10. CASE ~(k < L)
    <2>1. After(list, at) = AtHead /\ k = L
      BY <1>10, AfterPlace DEF k, L
    <2>2. Passed(list, fl, root, After(list, at)) = F
      BY <2>1 DEF Passed, F
    <2>3. \A t \in F : Place(list, t) < k \/ t = at
      <3> TAKE t \in F
      <3>1. Place(list, t) \in 1 .. L
        BY <1>4
      <3>2. Place(list, t) < k \/ Place(list, t) = k
        BY <1>3, <2>1, <3>1
      <3> QED  BY <1>6, <3>2
    <2>4. F = {t \in F : Place(list, t) < k} \cup (F \cap {at})
      BY <2>3
    <2> QED  BY <1>5, <1>7, <1>8, <2>2, <2>4
  <1> QED
    BY <1>9, <1>10

(* A process that is forked comes last.                                    *)
LEMMA PassedAppend ==
  ASSUME ProcTimesAssumption, NEW list \in Seq(Task), Distinct(list), NEW n \in Task, n \notin Range(list),
         NEW fl, NEW gl, \A t \in Range(list) : gl[t] = fl[t], NEW root,
         NEW at \in Range(list) \cup {AtHead}
  PROVE  LET more == Append(list, n) IN
         /\ FamilyOf(list, fl, root) \subseteq FamilyOf(more, gl, root)
         /\ FamilyOf(more, gl, root) \subseteq FamilyOf(list, fl, root) \cup {n}
         /\ Passed(list, fl, root, at) \subseteq Passed(more, gl, root, at)
         /\ Passed(more, gl, root, at) \subseteq Passed(list, fl, root, at) \cup {n}
  <1> DEFINE more == Append(list, n)
  <1>1. more \in Seq(Task) /\ Range(more) = Range(list) \cup {n} /\ Distinct(more)
    BY AppendList
  <1>2. \A t \in Range(list) : Place(more, t) = Place(list, t)
    BY <1>1, AppendPlace
  <1> HIDE DEF more
  <1>3. /\ FamilyOf(list, fl, root) \subseteq FamilyOf(more, gl, root)
        /\ FamilyOf(more, gl, root) \subseteq FamilyOf(list, fl, root) \cup {n}
    BY <1>1 DEF FamilyOf
  <1>4. \A t \in FamilyOf(list, fl, root) : t \in Range(list)
    BY DEF FamilyOf
  <1>5. \A t \in FamilyOf(list, fl, root) : t \in Passed(list, fl, root, at) <=> t \in Passed(more, gl, root, at)
    <2> TAKE t \in FamilyOf(list, fl, root)
    <2>1. CASE at = AtHead
      BY <1>3, <2>1 DEF Passed
    <2>2. CASE at \in Range(list) /\ at # AtHead
      BY <1>2, <1>3, <1>4, <2>2 DEF Passed
    <2> QED  BY <2>1, <2>2
  <1>6. Passed(list, fl, root, at) \subseteq FamilyOf(list, fl, root)
        /\ Passed(more, gl, root, at) \subseteq FamilyOf(more, gl, root)
    BY DEF Passed
  <1> QED
    BY <1>3, <1>5, <1>6 DEF more

-----------------------------------------------------------------------------
(* The sum of the times                                                    *)

LEMMA SummedNone ==
  ASSUME ProcTimesAssumption, NEW tm, NEW first
  PROVE  Summed({}, tm, first, 0)
  <1>1. 0 \in 0 .. 0 /\ 0 = 0 % ULong
    BY ModSmall DEF ProcTimesAssumption
  <1> QED
    BY <1>1, SumEmpty DEF Summed

LEMMA SummedTypes ==
  ASSUME NEW done, IsFiniteSet(done), NEW tm, NEW first, \A t \in done : first[t] \in Nat /\ tm[t] \in Nat
  PROVE  SumFunctionOnSet(first, done) \in Nat /\ SumFunctionOnSet(tm, done) \in Nat
  BY SumNat

(* One more process is counted.                                            *)
LEMMA SummedNext ==
  ASSUME ProcTimesAssumption, NEW done, IsFiniteSet(done), NEW tm, NEW first, NEW x, x \notin done,
         \A t \in done \cup {x} : first[t] \in Nat /\ tm[t] \in Nat /\ first[t] <= tm[t],
         NEW sum, Summed(done, tm, first, sum)
  PROVE  Summed(done \cup {x}, tm, first, Plus(sum, tm[x]))
  <1>1. PICK s \in SumFunctionOnSet(first, done) .. SumFunctionOnSet(tm, done) : sum = s % ULong
    BY DEF Summed
  <1>2. SumFunctionOnSet(first, done) \in Nat /\ SumFunctionOnSet(tm, done) \in Nat
    BY SummedTypes
  <1>3. s \in Nat /\ first[x] \in Nat /\ tm[x] \in Nat /\ first[x] <= tm[x]
        /\ SumFunctionOnSet(first, done) <= s /\ s <= SumFunctionOnSet(tm, done)
    BY <1>1, <1>2
  <1>4. SumFunctionOnSet(first, done \cup {x}) = first[x] + SumFunctionOnSet(first, done)
    BY SumAdd
  <1>5. SumFunctionOnSet(tm, done \cup {x}) = tm[x] + SumFunctionOnSet(tm, done)
    BY SumAdd
  <1>6. s + tm[x] \in SumFunctionOnSet(first, done \cup {x}) .. SumFunctionOnSet(tm, done \cup {x})
    BY <1>2, <1>3, <1>4, <1>5
  <1>7. Plus(sum, tm[x]) = (s + tm[x]) % ULong
    <2> DEFINE y == tm[x]
    <2> HIDE DEF y
    <2>1. ULong \in Nat /\ ULong > 0
      BY DEF ProcTimesAssumption
    <2>2. y \in Nat /\ s \in Nat
      BY <1>3 DEF y
    <2>3. ((s % ULong) + y) % ULong = (s + y) % ULong
      BY <2>1, <2>2, ModPlus
    <2> QED  BY <1>1, <2>3 DEF Plus, y
  <1> QED
    BY <1>6, <1>7 DEF Summed

(* Time passes, and a process is forked that had used none.                *)
LEMMA SummedLater ==
  ASSUME NEW done, NEW n, NEW more, done \subseteq more, more \subseteq done \cup {n}, IsFiniteSet(more),
         NEW tm, NEW um, NEW first, \A t \in more \ done : first[t] = 0,
         \A t \in more : first[t] \in Nat /\ tm[t] \in Nat /\ um[t] \in Nat /\ tm[t] <= um[t],
         NEW sum, Summed(done, tm, first, sum)
  PROVE  Summed(more, um, first, sum)
  <1>1. PICK s \in SumFunctionOnSet(first, done) .. SumFunctionOnSet(tm, done) : sum = s % ULong
    BY DEF Summed
  <1>2. IsFiniteSet(done)
    BY FS_Subset
  <1>3. SumFunctionOnSet(first, done) \in Nat /\ SumFunctionOnSet(tm, done) \in Nat
    BY <1>2, SummedTypes
  <1>4. SumFunctionOnSet(first, more) = SumFunctionOnSet(first, done)
    <2>1. CASE more = done
      BY <2>1
    <2>2. CASE more # done
      <3>1. more = done \cup {n} /\ n \notin done
        BY <2>2
      <3>2. \A t \in done \cup {n} : first[t] \in Nat
        BY <3>1
      <3>3. SumFunctionOnSet(first, done \cup {n}) = first[n] + SumFunctionOnSet(first, done)
        BY <1>2, <3>1, <3>2, SumAdd
      <3> QED  BY <1>3, <3>1, <3>3
    <2> QED  BY <2>1, <2>2
  <1>5. SumFunctionOnSet(tm, done) <= SumFunctionOnSet(um, more)
    BY SumMonotone
  <1>6. SumFunctionOnSet(um, more) \in Nat
    BY SumNat
  <1>7. s \in SumFunctionOnSet(first, more) .. SumFunctionOnSet(um, more)
    BY <1>1, <1>3, <1>4, <1>5, <1>6
  <1> QED
    BY <1>1, <1>7 DEF Summed

-----------------------------------------------------------------------------
(* The greatest and the least                                              *)

LEMMA BetweenNext ==
  ASSUME NEW family, NEW done, done \subseteq family, NEW x \in family, NEW tm, NEW first, NEW old,
         \A t \in family : first[t] \in Nat /\ tm[t] \in Nat /\ first[t] <= tm[t],
         NEW min \in Int, NEW max \in Int, Between(family, done, tm, first, old, min, max),
         NEW min2, min2 = IF min < tm[x] THEN tm[x] ELSE min,
         NEW max2, max2 = IF max > tm[x] THEN tm[x] ELSE max
  PROVE  Between(family, done \cup {x}, tm, first, old, min2, max2)
  <1>1. tm[x] \in Nat /\ first[x] \in Nat /\ first[x] <= tm[x]
    OBVIOUS
  <1>2. /\ min <= min2 /\ tm[x] <= min2 /\ max2 <= max /\ max2 <= tm[x]
        /\ min2 \in Int /\ max2 \in Int /\ min2 \in {min, tm[x]} /\ max2 \in {max, tm[x]}
    BY <1>1
  <1>3. /\ \A t \in done : first[t] <= min /\ (t \in old => max <= tm[t])
        /\ \E t \in family : min <= tm[t]
        /\ \E t \in family : max <= tm[t]
        /\ \E t \in family : first[t] <= min
        /\ \E t \in family : first[t] <= max
    BY DEF Between
  <1>4. ASSUME NEW t \in done \cup {x}
        PROVE  first[t] <= min2 /\ (t \in old => max2 <= tm[t])
    <2>1. first[t] \in Nat /\ tm[t] \in Nat
      OBVIOUS
    <2>2. CASE t \in done
      <3>1. first[t] <= min /\ (t \in old => max <= tm[t])
        BY <1>3, <2>2
      <3>2. first[t] <= min2
        BY <1>2, <2>1, <3>1
      <3>3. t \in old => max2 <= tm[t]
        BY <1>2, <2>1, <3>1
      <3> QED  BY <3>2, <3>3
    <2>3. CASE t = x
      <3>1. first[x] <= min2
        BY <1>1, <1>2
      <3> QED  BY <1>2, <2>3, <3>1
    <2> QED  BY <2>2, <2>3
  <1>5. \E t \in family : min2 <= tm[t]
    <2>1. CASE min2 = min
      BY <1>3, <2>1
    <2>2. CASE min2 = tm[x]
      <3>1. min2 <= tm[x]
        BY <1>1, <2>2
      <3> QED  BY <3>1
    <2> QED  BY <1>2, <2>1, <2>2
  <1>6. \E t \in family : max2 <= tm[t]
    BY <1>2
  <1>7. \E t \in family : first[t] <= min2
    <2>1. first[x] <= min2
      BY <1>1, <1>2
    <2> QED  BY <2>1
  <1>8. \E t \in family : first[t] <= max2
    <2>1. CASE max2 = max
      BY <1>3, <2>1
    <2>2. CASE max2 = tm[x]
      <3>1. first[x] <= max2
        BY <1>1, <2>2
      <3> QED  BY <3>1
    <2> QED  BY <1>2, <2>1, <2>2
  <1> QED
    BY <1>4, <1>5, <1>6, <1>7, <1>8 DEF Between

LEMMA BetweenLater ==
  ASSUME NEW family, NEW all, family \subseteq all, NEW done, done \subseteq family,
         NEW more, done \subseteq more, more \subseteq all, NEW tm, NEW um, NEW first, NEW old,
         \A t \in more \ done : first[t] = 0 /\ t \notin old,
         \A t \in all : first[t] \in Nat /\ tm[t] \in Nat /\ um[t] \in Nat /\ tm[t] <= um[t],
         NEW min \in Nat, NEW max \in Nat, Between(family, done, tm, first, old, min, max)
  PROVE  Between(all, more, um, first, old, min, max)
  <1>3. /\ \A t \in done : first[t] <= min /\ (t \in old => max <= tm[t])
        /\ \E t \in family : min <= tm[t]
        /\ \E t \in family : max <= tm[t]
        /\ \E t \in family : first[t] <= min
        /\ \E t \in family : first[t] <= max
    BY DEF Between
  <1>1. ASSUME NEW t \in all, NEW m \in Nat, m <= tm[t]
        PROVE  m <= um[t]
    <2>1. tm[t] \in Nat /\ um[t] \in Nat /\ tm[t] <= um[t]
      OBVIOUS
    <2> QED  BY <1>1, <2>1
  <1>4. ASSUME NEW t \in more
        PROVE  first[t] <= min /\ (t \in old => max <= um[t])
    <2>1. CASE t \in done
      BY <1>1, <1>3, <2>1
    <2>2. CASE t \notin done
      <3>1. first[t] = 0 /\ t \notin old
        BY <2>2
      <3> QED  BY <3>1
    <2> QED  BY <2>1, <2>2
  <1>5. (\E t \in all : min <= um[t]) /\ (\E t \in all : max <= um[t])
    BY <1>1, <1>3
  <1>6. (\E t \in all : first[t] <= min) /\ (\E t \in all : first[t] <= max)
    BY <1>3
  <1> QED
    BY <1>4, <1>5, <1>6 DEF Between

(* The walk begins with the time of a member for both.                     *)
LEMMA BetweenNone ==
  ASSUME NEW family, NEW x \in family, NEW tm, NEW first, NEW old, NEW min, NEW max,
         first[x] <= min, min <= tm[x], first[x] <= max, max <= tm[x]
  PROVE  Between(family, {}, tm, first, old, min, max)
  BY DEF Between

-----------------------------------------------------------------------------
(* Calm calls                                                              *)

LEMMA FirstTypes ==
  ASSUME ProcTimesAssumption, NEW r \in Calls
  PROVE  /\ DOMAIN r.before \subseteq Task
         /\ \A t \in Task : FirstOf(r.before)[t] \in Nat
         /\ \A t \in Task : t \notin DOMAIN r.before => FirstOf(r.before)[t] = 0
         /\ \A t \in DOMAIN r.before : FirstOf(r.before)[t] = r.before[t] /\ r.before[t] \in Nat
  <1>1. r.before \in UNION {[S -> 0 .. MaxTime] : S \in SUBSET Task}
    BY DEF Calls
  <1>2. PICK S \in SUBSET Task : r.before \in [S -> 0 .. MaxTime]
    BY <1>1
  <1>3. DOMAIN r.before = S /\ \A t \in S : r.before[t] \in Nat
    BY <1>2 DEF ProcTimesAssumption
  <1> QED
    BY <1>3 DEF FirstOf

LEMMA FirstBelow ==
  ASSUME ProcTimesAssumption, NEW r \in Calls, NEW tm, \A t \in Task : tm[t] \in Nat,
         \A t \in DOMAIN r.before : r.before[t] <= tm[t]
  PROVE  \A t \in Task : FirstOf(r.before)[t] <= tm[t]
  <1> TAKE t \in Task
  <1>1. CASE t \in DOMAIN r.before
    BY <1>1, FirstTypes
  <1>2. CASE t \notin DOMAIN r.before
    <2>1. FirstOf(r.before)[t] = 0 /\ tm[t] \in Nat
      BY <1>2, FirstTypes
    <2> QED  BY <2>1
  <1> QED
    BY <1>1, <1>2

(* Time passes, and processes are forked.                                  *)
LEMMA CalmLater ==
  ASSUME ProcTimesAssumption, NEW r \in Calls, Begun(r), NEW known, CallOf(known, r),
         NEW list \in Seq(Task), Distinct(list), NEW fl, NEW tm, CalmCall(list, fl, tm, r),
         NEW long \in Seq(Task), Distinct(long), NEW n, NEW gl, NEW um,
         Range(list) \subseteq Range(long), \A t \in Range(list) : gl[t] = fl[t],
         \A t \in Task : tm[t] \in Nat /\ um[t] \in Nat /\ tm[t] <= um[t],
         LET root == r.temp[1] IN
         /\ FamilyOf(list, fl, root) \subseteq FamilyOf(long, gl, root)
         /\ Passed(list, fl, root, r.at) \subseteq Passed(long, gl, root, r.at)
         /\ Passed(long, gl, root, r.at) \subseteq Passed(list, fl, root, r.at) \cup {n},
         Passed(long, gl, r.temp[1], r.at) = Passed(list, fl, r.temp[1], r.at) \/ n \notin Range(list)
  PROVE  CalmCall(long, gl, um, r)
  <1> DEFINE first == FirstOf(r.before)
             root == r.temp[1]
             family == FamilyOf(list, fl, root)
             all == FamilyOf(long, gl, root)
             done == Passed(list, fl, root, r.at)
             more == Passed(long, gl, root, r.at)
             old == DOMAIN r.before
             min == r.temp[4]
             max == r.temp[5]
  <1>1. /\ r.task \in Range(list) /\ old \subseteq Range(list) /\ r.at \in Range(list) \cup {AtHead}
        /\ \A t \in old : r.before[t] <= tm[t]
        /\ ReadOf(fl, tm, r)
    BY DEF CalmCall
  <1>2. /\ r.task \in Range(long) /\ old \subseteq Range(long) /\ r.at \in Range(long) \cup {AtHead}
    BY <1>1
  <1>3. Range(list) \subseteq Task /\ Range(long) \subseteq Task
    BY RangeOfSeq
  <1>4. \A t \in old : r.before[t] <= um[t]
    <2> TAKE t \in old
    <2>1. r.before[t] \in Nat /\ t \in Task
      BY FirstTypes
    <2>2. tm[t] \in Nat /\ um[t] \in Nat /\ tm[t] <= um[t] /\ r.before[t] <= tm[t]
      BY <1>1, <2>1
    <2> QED  BY <2>1, <2>2
  <1>5. ReadOf(gl, um, r)
    <2>1. gl[r.task] = fl[r.task] /\ r.task \in Task
      BY <1>1, <1>3
    <2>2. tm[r.task] \in Nat /\ um[r.task] \in Nat /\ tm[r.task] <= um[r.task]
      BY <2>1
    <2>3. r.temp \in Seq(Int) /\ Len(r.temp) \in Nat
      BY LenProperties DEF Calls
    <2>4. \A k \in 4 .. 5 : k <= Len(r.temp) => r.temp[k] \in Int
      BY <2>3, ElementOfSeq
    <2>5. \A k \in 1 .. 3 : k <= Len(r.temp) => r.temp[k] = gl[r.task][k]
      BY <1>1, <2>1 DEF ReadOf
    <2>6. ASSUME r.pc = "read", NEW k \in 4 .. 5, k <= Len(r.temp)
          PROVE  first[r.task] <= r.temp[k] /\ r.temp[k] <= um[r.task]
      <3>1. first[r.task] <= r.temp[k] /\ r.temp[k] <= tm[r.task]
        BY <1>1, <2>6 DEF ReadOf
      <3>2. r.temp[k] \in Int
        BY <2>4, <2>6
      <3> HIDE DEF first
      <3> QED  BY <2>2, <3>1, <3>2
    <2> QED  BY <2>5, <2>6 DEF ReadOf
  <1>6. ASSUME r.pc = "visit", root # -1
        PROVE  Summed(more, um, first, r.sum) /\ Between(all, more, um, first, old, r.temp[4], r.temp[5])
    <2>1. Summed(done, tm, first, r.sum) /\ Between(family, done, tm, first, old, r.temp[4], r.temp[5])
      BY <1>6 DEF CalmCall
    <2>2. /\ family \subseteq all /\ done \subseteq more /\ more \subseteq done \cup {n}
          /\ done \subseteq family /\ more \subseteq all /\ all \subseteq Task /\ IsFiniteSet(more)
      BY <1>3, PassedFinite
    <2>3. \A t \in more \ done : t \notin old
      BY <1>1, <2>2
    <2>4. \A t \in Task : first[t] \in Nat /\ (t \notin old => first[t] = 0)
      BY FirstTypes
    <2>5. r.temp[4] \in Nat /\ r.temp[5] \in Nat
      <3>1. r.temp[4] \in 0 .. ULong - 1 /\ r.temp[5] \in 0 .. ULong - 1
        BY <1>6 DEF CallOf
      <3> QED  BY <3>1 DEF ProcTimesAssumption
    <2> HIDE DEF first, family, all, done, more, old
    <2>6. \A t \in more \ done : first[t] = 0
      BY <2>2, <2>3, <2>4
    <2>7. \A t \in all : first[t] \in Nat /\ tm[t] \in Nat /\ um[t] \in Nat /\ tm[t] <= um[t]
      BY <2>2, <2>4
    <2>8. Summed(more, um, first, r.sum)
      BY <2>1, <2>2, <2>6, <2>7, SummedLater
    <2>9. Between(all, more, um, first, old, min, max)
      <3>1. min \in Nat /\ max \in Nat /\ Between(family, done, tm, first, old, min, max)
        BY <2>1, <2>5
      <3>2. \A t \in more \ done : first[t] = 0 /\ t \notin old
        BY <2>3, <2>6
      <3> HIDE DEF min, max
      <3> QED  BY <2>2, <2>7, <3>1, <3>2, BetweenLater
    <2> QED  BY <2>8, <2>9
  <1> QED
    BY <1>2, <1>4, <1>5, <1>6 DEF CalmCall

LEMMA CalmRun ==
  ASSUME ProcTimesAssumption, NEW r \in Calls, Begun(r), NEW known, CallOf(known, r),
         NEW list \in Seq(Task), Distinct(list), NEW fl, NEW tm, CalmCall(list, fl, tm, r), NEW um,
         \A t \in Task : tm[t] \in Nat /\ um[t] \in Nat /\ tm[t] <= um[t]
  PROVE  CalmCall(list, fl, um, r)
  <1>1. LET root == r.temp[1] IN
         /\ FamilyOf(list, fl, root) \subseteq FamilyOf(list, fl, root)
         /\ Passed(list, fl, root, r.at) \subseteq Passed(list, fl, root, r.at)
         /\ Passed(list, fl, root, r.at) \subseteq Passed(list, fl, root, r.at) \cup {AtHead}
    OBVIOUS
  <1> QED
    BY <1>1, CalmLater

LEMMA CalmFork ==
  ASSUME ProcTimesAssumption, NEW r \in Calls, Begun(r), NEW known, CallOf(known, r),
         NEW list \in Seq(Task), Distinct(list), NEW fl, NEW tm, CalmCall(list, fl, tm, r),
         NEW n \in Task, n \notin Range(list), NEW gl, \A t \in Range(list) : gl[t] = fl[t],
         \A t \in Task : tm[t] \in Nat
  PROVE  CalmCall(Append(list, n), gl, tm, r)
  <1> DEFINE long == Append(list, n)
             root == r.temp[1]
             at == r.at
  <1>1. long \in Seq(Task) /\ Range(long) = Range(list) \cup {n} /\ Distinct(long)
    BY AppendList
  <1>2. at \in Range(list) \cup {AtHead}
    BY DEF CalmCall
  <1> HIDE DEF root, at
  <1>3. /\ FamilyOf(list, fl, root) \subseteq FamilyOf(long, gl, root)
        /\ Passed(list, fl, root, at) \subseteq Passed(long, gl, root, at)
        /\ Passed(long, gl, root, at) \subseteq Passed(list, fl, root, at) \cup {n}
    BY <1>2, PassedAppend
  <1>4. \A t \in Task : tm[t] \in Nat /\ tm[t] \in Nat /\ tm[t] <= tm[t]
    OBVIOUS
  <1>5. LET rt == r.temp[1] IN
         /\ FamilyOf(list, fl, rt) \subseteq FamilyOf(long, gl, rt)
         /\ Passed(list, fl, rt, r.at) \subseteq Passed(long, gl, rt, r.at)
         /\ Passed(long, gl, rt, r.at) \subseteq Passed(list, fl, rt, r.at) \cup {n}
    BY <1>3 DEF root, at
  <1>6. Range(list) \subseteq Range(long)
    BY <1>1
  <1> HIDE DEF long
  <1>7. CalmCall(long, gl, tm, r)
    BY <1>1, <1>4, <1>5, <1>6, CalmLater
  <1> QED
    BY <1>7 DEF long

(* The call begins.                                                        *)
LEMMA CalmBegin ==
  ASSUME NEW r \in Calls, r.pc = "read", r.temp = << >>, r.at = AtHead, NEW list, NEW fl, NEW tm,
         r.task \in Range(list), r.before = [s \in Range(list) |-> tm[s]],
         \A t \in Range(list) : tm[t] \in Nat
  PROVE  CalmCall(list, fl, tm, r)
  <1>1. Len(r.temp) = 0
    BY NoTimes
  <1>2. ReadOf(fl, tm, r)
    BY <1>1 DEF ReadOf
  <1>3. DOMAIN r.before \subseteq Range(list) /\ \A t \in DOMAIN r.before : r.before[t] <= tm[t]
    OBVIOUS
  <1> QED
    BY <1>2, <1>3 DEF CalmCall

(* A field is read.                                                        *)
LEMMA CalmRead ==
  ASSUME ProcTimesAssumption, NEW r \in Calls, r.pc = "read", Len(r.temp) < 5, NEW list \in Seq(Task),
         NEW fl, NEW tm, CalmCall(list, fl, tm, r), \A t \in Task : tm[t] \in Nat,
         NEW v, v = (IF Len(r.temp) + 1 <= 3 THEN fl[r.task][Len(r.temp) + 1] ELSE tm[r.task]),
         NEW q, /\ Len(q.temp) = Len(r.temp) + 1 /\ q.temp[Len(r.temp) + 1] = v
                /\ \A n \in 1 .. Len(r.temp) : q.temp[n] = r.temp[n]
                /\ q.pc = "read" /\ q.task = r.task /\ q.at = r.at /\ q.before = r.before
  PROVE  CalmCall(list, fl, tm, q)
  <1> DEFINE m == Len(r.temp)
             first == FirstOf(r.before)
  <1>1. m \in Nat
    BY LenProperties DEF Calls
  <1>2. /\ r.task \in Range(list) /\ DOMAIN r.before \subseteq Range(list)
        /\ r.at \in Range(list) \cup {AtHead}
        /\ \A t \in DOMAIN r.before : r.before[t] <= tm[t]
        /\ ReadOf(fl, tm, r)
    BY DEF CalmCall
  <1>3. r.task \in Task
    BY <1>2, RangeOfSeq
  <1>4. first[r.task] <= tm[r.task] /\ tm[r.task] \in Nat
    BY <1>2, <1>3, FirstBelow
  <1> HIDE DEF m
  <1>5. \A n \in 1 .. 3 : n <= m => r.temp[n] = fl[r.task][n]
    BY <1>2 DEF ReadOf, m
  <1>6. \A n \in 4 .. 5 : n <= m => first[r.task] <= r.temp[n] /\ r.temp[n] <= tm[r.task]
    BY <1>2 DEF ReadOf, m
  <1>7. Len(q.temp) = m + 1 /\ q.temp[m + 1] = v /\ \A n \in 1 .. m : q.temp[n] = r.temp[n]
    BY DEF m
  <1>8. v = IF m + 1 <= 3 THEN fl[r.task][m + 1] ELSE tm[r.task]
    BY DEF m
  <1> HIDE DEF first
  <1>9. ASSUME NEW n \in 1 .. 3, n <= m + 1
        PROVE  q.temp[n] = fl[r.task][n]
    <2>1. CASE n = m + 1
      BY <1>7, <1>8, <2>1
    <2>2. CASE n # m + 1
      <3>1. n \in 1 .. m /\ n <= m
        BY <1>1, <1>9, <2>2
      <3> QED  BY <1>5, <1>7, <3>1
    <2> QED  BY <2>1, <2>2
  <1>10. ASSUME NEW n \in 4 .. 5, n <= m + 1
         PROVE  first[r.task] <= q.temp[n] /\ q.temp[n] <= tm[r.task]
    <2>1. CASE n = m + 1
      <3>1. ~(m + 1 <= 3)
        BY <1>1, <2>1
      <3>2. q.temp[n] = tm[r.task]
        BY <1>7, <1>8, <2>1, <3>1
      <3> QED  BY <1>4, <3>2
    <2>2. CASE n # m + 1
      <3>1. n \in 1 .. m /\ n <= m
        BY <1>1, <1>10, <2>2
      <3> QED  BY <1>6, <1>7, <3>1
    <2> QED  BY <2>1, <2>2
  <1>11. ReadOf(fl, tm, q)
    BY <1>7, <1>9, <1>10 DEF ReadOf, first
  <1> QED
    BY <1>2, <1>11 DEF CalmCall

(* The loop begins.                                                        *)
LEMMA CalmLoop ==
  ASSUME ProcTimesAssumption, NEW r \in Calls, r.pc = "read", Len(r.temp) = 5, r.sum = 0,
         NEW list \in Seq(Task), Distinct(list), Len(list) >= 1, NEW fl, NEW tm, CalmCall(list, fl, tm, r),
         NEW q, /\ q.pc = "visit" /\ q.task = r.task /\ q.before = r.before /\ q.temp = r.temp
                /\ q.at = list[1] /\ q.sum = r.sum
  PROVE  CalmCall(list, fl, tm, q)
  <1> DEFINE first == FirstOf(r.before)
             root == r.temp[1]
             family == FamilyOf(list, fl, root)
             min == r.temp[4]
             max == r.temp[5]
  <1>1. /\ r.task \in Range(list) /\ DOMAIN r.before \subseteq Range(list)
        /\ \A t \in DOMAIN r.before : r.before[t] <= tm[t]
        /\ ReadOf(fl, tm, r)
    BY DEF CalmCall
  <1>2. list[1] \in Range(list)
    BY LenProperties DEF Range
  <1>3. ReadOf(fl, tm, q)
    BY <1>1 DEF ReadOf
  <1>4. Passed(list, fl, root, list[1]) = {}
    BY PassedNone
  <1>5. Summed({}, tm, first, 0)
    BY SummedNone
  <1>6. /\ root = fl[r.task][1]
        /\ first[r.task] <= min /\ min <= tm[r.task] /\ first[r.task] <= max /\ max <= tm[r.task]
    BY <1>1 DEF ReadOf
  <1>7. r.task \in family
    BY <1>1, <1>6 DEF FamilyOf
  <1> HIDE DEF first, family, min, max
  <1>8. Between(family, {}, tm, first, DOMAIN r.before, min, max)
    BY <1>6, <1>7, BetweenNone
  <1>9. /\ Summed(Passed(list, fl, root, list[1]), tm, first, q.sum)
        /\ Between(family, Passed(list, fl, root, list[1]), tm, first, DOMAIN r.before, min, max)
    BY <1>4, <1>5, <1>8
  <1> QED
    BY <1>1, <1>2, <1>3, <1>9 DEF CalmCall, first, family, min, max

(* One process of the loop.                                                *)
LEMMA CalmVisit ==
  ASSUME ProcTimesAssumption, NEW r \in Calls, r.pc = "visit", NEW known, CallOf(known, r),
         NEW list \in Seq(Task), Distinct(list), NEW fl, NEW tm, CalmCall(list, fl, tm, r),
         \A t \in Task : tm[t] \in Nat, NEW x \in Range(list), r.at = x,
         NEW member \in BOOLEAN, member <=> (fl[x][1] = r.temp[1]),
         NEW q, /\ q.pc = "visit" /\ q.task = r.task /\ q.before = r.before /\ q.at = After(list, x)
                /\ q.temp[1] = r.temp[1] /\ q.temp[2] = r.temp[2] /\ q.temp[3] = r.temp[3]
                /\ q.sum = IF member THEN Plus(r.sum, tm[x]) ELSE r.sum
                /\ q.temp[4] = IF member /\ r.temp[4] < tm[x] THEN tm[x] ELSE r.temp[4]
                /\ q.temp[5] = IF member /\ r.temp[5] > tm[x] THEN tm[x] ELSE r.temp[5]
  PROVE  CalmCall(list, fl, tm, q)
  <1> DEFINE first == FirstOf(r.before)
             root == r.temp[1]
             family == FamilyOf(list, fl, root)
             done == Passed(list, fl, root, x)
             more == Passed(list, fl, root, After(list, x))
             min == r.temp[4]
             max == r.temp[5]
             old == DOMAIN r.before
  <1>1. /\ r.task \in Range(list) /\ old \subseteq Range(list)
        /\ \A t \in old : r.before[t] <= tm[t]
        /\ ReadOf(fl, tm, r)
    BY DEF CalmCall
  <1>2. Len(r.temp) = 5
    BY DEF CallOf
  <1>3. \A n \in 1 .. 3 : r.temp[n] = fl[r.task][n]
    BY <1>1, <1>2 DEF ReadOf
  <1>4. ReadOf(fl, tm, q)
    <2>1. \A n \in 1 .. 3 : q.temp[n] = fl[r.task][n]
      BY <1>3
    <2> QED  BY <2>1 DEF ReadOf
  <1>5. After(list, x) \in Range(list) \cup {AtHead}
    BY AfterPlace
  <1>6. ASSUME root # -1
        PROVE  /\ Summed(more, tm, first, q.sum)
               /\ Between(family, more, tm, first, old, q.temp[4], q.temp[5])
    <2>1. Summed(done, tm, first, r.sum) /\ Between(family, done, tm, first, old, min, max)
      BY <1>6 DEF CalmCall
    <2>2. x \notin done /\ more = done \cup (IF fl[x][1] = root THEN {x} ELSE {})
      BY PassedNext
    <2>3. done \subseteq family /\ family \subseteq Task /\ IsFiniteSet(done)
      BY PassedFinite
    <2>4. \A t \in Task : first[t] \in Nat /\ first[t] <= tm[t]
      BY <1>1, FirstTypes, FirstBelow
    <2>5. min \in Int /\ max \in Int
      <3>1. r.temp[4] \in 0 .. ULong - 1 /\ r.temp[5] \in 0 .. ULong - 1
        BY <1>2 DEF CallOf
      <3> QED  BY <3>1
    <2>6. x \in Task
      BY RangeOfSeq
    <2>7. CASE member
      <3>1. fl[x][1] = root /\ x \in family
        BY <2>7 DEF FamilyOf
      <3>2. /\ q.sum = Plus(r.sum, tm[x])
            /\ q.temp[4] = IF min < tm[x] THEN tm[x] ELSE min
            /\ q.temp[5] = IF max > tm[x] THEN tm[x] ELSE max
        BY <2>7
      <3>3. more = done \cup {x}
        BY <2>2, <3>1
      <3> HIDE DEF first, family, done, more, min, max, old
      <3>4. \A t \in done \cup {x} : first[t] \in Nat /\ tm[t] \in Nat /\ first[t] <= tm[t]
        BY <2>3, <2>4, <2>6
      <3> DEFINE sum == r.sum
                 y == q.sum
      <3>a. Summed(done, tm, first, sum) /\ y = Plus(sum, tm[x])
        BY <2>1, <3>2
      <3> HIDE DEF sum, y
      <3>b. Summed(done \cup {x}, tm, first, Plus(sum, tm[x]))
        BY <2>2, <2>3, <3>4, <3>a, SummedNext
      <3>5. Summed(more, tm, first, q.sum)
        BY <3>3, <3>a, <3>b DEF y
      <3>6. \A t \in family : first[t] \in Nat /\ tm[t] \in Nat /\ first[t] <= tm[t]
        BY <2>3, <2>4
      <3> DEFINE a == q.temp[4]
                 b == q.temp[5]
      <3>7. a = (IF min < tm[x] THEN tm[x] ELSE min) /\ b = (IF max > tm[x] THEN tm[x] ELSE max)
        BY <3>2
      <3> HIDE DEF a, b
      <3>8. Between(family, more, tm, first, old, a, b)
        BY <2>1, <2>3, <2>5, <3>1, <3>3, <3>6, <3>7, BetweenNext
      <3> QED  BY <3>5, <3>8 DEF a, b
    <2>8. CASE ~member
      <3>1. fl[x][1] # root
        BY <2>8
      <3>2. more = done
        BY <2>2, <3>1
      <3>3. q.sum = r.sum /\ q.temp[4] = min /\ q.temp[5] = max
        BY <2>8
      <3> QED  BY <2>1, <3>2, <3>3
    <2>9. member \in BOOLEAN
      OBVIOUS
    <2> QED  BY <2>7, <2>8, <2>9
  <1> QED
    BY <1>1, <1>4, <1>5, <1>6 DEF CalmCall

-----------------------------------------------------------------------------
(* Calm calls of the kernel                                                *)

LEMMA FamilyMembers ==
  ASSUME tasks \in Seq(Task), NEW root
  PROVE  Members(root) = FamilyOf(tasks, fields, root)
  BY ListedRange DEF Members, FamilyOf

LEMMA CalmWhole ==
  ASSUME KernelInv, CallInv, CalmInv, NEW c \in Caller, Begun(call[c]), Calm(c)
  PROVE  CalmCall(tasks, fields, time, call[c])
  BY DEF CalmInv

(* Only the call of c moves.                                               *)
LEMMA CalmMoves ==
  ASSUME ProcTimesAssumption, KernelInv, CallInv, CalmInv, UNCHANGED kernel, NEW c \in Caller, NEW r, Moves(c, r),
         Begun(r) /\ r.before # << >> => CalmCall(tasks, fields, time, r)
  PROVE  CalmInv'
  <1>1. call \in [Caller -> Calls]
    BY DEF CallInv, CallTypes
  <1>2. \A d \in Caller : call'[d] = IF d = c THEN r ELSE call[d]
    BY <1>1 DEF Moves
  <1>3. ASSUME NEW d \in Caller, Begun(call'[d]), call'[d].before # << >>
        PROVE  CalmCall(tasks, fields, time, call'[d])
    <2>1. CASE d = c
      BY <1>2, <1>3, <2>1
    <2>2. CASE d # c
      BY <1>2, <1>3, <2>2 DEF CalmInv, Calm
    <2> QED  BY <2>1, <2>2
  <1>4. tasks' = tasks /\ fields' = fields /\ time' = time
    BY DEF kernel
  <1> QED
    BY <1>3, <1>4 DEF CalmInv, Calm

(* No call moves, and what is true of a calm call remains so.              *)
LEMMA CalmKept ==
  ASSUME CalmInv, UNCHANGED call,
         \A d \in Caller : Begun(call[d]) /\ CalmCall(tasks, fields, time, call[d])
           => CalmCall(tasks', fields', time', call[d])
  PROVE  CalmInv'
  BY DEF CalmInv, Calm

LEMMA CalmWalk ==
  ASSUME ProcTimesAssumption, KernelInv, CallInv, CalmInv, NEW c \in Caller, Walk(c)
  PROVE  CalmInv'
  <1> DEFINE r == call[c]
  <1>1. r \in Calls /\ CallOf(Known, r) /\ Len(r.temp) \in Nat
    BY CallTyped
  <1>2. tasks \in Seq(Task) /\ Distinct(tasks) /\ Listed = Range(tasks) /\ \A t \in Task : time[t] \in Nat
    BY ListedRange, FieldTypes DEF KernelInv
  <1>3. UNCHANGED kernel
    BY DEF Walk, Read, ReadAll, Visit, CopyOut
  <1>4. ASSUME Moves(c, Astray) \/ Moves(c, Idle)
        PROVE  CalmInv'
    BY <1>3, <1>4, IdleTypes, CalmMoves
  <1>5. ASSUME NEW q, Moves(c, q), q.before = r.before,
               Begun(q) /\ CalmCall(tasks, fields, time, r) => CalmCall(tasks, fields, time, q), Begun(r)
        PROVE  CalmInv'
    <2>1. Begun(q) /\ q.before # << >> => CalmCall(tasks, fields, time, q)
      BY <1>5 DEF CalmInv, Calm
    <2> QED  BY <1>3, <1>5, <2>1, CalmMoves
  <1>6. CASE Read(c)
    <2> DEFINE m == Len(r.temp)
               n == m + 1
               v == IF n <= 3 THEN fields[r.task][n] ELSE time[r.task]
               q == WithField(r, v)
    <2>1. r.pc = "read" /\ m < 5
      BY <1>6, ReadStep
    <2>2. CASE /\ Moves(c, q)
               /\ v \in Int /\ (n = 1 => v \in Task \cup {-1}) /\ (n >= 4 => v \in 0 .. ULong - 1)
      <3>1. (m = 0 => v \in Task \cup {-1}) /\ (m >= 3 => v \in 0 .. ULong - 1)
        <4>1. (m = 0 => n = 1) /\ (m >= 3 => n >= 4)
          BY <1>1
        <4> HIDE DEF n
        <4> QED  BY <2>2, <4>1
      <3>2. v \in Int /\ v = (IF m + 1 <= 3 THEN fields[r.task][m + 1] ELSE time[r.task])
        BY <2>2
      <3> HIDE DEF v
      <3>3. /\ q.pc = "read" /\ q.task = r.task /\ q.at = r.at /\ q.before = r.before
            /\ Len(q.temp) = m + 1 /\ q.temp[m + 1] = v /\ \A k \in 1 .. m : q.temp[k] = r.temp[k]
        <4> HIDE DEF r, m
        <4>1. r \in Calls /\ CallOf(Known, r) /\ r.pc = "read" /\ Len(r.temp) < 5 /\ v \in Int
              /\ (Len(r.temp) = 0 => v \in Task \cup {-1}) /\ (Len(r.temp) >= 3 => v \in 0 .. ULong - 1)
          BY <1>1, <2>1, <3>1, <3>2 DEF m
        <4> QED  BY <4>1, FieldRead DEF m
      <3> HIDE DEF q
      <3>4. CalmCall(tasks, fields, time, r) => CalmCall(tasks, fields, time, q)
        BY <1>1, <1>2, <2>1, <3>2, <3>3, CalmRead
      <3> QED  BY <1>5, <2>1, <2>2, <3>3, <3>4 DEF Begun
    <2> QED  BY <1>4, <1>6, <2>2, ReadStep
  <1>7. CASE ReadAll(c)
    <2>1. r.pc = "read" /\ Len(r.temp) = 5 /\ Head(tasks) = tasks[1] /\ Len(tasks) >= 1
      BY <1>7, ReadAllStep
    <2>2. CASE r.temp[1] = -1 /\ Moves(c, WithoutFamily(r))
      <3> DEFINE q == WithoutFamily(r)
      <3>1. /\ q.pc = "visit" /\ q.task = r.task /\ q.at = r.at /\ q.before = r.before
            /\ q.temp[1] = r.temp[1] /\ q.temp[2] = r.temp[2] /\ q.temp[3] = r.temp[3]
        <4>1. r.temp \in [1 .. 5 -> Int]
          BY <1>1, <2>1, LenProperties DEF Calls
        <4>2. q.temp = [r.temp EXCEPT ![4] = ULong - 1, ![5] = ULong - 1]
          BY <1>1 DEF WithoutFamily, Calls
        <4>3. q.temp[1] = r.temp[1] /\ q.temp[2] = r.temp[2] /\ q.temp[3] = r.temp[3]
          <5> DEFINE u == ULong - 1
          <5>1. q.temp = [r.temp EXCEPT ![4] = u, ![5] = u]
            BY <4>2
          <5> HIDE DEF u, q
          <5> QED  BY <4>1, <5>1
        <4> QED  BY <1>1, <4>3 DEF WithoutFamily, Calls
      <3> HIDE DEF q
      <3>2. CalmCall(tasks, fields, time, r) => CalmCall(tasks, fields, time, q)
        <4> SUFFICES ASSUME CalmCall(tasks, fields, time, r)
                     PROVE  CalmCall(tasks, fields, time, q)
          OBVIOUS
        <4>1. /\ r.task \in Range(tasks) /\ DOMAIN r.before \subseteq Range(tasks)
              /\ r.at \in Range(tasks) \cup {AtHead}
              /\ \A t \in DOMAIN r.before : r.before[t] <= time[t]
              /\ ReadOf(fields, time, r)
          BY DEF CalmCall
        <4>2. \A k \in 1 .. 3 : r.temp[k] = fields[r.task][k]
          BY <2>1, <4>1 DEF ReadOf
        <4>3. ReadOf(fields, time, q)
          <5>1. \A k \in 1 .. 3 : q.temp[k] = fields[q.task][k]
            BY <3>1, <4>2
          <5> QED  BY <3>1, <5>1 DEF ReadOf
        <4> QED  BY <2>2, <3>1, <4>1, <4>3 DEF CalmCall
      <3> QED  BY <1>5, <2>1, <2>2, <3>1, <3>2 DEF Begun, q
    <2>3. CASE Moves(c, AtFirst(r, Head(tasks)))
      <3> DEFINE q == AtFirst(r, Head(tasks))
      <3>1. /\ q.pc = "visit" /\ q.task = r.task /\ q.at = tasks[1] /\ q.before = r.before
            /\ q.temp = r.temp /\ q.sum = r.sum
        BY <1>1, <2>1 DEF AtFirst, Calls
      <3> HIDE DEF q
      <3>2. r.sum = 0
        BY <1>1, <2>1 DEF CallOf
      <3>3. CalmCall(tasks, fields, time, r) => CalmCall(tasks, fields, time, q)
        BY <1>1, <1>2, <2>1, <3>1, <3>2, CalmLoop
      <3> QED  BY <1>5, <2>1, <2>3, <3>1, <3>3 DEF Begun, q
    <2> QED  BY <1>7, <2>2, <2>3, ReadAllStep
  <1>8. CASE Visit(c)
    <2> DEFINE t == r.at
               member == (fields[t][1] = r.temp[1])
               q == PastTask(r, member, time[t], next_task(t))
    <2>1. r.pc = "visit"
      BY <1>8, VisitStep
    <2>2. CASE /\ Moves(c, q) /\ t \in Listed /\ next_task(t) \in Listed \cup {AtHead}
               /\ time[t] \in 0 .. MaxTime
      <3>1. next_task(t) = After(tasks, t) /\ next_task(t) \in (Known \cap Task) \cup {AtHead}
        BY <2>2, TaskKnown DEF next_task
      <3>2. member \in BOOLEAN /\ member = (fields[t][1] = r.temp[1])
        OBVIOUS
      <3> HIDE DEF member
      <3>3. /\ q.pc = "visit" /\ q.task = r.task /\ q.before = r.before /\ q.at = After(tasks, t)
            /\ q.temp[1] = r.temp[1] /\ q.temp[2] = r.temp[2] /\ q.temp[3] = r.temp[3]
            /\ q.sum = (IF member THEN Plus(r.sum, time[t]) ELSE r.sum)
            /\ q.temp[4] = (IF member /\ r.temp[4] < time[t] THEN time[t] ELSE r.temp[4])
            /\ q.temp[5] = (IF member /\ r.temp[5] > time[t] THEN time[t] ELSE r.temp[5])
        <4> DEFINE i == time[t]
                   next == next_task(t)
        <4>1. r \in Calls /\ r.pc = "visit" /\ CallOf(Known, r) /\ member \in BOOLEAN
              /\ i \in 0 .. MaxTime /\ next \in (Known \cap Task) \cup {AtHead}
          BY <1>1, <2>1, <2>2, <3>1, <3>2
        <4> HIDE DEF r, i, next
        <4>2. LET p == PastTask(r, member, i, next)
              IN  /\ p.pc = "visit" /\ p.task = r.task /\ p.before = r.before /\ p.at = next
                  /\ p.temp[1] = r.temp[1] /\ p.temp[2] = r.temp[2] /\ p.temp[3] = r.temp[3]
                  /\ p.sum = (IF member THEN Plus(r.sum, i) ELSE r.sum)
                  /\ p.temp[4] = (IF member /\ r.temp[4] < i THEN i ELSE r.temp[4])
                  /\ p.temp[5] = (IF member /\ r.temp[5] > i THEN i ELSE r.temp[5])
          BY <4>1, TaskPassed
        <4> QED  BY <3>1, <4>2 DEF i, next
      <3> HIDE DEF q
      <3>4. t \in Range(tasks)
        BY <1>2, <2>2
      <3>5. CalmCall(tasks, fields, time, r) => CalmCall(tasks, fields, time, q)
        <4> HIDE DEF t, r
        <4>1. r.at = t /\ r \in Calls /\ r.pc = "visit" /\ CallOf(Known, r)
          BY <1>1, <2>1 DEF t
        <4>2. member \in BOOLEAN /\ (member <=> (fields[t][1] = r.temp[1]))
          BY <3>2
        <4>3. ASSUME CalmCall(tasks, fields, time, r)
              PROVE  CalmCall(tasks, fields, time, q)
          BY <1>2, <3>3, <3>4, <4>1, <4>2, <4>3, CalmVisit
        <4> QED  BY <4>3
      <3> QED  BY <1>5, <2>1, <2>2, <3>3, <3>5 DEF Begun
    <2> QED  BY <1>4, <1>8, <2>2, VisitStep
  <1>9. CASE CopyOut(c)
    BY <1>4, <1>9, CopyOutStep
  <1> QED
    BY <1>6, <1>7, <1>8, <1>9 DEF Walk

LEMMA CalmInvariance ==
  ASSUME ProcTimesAssumption, KernelInv, CallInv, CalmInv, TimesStep
  PROVE  CalmInv'
  <1>1. tasks \in Seq(Task) /\ Distinct(tasks) /\ Listed = Range(tasks) /\ \A t \in Task : time[t] \in Nat
    BY ListedRange, FieldTypes DEF KernelInv
  <1>2. \A d \in Caller : call[d] \in Calls /\ CallOf(Known, call[d])
    BY CallTyped
  <1>3. ASSUME Disturbed
        PROVE  CalmInv'
    <2>1. \A d \in Caller : call'[d].before = << >>
      BY <1>3, DisturbedCalls
    <2> QED  BY <2>1 DEF CalmInv, Calm
  <1>4. ASSUME UNCHANGED <<kernel, call>>
        PROVE  CalmInv'
    <2>1. UNCHANGED call /\ tasks' = tasks /\ fields' = fields /\ time' = time
      BY <1>4 DEF kernel
    <2> QED  BY <2>1, CalmKept
  <1>5. CASE SetCall
    <2>1. PICK c \in Caller, pid \in Int, limit \in Int, interval \in Int : sys_setproclimit(c, pid, limit, interval)
      BY <1>5 DEF SetCall
    <2>2. CASE UNCHANGED <<fields, call>>
      BY <1>4, <2>1, <2>2 DEF kernel, sys_setproclimit
    <2> QED  BY <1>3, <2>1, <2>2, SetStep
  <1>6. CASE GetCall
    <2>1. PICK c \in Caller, pid \in Int, pointer \in Pointer : sys_getproclimit(c, pid, pointer)
      BY <1>6 DEF GetCall
    <2> DEFINE t == Process(c, pid)
               r == Beginning(t, pointer, [s \in Listed |-> time[s]])
    <2>2. UNCHANGED kernel
      BY <2>1, BeginStep
    <2>3. CASE UNCHANGED call
      BY <1>4, <2>2, <2>3
    <2>4. CASE t \in Listed /\ pointer \in {"readable", "writable"} /\ Moves(c, r)
      <3>1. /\ r \in Calls /\ r.pc = "read" /\ r.task = t /\ r.temp = << >> /\ r.at = AtHead
            /\ r.before = [s \in Listed |-> time[s]]
        BY <2>4, BeginningTypes
      <3> HIDE DEF r
      <3>2. r.task \in Range(tasks) /\ r.before = [s \in Range(tasks) |-> time[s]]
        BY <1>1, <2>4, <3>1
      <3>3. \A s \in Range(tasks) : time[s] \in Nat
        BY <1>1, ListedRange
      <3>4. CalmCall(tasks, fields, time, r)
        BY <3>1, <3>2, <3>3, CalmBegin
      <3> QED  BY <2>2, <2>4, <3>4, CalmMoves
    <2> QED  BY <2>1, <2>3, <2>4, BeginStep
  <1>7. CASE NoCall \/ UNCHANGED vars
    BY <1>4, <1>7 DEF NoCall, vars
  <1>8. ASSUME NEW t \in Task, Run(t)
        PROVE  CalmInv'
    <2>1. UNCHANGED <<tasks, fields, call>> /\ KernelInv' /\ \A s \in Task : time[s] <= time'[s]
      BY <1>8, RunKernel
    <2>2. \A s \in Task : time'[s] \in 0 .. MaxTime
      BY <2>1 DEF KernelInv
    <2>3. \A s \in Task : time[s] \in Nat /\ time'[s] \in Nat /\ time[s] <= time'[s]
      BY <1>1, <2>1, <2>2 DEF ProcTimesAssumption
    <2>4. \A d \in Caller : Begun(call[d]) /\ CalmCall(tasks, fields, time, call[d])
            => CalmCall(tasks, fields, time', call[d])
      BY <1>1, <1>2, <2>3, CalmRun
    <2> QED  BY <2>1, <2>4, CalmKept
  <1>9. ASSUME NEW t \in Task, Fork(t)
        PROVE  CalmInv'
    <2>1. PICK n \in Task \ (Listed \cup gone) :
            /\ tasks' = Append(tasks, n)
            /\ \A s \in Task \ {n} : fields'[s] = fields[s]
      BY <1>9, ForkKernel
    <2>2. n \in Task /\ n \notin Range(tasks) /\ \A s \in Range(tasks) : fields'[s] = fields[s]
      BY <1>1, <2>1, ListedRange
    <2>3. UNCHANGED <<call, time>>
      BY <1>9 DEF Fork
    <2>4. \A d \in Caller : Begun(call[d]) /\ CalmCall(tasks, fields, time, call[d])
            => CalmCall(Append(tasks, n), fields', time, call[d])
      BY <1>1, <1>2, <2>2, CalmFork
    <2>5. \A d \in Caller : Begun(call[d]) /\ CalmCall(tasks, fields, time, call[d])
            => CalmCall(tasks', fields', time', call[d])
      BY <2>1, <2>3, <2>4
    <2> QED  BY <2>3, <2>5, CalmKept
  <1>10. ASSUME NEW t \in Task, Release(t) \/ Regroup(t)
         PROVE  CalmInv'
    BY <1>3, <1>10 DEF Release, Regroup
  <1> QED
    BY <1>5, <1>6, <1>7, <1>8, <1>9, <1>10, CalmWalk DEF TimesStep

-----------------------------------------------------------------------------
(* The beginning                                                           *)

LEMMA InitTimes ==
  ASSUME ProcTimesAssumption, Init
  PROVE  TimesInv
  <1>1. PICK n \in Task \ {1} : 1 .. n \subseteq Task /\ tasks = [k \in 1 .. n |-> k] /\ Caller \subseteq 2 .. n
    BY DEF Init
  <1>2. n \in Nat /\ n >= 2 /\ Task \subseteq Nat \ {0}
    BY DEF ProcTimesAssumption
  <1>3. tasks \in Seq(Task) /\ DOMAIN tasks = 1 .. n /\ Len(tasks) = n
    <2>1. tasks \in [1 .. n -> Task]
      BY <1>1
    <2>2. tasks \in Seq(Task) /\ DOMAIN tasks = 1 .. n
      BY <1>2, <2>1, FunctionIsSeq
    <2> QED  BY <1>2, <2>2, LenProperties
  <1>4. Listed = 1 .. n
    BY <1>1, <1>3 DEF Listed
  <1>5. Distinct(tasks)
    BY <1>1, <1>3 DEF Distinct
  <1>6. /\ parent \in [Task -> Task \cup {None}] /\ gone = {}
        /\ \A t \in Task : IF t \in Listed \ {1} THEN parent[t] # None /\ parent[t] < t
                                                 ELSE parent[t] = None
        /\ fields = [t \in Task |-> NotSet] /\ time = [t \in Task |-> 0]
        /\ call = [c \in Caller |-> Idle] /\ pl = [c \in Caller |-> << >>] /\ ret = [c \in Caller |-> 0]
    BY DEF Init
  <1>7. \A t \in Listed \ {1} : parent[t] \in Listed
    <2> TAKE t \in Listed \ {1}
    <2>1. t \in Task /\ t \in 1 .. n
      BY <1>1, <1>4
    <2>2. parent[t] \in Task /\ parent[t] < t
      BY <1>6, <2>1
    <2>3. parent[t] \in Nat /\ parent[t] >= 1
      <3> DEFINE u == parent[t]
      <3>1. u \in Nat \ {0}
        BY <1>2, <2>2
      <3> HIDE DEF u
      <3>2. u \in Nat /\ u >= 1
        BY <3>1
      <3> QED  BY <3>2 DEF u
    <2> QED  BY <1>2, <1>4, <2>1, <2>2, <2>3
  <1>8. 1 \in Listed /\ Caller \subseteq Listed
    BY <1>1, <1>2, <1>4
  <1>9. fields \in [Task -> Fields] /\ time \in [Task -> 0 .. MaxTime]
    BY <1>6 DEF Fields, ProcTimesAssumption
  <1>10. gone \subseteq Task /\ Listed \cap gone = {} /\ \A t \in Task : t \notin Listed \cup gone => time[t] = 0
    BY <1>6
  <1>11. KernelInv
    BY <1>3, <1>5, <1>6, <1>7, <1>8, <1>9, <1>10 DEF KernelInv
  <1>12. Idle \in Calls /\ CallOf(Known, Idle) /\ ~Begun(Idle)
    BY IdleTypes
  <1>13. CallInv
    <2>1. << >> \in Answers /\ 0 \in Codes
      BY DEF Answers, Codes
    <2> QED  BY <1>6, <1>12, <2>1 DEF CallInv, CallTypes, AllCallsOf
  <1>14. CalmInv
    BY <1>6, <1>12 DEF CalmInv
  <1> QED
    BY <1>11, <1>13, <1>14 DEF TimesInv

LEMMA InitPrograms ==
  ASSUME ProcTestsAssumption, TestsInit
  PROVE  prog \in [Caller -> Programs] /\ \A c \in Caller : prog[c].line = 1 /\ ~prog[c].calm
  <1> DEFINE Start == {Program(name, a) : name \in {"test1", "test3", "any"}, a \in Argument}
  <1>1. prog \in [Caller -> Start]
    BY DEF TestsInit
  <1>2. \A p \in Start : p \in Programs /\ p.line = 1 /\ ~p.calm
    <2>1. SUFFICES ASSUME NEW name \in {"test1", "test3", "any"}, NEW a \in Argument
                   PROVE  LET p == Program(name, a) IN p \in Programs /\ p.line = 1 /\ ~p.calm
      OBVIOUS
    <2>2. Program(name, a).args \in Int \X Int \X Int
      BY ProgramArguments
    <2>3. 1 \in 1 .. 9 /\ FALSE \in BOOLEAN
      OBVIOUS
    <2>4. PICK args \in Int \X Int \X Int : Program(name, a) = [name |-> name, line |-> 1, calm |-> FALSE, args |-> args]
      BY <2>2 DEF Program
    <2> QED  BY <2>3, <2>4 DEF Programs
  <1> HIDE DEF Start
  <1> QED
    BY <1>1, <1>2

LEMMA GoesOn ==
  ASSUME prog \in [Caller -> Programs], NEW c \in Caller, NEW n \in 1 .. 9, Goes(c, n)
  PROVE  /\ prog' \in [Caller -> Programs]
         /\ \A d \in Caller \ {c} : prog'[d] = prog[d]
         /\ prog'[c].line = n /\ prog'[c].name = prog[c].name /\ prog'[c].calm = prog[c].calm
         /\ prog'[c].args = prog[c].args
  <1>1. prog' = [prog EXCEPT ![c] = [prog[c] EXCEPT !.line = n]]
    BY DEF Goes
  <1>2. prog[c] \in Programs
    OBVIOUS
  <1> DEFINE p == [prog[c] EXCEPT !.line = n]
  <1>3. p \in Programs /\ p.line = n /\ p.name = prog[c].name /\ p.calm = prog[c].calm /\ p.args = prog[c].args
    BY <1>2 DEF Programs
  <1> HIDE DEF p
  <1>4. prog' \in [Caller -> Programs] /\ prog'[c] = p /\ \A d \in Caller \ {c} : prog'[d] = prog[d]
    <2>1. prog' = [prog EXCEPT ![c] = p]
      BY <1>1 DEF p
    <2> QED  BY <1>3, <2>1
  <1> QED
    BY <1>3, <1>4

LEMMA Disturbing ==
  ASSUME prog \in [Caller -> Programs], NEW c \in Caller, NEW n \in 1 .. 9, NEW calm \in BOOLEAN, Sets(c, n, calm)
  PROVE  /\ prog' \in [Caller -> Programs]
         /\ \A d \in Caller \ {c} : /\ prog'[d].line = prog[d].line /\ prog'[d].name = prog[d].name
                                    /\ ~prog'[d].calm /\ prog'[d].args = prog[d].args
         /\ prog'[c].line = n /\ prog'[c].name = prog[c].name /\ (prog'[c].calm <=> calm)
         /\ prog'[c].args = prog[c].args
  <1>1. \A d \in Caller : prog[d] \in Programs
    OBVIOUS
  <1>2. \A p \in Programs : LET q == [p EXCEPT !.line = n, !.calm = calm]
                            IN  q \in Programs /\ q.line = n /\ q.name = p.name /\ q.calm = calm /\ q.args = p.args
    BY DEF Programs
  <1>3. \A p \in Programs : LET q == [p EXCEPT !.calm = FALSE]
                            IN  q \in Programs /\ q.line = p.line /\ q.name = p.name /\ q.calm = FALSE /\ q.args = p.args
    BY DEF Programs
  <1>4. prog' = [d \in Caller |-> prog'[d]] /\ prog'[c] = [prog[c] EXCEPT !.line = n, !.calm = calm]
        /\ \A d \in Caller \ {c} : prog'[d] = [prog[d] EXCEPT !.calm = FALSE]
    BY DEF Sets
  <1>5. prog'[c] \in Programs /\ \A d \in Caller \ {c} : prog'[d] \in Programs
    BY <1>1, <1>2, <1>3, <1>4
  <1>6. prog' \in [Caller -> Programs]
    <2>1. \A d \in Caller : prog'[d] \in Programs
      BY <1>5
    <2> QED  BY <1>4, <2>1
  <1>7. /\ prog'[c].line = n /\ prog'[c].name = prog[c].name /\ (prog'[c].calm <=> calm)
        /\ prog'[c].args = prog[c].args
    <2> DEFINE p == prog[c]
               q == prog'[c]
    <2>1. p \in Programs /\ q = [p EXCEPT !.line = n, !.calm = calm]
      BY <1>1, <1>4
    <2> HIDE DEF p, q
    <2>2. q.line = n /\ q.name = p.name /\ (q.calm <=> calm) /\ q.args = p.args
      BY <2>1 DEF Programs
    <2> QED  BY <2>2 DEF p, q
  <1>8. \A d \in Caller \ {c} : /\ prog'[d].line = prog[d].line /\ prog'[d].name = prog[d].name
                                 /\ ~prog'[d].calm /\ prog'[d].args = prog[d].args
    <2> TAKE d \in Caller \ {c}
    <2> DEFINE p == prog[d]
               q == prog'[d]
    <2>1. p \in Programs /\ q = [p EXCEPT !.calm = FALSE]
      BY <1>1, <1>4
    <2> HIDE DEF p, q
    <2>2. q.line = p.line /\ q.name = p.name /\ ~q.calm /\ q.args = p.args
      BY <2>1 DEF Programs
    <2> QED  BY <2>2 DEF p, q
  <1> QED
    BY <1>6, <1>7, <1>8

LEMMA InterfereCalms ==
  ASSUME prog \in [Caller -> Programs], NEW t, Interfere(t)
  PROVE  /\ prog' \in [Caller -> Programs]
         /\ \A d \in Caller : /\ prog'[d].line = prog[d].line /\ prog'[d].name = prog[d].name
                              /\ ~prog'[d].calm /\ prog'[d].args = prog[d].args
  <1>1. \A d \in Caller : prog[d] \in Programs
    OBVIOUS
  <1>2. \A p \in Programs : LET q == [p EXCEPT !.calm = FALSE]
                            IN  q \in Programs /\ q.line = p.line /\ q.name = p.name /\ q.calm = FALSE /\ q.args = p.args
    BY DEF Programs
  <1>3. prog' = [d \in Caller |-> [prog[d] EXCEPT !.calm = FALSE]]
    BY DEF Interfere
  <1>4. \A d \in Caller : prog'[d] \in Programs /\ prog'[d].line = prog[d].line /\ prog'[d].name = prog[d].name
                           /\ ~prog'[d].calm /\ prog'[d].args = prog[d].args
    BY <1>1, <1>2, <1>3
  <1>5. prog' = [d \in Caller |-> prog'[d]]
    BY <1>3
  <1> QED
    BY <1>4, <1>5

LEMMA ProgramTypes ==
  ASSUME prog \in [Caller -> Programs], TestsNext \/ UNCHANGED allVars
  PROVE  prog' \in [Caller -> Programs]
  <1>1. ASSUME NEW c \in Caller, Step(c)
        PROVE  prog' \in [Caller -> Programs]
    <2>1. 9 \in 1 .. 9 /\ 2 \in 1 .. 9
      OBVIOUS
    <2>2. CASE Refuse(c) \/ GiveUp(c)
      BY <2>1, <2>2, GoesOn DEF Refuse, GiveUp, Exited
    <2>3. CASE Assign(c)
      BY <2>1, <2>3, Disturbing DEF Assign
    <2>4. CASE Get(c) \/ printProcLimit(c)
      <3>1. prog[c].line \in 2 .. 7 /\ Goes(c, prog[c].line + 1)
        BY <2>4 DEF Get, printProcLimit, Printing
      <3>2. prog[c].line + 1 \in 1 .. 9
        BY <3>1
      <3> QED  BY <3>1, <3>2, GoesOn
    <2> QED  BY <1>1, <2>2, <2>3, <2>4 DEF Step
  <1>2. ASSUME NEW c \in Caller, AnyCall(c)
        PROVE  prog' \in [Caller -> Programs]
    <2>1. 2 \in 1 .. 9 /\ FALSE \in BOOLEAN
      OBVIOUS
    <2> QED  BY <1>2, <2>1, Disturbing DEF AnyCall
  <1>3. ASSUME NEW t \in Task, Interfere(t)
        PROVE  prog' \in [Caller -> Programs]
    BY <1>3, InterfereCalms
  <1> QED
    BY <1>1, <1>2, <1>3 DEF TestsNext, allVars

LEMMA TimesInvariant == TestsSpec => [](TimesInv /\ prog \in [Caller -> Programs])
  <1> DEFINE Inv == TimesInv /\ prog \in [Caller -> Programs]
  <1>1. TestsInit => Inv
    BY InitTimes, InitPrograms, ProcTimesAssumption, ProcTestsAssumption DEF TestsInit
  <1>2. Inv /\ [TestsNext]_allVars => Inv'
    <2> SUFFICES ASSUME Inv, TestsNext \/ UNCHANGED allVars
                 PROVE  Inv'
      OBVIOUS
    <2>1. TimesStep
      BY StepsOfTests, ProcTimesAssumption DEF TimesStep, allVars
    <2>2. KernelInv' /\ CallInv' /\ CalmInv'
      BY <2>1, KernelInvariance, CallInvariance, CalmInvariance, ProcTimesAssumption DEF TimesInv
    <2>3. prog' \in [Caller -> Programs]
      BY ProgramTypes
    <2> QED  BY <2>2, <2>3 DEF TimesInv
  <1> QED
    BY <1>1, <1>2, PTL DEF TestsSpec

-----------------------------------------------------------------------------
(* What getproclimit returns                                               *)

LEMMA ReturningStep ==
  ASSUME ProcTimesAssumption, KernelInv, CallInv, TimesStep, NEW c \in Caller, Returning(c)
  PROVE  CopyOut(c)
  <1>1. call[c].pc = "visit" /\ call'[c].pc = "idle" /\ call'[c] # call[c]
    BY DEF Returning
  <1>2. call \in [Caller -> Calls] /\ call[c] \in Calls /\ CallOf(Known, call[c])
    BY CallTyped DEF CallInv, CallTypes
  <1>3. ~Disturbed
    BY <1>1, DisturbedCalls
  <1>4. ~SetCall
    <2>1. SUFFICES ASSUME NEW d \in Caller, NEW pid \in Int, NEW limit \in Int, NEW interval \in Int,
                          sys_setproclimit(d, pid, limit, interval)
                   PROVE  FALSE
      BY DEF SetCall
    <2> QED  BY <1>1, <1>3, <2>1, SetStep
  <1>5. ASSUME NEW d \in Caller, NEW r, Moves(d, r)
        PROVE  d = c /\ r.pc = "idle"
    <2>1. call'[c] = IF d = c THEN r ELSE call[c]
      BY <1>2, <1>5 DEF Moves
    <2> QED  BY <1>1, <2>1
  <1>6. ~GetCall
    <2>1. SUFFICES ASSUME NEW d \in Caller, NEW pid \in Int, NEW pointer \in Pointer, sys_getproclimit(d, pid, pointer)
                   PROVE  FALSE
      BY DEF GetCall
    <2>2. call[d].pc = "idle" /\ (UNCHANGED call \/ \E r : Moves(d, r))
      BY <2>1, BeginStep
    <2> QED  BY <1>1, <1>5, <2>2
  <1>7. ASSUME NEW d \in Caller, Walk(d)
        PROVE  CopyOut(c)
    <2>1. Astray.pc # "idle"
      BY IdleTypes
    <2>2. CASE Read(d)
      <3>1. call[d].pc = "read" /\ \E r : Moves(d, r)
        BY <2>2, ReadStep
      <3> QED  BY <1>1, <1>5, <3>1
    <2>3. CASE ReadAll(d)
      <3>1. call[d].pc = "read" /\ \E r : Moves(d, r)
        BY <2>3, ReadAllStep
      <3> QED  BY <1>1, <1>5, <3>1
    <2>4. CASE Visit(d)
      <3> DEFINE r == call[d]
                 t == r.at
                 member == (fields[t][1] = r.temp[1])
                 q == PastTask(r, member, time[t], next_task(t))
      <3>1. r.pc = "visit" /\ t \in Known
        BY <2>4, VisitStep
      <3>2. CASE Moves(d, Astray)
        BY <1>5, <2>1, <3>2
      <3>3. CASE Moves(d, q) /\ next_task(t) \in Listed \cup {AtHead} /\ time[t] \in 0 .. MaxTime
        <4>1. r \in Calls /\ CallOf(Known, r)
          BY CallTyped
        <4>2. member \in BOOLEAN /\ next_task(t) \in (Known \cap Task) \cup {AtHead}
          BY <3>3, TaskKnown
        <4> HIDE DEF r, t, member
        <4>3. q.pc = "visit"
          BY <3>1, <3>3, <4>1, <4>2, TaskPassed
        <4> HIDE DEF q
        <4> QED  BY <1>5, <3>3, <4>3
      <3> QED  BY <2>4, <3>2, <3>3, VisitStep
    <2>5. CASE CopyOut(d)
      <3>1. Moves(d, Idle)
        BY <2>5, CopyOutStep
      <3> QED  BY <1>5, <2>5, <3>1
    <2> QED  BY <1>7, <2>2, <2>3, <2>4, <2>5 DEF Walk
  <1>8. UNCHANGED call => FALSE
    BY <1>1
  <1> QED
    BY <1>3, <1>4, <1>6, <1>7, <1>8 DEF TimesStep, NoCall, Run, Fork, Release, Regroup, vars

(* What a calm call returns of its family.                                 *)
LEMMA CalmReturn ==
  ASSUME ProcTimesAssumption, TimesInv, TimesStep, NEW c \in Caller, Returning(c), Calm(c), call[c].temp[1] # -1
  PROVE  LET family == Members(call[c].temp[1])
         IN  /\ Summed(family, time, First(c), call[c].sum)
             /\ Between(family, family, time, First(c), DOMAIN call[c].before, call[c].temp[4], call[c].temp[5])
             /\ IsFiniteSet(family) /\ family \subseteq Task
             /\ \A t \in Task : First(c)[t] \in Nat /\ time[t] \in Nat
             /\ call[c].temp[4] \in Nat /\ call[c].temp[5] \in Nat
  <1> DEFINE r == call[c]
             root == r.temp[1]
             family == FamilyOf(tasks, fields, root)
  <1>1. KernelInv /\ CallInv /\ CalmInv
    BY DEF TimesInv
  <1>2. r.pc = "visit" /\ r.at = AtHead
    BY <1>1, ReturningStep DEF CopyOut
  <1>3. r \in Calls /\ CallOf(Known, r)
    BY <1>1, CallTyped
  <1>4. CalmCall(tasks, fields, time, r)
    BY <1>1, <1>2 DEF CalmInv, Begun
  <1>5. Members(root) = family /\ tasks \in Seq(Task) /\ Distinct(tasks)
    BY <1>1, FamilyMembers DEF KernelInv
  <1>6. Passed(tasks, fields, root, r.at) = family
    BY <1>2, PassedAll
  <1>7. First(c) = FirstOf(r.before)
    BY DEF First, FirstOf
  <1>8. /\ Summed(family, time, First(c), r.sum)
        /\ Between(family, family, time, First(c), DOMAIN r.before, r.temp[4], r.temp[5])
    BY <1>2, <1>4, <1>6, <1>7 DEF CalmCall
  <1>9. IsFiniteSet(family) /\ family \subseteq Task
    BY <1>5, PassedFinite
  <1>10. \A t \in Task : First(c)[t] \in Nat /\ time[t] \in Nat
    BY <1>1, <1>3, <1>7, FirstTypes, FieldTypes
  <1>11. r.temp[4] \in Nat /\ r.temp[5] \in Nat
    <2>1. r.temp[4] \in 0 .. ULong - 1 /\ r.temp[5] \in 0 .. ULong - 1
      BY <1>2, <1>3 DEF CallOf
    <2> QED  BY <2>1
  <1> QED
    BY <1>5, <1>8, <1>9, <1>10, <1>11

LEMMA GreatestOf ==
  ASSUME NEW S, IsFiniteSet(S), S # {}, NEW f, \A t \in S : f[t] \in Nat
  PROVE  LET m == Max({f[t] : t \in S}) IN m \in Nat /\ (\E t \in S : m = f[t]) /\ \A t \in S : f[t] <= m
  <1> DEFINE V == {f[t] : t \in S}
             m == Max(V)
  <1>1. IsFiniteSet(V) /\ V # {} /\ V \subseteq Nat
    <2> DEFINE g == [t \in S |-> f[t]]
    <2>1. g \in Surjection(S, V)
      BY DEF Surjection
    <2> HIDE DEF g
    <2>2. IsFiniteSet(V)
      BY <2>1, FS_Surjection
    <2> QED  BY <2>2
  <1>2. \E x \in V : \A y \in V : x >= y
    <2> HIDE DEF V
    <2> QED  BY <1>1, Greatest
  <1>3. m \in V /\ \A y \in V : m >= y
    BY <1>2 DEF Max
  <1>4. m \in Nat /\ (\E t \in S : m = f[t]) /\ \A t \in S : m >= f[t]
    BY <1>1, <1>3
  <1> HIDE DEF m
  <1>5. \A t \in S : f[t] <= m
    <2> TAKE t \in S
    <2>1. f[t] \in Nat /\ m \in Nat /\ m >= f[t]
      BY <1>4
    <2> QED  BY <2>1
  <1> QED
    BY <1>4, <1>5 DEF m

LEMMA LeastOf ==
  ASSUME NEW S, S # {}, NEW f, \A t \in S : f[t] \in Nat
  PROVE  LET m == Min({f[t] : t \in S}) IN m \in Nat /\ \A t \in S : m <= f[t]
  <1> DEFINE V == {f[t] : t \in S}
             m == Min(V)
  <1>1. V \in SUBSET Nat /\ V # {}
    OBVIOUS
  <1>2. \E x \in V : \A y \in V : x <= y
    <2> HIDE DEF V
    <2> QED  BY <1>1, LeastNumber
  <1>3. m \in V /\ \A y \in V : m <= y
    BY <1>2 DEF Min
  <1> QED
    BY <1>1, <1>3

LEMMA ExtremesOf ==
  ASSUME NEW family, IsFiniteSet(family), NEW tm, NEW first, \A t \in family : first[t] \in Nat /\ tm[t] \in Nat,
         NEW old, NEW min \in Nat, NEW max \in Nat, Between(family, family, tm, first, old, min, max)
  PROVE  LET greater == Max({min, max})
             lesser  == Min({min, max})
         IN  /\ greater \in Max({first[t] : t \in family}) .. Max({tm[t] : t \in family})
             /\ lesser >= Min({first[t] : t \in family})
             /\ \A t \in family \cap old : lesser <= tm[t]
  <1> DEFINE greater == Max({min, max})
             lesser  == Min({min, max})
             g == Max({first[t] : t \in family})
             h == Max({tm[t] : t \in family})
             l == Min({first[t] : t \in family})
  <1>1. /\ \A t \in family : first[t] <= min /\ (t \in old => max <= tm[t])
        /\ \E t \in family : min <= tm[t]
        /\ \E t \in family : max <= tm[t]
        /\ \E t \in family : first[t] <= min
        /\ \E t \in family : first[t] <= max
    BY DEF Between
  <1>2. greater \in {min, max} /\ greater >= min /\ greater >= max
    <2>1. \E x \in {min, max} : \A y \in {min, max} : x >= y
      <3>1. min >= max \/ max >= min
        OBVIOUS
      <3>2. min >= min /\ max >= max
        OBVIOUS
      <3> QED  BY <3>1, <3>2
    <2> QED  BY <2>1 DEF Max
  <1>3. lesser \in {min, max} /\ lesser <= min /\ lesser <= max
    <2>1. \E x \in {min, max} : \A y \in {min, max} : x <= y
      <3>1. min <= max \/ max <= min
        OBVIOUS
      <3>2. min <= min /\ max <= max
        OBVIOUS
      <3> QED  BY <3>1, <3>2
    <2> QED  BY <2>1 DEF Min
  <1>4. family # {}
    BY <1>1
  <1>5. g \in Nat /\ \E t \in family : g = first[t]
    BY <1>4, GreatestOf
  <1>6. h \in Nat /\ \A t \in family : tm[t] <= h
    BY <1>4, GreatestOf
  <1>7. l \in Nat /\ \A t \in family : l <= first[t]
    BY <1>4, LeastOf
  <1>8. greater \in Nat /\ lesser \in Nat
    BY <1>2, <1>3
  <1> HIDE DEF greater, lesser, g, h, l
  <1>9. g <= greater
    <2>1. PICK t \in family : g = first[t]
      BY <1>5
    <2>2. first[t] <= min
      BY <1>1
    <2> QED  BY <1>2, <1>5, <1>8, <2>1, <2>2
  <1>10. greater <= h
    <2>1. PICK t \in family : greater <= tm[t]
      BY <1>1, <1>2
    <2>2. tm[t] \in Nat /\ tm[t] <= h
      BY <1>6
    <2> QED  BY <1>6, <1>8, <2>1, <2>2
  <1>11. lesser >= l
    <2>1. PICK t \in family : first[t] <= lesser
      BY <1>1, <1>3
    <2>2. first[t] \in Nat /\ l <= first[t]
      BY <1>7
    <2> QED  BY <1>7, <1>8, <2>1, <2>2
  <1>12. \A t \in family \cap old : lesser <= tm[t]
    <2> TAKE t \in family \cap old
    <2>1. max <= tm[t] /\ tm[t] \in Nat
      BY <1>1
    <2> QED  BY <1>3, <1>8, <2>1
  <1>13. greater \in g .. h
    BY <1>5, <1>6, <1>8, <1>9, <1>10
  <1> QED
    BY <1>11, <1>12, <1>13 DEF greater, lesser, g, h, l

(* The state of the kernel, of every call of getproclimit and of what it   *)
(* has returned keeps its type, whatever programs call it.                 *)
THEOREM TimesTypes == TestsSpec => []TypeOK
  <1>1. TimesInv => TypeOK
    BY InvTypes, ProcTimesAssumption DEF TimesInv
  <1> QED
    BY <1>1, TimesInvariant, PTL

(* What sys_getproclimit adds up, while no process is released or given    *)
(* other limits, is a total the family had during the call, modulo the     *)
(* width of an unsigned long: with any number of processes, of callers and *)
(* of forks where the walk is.                                             *)
THEOREM TotalOfFamily == TestsSpec => Total
  <1> DEFINE Right(c) ==
        Returning(c) /\ Calm(c) /\ call[c].temp[1] # -1 =>
          LET family == Members(call[c].temp[1])
          IN  \E s \in SumFunctionOnSet(First(c), family) .. SumFunctionOnSet(time, family) :
                call[c].sum = s % ULong
  <1>1. TimesInv /\ prog \in [Caller -> Programs] /\ [TestsNext]_allVars => [\A c \in Caller : Right(c)]_vars
    <2> SUFFICES ASSUME TimesInv, prog \in [Caller -> Programs], TestsNext \/ UNCHANGED allVars, ~UNCHANGED vars,
                        NEW c \in Caller, Returning(c), Calm(c), call[c].temp[1] # -1
                 PROVE  Summed(Members(call[c].temp[1]), time, First(c), call[c].sum)
      BY DEF Summed
    <2>1. TimesStep
      BY StepsOfTests, ProcTimesAssumption DEF TimesStep, allVars
    <2> QED  BY <2>1, CalmReturn, ProcTimesAssumption
  <1> QED
    BY <1>1, TimesInvariant, PTL DEF TestsSpec, Total

(* The greater and the lesser of the two times it returns are the greatest *)
(* and the least of the family at some moment of the call, whichever of    *)
(* the two the code calls min.                                             *)
THEOREM ExtremesOfFamily == TestsSpec => Extremes
  <1> DEFINE Right(c) ==
        Returning(c) /\ Calm(c) /\ call[c].temp[1] # -1 =>
          LET family   == Members(call[c].temp[1])
              greater  == Max({call[c].temp[4], call[c].temp[5]})
              lesser   == Min({call[c].temp[4], call[c].temp[5]})
          IN  /\ greater \in Max({First(c)[t] : t \in family}) .. Max({time[t] : t \in family})
              /\ lesser >= Min({First(c)[t] : t \in family})
              /\ \A t \in family \cap DOMAIN call[c].before : lesser <= time[t]
  <1>1. TimesInv /\ prog \in [Caller -> Programs] /\ [TestsNext]_allVars => [\A c \in Caller : Right(c)]_vars
    <2> SUFFICES ASSUME TimesInv, prog \in [Caller -> Programs], TestsNext \/ UNCHANGED allVars, ~UNCHANGED vars,
                        NEW c \in Caller, Returning(c), Calm(c), call[c].temp[1] # -1
                 PROVE  Right(c)
      OBVIOUS
    <2> DEFINE family == Members(call[c].temp[1])
               first == First(c)
               min == call[c].temp[4]
               max == call[c].temp[5]
               old == DOMAIN call[c].before
    <2>1. TimesStep
      BY StepsOfTests, ProcTimesAssumption DEF TimesStep, allVars
    <2>2. /\ Between(family, family, time, first, old, min, max)
          /\ IsFiniteSet(family) /\ \A t \in family : first[t] \in Nat /\ time[t] \in Nat
          /\ min \in Nat /\ max \in Nat
      BY <2>1, CalmReturn, ProcTimesAssumption
    <2> HIDE DEF family, first, min, max, old
    <2>3. /\ Max({min, max}) \in Max({first[t] : t \in family}) .. Max({time[t] : t \in family})
          /\ Min({min, max}) >= Min({first[t] : t \in family})
          /\ \A t \in family \cap old : Min({min, max}) <= time[t]
      BY <2>2, ExtremesOf
    <2> QED  BY <2>3 DEF family, first, min, max, old
  <1> QED
    BY <1>1, TimesInvariant, PTL DEF TestsSpec, Extremes

-----------------------------------------------------------------------------
(* What a program may rely on                                              *)

(* Somebody else has interfered.                                           *)
LEMMA ProgramDisturbed ==
  ASSUME NEW list, NEW fl, NEW tm, NEW c, NEW g, NEW r, NEW answer, NEW result,
         ProgramOf(list, fl, tm, c, g, r, answer, result),
         NEW long, NEW gl, NEW um,
         NEW h, h.line = g.line /\ h.name = g.name /\ h.args = g.args /\ ~h.calm, NEW s, s.pc = r.pc
  PROVE  ProgramOf(long, gl, um, c, h, s, answer, result)
  BY DEF ProgramOf, Begun

LEMMA AnswerTotal ==
  ASSUME NEW answer \in Answers, answer # << >>
  PROVE  answer.total_cpu_time \in Nat
  <1>1. answer \in Answer
    BY DEF Answers
  <1>2. answer.total_cpu_time \in 0 .. ULong - 1
    BY <1>1 DEF Answer
  <1> QED
    BY <1>2

(* Time passes, and processes are forked.                                  *)
LEMMA LimitsLater ==
  ASSUME ProcTimesAssumption, NEW r \in Calls, NEW answer \in Answers, NEW g, NEW p,
         NEW list \in Seq(Task), NEW fl, NEW tm, OwnLimits(list, fl, tm, p, g, r, answer),
         NEW long \in Seq(Task), Distinct(long), NEW gl, NEW um,
         Range(list) \subseteq Range(long), \A t \in Range(list) : gl[t] = fl[t],
         \A t \in Task : tm[t] \in Nat /\ um[t] \in Nat /\ tm[t] <= um[t]
  PROVE  OwnLimits(long, gl, um, p, g, r, answer)
  <1> DEFINE family == FamilyOf(list, fl, p)
             all == FamilyOf(long, gl, p)
             first == FirstOf(r.before)
             total == answer.total_cpu_time
  <1>1. family \subseteq all
    BY DEF FamilyOf
  <1>2. IsFiniteSet(all) /\ all \subseteq Task
    BY PassedFinite
  <1>3. \A t \in Task : first[t] \in Nat
    BY FirstTypes
  <1>4. IsFiniteSet(family)
    BY <1>1, <1>2, FS_Subset
  <1> DEFINE a == SumFunctionOnSet(tm, family)
             b == SumFunctionOnSet(um, all)
             d == SumFunctionOnSet(first, family)
             e == SumFunctionOnSet(first, all)
  <1> HIDE DEF family, all, first
  <1>5. a \in Nat /\ b \in Nat /\ d \in Nat /\ e \in Nat
    <2>1. \A t \in all : tm[t] \in Nat /\ um[t] \in Nat /\ first[t] \in Nat
      BY <1>2, <1>3
    <2>2. \A t \in family : tm[t] \in Nat /\ um[t] \in Nat /\ first[t] \in Nat
      BY <1>1, <2>1
    <2> QED  BY <1>2, <1>4, <2>1, <2>2, SumNat
  <1>6. a <= b
    <2>1. \A t \in all : tm[t] \in Nat /\ um[t] \in Nat
      BY <1>2
    <2>2. \A t \in family : tm[t] <= um[t]
      BY <1>1, <1>2
    <2> QED  BY <1>1, <1>2, <2>1, <2>2, SumMonotone
  <1>7. d <= e
    <2>1. \A t \in all : first[t] \in Nat
      BY <1>2, <1>3
    <2>2. \A t \in family : first[t] <= first[t]
      <3> TAKE t \in family
      <3>1. first[t] \in Nat
        BY <1>1, <2>1
      <3> QED  BY <3>1
    <2> QED  BY <1>1, <1>2, <2>1, <2>2, SumMonotone
  <1>8. ASSUME answer # << >>
        PROVE  total <= b /\ (Begun(r) => total <= e)
    <2>1. total \in Nat
      BY <1>8, AnswerTotal
    <2>2. total <= a /\ (Begun(r) => total <= d)
      BY <1>8 DEF OwnLimits, family, first
    <2> HIDE DEF total, a, b, d, e
    <2> QED  BY <1>5, <1>6, <1>7, <2>1, <2>2
  <1> QED
    BY <1>8 DEF OwnLimits, all, first

LEMMA ProgramLater ==
  ASSUME ProcTimesAssumption, NEW r \in Calls, NEW answer \in Answers, NEW g, NEW c \in Caller, NEW result,
         NEW list \in Seq(Task), NEW fl, NEW tm, ProgramOf(list, fl, tm, c, g, r, answer, result),
         NEW long \in Seq(Task), Distinct(long), NEW gl, NEW um,
         Range(list) \subseteq Range(long), \A t \in Range(list) : gl[t] = fl[t],
         \A t \in Task : tm[t] \in Nat /\ um[t] \in Nat /\ tm[t] <= um[t]
  PROVE  ProgramOf(long, gl, um, c, g, r, answer, result)
  <1>1. ASSUME g.calm, result = 0
        PROVE  OwnLimits(long, gl, um, ProcessOf(long, c, g.args[1]), g, r, answer)
    <2> DEFINE p == ProcessOf(list, c, g.args[1])
    <2>1. OwnLimits(list, fl, tm, p, g, r, answer)
      BY <1>1 DEF ProgramOf
    <2>2. p \in Range(list)
      BY <2>1 DEF OwnLimits
    <2>3. 0 \notin Range(list)
      BY RangeOfSeq DEF ProcTimesAssumption
    <2>4. ProcessOf(long, c, g.args[1]) = p
      BY <2>2, <2>3 DEF ProcessOf, None
    <2> HIDE DEF p
    <2>5. OwnLimits(long, gl, um, p, g, r, answer)
      BY <2>1, LimitsLater
    <2> QED  BY <2>4, <2>5
  <1> QED
    BY <1>1 DEF ProgramOf

(* The struct that a calm call copies out.                                 *)
LEMMA LimitsCopied ==
  ASSUME ProcTimesAssumption, NEW g, NEW p \in Task, NEW r \in Calls, r.pc = "visit",
         NEW list \in Seq(Task), Distinct(list), NEW fl, NEW tm, NEW a, OwnLimits(list, fl, tm, p, g, r, a),
         CalmCall(list, fl, tm, r), Len(r.temp) = 5, r.at = AtHead,
         \A t \in Task : tm[t] \in Nat,
         NEW answer, answer = [root_pid |-> r.temp[1], time_limit |-> r.temp[2], time_interval |-> r.temp[3],
                               total_cpu_time |-> r.sum, max_cpu_time |-> r.temp[5], min_cpu_time |-> r.temp[4]]
  PROVE  OwnLimits(list, fl, tm, p, g, Idle, answer)
  <1> DEFINE first == FirstOf(r.before)
             family == FamilyOf(list, fl, p)
  <1>1. r.task = p /\ p \in Range(list) /\ fl[p] = <<p, g.args[2], g.args[3]>>
    BY DEF OwnLimits, Begun
  <1>2. r.temp[1] = p /\ r.temp[2] = g.args[2] /\ r.temp[3] = g.args[3]
    <2>1. \A n \in 1 .. 3 : r.temp[n] = fl[p][n]
      BY <1>1 DEF CalmCall, ReadOf
    <2>2. r.temp[1] = fl[p][1] /\ r.temp[2] = fl[p][2] /\ r.temp[3] = fl[p][3]
      BY <2>1
    <2> QED  BY <1>1, <2>2
  <1>3. p # -1
    BY DEF ProcTimesAssumption
  <1>4. Summed(family, tm, first, r.sum)
    BY <1>2, <1>3, PassedAll DEF CalmCall
  <1>5. IsFiniteSet(family) /\ \A t \in family : first[t] \in Nat /\ tm[t] \in Nat
    BY PassedFinite, FirstTypes
  <1> DEFINE a1 == SumFunctionOnSet(first, family)
             b1 == SumFunctionOnSet(tm, family)
  <1> HIDE DEF first, family
  <1>6. a1 \in Nat /\ b1 \in Nat
    BY <1>5, SummedTypes
  <1>7. PICK s \in a1 .. b1 : r.sum = s % ULong
    BY <1>4 DEF Summed
  <1>8. r.sum <= b1
    <2> HIDE DEF a1, b1
    <2>1. s \in Nat /\ s <= b1
      BY <1>6, <1>7
    <2>2. ULong \in Nat /\ ULong > 0
      BY DEF ProcTimesAssumption
    <2>3. s % ULong <= s /\ s % ULong \in 0 .. ULong - 1
      BY <2>1, <2>2, ModSmall
    <2> DEFINE z == s % ULong
    <2>4. z <= s /\ z \in Int /\ r.sum = z
      BY <1>7, <2>2, <2>3
    <2> HIDE DEF z
    <2> QED  BY <1>6, <2>1, <2>4
  <1>9. /\ answer # << >> /\ answer.total_cpu_time = r.sum
        /\ answer.root_pid = p /\ answer.time_limit = g.args[2] /\ answer.time_interval = g.args[3]
    <2>1. DOMAIN answer # DOMAIN << >>
      <3>1. "root_pid" \in DOMAIN answer /\ "root_pid" \notin {}
        OBVIOUS
      <3>2. DOMAIN << >> = {}
        OBVIOUS
      <3> QED  BY <3>1, <3>2
    <2> QED  BY <1>2, <2>1
  <1>10. ~Begun(Idle)
    BY IdleTypes
  <1> QED
    BY <1>1, <1>8, <1>9, <1>10 DEF OwnLimits, family

-----------------------------------------------------------------------------
(* What the programs' own steps do                                         *)

(* A system call of c leaves what belongs to the other callers alone,      *)
(* except that it may set the limits of their processes.                   *)
LEMMA OneCall ==
  ASSUME ProcTimesAssumption, KernelInv, CallInv, NEW c \in Caller, NEW n, NEW a \in Int, NEW b \in Int,
         NEW d \in Int, syscall(c, n, a, b, d)
  PROVE  UNCHANGED pl /\ \A e \in Caller \ {c} : call'[e].pc = call[e].pc /\ ret'[e] = ret[e]
  <1>1. call \in [Caller -> Calls] /\ ret \in [Caller -> Codes]
    BY DEF CallInv, CallTypes
  <1>2. CASE sys_setproclimit(c, a, b, d)
    <2>1. UNCHANGED pl /\ \A e \in Caller \ {c} : ret'[e] = ret[e]
      BY <1>1, <1>2, SetStep
    <2>2. UNCHANGED call \/ Disturbed
      BY <1>2, SetStep
    <2> QED  BY <2>1, <2>2, DisturbedCalls
  <1>3. CASE sys_getproclimit(c, a, PointerOf(b))
    <2>1. PointerOf(b) \in Pointer
      BY DEF PointerOf, Pointer
    <2>2. UNCHANGED pl /\ \A e \in Caller \ {c} : ret'[e] = ret[e]
      BY <1>1, <1>3, <2>1, BeginStep
    <2>3. UNCHANGED call \/ \E r : Moves(c, r)
      BY <1>3, <2>1, BeginStep
    <2>4. \A e \in Caller \ {c} : call'[e] = call[e]
      BY <1>1, <2>3 DEF Moves
    <2> QED  BY <2>2, <2>4
  <1>4. CASE ret' = [ret EXCEPT ![c] = -ENOSYS] /\ UNCHANGED <<kernel, call, pl>>
    BY <1>1, <1>4
  <1> QED
    BY <1>2, <1>3, <1>4 DEF syscall

Fails(c) == UNCHANGED <<kernel, call, pl>> /\ \E e \in Codes \ {0} : ret' = [ret EXCEPT ![c] = e]

LEMMA Codings ==
  -EINVAL \in Codes \ {0} /\ -EFAULT \in Codes \ {0} /\ -ENOSYS \in Codes \ {0}
  BY DEF EINVAL, EFAULT, ENOSYS, Codes

(* Whatever number the header gives it, getproclimit either fails or       *)
(* begins.                                                                 *)
LEMMA GetEffect ==
  ASSUME ProcTimesAssumption, ProcTestsAssumption, KernelInv, CallInv, prog \in [Caller -> Programs],
         NEW c \in Caller, Get(c)
  PROVE  LET p == Process(c, prog[c].args[1]) IN
         \/ Fails(c)
         \/ /\ UNCHANGED <<kernel, pl, ret>> /\ p \in Listed
            /\ Moves(c, Beginning(p, "writable", [s \in Listed |-> time[s]]))
  <1> DEFINE a == prog[c].args[1]
             b == procLimitFields
             p == Process(c, a)
  <1>1. syscall(c, GetNumber, a, b, 0)
    BY DEF Get, getproclimit
  <1>2. a \in Int /\ b \in Int /\ 0 \in Int /\ b > 0
    <2>1. prog[c].args \in Int \X Int \X Int
      BY DEF Programs
    <2> QED  BY <2>1 DEF procLimitFields
  <1>3. PointerOf(b) = "writable"
    BY DEF PointerOf, procLimitFields, ReadOnly
  <1>4. CASE sys_setproclimit(c, a, b, 0)
    <2>1. b > 0 /\ ~(b <= 0)
      BY DEF procLimitFields
    <2>2. ret' = [ret EXCEPT ![c] = -EINVAL] /\ UNCHANGED <<fields, call, tasks, parent, gone, time, pl>>
      BY <1>4, <2>1 DEF sys_setproclimit
    <2> QED  BY <2>2, Codings DEF Fails, kernel
  <1>5. CASE sys_getproclimit(c, a, "writable")
    <2>1. "writable" \in Pointer
      BY DEF Pointer
    <2>2. CASE Failure(p, "writable") # 0 /\ UNCHANGED call /\ ret' = [ret EXCEPT ![c] = -Failure(p, "writable")]
      <3>1. Failure(p, "writable") = EINVAL
        BY <2>2 DEF Failure
      <3>2. UNCHANGED <<kernel, pl>>
        BY <1>5, <2>1, BeginStep
      <3> QED  BY <2>2, <3>1, <3>2, Codings DEF Fails
    <2>3. CASE UNCHANGED ret /\ p \in Listed /\ Moves(c, Beginning(p, "writable", [s \in Listed |-> time[s]]))
      BY <1>5, <2>1, <2>3, BeginStep
    <2> QED  BY <1>5, <2>1, <2>2, <2>3, BeginStep
  <1>6. CASE ret' = [ret EXCEPT ![c] = -ENOSYS] /\ UNCHANGED <<kernel, call, pl>>
    BY <1>6, Codings DEF Fails
  <1> QED
    BY <1>1, <1>3, <1>4, <1>5, <1>6 DEF syscall

(* And setproclimit either fails or sets the limits that were asked for:   *)
(* no limit of test1 or test3 is a word that getproclimit would take for a *)
(* pointer.                                                                *)
LEMMA AssignEffect ==
  ASSUME ProcTimesAssumption, ProcTestsAssumption, KernelInv, CallInv, prog \in [Caller -> Programs],
         NEW c \in Caller, Assign(c), prog[c].name = "test1" => prog[c].args[2] = 10
  PROVE  LET p == Process(c, prog[c].args[1]) IN
         \/ Fails(c)
         \/ /\ UNCHANGED <<tasks, parent, gone, time, pl>> /\ Disturbed
            /\ p \in Listed /\ Set(p, prog[c].args[2], prog[c].args[3])
            /\ ret' = [ret EXCEPT ![c] = 0]
  <1> DEFINE a == prog[c].args[1]
             b == prog[c].args[2]
             d == prog[c].args[3]
             p == Process(c, a)
  <1>1. syscall(c, SetNumber, a, b, d)
    BY DEF Assign, setproclimit
  <1>2. a \in Int /\ b \in Int /\ d \in Int
    <2>1. prog[c].args \in Int \X Int \X Int
      BY DEF Programs
    <2> QED  BY <2>1
  <1>3. prog[c].name \in {"test1", "test3"} /\ b < INTERVAL
    <2>1. prog[c].name \in {"test1", "test3", "any"} /\ prog[c].name # "any"
      BY DEF Programs, Assign, Runs
    <2>2. prog[c].name = "test3" => b < INTERVAL
      BY DEF Assign
    <2>3. prog[c].name = "test1" => b < INTERVAL
      BY DEF INTERVAL
    <2> QED  BY <2>1, <2>2, <2>3
  <1>4. PointerOf(b) \in {"NULL", "kernel", "unmapped"} /\ PointerOf(b) \in Pointer
    <2> HIDE DEF b
    <2>1. b # procLimitFields /\ b # ReadOnly
      BY <1>2, <1>3 DEF INTERVAL, procLimitFields, ReadOnly
    <2> QED  BY <2>1 DEF PointerOf, Pointer
  <1>5. CASE sys_setproclimit(c, a, b, d)
    <2>1. UNCHANGED <<tasks, parent, gone, time, pl>>
      BY <1>2, <1>5, SetStep
    <2>2. CASE ret' = [ret EXCEPT ![c] = -EINVAL] /\ UNCHANGED <<fields, call>>
      BY <2>1, <2>2, Codings DEF Fails, kernel
    <2>3. CASE p \in Listed /\ Set(p, b, d) /\ Disturbed /\ ret' = [ret EXCEPT ![c] = 0]
      BY <2>1, <2>3
    <2> QED  BY <1>2, <1>5, <2>2, <2>3, SetStep
  <1>6. CASE sys_getproclimit(c, a, PointerOf(b))
    <2> DEFINE w == PointerOf(b)
    <2>1. w \in {"NULL", "kernel", "unmapped"}
      BY <1>4
    <2> HIDE DEF w
    <2>2. Failure(p, w) \in {EINVAL, EFAULT}
      BY <2>1 DEF Failure
    <2>3. Failure(p, w) # 0
      BY <2>2 DEF EINVAL, EFAULT
    <2>4. UNCHANGED <<kernel, pl, call>> /\ ret' = [ret EXCEPT ![c] = -Failure(p, w)]
      BY <1>6, <2>3 DEF sys_getproclimit, w
    <2> QED  BY <2>2, <2>4, Codings DEF Fails
  <1>7. CASE ret' = [ret EXCEPT ![c] = -ENOSYS] /\ UNCHANGED <<kernel, call, pl>>
    BY <1>7, Codings DEF Fails
  <1> QED
    BY <1>1, <1>5, <1>6, <1>7 DEF syscall

-----------------------------------------------------------------------------
(* The invariant of the programs                                           *)

LEMMA InitProgInv ==
  ASSUME ProcTimesAssumption, ProcTestsAssumption, TestsInit
  PROVE  ProgInv
  <1>1. Init /\ prog \in [Caller -> {Program(name, a) : name \in {"test1", "test3", "any"}, a \in Argument}]
    BY DEF TestsInit
  <1>2. \A c \in Caller : prog[c].line = 1 /\ ~prog[c].calm
    BY InitPrograms
  <1>3. \A c \in Caller : prog[c].name = "test1" => prog[c].args[2] = 10
    <2> TAKE c \in Caller
    <2>1. PICK name \in {"test1", "test3", "any"}, a \in Argument : prog[c] = Program(name, a)
      BY <1>1
    <2> QED  BY <2>1 DEF Program
  <1>4. \A c \in Caller : pl[c] = << >> /\ call[c] = Idle
    BY <1>1 DEF Init
  <1> QED
    BY <1>2, <1>3, <1>4, IdleTypes DEF ProgInv, ProgramOf

(* The step of one program disturbs the others or leaves them alone.       *)
LEMMA OwnStep ==
  ASSUME ProgInv, NEW c \in Caller,
         ProgramOf(tasks', fields', time', c, prog'[c], call'[c], pl'[c], ret'[c]),
         \A d \in Caller \ {c} :
           /\ pl'[d] = pl[d] /\ ret'[d] = ret[d] /\ call'[d].pc = call[d].pc
           /\ prog'[d].line = prog[d].line /\ prog'[d].name = prog[d].name /\ prog'[d].args = prog[d].args
           /\ \/ ~prog'[d].calm
              \/ prog'[d] = prog[d] /\ call'[d] = call[d] /\ UNCHANGED <<tasks, fields, time>>
  PROVE  ProgInv'
  <1>1. ASSUME NEW d \in Caller \ {c}
        PROVE  ProgramOf(tasks', fields', time', d, prog'[d], call'[d], pl'[d], ret'[d])
    <2>1. ProgramOf(tasks, fields, time, d, prog[d], call[d], pl[d], ret[d])
      BY DEF ProgInv
    <2>2. CASE ~prog'[d].calm
      <3>1. ProgramOf(tasks', fields', time', d, prog'[d], call'[d], pl[d], ret[d])
        BY <2>1, <2>2, ProgramDisturbed
      <3> QED  BY <3>1
    <2>3. CASE prog'[d] = prog[d] /\ call'[d] = call[d] /\ UNCHANGED <<tasks, fields, time>>
      BY <2>1, <2>3
    <2> QED  BY <2>2, <2>3
  <1> QED
    BY <1>1 DEF ProgInv

(* A call that fails stops the program at its next statement.              *)
LEMMA ProgramFails ==
  ASSUME NEW list, NEW fl, NEW tm, NEW c, NEW g, NEW r, NEW answer, NEW result,
         ProgramOf(list, fl, tm, c, g, r, answer, result), ~Begun(r), g.name # "any",
         NEW h, h.name = g.name /\ h.args = g.args /\ h.line # 1, NEW e, e # 0
  PROVE  ProgramOf(list, fl, tm, c, h, r, answer, e)
  BY DEF ProgramOf

LEMMA ProcessSame ==
  ASSUME KernelInv, NEW c, NEW pid
  PROVE  Process(c, pid) = ProcessOf(tasks, c, pid)
  BY ListedRange DEF KernelInv, Process, ProcessOf

LEMMA AssignKeeps ==
  ASSUME ProcTimesAssumption, ProcTestsAssumption, KernelInv, CallInv, prog \in [Caller -> Programs], ProgInv,
         NEW c \in Caller, Assign(c)
  PROVE  ProgInv'
  <1> DEFINE g == prog[c]
             h == prog'[c]
             p == Process(c, g.args[1])
  <1>1. ProgramOf(tasks, fields, time, c, g, call[c], pl[c], ret[c]) /\ g.line = 1 /\ g.name # "any"
        /\ call[c].pc = "idle" /\ call[c] \in Calls
    BY CallTyped DEF ProgInv, Assign, Runs
  <1>2. /\ \A d \in Caller \ {c} : /\ prog'[d].line = prog[d].line /\ prog'[d].name = prog[d].name
                                   /\ ~prog'[d].calm /\ prog'[d].args = prog[d].args
        /\ h.line = 2 /\ h.name = g.name /\ h.args = g.args
    <2>1. Sets(c, 2, TRUE)
      BY ZenonT(30) DEF Assign
    <2>2. 2 \in 1 .. 9 /\ TRUE \in BOOLEAN
      OBVIOUS
    <2> QED  BY <2>1, <2>2, Disturbing
  <1>3. pl[c] = << >> /\ (g.name = "test1" => g.args[2] = 10)
    BY <1>1 DEF ProgramOf
  <1>4. call \in [Caller -> Calls] /\ pl \in [Caller -> Answers] /\ ret \in [Caller -> Codes]
    BY DEF CallInv, CallTypes
  <1>5. CASE Fails(c)
    <2>1. PICK e \in Codes \ {0} : ret' = [ret EXCEPT ![c] = e]
      BY <1>5 DEF Fails
    <2>2. UNCHANGED <<tasks, fields, time, call, pl>> /\ ret'[c] = e /\ e # 0 /\ \A d \in Caller \ {c} : ret'[d] = ret[d]
      BY <1>4, <1>5, <2>1 DEF Fails, kernel
    <2>3. ProgramOf(tasks, fields, time, c, h, call[c], pl[c], e)
      BY <1>1, <1>2, <2>2, ProgramFails DEF Begun
    <2>4. ProgramOf(tasks', fields', time', c, prog'[c], call'[c], pl'[c], ret'[c])
      BY <2>2, <2>3
    <2> QED  BY <1>2, <2>2, <2>4, OwnStep
  <1>6. CASE /\ UNCHANGED <<tasks, parent, gone, time, pl>> /\ Disturbed
             /\ p \in Listed /\ Set(p, g.args[2], g.args[3])
             /\ ret' = [ret EXCEPT ![c] = 0]
    <2>1. \A d \in Caller : call'[d].pc = call[d].pc
      BY <1>6, DisturbedCalls
    <2>2. ret'[c] = 0 /\ \A d \in Caller \ {c} : ret'[d] = ret[d]
      BY <1>4, <1>6
    <2>3. fields'[p] = <<p, g.args[2], g.args[3]>>
      <3>1. g.args \in Int \X Int \X Int
        BY DEF Programs
      <3>2. g.args[2] \in Int /\ g.args[3] \in Int
        BY <3>1
      <3> HIDE DEF p
      <3> QED  BY <1>6, <3>2, SetFields
    <2>4. p = ProcessOf(tasks, c, h.args[1]) /\ p \in Range(tasks)
      BY <1>2, <1>6, ProcessSame, ListedRange DEF KernelInv
    <2> HIDE DEF p
    <2>5. ~Begun(call'[c])
      BY <1>1, <2>1 DEF Begun
    <2>6. OwnLimits(tasks', fields', time', p, h, call'[c], pl'[c])
      <3>1. tasks' = tasks /\ pl'[c] = << >>
        BY <1>3, <1>6
      <3> QED  BY <1>2, <2>3, <2>4, <2>5, <3>1 DEF OwnLimits
    <2>7. ProcessOf(tasks', c, h.args[1]) = p
      BY <1>6, <2>4
    <2>8. ProgramOf(tasks', fields', time', c, prog'[c], call'[c], pl'[c], ret'[c])
      BY <1>1, <1>2, <1>3, <2>5, <2>6, <2>7 DEF ProgramOf
    <2> QED  BY <1>2, <1>6, <2>1, <2>2, <2>8, OwnStep
  <1> QED
    BY <1>3, <1>5, <1>6, AssignEffect

LEMMA GetKeeps ==
  ASSUME ProcTimesAssumption, ProcTestsAssumption, KernelInv, CallInv, prog \in [Caller -> Programs], ProgInv,
         NEW c \in Caller, Get(c)
  PROVE  ProgInv'
  <1> DEFINE g == prog[c]
             h == prog'[c]
             p == Process(c, g.args[1])
             r == Beginning(p, "writable", [s \in Listed |-> time[s]])
  <1>1. /\ ProgramOf(tasks, fields, time, c, g, call[c], pl[c], ret[c]) /\ g.line \in {2, 4, 6} /\ g.name # "any"
        /\ call[c].pc = "idle" /\ ret[c] = 0
    BY DEF ProgInv, Get, Runs, Failed
  <1>2. /\ \A d \in Caller \ {c} : prog'[d] = prog[d]
        /\ h.line \in {3, 5, 7} /\ h.name = g.name /\ h.args = g.args /\ h.calm = g.calm
    <2>1. Goes(c, g.line + 1)
      BY DEF Get
    <2>2. g.line + 1 \in 1 .. 9 /\ g.line + 1 \in {3, 5, 7}
      BY <1>1
    <2> QED  BY <2>1, <2>2, GoesOn
  <1>3. call \in [Caller -> Calls] /\ pl \in [Caller -> Answers] /\ ret \in [Caller -> Codes]
    BY DEF CallInv, CallTypes
  <1>4. CASE Fails(c)
    <2>1. PICK e \in Codes \ {0} : ret' = [ret EXCEPT ![c] = e]
      BY <1>4 DEF Fails
    <2>2. UNCHANGED <<tasks, fields, time, call, pl>> /\ ret'[c] = e /\ e # 0 /\ \A d \in Caller \ {c} : ret'[d] = ret[d]
      BY <1>3, <1>4, <2>1 DEF Fails, kernel
    <2>3. ProgramOf(tasks, fields, time, c, h, call[c], pl[c], e)
      <3>1. ~Begun(call[c]) /\ h.line # 1
        BY <1>1, <1>2 DEF Begun
      <3> QED  BY <1>1, <1>2, <2>2, <3>1, ProgramFails
    <2>4. ProgramOf(tasks', fields', time', c, prog'[c], call'[c], pl'[c], ret'[c])
      BY <2>2, <2>3
    <2> QED  BY <1>2, <2>2, <2>4, OwnStep
  <1>5. CASE UNCHANGED <<kernel, pl, ret>> /\ p \in Listed /\ Moves(c, r)
    <2>1. r \in Calls /\ r.pc = "read" /\ r.task = p /\ r.pointer = "writable"
          /\ r.before = [s \in Listed |-> time[s]] /\ r.before # << >>
      BY <1>5, BeginningTypes
    <2> HIDE DEF r
    <2>2. call'[c] = r /\ \A d \in Caller \ {c} : call'[d] = call[d]
      BY <1>3, <1>5 DEF Moves
    <2>3. p = ProcessOf(tasks, c, g.args[1]) /\ p \in Range(tasks)
      BY <1>5, ProcessSame, ListedRange DEF KernelInv
    <2> HIDE DEF p
    <2>4. ASSUME g.calm
          PROVE  OwnLimits(tasks, fields, time, p, h, r, pl[c])
      <3> DEFINE family == FamilyOf(tasks, fields, p)
                 first == FirstOf(r.before)
                 answer == pl[c]
                 a == SumFunctionOnSet(time, family)
                 b == SumFunctionOnSet(first, family)
      <3>1. OwnLimits(tasks, fields, time, p, g, call[c], answer)
        BY <1>1, <2>3, <2>4 DEF ProgramOf
      <3>2. IsFiniteSet(family) /\ family \subseteq Listed /\ Listed \subseteq Task
        BY PassedFinite, ListedRange DEF KernelInv
      <3>3. \A t \in family : first[t] = time[t] /\ time[t] \in Nat
        <4>1. \A t \in Listed : first[t] = time[t]
          BY <2>1, <3>2 DEF FirstOf
        <4>2. \A t \in Task : time[t] \in Nat
          BY FieldTypes
        <4> QED  BY <3>2, <4>1, <4>2
      <3> HIDE DEF family, first
      <3>4. a <= b /\ a \in Nat /\ b \in Nat
        <4>1. \A t \in family : time[t] \in Nat /\ first[t] \in Nat
          BY <3>3
        <4>2. \A t \in family : time[t] <= first[t]
          <5> TAKE t \in family
          <5>1. first[t] = time[t] /\ time[t] \in Nat
            BY <3>3
          <5> QED  BY <5>1
        <4> QED  BY <3>2, <4>1, <4>2, SumMonotone, SumNat
      <3>5. answer # << >> => answer.total_cpu_time <= b
        <4> SUFFICES ASSUME answer # << >>  PROVE answer.total_cpu_time <= b
          OBVIOUS
        <4> DEFINE total == answer.total_cpu_time
        <4>1. total \in Nat
          BY <1>3, AnswerTotal
        <4>2. total <= a
          BY <3>1 DEF OwnLimits, family
        <4> HIDE DEF total, a, b
        <4> QED  BY <3>4, <4>1, <4>2 DEF total
      <3> QED  BY <1>2, <2>1, <3>1, <3>5 DEF OwnLimits, family, first
    <2>5. ProgramOf(tasks, fields, time, c, h, r, pl[c], ret[c])
      BY <1>1, <1>2, <2>3, <2>4 DEF ProgramOf
    <2>6. UNCHANGED <<tasks, fields, time, pl, ret>>
      BY <1>5 DEF kernel
    <2>7. ProgramOf(tasks', fields', time', c, prog'[c], call'[c], pl'[c], ret'[c])
      BY <2>2, <2>5, <2>6
    <2> QED  BY <1>2, <2>2, <2>6, <2>7, OwnStep
  <1> QED
    BY <1>4, <1>5, GetEffect

LEMMA LocalKeeps ==
  ASSUME prog \in [Caller -> Programs], ProgInv, NEW c \in Caller, Refuse(c) \/ printProcLimit(c) \/ GiveUp(c)
  PROVE  ProgInv'
  <1> DEFINE g == prog[c]
             h == prog'[c]
  <1>1. /\ ProgramOf(tasks, fields, time, c, g, call[c], pl[c], ret[c]) /\ g.name # "any"
        /\ call[c].pc = "idle" /\ UNCHANGED vars
    BY DEF ProgInv, Refuse, printProcLimit, GiveUp, Printing, Runs
  <1>2. UNCHANGED <<tasks, fields, time, call, pl, ret>>
    BY <1>1 DEF vars, kernel
  <1>3. /\ \A d \in Caller \ {c} : prog'[d] = prog[d]
        /\ h.line \in {4, 6, 8, 9} /\ h.name = g.name /\ h.args = g.args /\ h.calm = g.calm
    <2>1. CASE Refuse(c) \/ GiveUp(c)
      <3>1. Goes(c, 9) /\ 9 \in 1 .. 9
        BY <2>1 DEF Refuse, GiveUp, Exited
      <3> QED  BY <3>1, GoesOn
    <2>2. CASE printProcLimit(c)
      <3>1. Goes(c, g.line + 1) /\ g.line \in {3, 5, 7}
        BY <2>2 DEF printProcLimit, Printing
      <3>2. g.line + 1 \in 1 .. 9 /\ g.line + 1 \in {4, 6, 8, 9}
        BY <3>1
      <3> QED  BY <3>1, <3>2, GoesOn
    <2> QED  BY <2>1, <2>2
  <1>4. ~Begun(call[c])
    BY <1>1 DEF Begun
  <1>5. ASSUME NEW p, OwnLimits(tasks, fields, time, p, g, call[c], pl[c])
        PROVE  OwnLimits(tasks, fields, time, p, h, call[c], pl[c])
    BY <1>3, <1>5 DEF OwnLimits
  <1>6. ProgramOf(tasks, fields, time, c, h, call[c], pl[c], ret[c])
    BY <1>1, <1>3, <1>4, <1>5 DEF ProgramOf
  <1>7. ProgramOf(tasks', fields', time', c, prog'[c], call'[c], pl'[c], ret'[c])
    BY <1>2, <1>6
  <1> QED
    BY <1>2, <1>3, <1>7, OwnStep

LEMMA WalkEffect ==
  ASSUME ProcTimesAssumption, KernelInv, CallInv, NEW c \in Caller, Walk(c)
  PROVE  /\ Begun(call[c]) /\ UNCHANGED kernel
         /\ \/ CopyOut(c)
            \/ /\ UNCHANGED <<pl, ret>>
               /\ \E q : /\ Moves(c, q) /\ q.pc # "idle"
                         /\ Begun(q) => /\ q.task = call[c].task /\ q.pointer = call[c].pointer
                                        /\ q.before = call[c].before
  <1> DEFINE r == call[c]
             Same(q) == /\ q.pc # "idle"
                        /\ Begun(q) => q.task = r.task /\ q.pointer = r.pointer /\ q.before = r.before
  <1>1. r \in Calls /\ CallOf(Known, r) /\ Len(r.temp) \in Nat
    BY CallTyped
  <1>2. Begun(r) /\ UNCHANGED kernel
    BY DEF Walk, Read, ReadAll, Visit, CopyOut, Begun
  <1>3. CASE CopyOut(c)
    BY <1>2, <1>3
  <1>4. UNCHANGED <<pl, ret>> \/ CopyOut(c)
    BY DEF Walk, Read, ReadAll, Visit
  <1>5. Same(Astray)
    BY IdleTypes
  <1>6. CASE Read(c)
    <2> DEFINE m == Len(r.temp)
               n == m + 1
               v == IF n <= 3 THEN fields[r.task][n] ELSE time[r.task]
               q == WithField(r, v)
    <2>1. r.pc = "read"
      BY <1>6, ReadStep
    <2>2. /\ q.pc = r.pc /\ q.task = r.task /\ q.pointer = r.pointer /\ q.before = r.before
      BY <1>1 DEF WithField, Calls
    <2>3. Same(q)
      BY <2>1, <2>2
    <2>4. Moves(c, Astray) \/ Moves(c, q)
      BY <1>6, ReadStep
    <2> HIDE DEF q, r
    <2>5. \E x : Moves(c, x) /\ Same(x)
      BY <1>5, <2>3, <2>4
    <2> QED  BY <1>2, <1>4, <2>5 DEF r
  <1>7. CASE ReadAll(c)
    <2> DEFINE q == WithoutFamily(r)
               s == AtFirst(r, Head(tasks))
    <2>1. q.pc = "visit" /\ q.task = r.task /\ q.pointer = r.pointer /\ q.before = r.before
      BY <1>1 DEF WithoutFamily, Calls
    <2>2. s.pc = "visit" /\ s.task = r.task /\ s.pointer = r.pointer /\ s.before = r.before
      BY <1>1 DEF AtFirst, Calls
    <2>3. Same(q) /\ Same(s)
      BY <2>1, <2>2
    <2>4. Moves(c, q) \/ Moves(c, s)
      BY <1>7, ReadAllStep
    <2> HIDE DEF q, s, r
    <2>5. \E x : Moves(c, x) /\ Same(x)
      BY <2>3, <2>4
    <2> QED  BY <1>2, <1>4, <2>5 DEF r
  <1>8. CASE Visit(c)
    <2> DEFINE t == r.at
               member == (fields[t][1] = r.temp[1])
               q == PastTask(r, member, time[t], next_task(t))
    <2>1. r.pc = "visit"
      BY <1>8, VisitStep
    <2>2. CASE /\ Moves(c, q) /\ t \in Listed /\ next_task(t) \in Listed \cup {AtHead}
               /\ time[t] \in 0 .. MaxTime
      <3> DEFINE i == time[t]
                 next == next_task(t)
      <3>1. member \in BOOLEAN /\ next \in (Known \cap Task) \cup {AtHead} /\ i \in 0 .. MaxTime
        BY <2>2, TaskKnown
      <3> HIDE DEF member, i, next, r
      <3>2. LET x == PastTask(r, member, i, next)
            IN  x.pc = "visit" /\ x.task = r.task /\ x.pointer = r.pointer /\ x.before = r.before
        BY <1>1, <2>1, <3>1, TaskPassed
      <3>3. Same(q)
        BY <3>2 DEF i, next
      <3> HIDE DEF q
      <3>4. \E x : Moves(c, x) /\ Same(x)
        BY <2>2, <3>3
      <3> QED  BY <1>2, <1>4, <3>4 DEF r
    <2>3. CASE Moves(c, Astray)
      <3> HIDE DEF r
      <3>1. \E x : Moves(c, x) /\ Same(x)
        BY <1>5, <2>3
      <3> QED  BY <1>2, <1>4, <3>1 DEF r
    <2> QED  BY <1>8, <2>2, <2>3, VisitStep
  <1> QED
    BY <1>3, <1>6, <1>7, <1>8 DEF Walk

LEMMA ProgramWalks ==
  ASSUME NEW list, NEW fl, NEW tm, NEW c, NEW g, NEW r, NEW answer, NEW result,
         ProgramOf(list, fl, tm, c, g, r, answer, result), Begun(r),
         NEW q, q.pc # "idle", Begun(q) => q.task = r.task /\ q.pointer = r.pointer /\ q.before = r.before
  PROVE  ProgramOf(list, fl, tm, c, g, q, answer, result)
  <1>1. r.pc # "idle"
    BY DEF Begun
  <1>2. ASSUME NEW p, OwnLimits(list, fl, tm, p, g, r, answer)
        PROVE  OwnLimits(list, fl, tm, p, g, q, answer)
    BY <1>2 DEF OwnLimits
  <1> QED
    BY <1>1, <1>2 DEF ProgramOf

LEMMA WalkKeeps ==
  ASSUME ProcTimesAssumption, KernelInv, CallInv, CalmInv, prog \in [Caller -> Programs], ProgInv,
         NEW c \in Caller, Walk(c), UNCHANGED prog
  PROVE  ProgInv'
  <1> DEFINE g == prog[c]
             r == call[c]
  <1>1. ProgramOf(tasks, fields, time, c, g, r, pl[c], ret[c]) /\ Begun(r) /\ UNCHANGED kernel
    BY WalkEffect DEF ProgInv
  <1>2. call \in [Caller -> Calls] /\ pl \in [Caller -> Answers] /\ ret \in [Caller -> Codes]
    BY DEF CallInv, CallTypes
  <1>3. UNCHANGED <<tasks, fields, time>>
    BY <1>1 DEF kernel
  <1>4. CASE /\ UNCHANGED <<pl, ret>>
             /\ \E q : /\ Moves(c, q) /\ q.pc # "idle"
                       /\ Begun(q) => q.task = r.task /\ q.pointer = r.pointer /\ q.before = r.before
    <2>1. PICK q : /\ Moves(c, q) /\ q.pc # "idle"
                   /\ Begun(q) => q.task = r.task /\ q.pointer = r.pointer /\ q.before = r.before
      BY <1>4
    <2>2. call'[c] = q /\ \A d \in Caller \ {c} : call'[d] = call[d]
      BY <1>2, <2>1 DEF Moves
    <2> HIDE DEF r
    <2>3. ProgramOf(tasks, fields, time, c, g, q, pl[c], ret[c])
      BY <1>1, <2>1, ProgramWalks
    <2>4. ProgramOf(tasks', fields', time', c, prog'[c], call'[c], pl'[c], ret'[c])
      BY <1>3, <1>4, <2>2, <2>3
    <2> QED  BY <1>3, <1>4, <2>2, <2>4, OwnStep
  <1>5. CASE CopyOut(c)
    <2>1. r.pc = "visit" /\ r.at = AtHead /\ call'[c] = Idle /\ \A d \in Caller \ {c} : call'[d] = call[d]
      BY <1>2, <1>5, CopyOutStep DEF Moves
    <2>2. \A d \in Caller \ {c} : pl'[d] = pl[d] /\ ret'[d] = ret[d]
      BY <1>2, <1>5, CopyOutStep
    <2>3. ~Begun(Idle)
      BY IdleTypes
    <2>4. CASE ~g.calm
      <3>1. g.line = 1 => g.name = "any"
        BY <1>1, <2>1 DEF ProgramOf
      <3>2. ProgramOf(tasks, fields, time, c, g, Idle, pl'[c], ret'[c])
        BY <1>1, <2>3, <2>4, <3>1 DEF ProgramOf
      <3>3. ProgramOf(tasks', fields', time', c, prog'[c], call'[c], pl'[c], ret'[c])
        BY <1>3, <2>1, <3>2
      <3> QED  BY <1>3, <2>1, <2>2, <3>3, OwnStep
    <2>5. CASE g.calm
      <3> DEFINE p == ProcessOf(tasks, c, g.args[1])
                 answer == Temp(c)
      <3>1. g.name # "any" /\ ret[c] = 0 /\ g.line # 1
        BY <1>1, <2>5 DEF ProgramOf
      <3>2. OwnLimits(tasks, fields, time, p, g, r, pl[c])
        BY <1>1, <2>5, <3>1 DEF ProgramOf
      <3>3. p \in Range(tasks) /\ r.pointer = "writable" /\ r.before # << >>
        BY <1>1, <3>2 DEF OwnLimits
      <3>4. pl'[c] = answer /\ ret'[c] = 0
        BY <1>2, <1>5, <3>3, CopyOutStep
      <3>5. p \in Task /\ tasks \in Seq(Task) /\ Distinct(tasks)
        BY <3>3, RangeOfSeq DEF KernelInv
      <3>6. CalmCall(tasks, fields, time, r)
        BY <1>1, <3>3 DEF CalmInv, Calm
      <3>7. r \in Calls /\ Len(r.temp) = 5
        BY <2>1, CallTyped DEF CallOf
      <3>8. answer = [root_pid |-> r.temp[1], time_limit |-> r.temp[2], time_interval |-> r.temp[3],
                      total_cpu_time |-> r.sum, max_cpu_time |-> r.temp[5], min_cpu_time |-> r.temp[4]]
        BY DEF Temp
      <3>9. \A t \in Task : time[t] \in Nat
        BY FieldTypes
      <3> HIDE DEF p, answer, r, g
      <3>10. OwnLimits(tasks, fields, time, p, g, Idle, answer)
        BY <2>1, <3>2, <3>5, <3>6, <3>7, <3>8, <3>9, LimitsCopied
      <3>11. ProgramOf(tasks, fields, time, c, g, Idle, answer, 0)
        BY <1>1, <2>3, <3>1, <3>10 DEF ProgramOf, p
      <3>12. ProgramOf(tasks', fields', time', c, prog'[c], call'[c], pl'[c], ret'[c])
        BY <1>3, <2>1, <3>4, <3>11 DEF g
      <3> QED  BY <1>3, <2>1, <2>2, <3>12, OwnStep
    <2>6. g.calm \in BOOLEAN
      BY DEF Programs
    <2> QED  BY <2>4, <2>5, <2>6
  <1> QED
    BY <1>4, <1>5, WalkEffect

LEMMA AnyKeeps ==
  ASSUME ProcTimesAssumption, KernelInv, CallInv, prog \in [Caller -> Programs], ProgInv,
         NEW c \in Caller, AnyCall(c)
  PROVE  ProgInv'
  <1>1. prog[c].name = "any" /\ Sets(c, 2, FALSE)
    BY ZenonT(30) DEF AnyCall
  <1>2. /\ \A d \in Caller \ {c} : /\ prog'[d].line = prog[d].line /\ prog'[d].name = prog[d].name
                                   /\ ~prog'[d].calm /\ prog'[d].args = prog[d].args
        /\ prog'[c].line = 2 /\ prog'[c].name = prog[c].name /\ ~prog'[c].calm
    <2>1. 2 \in 1 .. 9 /\ FALSE \in BOOLEAN
      OBVIOUS
    <2> QED  BY <1>1, <2>1, Disturbing
  <1>3. UNCHANGED pl /\ \A d \in Caller \ {c} : call'[d].pc = call[d].pc /\ ret'[d] = ret[d]
    <2>1. PICK pid \in Task \cup {-2, -1, 0} :
       \/ \E l \in Limits \cup {<<11, 10>>} : syscall(c, NR_setproclimit, pid, l[1], l[2])
       \/ \E word \in {0, 1, -1, ReadOnly, procLimitFields} : syscall(c, NR_getproclimit, pid, word, 0)
       \/ syscall(c, NR_syscalls, pid, 0, 0)
      BY DEF AnyCall
    <2>2. pid \in Int /\ 0 \in Int
      BY DEF ProcTimesAssumption
    <2>3. \A l \in Limits \cup {<<11, 10>>} : l[1] \in Int /\ l[2] \in Int
      <3>1. \A l \in Limits \cup {<<11, 10>>} : l \in Int \X Int
        BY DEF ProcTimesAssumption
      <3> QED  BY <3>1
    <2>4. {0, 1, -1, ReadOnly, procLimitFields} \subseteq Int
      BY DEF ReadOnly, procLimitFields
    <2> QED  BY <2>1, <2>2, <2>3, <2>4, OneCall
  <1>4. ProgramOf(tasks', fields', time', c, prog'[c], call'[c], pl'[c], ret'[c])
    BY <1>1, <1>2 DEF ProgramOf
  <1> QED
    BY <1>2, <1>3, <1>4, OwnStep

LEMMA ElsewhereKeeps ==
  ASSUME ProcTimesAssumption, KernelInv, CallInv, prog \in [Caller -> Programs], ProgInv,
         NEW t \in Task, Interfere(t) \/ ((Run(t) \/ Fork(t)) /\ UNCHANGED prog)
  PROVE  ProgInv'
  <1>1. \A c \in Caller : ProgramOf(tasks, fields, time, c, prog[c], call[c], pl[c], ret[c])
    BY DEF ProgInv
  <1>2. tasks \in Seq(Task) /\ Distinct(tasks) /\ Listed = Range(tasks) /\ \A s \in Task : time[s] \in Nat
    BY ListedRange, FieldTypes DEF KernelInv
  <1>3. \A c \in Caller : call[c] \in Calls /\ pl[c] \in Answers
    BY CallTyped DEF CallInv, CallTypes
  <1>4. CASE Interfere(t)
    <2>1. /\ \A c \in Caller : /\ prog'[c].line = prog[c].line /\ prog'[c].name = prog[c].name
                               /\ ~prog'[c].calm /\ prog'[c].args = prog[c].args
      BY <1>4, InterfereCalms
    <2>2. Disturbed /\ UNCHANGED <<pl, ret>>
      BY <1>4 DEF Interfere, Release, Regroup
    <2>3. \A c \in Caller : call'[c].pc = call[c].pc
      BY <2>2, DisturbedCalls
    <2>4. \A c \in Caller : ProgramOf(tasks', fields', time', c, prog'[c], call'[c], pl[c], ret[c])
      BY <1>1, <2>1, <2>3, ProgramDisturbed
    <2> QED  BY <2>2, <2>4 DEF ProgInv
  <1>5. CASE Run(t) /\ UNCHANGED prog
    <2>1. KernelInv' /\ UNCHANGED <<tasks, fields, call, pl, ret>> /\ \A s \in Task : time[s] <= time'[s]
      BY <1>5, RunKernel
    <2>2. \A s \in Task : time'[s] \in 0 .. MaxTime
      BY <2>1 DEF KernelInv
    <2>3. \A s \in Task : time[s] \in Nat /\ time'[s] \in Nat /\ time[s] <= time'[s]
      BY <1>2, <2>1, <2>2 DEF ProcTimesAssumption
    <2>4. \A c \in Caller : ProgramOf(tasks, fields, time', c, prog[c], call[c], pl[c], ret[c])
      BY <1>1, <1>2, <1>3, <2>3, ProgramLater
    <2> QED  BY <1>5, <2>1, <2>4 DEF ProgInv
  <1>6. CASE Fork(t) /\ UNCHANGED prog
    <2>1. PICK n \in Task \ (Listed \cup gone) :
            /\ tasks' = Append(tasks, n)
            /\ \A s \in Task \ {n} : fields'[s] = fields[s]
      BY <1>6, ForkKernel
    <2>2. n \in Task /\ n \notin Range(tasks) /\ \A s \in Range(tasks) : fields'[s] = fields[s]
      BY <1>2, <2>1, ListedRange
    <2>3. UNCHANGED <<call, time, pl, ret>>
      BY <1>6 DEF Fork
    <2> DEFINE long == Append(tasks, n)
    <2>4. long \in Seq(Task) /\ Range(long) = Range(tasks) \cup {n} /\ Distinct(long)
      BY <1>2, <2>2, AppendList
    <2> HIDE DEF long
    <2>5. \A s \in Task : time[s] \in Nat /\ time[s] <= time[s]
      <3> TAKE s \in Task
      <3>1. time[s] \in Nat
        BY <1>2
      <3> QED  BY <3>1
    <2>6. Range(tasks) \subseteq Range(long)
      BY <2>4
    <2>7. \A c \in Caller : ProgramOf(long, fields', time, c, prog[c], call[c], pl[c], ret[c])
      BY <1>1, <1>2, <1>3, <2>2, <2>4, <2>5, <2>6, ProgramLater
    <2>8. \A c \in Caller : ProgramOf(tasks', fields', time', c, prog'[c], call'[c], pl'[c], ret'[c])
      BY <1>6, <2>1, <2>3, <2>7 DEF long
    <2> QED  BY <2>8 DEF ProgInv
  <1> QED
    BY <1>4, <1>5, <1>6

LEMMA TestsInvariant == TestsSpec => []TestsInv
  <1>1. TestsInit => TestsInv
    BY InitTimes, InitPrograms, InitProgInv, ProcTimesAssumption, ProcTestsAssumption DEF TestsInit, TestsInv
  <1>2. TestsInv /\ [TestsNext]_allVars => TestsInv'
    <2> SUFFICES ASSUME TestsInv, TestsNext \/ UNCHANGED allVars
                 PROVE  TestsInv'
      OBVIOUS
    <2>1. KernelInv /\ CallInv /\ CalmInv /\ prog \in [Caller -> Programs] /\ ProgInv
      BY DEF TestsInv, TimesInv
    <2>2. TimesStep
      BY <2>1, StepsOfTests, ProcTimesAssumption DEF TimesStep, allVars
    <2>3. TimesInv'
      BY <2>1, <2>2, KernelInvariance, CallInvariance, CalmInvariance, ProcTimesAssumption DEF TimesInv
    <2>4. (prog \in [Caller -> Programs])'
      BY <2>1, ProgramTypes
    <2>5. ASSUME NEW c \in Caller, Step(c)
          PROVE  ProgInv'
      BY <2>1, <2>5, AssignKeeps, GetKeeps, LocalKeeps, ProcTimesAssumption, ProcTestsAssumption DEF Step
    <2>6. ASSUME UNCHANGED allVars
          PROVE  ProgInv'
      <3>1. UNCHANGED <<tasks, fields, time, prog, call, pl, ret>>
        BY <2>6 DEF allVars, vars, kernel
      <3> QED  BY <2>1, <3>1 DEF ProgInv
    <2>7. ProgInv'
      BY <2>1, <2>5, <2>6, AnyKeeps, WalkKeeps, ElsewhereKeeps, ProcTimesAssumption DEF TestsNext
    <2> QED  BY <2>3, <2>4, <2>7 DEF TestsInv
  <1> QED
    BY <1>1, <1>2, PTL DEF TestsSpec

(* What test1 and test3 print are the limits they have set themselves,     *)
(* with the process they named as root, as long as nobody else interferes, *)
(* whichever system call numbers they are compiled with.                   *)
THEOREM PrintsOwnLimits == TestsSpec => []ReadsBack
  <1>1. TestsInv => ReadsBack
    <2> SUFFICES ASSUME TestsInv, NEW c \in Caller, Printing(c), prog[c].calm
                 PROVE  <<pl[c].root_pid, pl[c].time_limit, pl[c].time_interval>> =
                          <<Process(c, prog[c].args[1]), prog[c].args[2], prog[c].args[3]>>
      BY DEF ReadsBack
    <2> DEFINE p == ProcessOf(tasks, c, prog[c].args[1])
    <2>1. ret[c] = 0 /\ prog[c].line \in {3, 5, 7} /\ call[c].pc = "idle"
      BY DEF Printing, Runs, Failed
    <2>2. OwnLimits(tasks, fields, time, p, prog[c], call[c], pl[c])
      BY <2>1 DEF TestsInv, ProgInv, ProgramOf
    <2>3. <<pl[c].root_pid, pl[c].time_limit, pl[c].time_interval>> = <<p, prog[c].args[2], prog[c].args[3]>>
      BY <2>1, <2>2 DEF OwnLimits
    <2>4. Process(c, prog[c].args[1]) = p
      BY ProcessSame DEF TestsInv, TimesInv
    <2> QED  BY <2>3, <2>4
  <1> QED
    BY <1>1, TestsInvariant, PTL

LEMMA StepGrowing ==
  ASSUME ProcTimesAssumption, TestsInv, TimesStep, NEW c \in Caller, pl[c] # << >>, pl'[c] # pl[c], prog[c].calm,
         SumFunctionOnSet(time, Members(Process(c, prog[c].args[1]))) < ULong, Walk(c)
  PROVE  pl[c].total_cpu_time <= pl'[c].total_cpu_time
  <1> DEFINE g == prog[c]
             r == call[c]
             p == ProcessOf(tasks, c, g.args[1])
             family == FamilyOf(tasks, fields, p)
             first == First(c)
             a == SumFunctionOnSet(first, family)
             b == SumFunctionOnSet(time, family)
             total == pl[c].total_cpu_time
  <1>1. KernelInv /\ CallInv /\ CalmInv /\ TimesInv
    BY DEF TestsInv, TimesInv
  <1>2. ProgramOf(tasks, fields, time, c, g, r, pl[c], ret[c])
    BY DEF TestsInv, ProgInv
  <1>3. Begun(r) /\ CopyOut(c)
    BY <1>1, WalkEffect
  <1>4. g.name # "any" /\ ret[c] = 0
    BY <1>2, <1>3 DEF ProgramOf
  <1>5. OwnLimits(tasks, fields, time, p, g, r, pl[c])
    BY <1>2, <1>4 DEF ProgramOf
  <1>6. p \in Range(tasks) /\ fields[p][1] = p /\ r.task = p /\ r.pointer = "writable" /\ r.before # << >>
        /\ total <= SumFunctionOnSet(FirstOf(r.before), family)
    BY <1>3, <1>5 DEF OwnLimits
  <1>7. r.pc = "visit" /\ pl' = [pl EXCEPT ![c] = Temp(c)] /\ call' = [call EXCEPT ![c] = Idle]
    BY <1>3, <1>6 DEF CopyOut
  <1>8. Returning(c) /\ Calm(c)
    <2>1. call \in [Caller -> Calls]
      BY <1>1 DEF CallInv, CallTypes
    <2>2. call'[c] = Idle
      BY <1>7, <2>1
    <2>3. Idle.pc = "idle"
      BY IdleTypes
    <2> QED  BY <1>6, <1>7, <2>2, <2>3 DEF Returning, Calm
  <1>9. r.temp[1] = p /\ p \in Task /\ p # -1
    <2>1. CalmCall(tasks, fields, time, r) /\ Len(r.temp) = 5
      BY <1>1, <1>3, <1>7, <1>8, CallTyped DEF CalmInv, CallOf
    <2>2. 1 \in 1 .. 3 /\ 1 <= 5
      OBVIOUS
    <2>3. r.temp[1] = fields[r.task][1]
      BY <2>1, <2>2 DEF CalmCall, ReadOf
    <2>4. p \in Task
      BY <1>1, <1>6, RangeOfSeq DEF KernelInv
    <2> QED  BY <1>6, <2>3, <2>4 DEF ProcTimesAssumption
  <1>10. Members(p) = family /\ Process(c, g.args[1]) = p /\ First(c) = FirstOf(r.before)
    BY <1>1, FamilyMembers, ProcessSame DEF KernelInv, First, FirstOf
  <1>11. Summed(family, time, first, r.sum) /\ a \in Nat /\ b \in Nat
    <2>1. /\ Summed(Members(r.temp[1]), time, First(c), r.sum)
          /\ IsFiniteSet(Members(r.temp[1])) /\ Members(r.temp[1]) \subseteq Task
          /\ \A t \in Task : First(c)[t] \in Nat /\ time[t] \in Nat
      BY <1>1, <1>8, <1>9, CalmReturn
    <2>2. Summed(family, time, first, r.sum) /\ IsFiniteSet(family) /\ family \subseteq Task
          /\ \A t \in Task : first[t] \in Nat /\ time[t] \in Nat
      BY <1>9, <1>10, <2>1
    <2> HIDE DEF family, first
    <2>3. \A t \in family : first[t] \in Nat /\ time[t] \in Nat
      BY <2>2
    <2> QED  BY <2>2, <2>3, SummedTypes
  <1>12. b < ULong /\ total <= a
    BY <1>6, <1>10
  <1>13. total \in Nat
    <2>1. pl[c] \in Answers
      BY <1>1 DEF CallInv, CallTypes
    <2> QED  BY <2>1, AnswerTotal
  <1>14. pl'[c].total_cpu_time = r.sum
    <2>1. pl \in [Caller -> Answers]
      BY <1>1 DEF CallInv, CallTypes
    <2>2. pl'[c] = Temp(c)
      BY <1>7, <2>1
    <2> QED  BY <2>2 DEF Temp
  <1>15. PICK s \in a .. b : r.sum = s % ULong
    BY <1>11 DEF Summed
  <1>16. total <= s % ULong
    <2> HIDE DEF a, b, total
    <2>1. s \in Nat /\ a <= s /\ s < ULong /\ ULong \in Nat /\ ULong > 0
      BY <1>11, <1>12, <1>15 DEF ProcTimesAssumption
    <2>2. s % ULong = s
      BY <2>1, ModSmall
    <2> QED  BY <1>11, <1>12, <1>13, <2>1, <2>2
  <1> QED
    BY <1>14, <1>15, <1>16

(* A total that test1 gets is not less than the one before, while the      *)
(* family has used less time than an unsigned long holds.                  *)
THEOREM TotalsGrow == TestsSpec => Growing
  <1> DEFINE Grows(c) ==
        /\ pl[c] # << >> /\ pl'[c] # pl[c] /\ prog[c].calm
        /\ SumFunctionOnSet(time, Members(Process(c, prog[c].args[1]))) < ULong
        => pl[c].total_cpu_time <= pl'[c].total_cpu_time
  <1>1. TestsInv /\ [TestsNext]_allVars => [\A c \in Caller : Grows(c)]_allVars
    <2> SUFFICES ASSUME TestsInv, TestsNext, NEW c \in Caller, pl[c] # << >>, pl'[c] # pl[c], prog[c].calm,
                        SumFunctionOnSet(time, Members(Process(c, prog[c].args[1]))) < ULong
                 PROVE  pl[c].total_cpu_time <= pl'[c].total_cpu_time
      OBVIOUS
    <2>1. KernelInv /\ CallInv /\ prog \in [Caller -> Programs] /\ pl \in [Caller -> Answers]
      BY DEF TestsInv, TimesInv, CallInv, CallTypes
    <2>2. TimesStep
      BY <2>1, StepsOfTests, ProcTimesAssumption
    <2>3. Walk(c)
      <3>1. \A d \in Caller : Step(d) \/ AnyCall(d) => UNCHANGED pl
        <4> TAKE d \in Caller
        <4>1. Refuse(d) \/ printProcLimit(d) \/ GiveUp(d) => UNCHANGED pl
          BY DEF Refuse, printProcLimit, GiveUp, vars
        <4>2. Assign(d) \/ Get(d) \/ AnyCall(d) => UNCHANGED pl
          BY DEF Assign, Get, AnyCall, setproclimit, getproclimit, syscall, sys_setproclimit, sys_getproclimit
        <4> QED  BY <4>1, <4>2 DEF Step
      <3>2. \A t \in Task : Run(t) \/ Fork(t) \/ Interfere(t) => UNCHANGED pl
        BY DEF Run, Fork, Interfere, Release, Regroup
      <3>3. PICK d \in Caller : Walk(d)
        BY <3>1, <3>2 DEF TestsNext
      <3>4. CopyOut(d)
        BY <2>1, <3>3, WalkEffect, ProcTimesAssumption
      <3>5. \A e \in Caller \ {d} : pl'[e] = pl[e]
        BY <2>1, <3>4, CopyOutStep, ProcTimesAssumption
      <3> QED  BY <3>3, <3>5
    <2> QED  BY <2>2, <2>3, StepGrowing, ProcTimesAssumption
  <1> QED
    BY <1>1, TestsInvariant, PTL DEF TestsSpec, Growing
=============================================================================

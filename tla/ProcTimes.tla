------------------------------ MODULE ProcTimes ------------------------------
(***************************************************************************)
(* sys_getproclimit of Assignment3: a walk over the list of all processes, *)
(* which adds up the CPU times of a process family and keeps the least and *)
(* the greatest.  It takes no lock: meanwhile processes run, fork, end and *)
(* are given other limits.                                                 *)
(*                                                                         *)
(* setproclimit, fork, and exit with wait are one step each here: the      *)
(* walk of the first against the halves of the others is the subject of    *)
(* ProcFamily.  Every process has one thread.                              *)
(***************************************************************************)
EXTENDS FiniteSetsExt, TaskLists

CONSTANTS
  Task,      \* processes, numbered by pid; 1 is init
  Caller,    \* those that call getproclimit
  Limits,    \* pairs of a limit and an interval that others set
  MaxTime,   \* bound on the CPU time of a process
  ULong      \* an unsigned long is a number below ULong

ASSUME ProcTimesAssumption ==
  /\ Task \subseteq Nat \ {0} /\ IsFiniteSet(Task) /\ 1 \in Task
  /\ Caller \subseteq Task \ {1}
  /\ Limits \subseteq Int \X Int /\ \A l \in Limits : l[1] <= l[2]
  /\ MaxTime \in Nat /\ ULong \in Nat /\ MaxTime < ULong

VARIABLES
  tasks,    \* the list of all processes
  parent,   \* the parent of each
  gone,     \* processes that have been released
  fields,   \* root_pid, time_limit and time_interval
  time,     \* cputime_to_usecs(stime) + cputime_to_usecs(utime), in coarse units
  call,     \* what each caller is doing (before is history: the times of the
            \* listed processes when the call began, forgotten when one is
            \* released or given other limits)
  pl, ret   \* the struct proclimit of each caller, and what its call returned

kernel == <<tasks, parent, gone, fields, time>>
vars   == <<kernel, call, pl, ret>>

EINVAL == 22
EFAULT == 14
None   == 0
NotSet == <<-1, -1, -1>>

(* What a pointer to a struct proclimit may be: NULL, an address of the    *)
(* kernel, one where nothing is mapped, or memory that can be read only or *)
(* also written.                                                           *)
Pointer == {"NULL", "kernel", "unmapped", "readable", "writable"}

Listed == {tasks[n] : n \in 1 .. Len(tasks)}

next_task(t) == After(tasks, t)

(* The process t and those that descend from it, as in ProcFamily.         *)
Below(t) ==
  {s \in Listed : \A S \in SUBSET Listed :
     t \in S /\ (\A u \in Listed : parent[u] \in S => u \in S) => s \in S}

Members(root) == {t \in Listed : fields[t][1] = root}

(* A call: temp holds what has been read of the process so far, which is   *)
(* root_pid, time_limit, time_interval, and its time twice: min and max.   *)
Idle == [pc |-> "idle", task |-> None, pointer |-> "NULL", temp |-> << >>,
         at |-> AtHead, sum |-> 0, before |-> << >>]

Answer == [root_pid : Task \cup {-1}, time_limit : Int, time_interval : Int,
           total_cpu_time : 0 .. ULong - 1, max_cpu_time : 0 .. ULong - 1,
           min_cpu_time : 0 .. ULong - 1]

TypeOK ==
  /\ Listed \subseteq Task \ gone /\ Cardinality(Listed) = Len(tasks)
  /\ parent \in [Task -> Task \cup {None}] /\ \A t \in Listed \ {1} : parent[t] \in Listed
  /\ fields \in [Task -> {NotSet} \cup (Task \X Int \X Int)]
  /\ time \in [Task -> 0 .. MaxTime]
  /\ \A c \in Caller :
       /\ call[c].pc \in {"idle", "read", "visit", "astray"}
       /\ call[c].task \in Task \cup {None} /\ call[c].at \in Task \cup {AtHead}
       /\ call[c].pointer \in Pointer
       /\ Len(call[c].temp) <= 5 /\ call[c].sum \in 0 .. ULong - 1
       /\ pl[c] = << >> \/ pl[c] \in Answer
       /\ ret[c] \in -(4095) .. 0

(* Any tree of processes; no limit is set (init_task.h).                   *)
Init ==
  /\ \E n \in Task \ {1} : 1 .. n \subseteq Task /\ tasks = [k \in 1 .. n |-> k] /\ Caller \subseteq 2 .. n
  /\ parent \in [Task -> Task \cup {None}]
  /\ \A t \in Task : IF t \in Listed \ {1} THEN parent[t] # None /\ parent[t] < t
                                           ELSE parent[t] = None
  /\ gone = {}
  /\ fields = [t \in Task |-> NotSet]
  /\ time = [t \in Task |-> 0]
  /\ call = [c \in Caller |-> Idle]
  /\ pl = [c \in Caller |-> << >>] /\ ret = [c \in Caller |-> 0]

-----------------------------------------------------------------------------
(* Slips a programmer could make in this code, as in ProcFamily.           *)

(* sum is wider than total_cpu_time                                        *)
Plus_NoWrap(m, n) == m + n

(* sum is of a narrower type                                               *)
Plus_Narrow(m, n) == (m + n) % (ULong - 1)

(* sum = i                                                                 *)
Plus_Assigns(m, n) == n

(* max is not given the time of the process itself                         *)
Read_NoMax(c) ==
  /\ call[c].pc = "read" /\ Len(call[c].temp) < 5
  /\ LET t == call[c].task
         n == Len(call[c].temp) + 1
     IN call' = [call EXCEPT ![c].temp = Append(@, IF n <= 3 THEN fields[t][n] ELSE IF n = 4 THEN time[t] ELSE 0)]
  /\ UNCHANGED <<kernel, pl, ret>>

(* a process of another family is not passed over                          *)
Past_Members(c) ==
  LET t == call[c].at IN IF fields[t][1] = call[c].temp[1] THEN next_task(t) ELSE t

(* setproclimit_dump(currentTask, pid, limit, interval)                    *)
Set_ArgumentPid(t, limit, interval) ==
  fields' = [s \in Task |-> IF s \in Below(t) THEN <<-1, limit, interval>> ELSE fields[s]]

-----------------------------------------------------------------------------
(* sys_setproclimit, whose effect is one step here                         *)

(* The process that the calls mean by pid.                                 *)
Process(c, pid) == IF pid = -1 THEN c ELSE IF pid \in Listed THEN pid ELSE None

Set(t, limit, interval) ==
  fields' = [s \in Task |-> IF s \in Below(t) THEN <<t, limit, interval>> ELSE fields[s]]

Disturbed == call' = [c \in Caller |-> [call[c] EXCEPT !.before = << >>]]
Calm(c)   == call[c].before # << >>

sys_setproclimit(c, pid, limit, interval) ==
  /\ call[c].pc = "idle"
  /\ LET t == Process(c, pid) IN
       \/ /\ limit > interval \/ t = None
          /\ ret' = [ret EXCEPT ![c] = -EINVAL]
          /\ UNCHANGED <<fields, call>>
       \/ /\ limit <= interval /\ t # None
          /\ Set(t, limit, interval) /\ Disturbed
          /\ ret' = [ret EXCEPT ![c] = 0]
  /\ UNCHANGED <<tasks, parent, gone, time, pl>>

-----------------------------------------------------------------------------
(* sys_getproclimit                                                        *)

(* The order of the checks tells EINVAL from EFAULT.                       *)
Failure(t, pointer) ==
  CASE pointer = "NULL" \/ t = None -> EINVAL
    [] pointer = "kernel" /\ t # None -> EFAULT
    [] pointer = "unmapped" /\ t # None -> EINVAL
    [] OTHER -> 0

sys_getproclimit(c, pid, pointer) ==
  /\ call[c].pc = "idle"
  /\ LET t == Process(c, pid) IN
       \/ /\ Failure(t, pointer) # 0
          /\ ret' = [ret EXCEPT ![c] = -Failure(t, pointer)]
          /\ UNCHANGED call
       \/ /\ Failure(t, pointer) = 0
          /\ call' = [call EXCEPT ![c] = [Idle EXCEPT !.pc = "read", !.task = t, !.pointer = pointer,
                                                      !.before = [s \in Listed |-> time[s]]]]
          /\ UNCHANGED ret
  /\ UNCHANGED <<kernel, pl>>

(* A task that has been released is no longer a task: what a walk does     *)
(* with its memory is undefined, and the model follows it no further.      *)
OnReleased(c, t) == t \in gone /\ call' = [call EXCEPT ![c] = [Idle EXCEPT !.pc = "astray"]]

(* root_pid, time_limit, time_interval, min and max, one after the other.  *)
Read(c) ==
  /\ call[c].pc = "read" /\ Len(call[c].temp) < 5
  /\ LET t == call[c].task
         n == Len(call[c].temp) + 1
     IN \/ OnReleased(c, t)
        \/ /\ t \notin gone
           /\ call' = [call EXCEPT ![c].temp = Append(@, IF n <= 3 THEN fields[t][n] ELSE time[t])]
  /\ UNCHANGED <<kernel, pl, ret>>

(* A process of no family has no totals; for another the loop begins.      *)
ReadAll(c) ==
  /\ call[c].pc = "read" /\ Len(call[c].temp) = 5
  /\ call' = [call EXCEPT ![c] =
       IF @.temp[1] = -1
         THEN [@ EXCEPT !.pc = "visit", !.sum = ULong - 1,
                        !.temp[4] = ULong - 1, !.temp[5] = ULong - 1]
         ELSE [@ EXCEPT !.pc = "visit", !.at = Head(tasks)]]
  /\ UNCHANGED <<kernel, pl, ret>>

Plus(m, n) == (m + n) % ULong

Past(c) == next_task(call[c].at)

(* min becomes the greater and max the lesser.                             *)
Counted(v, i) ==
  [v EXCEPT !.sum = Plus(@, i), !.temp[4] = IF @ < i THEN i ELSE @, !.temp[5] = IF @ > i THEN i ELSE @]

(* One process of the loop.                                                *)
Visit(c) ==
  /\ call[c].pc = "visit" /\ call[c].at # AtHead
  /\ LET t == call[c].at IN
       \/ OnReleased(c, t)
       \/ /\ t \notin gone
          /\ call' = [call EXCEPT ![c] =
               [(IF fields[t][1] = @.temp[1] THEN Counted(@, time[t]) ELSE @) EXCEPT !.at = Past(c)]]
  /\ UNCHANGED <<kernel, pl, ret>>

Temp(c) ==
  LET v == call[c].temp
  IN  [root_pid |-> v[1], time_limit |-> v[2], time_interval |-> v[3],
       total_cpu_time |-> call[c].sum, max_cpu_time |-> v[5], min_cpu_time |-> v[4]]

(* At the end of the list, copy_to_user and return.                        *)
CopyOut(c) ==
  /\ call[c].pc = "visit" /\ call[c].at = AtHead
  /\ call' = [call EXCEPT ![c] = Idle]
  /\ \/ /\ call[c].pointer = "writable"
        /\ pl' = [pl EXCEPT ![c] = Temp(c)] /\ ret' = [ret EXCEPT ![c] = 0]
     \/ /\ call[c].pointer # "writable"
        /\ ret' = [ret EXCEPT ![c] = -EINVAL] /\ UNCHANGED pl
  /\ UNCHANGED kernel

Walk(c) == Read(c) \/ ReadAll(c) \/ Visit(c) \/ CopyOut(c)

-----------------------------------------------------------------------------
(* The kernel                                                              *)

Run(t) ==
  /\ t \in Listed /\ time[t] < MaxTime
  /\ time' = [time EXCEPT ![t] = @ + 1]
  /\ UNCHANGED <<tasks, parent, gone, fields, call, pl, ret>>

(* A child has the fields of its parent and has used no CPU time; it is    *)
(* put at the end of the list.                                             *)
Fork(t) ==
  /\ t \in Listed \ Caller
  /\ \E n \in Task :
       /\ n \notin Listed \cup gone /\ \A m \in Task \ (Listed \cup gone) : n <= m
       /\ tasks' = Append(tasks, n)
       /\ parent' = [parent EXCEPT ![n] = t]
       /\ fields' = [fields EXCEPT ![n] = fields[t]]
  /\ UNCHANGED <<gone, time, call, pl, ret>>

(* A process ends and is waited for; its children are left to init.        *)
Release(t) ==
  /\ t \in Listed \ (Caller \cup {1})
  /\ tasks' = Without(tasks, t)
  /\ gone' = gone \cup {t}
  /\ parent' = [s \in Task |-> IF s = t THEN None ELSE IF parent[s] = t THEN 1 ELSE parent[s]]
  /\ Disturbed
  /\ UNCHANGED <<fields, time, pl, ret>>

(* Another process calls setproclimit.                                     *)
Regroup(t) ==
  /\ t \in Listed
  /\ \E l \in Limits : Set(t, l[1], l[2])
  /\ Disturbed
  /\ UNCHANGED <<tasks, parent, gone, time, pl, ret>>

(* A process calls getproclimit with any pid and any pointer.              *)
Request(c) == \E pid \in Task \cup {-2, -1, 0}, pointer \in Pointer : sys_getproclimit(c, pid, pointer)

Next ==
  \/ \E c \in Caller : Request(c) \/ Walk(c)
  \/ \E t \in Task : Run(t) \/ Fork(t) \/ Release(t) \/ Regroup(t)

Spec == Init /\ [][Next]_vars

-----------------------------------------------------------------------------
Returning(c) == call[c].pc = "visit" /\ call'[c].pc = "idle"

(* The times that the processes had when the call began.                   *)
First(c) == [t \in Task |-> IF t \in DOMAIN call[c].before THEN call[c].before[t] ELSE 0]

(* When no process was released or given other limits during a call, the   *)
(* total it returns is, as an unsigned long, one that the family had       *)
(* between the call and the return, whoever ran and forked where the walk  *)
(* was: no process is counted twice, and none left out.                    *)
Total ==
  [][\A c \in Caller : Returning(c) /\ Calm(c) /\ call[c].temp[1] # -1 =>
       LET family == Members(call[c].temp[1])
       IN  \E s \in SumFunctionOnSet(First(c), family) .. SumFunctionOnSet(time, family) :
             call[c].sum = s % ULong]_vars

(* In such a call the greater of the two times returned was the greatest   *)
(* of the family at some moment, and so was the lesser the least: it is no *)
(* less than what the processes had at first and no more than they have    *)
(* now.                                                                    *)
Extremes ==
  [][\A c \in Caller : Returning(c) /\ Calm(c) /\ call[c].temp[1] # -1 =>
       LET family   == Members(call[c].temp[1])
           greater  == Max({call[c].temp[4], call[c].temp[5]})
           lesser   == Min({call[c].temp[4], call[c].temp[5]})
       IN  /\ greater \in Max({First(c)[t] : t \in family}) .. Max({time[t] : t \in family})
           /\ lesser >= Min({First(c)[t] : t \in family})
           /\ \A t \in family \cap DOMAIN call[c].before : lesser <= time[t]]_vars

(* The least time of a family is not above the greatest (proclimit.h, and  *)
(* the comments on the two comparisons).                                   *)
MinBelowMax == \A c \in Caller : pl[c] # << >> => pl[c].min_cpu_time <= pl[c].max_cpu_time
=============================================================================

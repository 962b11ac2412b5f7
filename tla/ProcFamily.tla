------------------------------ MODULE ProcFamily ------------------------------
(***************************************************************************)
(* sys_setproclimit of Assignment3: a walk over the children of a process, *)
(* their children and so on, which makes a process family of them.  The    *)
(* kernel is preemptible and runs on several processors, and the walk      *)
(* takes no lock: processes fork, exit and call setproclimit meanwhile.    *)
(*                                                                         *)
(* A step of a walk is one access to memory that others change.  fork,     *)
(* exit and wait are the kernel's; of them the model has what they do to   *)
(* the fields and lists that the walk uses.                                *)
(***************************************************************************)
EXTENDS FiniteSets, TaskLists

CONSTANTS
  Task,      \* task_structs, numbered by pid
  init,      \* the process that orphans are given to
  Caller,    \* processes that call setproclimit
  Value      \* limits and intervals they ask for

ASSUME TaskAssumption ==
  /\ IsFiniteSet(Task) /\ Task \subseteq Nat \ {0}
  /\ init \in Task /\ Caller \subseteq Task
  /\ Value \subseteq Nat

VARIABLES
  state,     \* whether a task exists
  parent,    \* its parent
  children,  \* the list of its children
  fields,    \* its root_pid, time_limit and time_interval
  call,      \* what each caller is doing (before, calm and alone are history:
             \* the tasks that were in the lists when the call began, and
             \* whether since then no process has exited or been released,
             \* and no other call has been under way)
  line       \* history: itself and its ancestors when it was born

kernel == <<state, parent, children, line>>
vars == <<kernel, fields, call>>

None   == 0
NotSet == <<-1, -1, -1>>

(***************************************************************************)
(* An activation of setproclimit_dump is about to store field number store *)
(* of cur, or its loop is at the position at of the children of cur: not   *)
(* yet begun, a child, or the head of the list again.                      *)
(***************************************************************************)
Begin == -1
Frame == [cur : Task, store : 1 .. 4, at : Task \cup {AtHead, Begin}]
Activation(t) == [cur |-> t, store |-> 1, at |-> Begin]

Outside(pc) == [pc |-> pc, args |-> NotSet, before |-> {}, calm |-> TRUE, alone |-> TRUE,
                stack |-> << >>]

TypeOK ==
  /\ state \in [Task -> {"free", "copied", "alive", "zombie", "gone"}]
  /\ parent \in [Task -> Task \cup {None}]
  /\ children \in [Task -> Seq(Task)]
  /\ fields \in [Task -> (Task \cup {-1}) \X (Value \cup {-1}) \X (Value \cup {-1})]
  /\ line \in [Task -> SUBSET Task]
  /\ \A c \in Caller :
       /\ call[c].pc \in {"idle", "walk", "astray"}
       /\ call[c].args \in {NotSet} \cup (Task \X Value \X Value)
       /\ call[c].before \subseteq Task /\ call[c].calm \in BOOLEAN /\ call[c].alone \in BOOLEAN
       /\ call[c].stack \in Seq(Frame)

(* A set of processes in the order of their pids.                          *)
ByPid(S) == CHOOSE s \in [1 .. Cardinality(S) -> S] :
              \A m, n \in 1 .. Cardinality(S) : m < n => s[m] < s[n]

Listed(t) == state[t] \in {"alive", "zombie"}

InLists   == {t \in Task : state[t] \notin {"free", "copied"}}

(* The process t and those that descend from it: the least set that holds  *)
(* t and the children of all its members.                                  *)
Below(t) ==
  {s \in Task : \A S \in SUBSET Task :
     t \in S /\ (\A u \in Task : Listed(u) /\ parent[u] \in S => u \in S) => s \in S}

(* Any tree of processes below init; no limit is set.                      *)
Init ==
  /\ state \in [Task -> {"alive", "free"}]
  /\ \A t \in {init} \cup Caller : state[t] = "alive"
  /\ parent \in [Task -> Task \cup {None}]
  /\ \A t \in Task : IF state[t] = "alive" /\ t # init
                       THEN parent[t] # None /\ parent[t] < t /\ state[parent[t]] = "alive"
                       ELSE parent[t] = None
  /\ children = [t \in Task |-> ByPid({s \in Task : parent[s] = t})]
  /\ fields = [t \in Task |-> NotSet]
  /\ call = [c \in Caller |-> Outside("idle")]
  /\ line = [t \in Task |-> {s \in Task : t \in Below(s)}]

-----------------------------------------------------------------------------
(* Trees and lists                                                         *)

InCall(t)  == t \in Caller /\ call[t].pc # "idle"
Forking(t) == \E n \in Task : state[n] = "copied" /\ parent[n] = t
AtWork(t)  == state[t] = "alive" /\ ~InCall(t) /\ ~Forking(t)

(* The node after that of t in the list it is in now: another child, or    *)
(* the head of the list of its parent.                                     *)
Following(t) == After(children[parent[t]], t)

Eldest(t) == IF children[t] = << >> THEN AtHead ELSE Head(children[t])

InWalk(c)    == call[c].pc = "walk"
Top(c)       == call[c].stack[Len(call[c].stack)]
SetTop(c, f) == call' = [call EXCEPT ![c].stack = [@ EXCEPT ![Len(@)] = f]]
Push(c, f)   == call' = [call EXCEPT ![c].stack = Append(@, f)]
Leave(c, pc) == call' = [call EXCEPT ![c] = Outside(pc)]

(* A call begins: from now on no other that is under way is alone.         *)
Begins(c, args, f) ==
  call' = [d \in Caller |->
             IF d = c
               THEN [pc |-> "walk", args |-> args, before |-> InLists, calm |-> TRUE,
                     alone |-> \A e \in Caller : ~InWalk(e), stack |-> <<f>>]
               ELSE [call[d] EXCEPT !.alone = call[d].pc = "idle"]]

-----------------------------------------------------------------------------
(***************************************************************************)
(* Slips a programmer could make in this code.  No action uses them: each  *)
(* shows, put in the place of the operator its name begins with, that some *)
(* property below tells the code from the slip.                            *)
(***************************************************************************)

(* setproclimit_dump(currentTask, pid, limit, interval)                    *)
Call_ArgumentPid(c) ==
  /\ AtWork(c)
  /\ \E limit, interval \in Value :
       /\ limit <= interval
       /\ Begins(c, <<-1, limit, interval>>, Activation(c))
  /\ UNCHANGED <<kernel, fields>>

(* list_for_each(children_list, &cur->sibling)                             *)
Enter_Siblings(c) ==
  /\ InWalk(c) /\ Top(c).store = 4 /\ Top(c).at = Begin
  /\ SetTop(c, [Top(c) EXCEPT !.at = IF parent[Top(c).cur] = None THEN AtHead
                                       ELSE Following(Top(c).cur)])
  /\ UNCHANGED <<kernel, fields>>

(* the children's fields are stored, their children forgotten              *)
Enter_NotBelow(c) ==
  /\ InWalk(c) /\ Top(c).store = 4 /\ Top(c).at = Begin
  /\ SetTop(c, [Top(c) EXCEPT !.at = IF Len(call[c].stack) > 1 THEN AtHead ELSE Eldest(Top(c).cur)])
  /\ UNCHANGED <<kernel, fields>>

(* the loop does not go on to the next child                               *)
Return_SameChild(c) ==
  /\ InWalk(c) /\ Top(c).at = AtHead
  /\ IF Len(call[c].stack) = 1 THEN Leave(c, "idle")
     ELSE call' = [call EXCEPT ![c].stack = SubSeq(@, 1, Len(@) - 1)]
  /\ UNCHANGED <<kernel, fields>>

-----------------------------------------------------------------------------
(* sys_setproclimit                                                        *)

(* The process is the caller itself (pid -1) or one in the list of all     *)
(* processes.  With any other pid, or with a limit above the interval, the *)
(* call returns -EINVAL and changes nothing.                               *)
Call(c) ==
  /\ AtWork(c)
  /\ \E t \in Task, limit, interval \in Value :
       /\ Listed(t)
       /\ limit <= interval
       /\ Begins(c, <<t, limit, interval>>, Activation(t))
  /\ UNCHANGED <<kernel, fields>>

(* A task that has been released is no longer a task: what a walk does     *)
(* with its memory is undefined, and the model follows it no further.  A   *)
(* call that is astray has not ended: it never becomes idle again.         *)
OnReleased(c, t) == state[t] = "gone" /\ Leave(c, "astray") /\ UNCHANGED fields

(* root_pid, time_limit and time_interval are stored one after the other.  *)
Store(c) ==
  /\ InWalk(c) /\ Top(c).store < 4
  /\ LET f == Top(c) IN
       \/ OnReleased(c, f.cur)
       \/ /\ state[f.cur] # "gone"
          /\ fields' = [fields EXCEPT ![f.cur][f.store] = call[c].args[f.store]]
          /\ SetTop(c, [f EXCEPT !.store = @ + 1])
  /\ UNCHANGED kernel

(* The loop begins at the first child.                                     *)
Enter(c) ==
  /\ InWalk(c) /\ Top(c).store = 4 /\ Top(c).at = Begin
  /\ LET f == Top(c) IN
       \/ OnReleased(c, f.cur)
       \/ /\ state[f.cur] # "gone"
          /\ SetTop(c, [f EXCEPT !.at = Eldest(f.cur)])
          /\ UNCHANGED fields
  /\ UNCHANGED kernel

(* The recursive call.                                                     *)
Descend(c) ==
  /\ InWalk(c) /\ Top(c).at \in Task
  /\ Push(c, Activation(Top(c).at))
  /\ UNCHANGED <<kernel, fields>>

(* At the head of its list an activation returns to the one below, which   *)
(* goes on to the next node.  If the child is no longer a child of cur,    *)
(* that is a node of another list.  The loop takes the head of that list   *)
(* for a task and goes on behind it, where it never meets its own head:    *)
(* from there on the call is astray, too.                                  *)
Return(c) ==
  /\ InWalk(c) /\ Top(c).at = AtHead
  /\ LET stack == SubSeq(call[c].stack, 1, Len(call[c].stack) - 1)
         f     == stack[Len(stack)]
         next  == Following(f.at)
     IN
       \/ stack = << >> /\ Leave(c, "idle")
       \/ stack # << >> /\ OnReleased(c, f.at)
       \/ /\ stack # << >> /\ state[f.at] # "gone"
          /\ IF next = AtHead /\ parent[f.at] # f.cur
               THEN Leave(c, "astray")
               ELSE call' = [call EXCEPT ![c].stack =
                               [stack EXCEPT ![Len(stack)] = [f EXCEPT !.at = next]]]
  /\ UNCHANGED <<kernel, fields>>

Walk(c) == Store(c) \/ Enter(c) \/ Descend(c) \/ Return(c)

-----------------------------------------------------------------------------
(* The kernel                                                              *)

(* fork copies the task_struct, the fields included ...                    *)
Copy(t) ==
  /\ AtWork(t)
  /\ \E n \in Task :
       /\ state[n] = "free" /\ \A m \in Task : state[m] = "free" => n <= m
       /\ state' = [state EXCEPT ![n] = "copied"]
       /\ parent' = [parent EXCEPT ![n] = t]
       /\ fields' = [fields EXCEPT ![n] = fields[t]]
       /\ line' = [line EXCEPT ![n] = line[t] \cup {n}]
  /\ UNCHANGED <<children, call>>

(* ... and later puts the copy into the lists.                             *)
Link(n) ==
  /\ state[n] = "copied"
  /\ state' = [state EXCEPT ![n] = "alive"]
  /\ children' = [children EXCEPT ![parent[n]] = Append(@, n)]
  /\ UNCHANGED <<parent, line, fields, call>>

Disturbed == [c \in Caller |-> [call[c] EXCEPT !.calm = call[c].pc = "idle"]]

(* A process that exits leaves its children to init.                       *)
Exit(t) ==
  /\ AtWork(t) /\ t # init
  /\ state' = [state EXCEPT ![t] = "zombie"]
  /\ parent' = [s \in Task |-> IF Listed(s) /\ parent[s] = t THEN init ELSE parent[s]]
  /\ children' = [children EXCEPT ![init] = @ \o children[t], ![t] = << >>]
  /\ call' = Disturbed
  /\ UNCHANGED <<line, fields>>

(* Its parent waits for it, and its task_struct is released.               *)
Release(t) ==
  /\ state[t] = "zombie"
  /\ state' = [state EXCEPT ![t] = "gone"]
  /\ parent' = [parent EXCEPT ![t] = None]
  /\ children' = [children EXCEPT ![parent[t]] = Without(@, t)]
  /\ call' = Disturbed
  /\ UNCHANGED <<line, fields>>

Next ==
  \/ \E c \in Caller : Call(c) \/ Walk(c)
  \/ \E t \in Task : Copy(t) \/ Link(t) \/ Exit(t) \/ Release(t)

Spec == Init /\ [][Next]_vars

(* The kernel schedules a process that executes a system call.             *)
FairSpec == Spec /\ \A c \in Caller : WF_vars(Walk(c))

-----------------------------------------------------------------------------
(* When a call returns during which no process exited and nobody else      *)
(* called, the process of the call and all that descend from it, but for   *)
(* those forked during the call, have the new root and limits.             *)
SetsMembers ==
  [][\A c \in Caller : InWalk(c) /\ call[c].calm /\ call[c].alone /\ call'[c].pc = "idle" =>
       \A t \in Below(call[c].args[1]) \cap call[c].before :
         fields[t] = call[c].args]_vars

(* A walk stores into no process but the one it is called for and those    *)
(* that descend from it, orphans included.                                 *)
OnlyBelow ==
  [][\A t \in Task : Listed(t) /\ fields'[t] # fields[t] =>
       \E c \in Caller : InWalk(c) /\ call[c].args[1] \in line[t]]_vars

(* As long as no process exits, whatever is forked where it walks, a walk  *)
(* follows no pointer out of the lists and stores only into descendants.   *)
StaysBelow ==
  [][\A c \in Caller : InWalk(c) /\ call[c].calm /\ call'[c] # call[c] =>
       /\ call'[c].pc # "astray"
       /\ \A t \in Task : fields'[t] # fields[t] => call[c].args[1] \in line[t]]_vars

(* As long as no process exits, a call returns, whatever is forked where   *)
(* it walks.  Then no pid becomes free, so that no more can be forked      *)
(* during the call than there are pids, which Task is.  Nothing is claimed *)
(* once a process has exited: the call may be astray.                      *)
Ends == \A c \in Caller : InWalk(c) ~> (call[c].pc = "idle" \/ ~call[c].calm)
=============================================================================

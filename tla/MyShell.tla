------------------------------- MODULE MyShell -------------------------------
(***************************************************************************)
(* The main loop of mysh and its children: reading a line, the history,    *)
(* exit and cd, fork, waitpid, and the handlers that pass SIGINT and       *)
(* SIGTERM on to globalPid.  A signal may arrive between any two steps.    *)
(*                                                                         *)
(* What a child does until it ends is ShellPipeline's; here it runs its    *)
(* stages one by one as a copy of the shell, and then becomes a program.   *)
(***************************************************************************)
EXTENDS Integers, FiniteSets

CONSTANTS
  SIZE,        \* cells of commandHistory
  Pid,         \* process ids of children
  MaxPipes,    \* the most | in a line
  MaxLines,    \* bound on lines
  MaxEvents    \* bound on signals, stops and continuations

ASSUME MyShellAssumption ==
  /\ SIZE \in Nat \ {0} /\ IsFiniteSet(Pid) /\ Pid \subseteq Nat \ {0}
  /\ MaxPipes \in Nat /\ MaxLines \in Nat /\ MaxEvents \in Nat

VARIABLES
  pc, globalPid, pid, ampershandFlag,    \* the shell
  commandHistory, historyArg,
  st,          \* a child: is it new, still the shell, a program, a zombie?
  stages,      \* how many stages it has yet to run before it is a program
  inherited,   \* the globalPid it has until its own assignment
  stopped,     \* children that are stopped
  pending,     \* processes that a signal has been sent to
  news,        \* children with a change of state that waitpid may return
  events,
  background, halted    \* history: children of lines with &, and those that
                        \* have been stopped

shell    == <<pc, globalPid, pid, ampershandFlag>>
history  == <<commandHistory, historyArg>>
children == <<st, stages, inherited, background>>
signals  == <<stopped, pending, news, events, halted>>
vars     == <<shell, history, children, signals>>

Shell == 0     \* stands for the shell in pending; as globalPid, for no process
Empty == 0     \* a cell of the history that holds no line

Alive(p) == st[p] \in {"new", "shell", "program"}

(* kill(target, ...): -1 are all processes but the one that calls.         *)
Targets(target) == IF target = -1 THEN {p \in Pid : Alive(p)} ELSE {target} \cap {p \in Pid : Alive(p)}

Init ==
  /\ pc = "prompt" /\ globalPid = 0 /\ pid = 0 /\ ampershandFlag = FALSE
  /\ commandHistory = [n \in 0 .. SIZE - 1 |-> Empty] /\ historyArg = 0
  /\ st = [p \in Pid |-> "none"] /\ stages = [p \in Pid |-> 0]
  /\ inherited = [p \in Pid |-> 0]
  /\ stopped = {} /\ pending = {} /\ news = {} /\ events = 0
  /\ background = {} /\ halted = {}

-----------------------------------------------------------------------------
(* Slips                                                                   *)

(* commandHistory[++historyArg % SIZE]                                     *)
Store_PreIncrement ==
  /\ historyArg < MaxLines /\ historyArg' = historyArg + 1
  /\ commandHistory' = [commandHistory EXCEPT ![historyArg' % SIZE] = historyArg']

(* globalPid is assigned only when the shell does not wait                 *)
Assign_Background ==
  /\ pc = "forked"
  /\ globalPid' = IF ampershandFlag THEN pid ELSE globalPid
  /\ pc' = IF pid = -1 THEN "failed" ELSE IF ampershandFlag THEN "prompt" ELSE "wait"
  /\ ampershandFlag' = (pid = -1 /\ ampershandFlag)
  /\ UNCHANGED <<pid, history, children, signals>>

(* perror without exit(1)                                                  *)
Assign_NoExit ==
  /\ pc = "forked"
  /\ globalPid' = pid
  /\ pc' = IF ampershandFlag \/ pid = -1 THEN "prompt" ELSE "wait"
  /\ ampershandFlag' = FALSE
  /\ UNCHANGED <<pid, history, children, signals>>

(* waitpid(pid, &status, 0) returns nothing but ends                       *)
Wait_ForEnd ==
  /\ pc = "wait" /\ st[pid] = "zombie"
  /\ news' = news \ {pid}
  /\ st' = [st EXCEPT ![pid] = "none"]
  /\ background' = background \ {pid} /\ halted' = halted \ {pid}
  /\ pc' = "prompt"
  /\ UNCHANGED <<globalPid, pid, ampershandFlag, history, stages, inherited, stopped, pending, events>>

(* waitpid(pid, &status, WNOHANG)                                          *)
Wait_NoHang ==
  /\ pc = "wait"
  /\ pc' = "prompt"
  /\ UNCHANGED <<globalPid, pid, ampershandFlag, history, children, signals>>

(* for (i = 0; i <= pipeCounter; i++)                                      *)
Stage_OneMore(p) ==
  /\ Alive(p) /\ p \notin stopped /\ st[p] = "shell"
  /\ stages' = [stages EXCEPT ![p] = @ - 1]
  /\ UNCHANGED <<shell, history, st, inherited, background, signals>>

-----------------------------------------------------------------------------
(* The shell                                                               *)

(* A line that is not empty is stored in the history.                      *)
Store ==
  /\ historyArg < MaxLines /\ historyArg' = historyArg + 1
  /\ commandHistory' = [commandHistory EXCEPT ![historyArg % SIZE] = historyArg']

(* A line of blanks, or of mytime and &, and cd, which changes the         *)
(* directory: the shell comes back to the prompt.  So it does after an     *)
(* empty line, which changes nothing.                                      *)
BuiltIn ==
  /\ pc = "prompt" /\ Store
  /\ UNCHANGED <<shell, children, signals>>

Exit ==
  /\ pc = "prompt" /\ Store
  /\ pc' = "exited"
  /\ UNCHANGED <<globalPid, pid, ampershandFlag, children, signals>>

(* At the end of the input the loop is left.  Once a line has been read,   *)
(* be it empty, args points into the array command, and free(args[0])      *)
(* aborts.                                                                 *)
EndOfInput ==
  /\ pc = "prompt"
  /\ pc' = "aborted" \/ (historyArg = 0 /\ pc' = "exited")
  /\ UNCHANGED <<globalPid, pid, ampershandFlag, history, children, signals>>

Run ==
  /\ pc = "prompt" /\ Store
  /\ pc' = "fork"
  /\ ampershandFlag' \in BOOLEAN
  /\ UNCHANGED <<globalPid, pid, children, signals>>

(* fork, which fails at the latest when no process id is left.             *)
Fork ==
  /\ pc = "fork"
  /\ \E p \in Pid, n \in 0 .. MaxPipes :
       /\ st[p] = "none"
       /\ pid' = p
       /\ st' = [st EXCEPT ![p] = "new"]
       /\ stages' = [stages EXCEPT ![p] = n]
       /\ inherited' = [inherited EXCEPT ![p] = globalPid]
       /\ background' = IF ampershandFlag THEN background \cup {p} ELSE background
  /\ pc' = "forked"
  /\ UNCHANGED <<globalPid, ampershandFlag, history, signals>>

ForkFails ==
  /\ pc = "fork"
  /\ pid' = -1
  /\ pc' = "forked"
  /\ UNCHANGED <<globalPid, ampershandFlag, history, children, signals>>

Assign ==
  /\ pc = "forked"
  /\ globalPid' = pid
  /\ pc' = IF pid = -1 THEN "failed" ELSE IF ampershandFlag THEN "prompt" ELSE "wait"
  /\ ampershandFlag' = (pid = -1 /\ ampershandFlag)
  /\ UNCHANGED <<pid, history, children, signals>>

ExitFailed ==
  /\ pc = "failed"
  /\ pc' = "exited"
  /\ UNCHANGED <<globalPid, pid, ampershandFlag, history, children, signals>>

(* waitpid(pid, &status, WUNTRACED | WCONTINUED) returns when the child    *)
(* has ended, and also when it was stopped or goes on.                     *)
Wait ==
  /\ pc = "wait" /\ pid \in news
  /\ news' = news \ {pid}
  /\ IF st[pid] = "zombie"
       THEN /\ st' = [st EXCEPT ![pid] = "none"]
            /\ background' = background \ {pid} /\ halted' = halted \ {pid}
       ELSE UNCHANGED <<st, background, halted>>
  /\ pc' = "prompt"
  /\ UNCHANGED <<globalPid, pid, ampershandFlag, history, stages, inherited, stopped, pending, events>>

(* signalIntHandler, signalTermHandler.  System calls are restarted.       *)
Handler ==
  /\ Shell \in pending /\ pc \notin {"exited", "aborted"}
  /\ pending' = (pending \ {Shell}) \cup Targets(globalPid)
  /\ UNCHANGED <<shell, history, children, stopped, news, events, halted>>

-----------------------------------------------------------------------------
(* The children                                                            *)

CanRun(p) == Alive(p) /\ p \notin stopped

(* In the child globalPid becomes 0 ...                                    *)
ChildAssign(p) ==
  /\ CanRun(p) /\ st[p] = "new"
  /\ st' = [st EXCEPT ![p] = "shell"]
  /\ UNCHANGED <<shell, history, stages, inherited, background, signals>>

(* ... and it keeps the shell's handlers until it is a program.            *)
ChildHandler(p) ==
  /\ CanRun(p) /\ st[p] \in {"new", "shell"} /\ p \in pending
  /\ pending' = (pending \ {p}) \cup IF st[p] = "new" THEN Targets(inherited[p]) ELSE {}
  /\ UNCHANGED <<shell, history, children, stopped, news, events, halted>>

(* spawn_proc: it forks a stage and waits for it.                          *)
Stage(p) ==
  /\ CanRun(p) /\ st[p] = "shell" /\ stages[p] > 0
  /\ stages' = [stages EXCEPT ![p] = @ - 1]
  /\ UNCHANGED <<shell, history, st, inherited, background, signals>>

Exec(p) ==
  /\ CanRun(p) /\ st[p] = "shell" /\ stages[p] = 0
  /\ st' = [st EXCEPT ![p] = "program"]
  /\ UNCHANGED <<shell, history, stages, inherited, background, signals>>

Becomes(p, s) ==
  /\ st' = [st EXCEPT ![p] = s]
  /\ news' = news \cup {p}
  /\ pending' = pending \ {p} /\ stopped' = stopped \ {p}
  /\ UNCHANGED <<shell, history, stages, inherited, background, events, halted>>

(* history and what is not found end in the copy of the shell.             *)
Ends(p) ==
  /\ CanRun(p)
  /\ st[p] = "program" \/ (st[p] = "shell" /\ stages[p] = 0)
  /\ Becomes(p, "zombie")

(* A program has no handler of the signal.                                 *)
Killed(p) ==
  /\ CanRun(p) /\ st[p] = "program" /\ p \in pending
  /\ Becomes(p, "zombie")

-----------------------------------------------------------------------------
(* Others.  The terminal sends its signal to the shell and all children,   *)
(* which are in one process group; a user may send one to the shell only.  *)

Event == events < MaxEvents /\ events' = events + 1

Signal ==
  /\ Event /\ pc \notin {"exited", "aborted"}
  /\ \E all \in BOOLEAN :
       pending' = pending \cup {Shell} \cup IF all THEN {p \in Pid : Alive(p)} ELSE {}
  /\ UNCHANGED <<shell, history, children, stopped, news, halted>>

Stop(p) ==
  /\ Event /\ CanRun(p)
  /\ stopped' = stopped \cup {p} /\ halted' = halted \cup {p} /\ news' = news \cup {p}
  /\ UNCHANGED <<shell, history, children, pending>>

Continue(p) ==
  /\ Event /\ p \in stopped
  /\ stopped' = stopped \ {p} /\ news' = news \cup {p}
  /\ UNCHANGED <<shell, history, children, pending, halted>>

-----------------------------------------------------------------------------
Over == pc \in {"exited", "aborted"} \/ (pc = "prompt" /\ historyArg = MaxLines)

ShellStep == Fork \/ ForkFails \/ Assign \/ ExitFailed \/ Wait
ChildStep(p) == ChildAssign(p) \/ Stage(p) \/ Exec(p) \/ Ends(p)

Next ==
  \/ BuiltIn \/ Exit \/ EndOfInput \/ Run \/ ShellStep \/ Handler \/ Signal
  \/ \E p \in Pid : ChildStep(p) \/ ChildHandler(p) \/ Killed(p) \/ Stop(p) \/ Continue(p)
  \/ Over /\ UNCHANGED vars

Spec == Init /\ [][Next]_vars

(* Processes are scheduled, and commands end if they are not stopped.      *)
FairSpec ==
  /\ Spec
  /\ WF_vars(ShellStep)
  /\ \A p \in Pid : WF_vars(ChildAssign(p)) /\ WF_vars(Stage(p)) /\ WF_vars(Ends(p))

-----------------------------------------------------------------------------
TypeOK ==
  /\ pc \in {"prompt", "fork", "forked", "failed", "wait", "exited", "aborted"}
  /\ {globalPid, pid} \subseteq Pid \cup {0, -1} /\ ampershandFlag \in BOOLEAN
  /\ commandHistory \in [0 .. SIZE - 1 -> 0 .. MaxLines] /\ historyArg \in 0 .. MaxLines
  /\ st \in [Pid -> {"none", "new", "shell", "program", "zombie"}]
  /\ stages \in [Pid -> 0 .. MaxPipes] /\ inherited \in [Pid -> Pid \cup {0}]
  /\ stopped \subseteq Pid /\ pending \subseteq Pid \cup {Shell} /\ news \subseteq Pid
  /\ background \subseteq Pid /\ halted \subseteq Pid /\ events \in 0 .. MaxEvents

(* The cells hold the last SIZE lines, and going round the ring from the   *)
(* oldest gives them in the order in which they were typed.                *)
Recent ==
  LET kept   == IF historyArg < SIZE THEN historyArg ELSE SIZE
      oldest == historyArg - kept
  IN  \A n \in 0 .. SIZE - 1 :
        commandHistory[(oldest + n) % SIZE] = IF n < kept THEN oldest + n + 1 ELSE Empty

(* When the shell reads the next line, the commands that are left, running *)
(* or not reaped, are background commands and ones that were stopped.      *)
PromptIsClean ==
  pc \in {"prompt", "fork"} => \A p \in Pid : st[p] # "none" => p \in background \cup halted

(* While the shell waits for a command the signal goes to that command,    *)
(* if it has not ended, and to nobody else.                                *)
PassedOn ==
  [][pc = "wait" /\ Shell \in pending /\ Shell \notin pending' =>
       pending' = (pending \ {Shell}) \cup ({pid} \cap {p \in Pid : Alive(p)})]_vars

(* Only between a fork that failed and the exit that follows is a signal   *)
(* sent to more than one process, and then to all.                         *)
OneTarget ==
  [][pc # "failed" /\ Shell \in pending /\ Shell \notin pending' =>
       Cardinality(pending' \ pending) <= 1]_vars

(* After each command the shell comes back to the prompt, or exits because *)
(* it could not fork; a command that is stopped does not hold it up.       *)
ComesBack == pc = "fork" ~> pc \in {"prompt", "exited"}

(* "SIGINT: ... kill the process": the command that gets the signal while  *)
(* the shell waits for it ends.                                            *)
SignalKills ==
  [][\A p \in Pid : pc = "wait" /\ p = pid /\ p \in pending /\ p \notin pending' =>
       st'[p] = "zombie"]_vars
=============================================================================

------------------------------ MODULE ProcTests ------------------------------
(***************************************************************************)
(* The programs test1 and test3 of Assignment3, and any other program that *)
(* makes the two calls: user processes that reach ProcTimes through the    *)
(* macros of a header, a system call number and the table of the kernel.   *)
(***************************************************************************)
EXTENDS ProcTimes

CONSTANTS
  SetNumber, GetNumber,  \* the numbers in the header the programs are compiled with
  Argument               \* what the command line of test3 gives as pid and limit

(* The numbers of unistd_32.h that were there before, and the new ones.    *)
StockCalls      == 0 .. 340
NR_setproclimit == 341
NR_getproclimit == 342
NR_syscalls     == 343

ENOSYS   == 38
INTERVAL == 1000

ASSUME ProcTestsAssumption ==
  /\ SetNumber \in Nat \ StockCalls /\ GetNumber \in Nat \ StockCalls
  /\ Argument \subseteq Int \X Int

VARIABLE
  prog     \* each program: its name, the arguments of its setproclimit, its
           \* next statement, and whether (history) no process has been
           \* released or given other limits since that call

allVars == <<vars, prog>>

(* Words that a program may pass for a pointer; any other is an address    *)
(* where nothing is mapped, or above user space if it is negative.         *)
ReadOnly  == 1048576
procLimitFields == 2097152

Program(name, a) ==
  [name |-> name, line |-> 1, calm |-> FALSE,
   args |-> IF name = "test3" THEN <<a[1], a[2], INTERVAL>> ELSE <<-1, 10, 11>>]

TestsInit ==
  /\ Init
  /\ prog \in [Caller -> {Program(name, a) : name \in {"test1", "test3", "any"}, a \in Argument}]

Last(c)  == IF prog[c].name = "test1" THEN 7 ELSE 3
Exited   == 9

-----------------------------------------------------------------------------
(* System calls                                                            *)

PointerOf(word) ==
  CASE word = 0 -> "NULL" [] word < 0 -> "kernel" [] word = ReadOnly -> "readable"
    [] word = procLimitFields -> "writable" [] OTHER -> "unmapped"

syscall(c, n, a, b, d) ==
  \/ n = NR_setproclimit /\ sys_setproclimit(c, a, b, d)
  \/ n = NR_getproclimit /\ sys_getproclimit(c, a, PointerOf(b))
  \/ /\ n >= NR_syscalls /\ call[c].pc = "idle"
     /\ ret' = [ret EXCEPT ![c] = -ENOSYS]
     /\ UNCHANGED <<kernel, call, pl>>

setproclimit(c, pid, limit, interval) == syscall(c, SetNumber, pid, limit, interval)
getproclimit(c, pid, pointer)         == syscall(c, GetNumber, pid, pointer, 0)

-----------------------------------------------------------------------------
(* The programs                                                            *)

Runs(c)      == call[c].pc = "idle" /\ prog[c].name # "any" /\ prog[c].line \in 1 .. Last(c)
Goes(c, n)   == prog' = [prog EXCEPT ![c].line = n]

(* A call of c that may set limits, of others' processes too.              *)
Sets(c, n, calm) ==
  prog' = [d \in Caller |-> IF d = c THEN [prog[c] EXCEPT !.line = n, !.calm = calm]
                                     ELSE [prog[d] EXCEPT !.calm = FALSE]]

Failed(c)    == ret[c] # 0

(* Test3 asks for no limit of 1000 or more.                                *)
Refuse(c) ==
  /\ Runs(c) /\ prog[c].line = 1 /\ prog[c].name = "test3" /\ prog[c].args[2] >= INTERVAL
  /\ Goes(c, Exited) /\ UNCHANGED vars

Assign(c) ==
  /\ Runs(c) /\ prog[c].line = 1
  /\ prog[c].name = "test3" => prog[c].args[2] < INTERVAL
  /\ setproclimit(c, prog[c].args[1], prog[c].args[2], prog[c].args[3])
  /\ Sets(c, 2, TRUE)

Get(c) ==
  /\ Runs(c) /\ prog[c].line \in {2, 4, 6} /\ ~Failed(c)
  /\ getproclimit(c, prog[c].args[1], procLimitFields)
  /\ Goes(c, prog[c].line + 1)

(* What is printed is the struct as the call left it.  Then test1          *)
(* multiplies, or sleeps: time in which anything may happen.               *)
Printing(c) == Runs(c) /\ prog[c].line \in {3, 5, 7} /\ ~Failed(c)

printProcLimit(c) ==
  /\ Printing(c)
  /\ Goes(c, prog[c].line + 1) /\ UNCHANGED vars

(* perror and exit(1).                                                     *)
GiveUp(c) ==
  /\ Runs(c) /\ prog[c].line > 1 /\ Failed(c)
  /\ Goes(c, Exited) /\ UNCHANGED vars

(* A program that makes any call; one, since what earlier calls could have *)
(* set is set by others too.                                               *)
AnyCall(c) ==
  /\ prog[c].name = "any" /\ prog[c].line = 1
  /\ \E pid \in Task \cup {-2, -1, 0} :
       \/ \E l \in Limits \cup {<<11, 10>>} : syscall(c, NR_setproclimit, pid, l[1], l[2])
       \/ \E word \in {0, 1, -1, ReadOnly, procLimitFields} : syscall(c, NR_getproclimit, pid, word, 0)
       \/ syscall(c, NR_syscalls, pid, 0, 0)
  /\ Sets(c, 2, FALSE)

Step(c) == Refuse(c) \/ Assign(c) \/ Get(c) \/ printProcLimit(c) \/ GiveUp(c)

Interfere(t) ==
  /\ Release(t) \/ Regroup(t)
  /\ prog' = [c \in Caller |-> [prog[c] EXCEPT !.calm = FALSE]]

TestsNext ==
  \/ \E c \in Caller : Step(c) \/ AnyCall(c)
  \/ \E c \in Caller : Walk(c) /\ UNCHANGED prog
  \/ \E t \in Task : (Run(t) \/ Fork(t)) /\ UNCHANGED prog
  \/ \E t \in Task : Interfere(t)

TestsSpec == TestsInit /\ [][TestsNext]_allVars

(* The kernel schedules the programs, in system calls and outside.         *)
FairTests == TestsSpec /\ \A c \in Caller : WF_allVars(Step(c)) /\ WF_allVars(Walk(c) /\ UNCHANGED prog)

-----------------------------------------------------------------------------
(* As long as nobody else interferes, what test1 and test3 print are the   *)
(* limits they set themselves, with the process as root.                   *)
ReadsBack ==
  \A c \in Caller : Printing(c) /\ prog[c].calm =>
    <<pl[c].root_pid, pl[c].time_limit, pl[c].time_interval>> =
      <<Process(c, prog[c].args[1]), prog[c].args[2], prog[c].args[3]>>

(* As long as nobody else interferes, and the family has not used more     *)
(* time than an unsigned long holds, a total that test1 gets is not less   *)
(* than the one before, whatever else the machine did between the calls.   *)
Growing ==
  [][\A c \in Caller :
       /\ pl[c] # << >> /\ pl'[c] # pl[c] /\ prog[c].calm
       /\ SumFunctionOnSet(time, Members(Process(c, prog[c].args[1]))) < ULong
       => pl[c].total_cpu_time <= pl'[c].total_cpu_time]_allVars

(* Test1 prints three times (Assignment3/Readme.txt, parathrhseis).        *)
PrintsThree ==
  \A c \in Caller :
    prog[c].name = "test1" ~> prog[c].line = Last(c) + 1 \/ call[c].pc = "astray"
=============================================================================

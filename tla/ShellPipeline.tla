---------------------------- MODULE ShellPipeline ----------------------------
(***************************************************************************)
(* What the child that mysh forks for a command line does: redirections,   *)
(* the loop over the stages of a pipeline, spawn_proc, printHistory and    *)
(* exec.                                                                   *)
(*                                                                         *)
(* Stage k, for each | of the line, writes into pipe k.  The child itself  *)
(* becomes the last stage.  Stage k > 1 reads from pipe k - 1.             *)
(***************************************************************************)
EXTENDS ShellWords

CONSTANTS
  Line,       \* command lines
  MaxStages,  \* the most stages that one has
  Leftover,   \* what args may hold before the line is parsed
  Command,    \* words that exec finds
  File,       \* files that exist
  MaxUnits,   \* a program writes this many units,
  Capacity,   \* and a pipe holds this many
  MaxFaults   \* bound on stages that are stopped and forks that fail

ASSUME ShellAssumption ==
  /\ SIZE \in Nat \ {0} /\ MaxStages \in Nat /\ MaxFaults \in Nat
  /\ MaxUnits \in Nat \ {0} /\ Capacity \in Nat \ {0}
  /\ \A l \in Line : Kept(l) \in Seq(Word) \ {<< >>} /\ Len(Kept(l)) < SIZE
                     /\ Cardinality(Bars(Kept(l))) < MaxStages
  /\ Leftover \subseteq [Index -> STRING]
  /\ Command \cap (Redirection \cup {"|", "history", NULL}) = {}

VARIABLES
  line,       \* the line as it was typed
  args, tempargs, nextPipe, in, i, pc,    \* variables of the child
  files,      \* the files that exist
  prog,       \* what each process executes, or is about to,
  st,         \* how far it is,
  fd,         \* its standard input and output,
  held,       \* and the other ends of pipes it has open
  pipe,       \* what is in each pipe
  wrote, got, \* how many units each process has written, and those it has read
  stopped,    \* processes that are stopped
  news,       \* stages with a change of state that waitpid has not returned
  faults

child == <<line, args, tempargs, nextPipe, in, i, pc, files>>
procs == <<prog, st, fd, held>>
data  == <<pipe, wrote, got>>
vars  == <<child, procs, data, stopped, news, faults>>

Process     == 1 .. MaxStages
pipeCounter == searchForPipe(args)
Main      == pipeCounter + 1

Garbage == <<NULL>>          \* tempargs before anything is stored in it
Tty     == <<"tty">>
Nothing == <<"closed">>      \* of a process that does not exist

Reads(p, k)  == fd[p][1] = <<"pipe", k>> \/ <<"read", k>> \in held[p]
Writes(p, k) == fd[p][2] = <<"pipe", k>> \/ <<"write", k>> \in held[p]
Running(p)   == st[p] \in {"program", "builtin"} /\ p \notin stopped
Ended(p)     == st[p] \in {"done", "quit"}
Unit(p, n)   == [from |-> p, number |-> n]

(* A program reads its input to the end; history and the message that a    *)
(* command was not found, which is one unit, do not read.                  *)
Units(p) == IF prog[p][1] \in Command \cup {"history"} THEN MaxUnits ELSE 1

Init ==
  /\ line \in Line
  /\ \E old \in Leftover : args = parseArguments(line, old)
  /\ tempargs = Garbage /\ nextPipe = 0 /\ in = 0 /\ i = 0 /\ pc = "redirect"
  /\ files = File
  /\ prog = [p \in Process |-> << >>]
  /\ st = [p \in Process |-> IF p = Main THEN "child" ELSE "none"]
  /\ fd = [p \in Process |-> IF p = Main THEN <<Tty, Tty>> ELSE <<Nothing, Nothing>>]
  /\ held = [p \in Process |-> {}]
  /\ pipe = [p \in Process |-> << >>]
  /\ wrote = [p \in Process |-> 0] /\ got = [p \in Process |-> << >>]
  /\ stopped = {} /\ news = {} /\ faults = 0

(* exec gives a process its program.  What it cannot find is only printed. *)
Exec(p, words, io) ==
  /\ prog' = [prog EXCEPT ![p] = words]
  /\ st' = [st EXCEPT ![p] = IF words[1] \in Command THEN "program" ELSE "builtin"]
  /\ fd' = [fd EXCEPT ![p] = io]

-----------------------------------------------------------------------------
(***************************************************************************)
(* Slips, as in the other modules: no action uses them.                    *)
(***************************************************************************)

(* close(fd[1]) forgotten                                                  *)
Wait_KeepsWriteEnd(s) ==
  /\ pc = "wait" /\ s = i + 1 /\ s \in news
  /\ news' = news \ {s}
  /\ in' = i + 1 /\ i' = i + 1 /\ pc' = "stages"
  /\ UNCHANGED <<line, args, tempargs, nextPipe, files, procs, data, stopped, faults>>

(* dup2(out, 1) before the comparison of in with 0, which closes it again  *)
StageExec_NoOutput(s) ==
  /\ s # Main /\ st[s] = "child" /\ s \notin stopped
  /\ Exec(s, prog[s], <<IF s = 1 THEN fd[s][1] ELSE <<"pipe", s - 1>>, fd[s][2]>>)
  /\ held' = [held EXCEPT ![s] = @ \ {<<"read", s - 1>>, <<"write", s>>}]
  /\ UNCHANGED <<child, data, stopped, news, faults>>

-----------------------------------------------------------------------------
(* The child                                                               *)

(* Of the redirections of a line <, > and >> each are done once, in this   *)
(* order.  A file that cannot be opened is left out without a word, as a   *)
(* file that does not exist after < and >>.                                *)
HasRedirection == \E sign \in Redirection : Given(args, sign)
Target(sign)   == searchForRedirection(args, sign)
Created        == IF Given(args, ">") THEN {Target(">")} \ {NULL} ELSE {}

Redirect ==
  LET stdin  == IF Given(args, "<") /\ Target("<") \in files THEN <<"read", Target("<")>> ELSE Tty
      stdout == IF Given(args, ">>") /\ Target(">>") \in files \cup Created
                  THEN <<"append", Target(">>")>>
                ELSE IF Created # {} THEN <<"create", Target(">")>> ELSE Tty
      words  == redirections(args)
  IN
  /\ pc = "redirect" /\ HasRedirection /\ words # << >>
  /\ files' = files \cup Created
  /\ tempargs' = words
  /\ IF words[1] \in Command
       THEN pc' = "exec" /\ Exec(Main, words, <<stdin, stdout>>)
       ELSE pc' = "stages" /\ fd' = [fd EXCEPT ![Main] = <<stdin, stdout>>] /\ UNCHANGED <<prog, st>>
  /\ UNCHANGED <<line, args, nextPipe, in, i, held, data, stopped, news, faults>>

Dies ==
  /\ pc' = "exit"
  /\ st' = [st EXCEPT ![Main] = "quit"]
  /\ held' = [held EXCEPT ![Main] = {}]
  /\ fd' = [fd EXCEPT ![Main] = <<Nothing, Nothing>>]

(* When no word is left, execvpe gets a null pointer for the name of its   *)
(* file, which the C library reads: the child is killed.                   *)
NoCommand ==
  /\ pc = "redirect" /\ HasRedirection /\ redirections(args) = << >>
  /\ files' = files \cup Created
  /\ tempargs' = << >>
  /\ Dies
  /\ UNCHANGED <<line, args, nextPipe, in, i, prog, data, stopped, news, faults>>

NoRedirect ==
  /\ pc = "redirect" /\ ~HasRedirection
  /\ pc' = "stages"
  /\ UNCHANGED <<line, args, tempargs, nextPipe, in, i, files, procs, data, stopped, news, faults>>

(* nextArg, and then strcmp with tempargs[0]: if that is no word, what     *)
(* happens is undefined, and the model follows the child no further.       *)
NextWords == nextArg(args, tempargs, nextPipe)
Lost ==
  /\ pc = "stages" /\ NextWords.tempargs = Garbage
  /\ pc' = "lost"
  /\ UNCHANGED <<line, args, tempargs, nextPipe, in, i, files, procs, data, stopped, news, faults>>

TakeWords ==
  /\ pc = "stages" /\ NextWords.tempargs # Garbage
  /\ tempargs' = NextWords.tempargs /\ nextPipe' = NextWords.nextPipe
  /\ UNCHANGED <<line, args>>

(* pipe and fork.  The stage inherits both ends and those that are open.   *)
Spawn ==
  LET s == i + 1 IN
  /\ TakeWords /\ i < pipeCounter
  /\ held' = [held EXCEPT ![Main] = @ \cup {<<"read", s>>, <<"write", s>>},
                          ![s] = held[Main] \cup {<<"read", s>>, <<"write", s>>}]
  /\ prog' = [prog EXCEPT ![s] = tempargs']
  /\ st' = [st EXCEPT ![s] = "child"]
  /\ fd' = [fd EXCEPT ![s] = fd[Main]]
  /\ pc' = "wait"
  /\ UNCHANGED <<files, in, i, data, stopped, news, faults>>

(* When fork fails waitpid gets -1 and waits for any stage; without one    *)
(* that it has not yet seen the end of, it fails and the child exits.      *)
SpawnFails ==
  /\ TakeWords /\ i < pipeCounter
  /\ faults < MaxFaults /\ faults' = faults + 1
  /\ held' = [held EXCEPT ![Main] = @ \cup {<<"read", i + 1>>, <<"write", i + 1>>}]
  /\ pc' = "wait any"
  /\ UNCHANGED <<files, in, i, prog, st, fd, data, stopped, news>>

Waited == \A s \in Process \ {Main} : st[s] = "none" \/ (Ended(s) /\ s \notin news)

NoChild ==
  /\ pc = "wait any" /\ Waited
  /\ Dies
  /\ UNCHANGED <<line, args, tempargs, nextPipe, in, i, files, prog, data, stopped, news, faults>>

(* waitpid(childpid, WUNTRACED | WCONTINUED) returns when the stage ends,  *)
(* is stopped or goes on; then the child closes fd[1] and keeps fd[0].     *)
Wait(s) ==
  /\ (pc = "wait" /\ s = i + 1) \/ pc = "wait any"
  /\ s \in news
  /\ news' = news \ {s}
  /\ held' = [held EXCEPT ![Main] = @ \ {<<"write", i + 1>>}]
  /\ in' = i + 1 /\ i' = i + 1
  /\ pc' = "stages"
  /\ UNCHANGED <<line, args, tempargs, nextPipe, files, prog, st, fd, data, stopped, faults>>

(* printHistory looks for the files of its redirections in tempargs, at    *)
(* the positions that they have in args, and makes both.  Where > stands   *)
(* it puts a NULL in between, so that a >> right before it has no file.    *)
Place(sign)        == LastAt(args, sign) + 2
Makes(words, sign) == /\ Given(args, sign) /\ Place(sign) <= Len(words)
                      /\ sign = ">>" /\ Given(args, ">") => Place(sign) # Place(">") - 1
PastNull(words)    == \E sign \in {">", ">>"} : Given(args, sign) /\ Place(sign) > Len(words) + 1

printHistory(words) ==
  [made   |-> {words[Place(sign)] : sign \in {g \in {">", ">>"} : Makes(words, g)}},
   stdout |-> IF Makes(words, ">>") THEN <<"append", words[Place(">>")]>>
              ELSE IF Makes(words, ">") THEN <<"create", words[Place(">")]>> ELSE fd[Main][2]]

(* dup2(in, 0), and the last words are executed or the history printed.    *)
Last ==
  LET words == tempargs'
      stdin == IF in = 0 THEN fd[Main][1] ELSE <<"pipe", in>>
  IN
  /\ TakeWords /\ i = pipeCounter
  /\ \/ /\ words[1] = "history" /\ PastNull(words)
        /\ pc' = "lost"
        /\ UNCHANGED <<files, prog, st, fd>>
     \/ /\ words[1] = "history" /\ ~PastNull(words)
        /\ pc' = "exec" /\ Exec(Main, words, <<stdin, printHistory(words).stdout>>)
        /\ files' = files \cup printHistory(words).made
     \/ /\ words[1] # "history"
        /\ pc' = "exec" /\ Exec(Main, words, <<stdin, fd[Main][2]>>)
        /\ UNCHANGED files
  /\ UNCHANGED <<in, i, held, data, stopped, news, faults>>

-----------------------------------------------------------------------------
(* The stages                                                              *)

(* in and out become standard input and output, and are closed.            *)
StageExec(s) ==
  /\ s # Main /\ st[s] = "child" /\ s \notin stopped
  /\ Exec(s, prog[s], <<IF s = 1 THEN fd[s][1] ELSE <<"pipe", s - 1>>, <<"pipe", s>> >>)
  /\ held' = [held EXCEPT ![s] = @ \ {<<"read", s - 1>>, <<"write", s>>}]
  /\ UNCHANGED <<child, data, stopped, news, faults>>

(* A write into a full pipe waits, and so does a read from an empty one    *)
(* while any process has its other end open.                               *)
Write(p) ==
  /\ Running(p) /\ wrote[p] < Units(p)
  /\ IF fd[p][2][1] # "pipe" THEN UNCHANGED pipe
     ELSE LET k == fd[p][2][2] IN
          /\ Len(pipe[k]) < Capacity
          /\ pipe' = [pipe EXCEPT ![k] = Append(@, Unit(p, wrote[p] + 1))]
  /\ wrote' = [wrote EXCEPT ![p] = @ + 1]
  /\ UNCHANGED <<child, procs, got, stopped, news, faults>>

Read(p) ==
  /\ Running(p) /\ st[p] = "program" /\ fd[p][1][1] = "pipe"
  /\ LET k == fd[p][1][2] IN
     /\ pipe[k] # << >>
     /\ got' = [got EXCEPT ![p] = Append(@, Head(pipe[k]))]
     /\ pipe' = [pipe EXCEPT ![k] = Tail(@)]
  /\ UNCHANGED <<child, procs, wrote, stopped, news, faults>>

EndOfInput(p) ==
  fd[p][1][1] = "pipe" =>
    LET k == fd[p][1][2] IN pipe[k] = << >> /\ \A q \in Process : ~Writes(q, k)

Close(p, how) ==
  /\ st' = [st EXCEPT ![p] = how]
  /\ held' = [held EXCEPT ![p] = {}]
  /\ fd' = [fd EXCEPT ![p] = <<Nothing, Nothing>>]
  /\ news' = IF p = Main THEN news ELSE news \cup {p}
  /\ UNCHANGED <<child, prog, data, stopped, faults>>

Finish(p) ==
  /\ Running(p) /\ wrote[p] = Units(p)
  /\ \/ st[p] = "program" /\ EndOfInput(p) /\ Close(p, "done")
     \/ st[p] = "builtin" /\ Close(p, "quit")

(* A program that does not want more input, or that a signal kills.        *)
Quit(p) == Running(p) /\ Close(p, "quit")

Stop(s) ==
  /\ faults < MaxFaults /\ faults' = faults + 1
  /\ s # Main /\ st[s] \in {"child", "program", "builtin"} /\ s \notin stopped
  /\ stopped' = stopped \cup {s} /\ news' = news \cup {s}
  /\ UNCHANGED <<child, procs, data>>

Continue(s) ==
  /\ s \in stopped
  /\ stopped' = stopped \ {s} /\ news' = news \cup {s}
  /\ UNCHANGED <<child, procs, data, faults>>

ChildStep ==
  \/ Redirect \/ NoCommand \/ NoRedirect \/ Spawn \/ SpawnFails \/ NoChild \/ Last \/ Lost
  \/ \E s \in Process : Wait(s)

Step(p) == StageExec(p) \/ Write(p) \/ Read(p) \/ Finish(p)

Over == pc = "lost" \/ \A p \in Process : st[p] = "none" \/ Ended(p)
Finished == Over /\ UNCHANGED vars

Next ==
  \/ ChildStep
  \/ \E p \in Process : Step(p) \/ Quit(p) \/ Stop(p) \/ Continue(p)
  \/ Finished

Spec == Init /\ [][Next]_vars

(* Every process that can go on is scheduled.                              *)
FairSpec == Spec /\ WF_vars(ChildStep) /\ \A p \in Process : WF_vars(Step(p))

-----------------------------------------------------------------------------
TypeOK ==
  /\ pc \in {"redirect", "stages", "wait", "wait any", "exec", "exit", "lost"}
  /\ i \in 0 .. pipeCounter /\ in \in 0 .. pipeCounter /\ nextPipe \in 0 .. Max(Used(args)) + 2
  /\ Main \in Process
  /\ st \in [Process -> {"none", "child", "program", "builtin", "done", "quit"}]
  /\ held \in [Process -> SUBSET ({"read", "write"} \X Process)]
  /\ \A k \in Process : Len(pipe[k]) <= Capacity /\ wrote[k] \in 0 .. MaxUnits
  /\ stopped \subseteq Process /\ news \subseteq Process \ {Main} /\ faults \in 0 .. MaxFaults

(* A line that is a pipeline, or a command with redirections to and from   *)
(* files that exist, is executed as it was meant, whatever was typed       *)
(* before: each part of the one by one process, and of the other the words *)
(* that are left with the files that follow the signs.                     *)
AsWritten ==
  LET words == Kept(line) IN
  /\ IsPipeline(words) =>
       /\ pc # "lost"
       /\ \A p \in Process : prog[p] # << >> => prog[p] = Part(words, p)
  /\ IsRedirected(words) /\ st[Main] = "program"
     /\ (\A sign \in {"<", ">>"} : Given(args, sign) => TargetOf(words, sign) \in File) =>
       /\ prog[Main] = CommandOf(words)
       /\ fd[Main] = <<IF Given(args, "<") THEN <<"read", TargetOf(words, "<")>> ELSE Tty,
                       IF Given(args, ">>") THEN <<"append", TargetOf(words, ">>")>>
                       ELSE IF Given(args, ">") THEN <<"create", TargetOf(words, ">")>> ELSE Tty>>

(* A process that reads from a pipe is told when its writer has ended:     *)
(* nobody else, the reader and the child included, can write into it.      *)
OnlyItsWriter ==
  \A p \in Process : Running(p) /\ fd[p][1][1] = "pipe" =>
    \A q \in Process : Writes(q, fd[p][1][2]) => q = fd[p][1][2]

(* The stages pass on what they write, in order and without loss.  A stage *)
(* that could not be forked and a child that a redirection made run the    *)
(* whole line as one command take no part, as if they had quit.            *)
Status(p) == IF p <= i /\ st[p] = "none" THEN "quit"
             ELSE IF ~Ended(p) THEN "open"
             ELSE IF p = Main /\ i < pipeCounter THEN "quit" ELSE st[p]
Stages    == INSTANCE Pipeline
               WITH Stage <- Process,
                    sent <- wrote, received <- got, status <- [p \in Process |-> Status(p)]
PipelineSpec == Stages!Spec

(* The command line comes to its end, if stages that are stopped go on.    *)
Finishes == (\A p \in Process : []<>(p \notin stopped)) => <>Over
=============================================================================

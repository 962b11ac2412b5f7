# CS345: a formal model

The repository holds three programs of an operating systems course, which share
no code:

| directory | program | what it is |
|---|---|---|
| `Assignment1` | `mysh.c` | a shell: pipelines, redirections, background commands, history |
| `Assignment2` | `server.c`, `client.c` | a guessing game between two multithreaded processes over shared memory |
| `Assignment3` | `setproclimit.c`, `getproclimit.c` | two system calls added to Linux 2.6.38.1 |

This directory models all three, checks the models with TLC, and proves with TLAPS nearly every safety
property that they have: of the game and its sessions, of the shell's job control and pipelines, and of the two system calls. What is left out is
listed in section 11.

## 1. Inventory

### The guessing game (Assignment2)

The **server** draws a secret of `N` letters, waits for a client on the Unix
socket `guess_socket`, receives from it a number of threads `M`, creates three
System V segments under random keys, sends the keys and starts `M` threads. The
**client** attaches the segments and starts `M` threads of its own. Thread `i` of
each process is responsible for the positions `i*(N/M) .. (i+1)*(N/M)-1`.

* segment 1 holds the client's guess for every position (`shm1`),
* segment 2 the server's verdicts, 1 for right and 0 for wrong (`shm2`),
* segment 3 an array of `2*M` POSIX semaphores (`shm3`). Semaphore `i` says
  "client thread `i` has guessed", semaphore `i+M` says "server thread `i` has judged".

A client thread fills its block with `'A'`, and then posts, waits, and increments
every letter judged wrong, until a whole pass finds none. A server thread
judges its block whenever the client has posted, until all its verdicts are 1.
Then the server joins its threads, closes the connection, detaches and removes
the segments, and accepts the next client. SIGINT ends it.

| part | state | operations | interaction | what is hard | what makes it correct |
|---|---|---|---|---|---|
| threads of a session | `shm1`, `shm2`, `shm3`, `thread_no`, `mtx`, `tid`, `low`, `high`, `flag` | create and join, number a thread, fill, post, wait, scan, found, compare | shared memory, semaphores, a mutex in each process | interleavings of `2*M` threads in two processes; termination of both sides in the same round | no race on a position, verdicts that fit the guess, no lost wake-up, both sides end, the string is found |
| sessions | `k`, `shmid`, `shm`, `M`, the sockets, the kernel's segments | accept, send and receive, create, attach, detach and remove segments, SIGINT handler | a stream socket, System V keys, `IPC_RMID` | keys used again, segments that outlive their creator, a peer that dies between two messages, a stale `M` | both ends use the same segments; none is left; every client is served |
| drawing the secret | `secretString` | `createString` | | | the secret is any string of letters |

### The shell (Assignment1)

| part | state | operations | what is hard | what makes it correct |
|---|---|---|---|---|
| command loop and job control | `globalPid`, `name`, the flags of a line | prompt, `exit`, `cd`, fork, exec, `waitpid`, SIGINT and SIGTERM handlers | signals between `fork` and the assignment of `globalPid`; children that stop or run in the background; a stale `globalPid` | a signal reaches the foreground command and nobody else; every child is waited for; the loop ends only by `exit` or with the input |
| parsing and redirections | `args`, `tempargs`, the positions of `<`, `>`, `>>` | `parseArguments`, `searchForRedirection`, `searchForPipe`, `redirections`, `nextArg` | arrays without a terminator, a sign as the last word, an exec that fails | the words executed are those of this line, without the redirections |
| pipelines | the pipe descriptors of each stage | the loop over stages, `spawn_proc` | stages run one after the other over bounded pipes | a pipeline whose stages end by themselves ends |
| history | `commandHistory`, `historyArg` | store, `printHistory` | the ring wraps | the commands kept are the last ones, in order |
| timing | clock readings | `timeCounter`, `printTime` | | |

### The system calls (Assignment3)

| part | state | operations | what is hard | what makes it correct |
|---|---|---|---|---|
| `setproclimit` | `root_pid`, `time_limit`, `time_interval` of every task | find the task, walk its subtree | walks without a lock, against fork, exit and other callers | afterwards the subtree is one family with one limit |
| `getproclimit` | the same, and the CPU times | find the task, walk all tasks | the same; exchanged comparisons; a sum that wraps | minimum, maximum and sum are those of the family |
| kernel glue | three fields, two numbers, two table entries | | numbers that differ between `proclimit.h` files | a macro reaches the call it is named for |
| test programs | the struct they print | set, get, print | they rely on three layers, and run while everything else does | they print what they set, and times that grow |

`PROJECT.json` lists under "hazards" every place in these programs that is hard
to test, with the properties that cover it, or the reason why none does.

## 2. Plan

| order | modules | subject | state |
|---|---|---|---|
| 1 | `GuessBlocks`, `GuessThreads`, `LetterSearch`, `MCGuessThreads` | one session of the game, and what it implements | done |
| 2 | `GuessInvariant`, `GuessThreads_proofs` | its inductive invariant and the proofs | done |
| 3 | `GuessSession`, `MCGuessSession` | sockets, keys and segments over many sessions, crashes, SIGINT | checked, its safety proved by 9 |
| 4 | `TaskLists`, `ProcFamily`, `MCProcFamily` | `setproclimit` as a walk, step by step, against fork, exit and other callers | checked, its safety proved by 11 |
| 5 | `ShellWords`, `Pipeline`, `ShellPipeline`, `MCShellPipeline` | words of a line against reference definitions; stages, bounded pipes, ends held open; the abstract pipeline | checked, its safety proved by 10 |
| 6 | `MyShell`, `MCMyShell` | job control: foreground, background and stopped children, signals, `globalPid`; the history ring | checked, its safety proved by 7 |
| 7 | `MyShell_proofs` | its types, and what becomes of children and signals | done |
| 8 | `ProcTimes`, `ProcTests`, `MCProcTests` | `getproclimit` while processes run, and the test programs that reach it through numbers and headers | checked, its safety proved by 12 |
| 9 | `GuessSession_proofs`, `GuessService_proofs` | both ends of a connection, under every fault; the order of undisturbed sessions | done |
| 10 | `ShellPipeline_proofs` | who holds which end of a pipe; a command line implements `Pipeline`; it is executed as it was written | done |
| 11 | `TaskLists_proofs`, `ProcFamily_proofs` | lists and sums; where a walk of `setproclimit` goes, and what it leaves out | done |
| 12 | `ProcTests_proofs` | the totals and extremes of `getproclimit`, and what its callers may rely on | done |

Every safety property that a passing run checks is now a theorem. Still worth writing: theorems of the operators of
`ShellWords` for lines that are neither a well-formed pipeline nor one command with redirections, such as one with an empty
part, at which `nextArg` stays for the rest of the line.

Composition: `GuessThreads` and `LetterSearch` extend `GuessBlocks`;
`GuessThreads` instantiates `LetterSearch`; `GuessInvariant` extends
`GuessThreads` and is extended by `MCGuessThreads` and `GuessThreads_proofs`.
`GuessSession` takes the game of one session as one step, `Solve`; that the game
does end with all letters found, whatever the interleaving, is what
`GuessThreads` shows. `ProcTests` extends `ProcTimes`, in which a call to `setproclimit` is one
step whose detail is `ProcFamily`; both extend `TaskLists`, the linked lists of the kernel. `ShellPipeline` extends `ShellWords` and instantiates
`Pipeline`. In `MyShell` a child runs its stages one by one and then ends; what it does
meanwhile is `ShellPipeline`.

## 3. GuessThreads: one session

`GuessThreads` begins when both processes are about to create threads, and ends
when both have joined them. The variables are those of the programs under their
names; `pc[p]` is the place of thread `p` in `threadManipul`, `at[p]` the index
of the loop it is in, and `created` and `joined` the indices of main's loops. A
thread is a pair of a process and an index into `threads`.

| actions | code |
|---|---|
| `Create`, `Join` | the loops over `pthread_create` and `pthread_join` |
| `Lock`, `LoadNumber`, `StoreNumber`, `Unlock` | the thread takes a number; `thread_no++` is a read and a write |
| `Fill`, `FillEnds` | client.c:195-196, one position at a time |
| `ClientPost`, `ClientWait` | client.c:198-200 |
| `ScanWrong`, `ScanRight`, `ScanEnds` | client.c:201-208 |
| `FoundWrong`, `FoundRight`, `FoundEnds` | `found`, one position at a time, outside the semaphores |
| `ServerWait`, `Compare`, `CompareEnds`, `ServerPost` | server.c:358-360, one position at a time |

A step touches one position of the segments. Reading and then writing a plain
`char` in one step is sound only if no other thread is there at the same time,
and this is itself checked and proved: `NoDataRace`. Characters are numbers, and
`NextChar` wraps like a `char`. `sem_wait` that is interrupted by a signal is
left out: the client has no handler and the server's handler exits.

Properties:

* `NoDataRace`: no thread is about to write a position that another is about to
  read or write.
* `NeverOvershoots`: no guess passes the secret letter.
* `VerdictStands`: a verdict of 1 is never out of date. `VerdictIsFresh`: the
  verdict 0 on which the client acts is about the guess it replaces.
* `OneToken`, `NoLostWakeup`: the two semaphores of a pair pass one token to and
  fro and never lose it.
* `ClientFoundTheString`: what the server prints once it has joined.
* `Termination`: both processes join all their threads.
* `SearchSpec`, `SearchProgress`: the session implements `LetterSearch`.

`LetterSearch` is what a session promises: guesses go from `'0'` to `'A'` and up
one letter at a time, never past the secret letter, and a side retires a block
only when the block is guessed. Under the refinement mapping `guess` is `shm1`,
and the retired blocks are those whose threads have exited.

`GuessThreads` contains a section of slips, such as a forgotten mutex or a loop
that ends one position early. No action uses them. Each, put in the place of the
operator its name begins with, makes one property fail: they show that the
properties are sensitive to the code. `GuessBlocks` and the other modules
have such slips, too.

## 4. GuessSession: many sessions

`GuessSession` models the two main functions, one action for each system call by
which processes see each other, and the kernel's part in them:

* `segs` are the segments that exist, with their keys, sizes and the processes
  that have mapped them. `IPC_RMID` takes the key from a segment, and the segment
  goes when nobody maps it any more.
* `queue` holds the connections that wait to be accepted; `connect` blocks when
  it holds more than the backlog. `toServer` and `toClient` are the data under way.
* A process that exits or is killed has its sockets closed and its segments
  detached. A `recv` from a peer that has gone returns and leaves the variable
  alone; a `send` to it raises SIGPIPE, which neither program handles.

| actions | code |
|---|---|
| `StartServer` | server.c:64-100 |
| `Accept`, `RecvM`, `SendN` | server.c:112-137; a negative `M` makes `calloc` fail |
| `CreateSegment` | one of the three functions in server.c:247-336: an existing segment is taken if it is large enough, except for the third, which asks for `IPC_EXCL`; otherwise another key is drawn |
| `SendKeys`, `Solve`, `JoinThreads` | server.c:144-177 |
| `Close`, `Detach`, `RemoveSemaphores`, `RemoveSegment` | server.c:186-220 |
| `signalIntHandler` | server.c:226-231, at any step |
| `Connect`, `SendM`, `RecvN`, `RecvKeys`, `Attach`, `Leave` | client.c:66-175; a client that has ended may be run again |
| `Crash` | a client is killed, at any step |

Properties: `NoLeak` (no segment of earlier sessions has its key when the server
waits for the next client), `AttachesInTime` (the keys a client is about to use
still name its session's segments), `PlaysWithServer` (a client whose threads
wait has the server on the other side of the same segments), `Isolation` (two
clients never map the same segment), `Matched` (whatever crashed before, the two
ends of an open connection use the same segments) and `Served` (a client that
connects finds the string and ends).

Semaphore set 0, which `semctl` removes (server.c:198), is modelled as the
Boolean `foreign`: a set of another program of the same user.

`MaxFaults` bounds the clients that are killed and the interrupts of the server, together.
`NamesAssumption` says of the constants that no client is `Server` or `None`, which stand for the server and for nobody,
and that `Private` (`IPC_PRIVATE`) is not among the keys that are drawn.

## 5. ProcFamily: setproclimit against fork and exit

`setproclimit_dump` walks recursively over the lists of children. The kernel is
preemptible and runs on several processors (`CONFIG_PREEMPT`, `CONFIG_SMP` in
`.config`) and the walk takes neither `tasklist_lock` nor an RCU read lock, so
between any two of its accesses to a task another process may fork, exit or call
`setproclimit`, too. A step of the model is one such access. `fields[t]` are `root_pid`,
`time_limit` and `time_interval` of task `t`; `call[c].stack` are the
activations of `setproclimit_dump` in the call of process `c`.

| actions | code |
|---|---|
| `Call` | `sys_setproclimit`: the comparison of limit and interval, the search for the task; calls that return `-EINVAL` change nothing and are left out |
| `Store` | setproclimit.c:20-22, one field at a time |
| `Enter`, `Descend`, `Return` | the loop, setproclimit.c:26-30: the first child, the recursive call, and the next sibling once that returns |
| `Copy`, `Link` | fork: the `task_struct` is copied, with its fields; later it enters the lists |
| `Exit`, `Release` | exit: the children move to the end of the list of init; the parent's wait takes the task from its list and releases it |

`Begins` is the moment at which `Call` enters the walk. The last four actions are kernel code that is not in this repository; each changes the
lists in one step, as it does under `tasklist_lock`. Where the walk
reads a released task, or passes the head of a list that is not the one it began with, which
it would take for a task, the code has undefined behaviour: the caller becomes
`astray` and is followed no further. That is not an end of the call: the loop behind the foreign head never meets
its own, and goes on for ever or over memory that is no task. `line` is a history variable: the ancestors a process had
when it was born, which `parent` forgets when they exit. Every process is taken to have
one thread.

Properties: `SetsMembers` (when a call returns during which nobody exited and no other call was under way, the whole
subtree has the new root and limits, except for processes forked meanwhile),
`StaysBelow` (as long as nobody exits, whatever is forked, a walk follows no pointer
out of the lists and stores only into descendants), `OnlyBelow` (the same without that
condition) and `Ends` (as long as nobody exits, a call returns, whatever is forked where it walks; once somebody has
exited nothing is claimed, since it may be astray). `OnlyBelow` fails, and a run shows it. `call[c].before`, `calm` and `alone`
are history variables for these properties: two calls for overlapping subtrees do mix their fields, which is
why `SetsMembers` asks that a call was alone; `StaysBelow` holds of any number of calls at once.

## 6. ProcTimes and ProcTests: getproclimit and its callers

`ProcTimes` models `sys_getproclimit`. A call checks its arguments in the order of the
code, which tells `EINVAL` from `EFAULT`; reads the process's three fields and twice its
time; walks over the list of all processes, one a step; and copies the answer out. `tasks` is the
list, to which `Fork` appends and from which `Release` takes (`next_task` is `After` of `TaskLists`, and `list_del` its `Without`); `Run` adds to a CPU time,
and `Regroup` is a `setproclimit` of another process.

| actions | code |
|---|---|
| `sys_getproclimit` | getproclimit.c:17-37 and :82-107: the checks; the search of a pid is one step |
| `Read`, `ReadAll` | :39-51 and :108-121, one read a step; a process without a family gets -1, the greatest unsigned long |
| `Visit` | the loop, :57-68 and :126-137, with its exchanged comparisons and its sum modulo `ULong` |
| `CopyOut` | :70-78 and :139-147; memory that is only readable gets `EINVAL` after all the work |
| `sys_setproclimit` | setproclimit.c:33-77 |

The two branches of the code, for pid -1 and for others, differ only in the search. A read
from a released task makes the caller `astray`, as in `ProcFamily`.

`ProcTests` adds the programs: `test1`, `test3`, and `any`, which makes one call with any number
and arguments and so reaches every error path. A program calls a macro, the macro passes a
number from its header (`SetNumber`, `GetNumber`), and `syscall` takes the entry of the
table. Arguments are machine words, which `sys_getproclimit` takes for a pointer
(`PointerOf`). The numbers in use before, 0 to 340, are `StockCalls`, which no header may
use for the new calls. `calm` of a program is a history variable: whether, since its `setproclimit`, nobody has been released
and nobody else has called what may set limits (`Sets`).

Properties: `Total` and `Extremes` (when nobody was released or given other limits during
a call, its total lies between the family's time at the call and at the return, modulo `ULong`,
although the walk is not atomic; and so for the greatest and the least), `ReadsBack` (what test1 and test3 print are the limits they set), `Growing` (the totals of test1 do not become less),
`PrintsThree` (test1 comes to its three prints), `MinBelowMax`.

## 7. MyShell: job control

`MyShell` is the loop of `main` with its children. A line is a built-in, `exit`, or a command with or
without `&` and with some number of `|`; what its words are does not matter here. `news` holds the
children with a change of state that `waitpid` may return: one that ended, was
stopped or goes on. `background` and `halted` are history: the children of lines with `&`
and those that have been stopped.

| actions | code |
|---|---|
| `BuiltIn`, `Exit`, `EndOfInput`, `Run` | mysh.c:99-160, and the cleanup at :247; `Store` is :116-117 |
| `Fork`, `ForkFails`, `Assign`, `ExitFailed` | :163-171; the handlers may run between any two of them |
| `Wait` | :226-243 |
| `Handler` | `signalIntHandler`, `signalTermHandler` in the shell |
| `ChildAssign`, `ChildHandler`, `Stage`, `Exec`, `Ends` | :172-223, in the child, which has the shell's handlers until `execvpe` |
| `Signal`, `Stop`, `Continue`, `Killed` | the terminal, the user, and programs without handlers |

A pid may be used again once its process has been reaped, as by the kernel. At the end of the input the program
frees pointers into an array on its stack, which the C library answers with an abort: `EndOfInput` ends in
`"aborted"`, or, if no line was read, in `"exited"`.

Properties: `Recent` (the ring holds the last `SIZE` lines in order), `PromptIsClean` (when the shell reads the
next line, only background and stopped commands are left), `PassedOn` (while the shell waits, a
signal goes to the command it waits for and to nobody else), `OneTarget` (a signal is passed on to one process at
most, except after a fork that failed), `ComesBack` (after every command the shell is at its prompt again), and
`SignalKills`, which the code does not keep.

## 8. ShellWords and ShellPipeline: a command line

`ShellWords` has the functions that cut a line into words and look for signs, as operators over the
array `args`, of which the entries above the `NULL` are what earlier lines left.
`CommandOf`, `TargetOf` and `Part` are reference definitions of what a line means.

`ShellPipeline` is the child that runs a line. A stage has standard input and output, and
the ends of pipes that it holds besides; a pipe holds `Capacity` units.

| actions | code |
|---|---|
| `Redirect`, `NoRedirect` | :185-190 and `redirections`; when exec fails the child goes on into the loop |
| `NoCommand` | :404-407 and :189: with no word left, as for `< f`, `execvpe` is given a null pointer, and the child is killed |
| `Spawn`, `SpawnFails` | :194-204, `nextArg`, and `fork` in `spawn_proc` |
| `Wait`, `NoChild` | :553-558, :205-208: `waitpid`, and after a failed fork `waitpid(-1)` |
| `Last` | :211-223: the child itself becomes the last stage; `printHistory`, which opens the file of `>`, puts a `NULL` where the sign stands (:432) and then opens that of `>>` |
| `Lost` | :214-216: `tempargs[0]` is not a word, undefined behaviour |
| `StageExec` | :526-551: `dup2`, `close`, `execvpe` |
| `Write`, `Read`, `Finish`, `Quit`, `Stop`, `Continue` | what programs do and what happens to them |

Properties: `AsWritten` (a well-formed pipeline, or a command with redirections to files that
exist, is executed as it was meant, whatever was typed before), `OnlyItsWriter` (nobody but its writer holds the write end
of a pipe that is read, so the reader learns of its end), `PipelineSpec` and `Finishes` (the line comes to its end if stopped stages are
continued). `Pipeline` is what a pipeline promises: stages pass on all they
produce, in order, and leave open whether they run together or one after the other.

## 9. Runs

| run | instance | what it shows |
|---|---|---|
| `threads` | N = 4, M = 2, two letters, fair | all properties of a session, no deadlock, the refinement, the inductive invariant |
| `session_served` | two clients, M = 1 or 2, N = 2, fair | the five properties of undisturbed service |
| `session_faults` | two clients, killed clients and an interrupted server, M = -1 to 1 | `Matched` with dead peers, segments left behind and unsuitable arguments |
| `family` | trees that grow to 4 processes, exits, fair | a walk undisturbed by exits ends, and sets all of the subtree and nothing else |
| `times` | three processes, the second is the program; numbers 341 and 342; fair | the properties of section 6 |
| `shell` | two pids, four lines, a ring of two, two events, fair | the properties of section 7 |
| `pipeline` | all lines of up to three of nine words, and longer ones; two units, pipes of two, two faults, fair | the properties of section 8 |

Bounds. Two threads for each process are two pairs, enough for a thread of
one pair to meet every kind of thread of another; two letters for each thread let
a loop be in its middle; the letters 1 and 2 of the alphabet make a position right at the
first or at the second round, so that one of a block is right while the other is still wrong.
The proofs remove these bounds. In `GuessSession`, two clients are one that is served and
one that waits or lingers with old keys; three keys are the fewest with which a
session can be created, so every key is used again at once, which is the worst
case for `AttachesInTime` and `Isolation`. Six identifiers are never exhausted. `MaxFaults`
bounds the faults, not the sessions. Clients and keys are symmetric in the
safety run of `GuessSession` and are not permuted where `Served` is checked.

In `ProcFamily` four processes are init and a chain or a fan of three, enough for a
parent, its child and its child's child or sibling to change roles while the walk is at
one of them; the fifth in `family_strays` is the stranger in the list of init.
A `task_struct` that was released is not used again for another process, and a process keeps its number. For `Ends`, which is
about calls during which nobody exits, this is no restriction: the kernel has finitely many pids and then frees none of
them, so that only so many processes can be forked in front of the walk.

In `ProcTimes` the third process is a child of the program, its sibling, or is forked while a walk is under
way; `MaxTime = 1` lets each process run once at any moment of a walk, and `ULong = 3`
makes the sum of all three wrap. With `MaxTime = 2` the instance is beyond a few minutes.

In `MyShell` two pids are a foreground command beside one in the background or stopped; a third command
makes `fork` fail for want of a pid. Four lines go twice round a ring of two. Two events are a signal
and a stop, a stop and a continuation, or two signals. In `ShellPipeline` three stages are a first, a middle and a
last one; lines of three words over all signs contain every malformed one that the functions
treat in a way of its own, and the longer ones the well-formed combinations. A pipe that holds two units
and programs that write two mean that no stage fills its pipe; `pipeline_full` has a pipe that holds one.

Deadlock is checked in `GuessThreads` (the end of a session is the stuttering
step `Ended`), in `session_served`, in `ShellPipeline` and in `MyShell` (`Finished` and `Over`). The other runs do not
check it because there the system does stop: a server whose client is killed
while it plays waits for ever, and one that is asked for no threads never creates the third segment; in `ProcFamily` all but
init may have gone, or the caller may be astray; and in `ProcTests` the programs end, and processes have used their bounded time.

Fairness. `FairSpec` of `GuessThreads` asks weak fairness of each thread and of
each main: the kernel schedules every thread that can run. Weak fairness is enough,
although the mutex is shared, since a thread takes it only once. `FairSpec` of
`GuessSession` asks it of the server and of every running client. Nothing is
assumed of `Connect`, of `Crash` or of SIGINT. `FairSpec` of `ProcFamily` asks it of the
walks, since the scheduler runs a process that is in a system call; nothing obliges a process to
fork, to exit or to call. `FairTests` asks it of the programs and their calls. In `MyShell` the shell's
steps after a line was read are fair, and so are the children, which means that commands end; nobody is obliged to
type a line or to continue a child. In `ShellPipeline` the steps of the child and of each stage that can go on
are fair; continuing a stopped stage is the premise of `Finishes`.

### Disagreements found

Each is a run that TLC refutes.

| run | claim | what the code does |
|---|---|---|
| `family_strays` | setproclimit.c:17: the process and its family | when the parent of a child exits, the walk goes on among the children of init |
| `times_minmax` | getproclimit.c:61, :64: the less is min, the more is max | the comparisons are exchanged, and so are the two results |
| `tests_number` | Assignment3/Readme.txt:29: test1 prints three times | `proclimit.h` beside the tests has 342 for both calls; `setproclimit` becomes `getproclimit` with a bad pointer, and test1 exits |
| `shell_interrupt` | mysh.c:88: SIGINT kills the process | a child that is not yet a program handles the signal like the shell, with `globalPid` 0, and goes on |
| `pipeline_full` | mysh.c:521, Readme.txt:79: pipelines are executed | a stage that fills its pipe waits for a reader that is forked only after the stage has ended |

Further disagreements, which follow from the same models and have no run of their own:

* If `M` does not divide `N`, the last `N % M` letters belong to no thread (server.c:350-351) and server.c:182 says
  all the same that the string was found; if `M > N`, the server's threads leave at once and the client's wait for
  ever (client.c:200). With `M = 0` no segment can be created (server.c:321), and the server draws keys for ever.
* `semctl` at server.c:198, under "Kill semaphores", removes System V semaphore set 0, not the server's own.
* A negative `M` ends the server, which readme.txt:15 says ends with ctrl_C; after a ctrl_C the next server
  may take over a segment left behind (no `IPC_EXCL`, server.c:260) where server.c:248 says "Create".
* A call of `setproclimit` in which a process exits need not return, where setproclimit.c:75 says that it returns zero.
* Two calls of `setproclimit` for one family leave it with two limits, of which proclimit.h:8 knows one; a child between the two halves of its fork is missed and inherits the old fields;
  a family member whose parent has exited is not reached by a new limit for its root.
* mysh.c:355 says that `>>` creates a file that does not exist; the `open` at :377 has no `O_CREAT`, and the output goes to the terminal.
* Readme.txt:20 of the shell says that only `exit` leaves the loop; the end of the input does too, and then aborts.
* A line with redirections and `|` is executed as one command with `|` among its arguments; in a line with an empty part
  the words before it are run by every later stage: `a | | b` runs `a` three times, and never `b`. For `< f` the child says that there is
  no command (:405), and is then killed by the null pointer it gives to `execvpe`.
* After a fork that failed, a signal before the exit is sent to every process of the user, `kill(-1, ...)`.
* `history` is printed from the first cell of the ring: after `SIZE` commands the newest come first.

## 10. Proofs

`GuessThreads_proofs` proves, for every `N`, `M`, range of characters and
alphabet that satisfy the assumptions of `GuessBlocks` (`N` and `M` are
positive; `'0'` precedes `'A'`, and the letters of the secret start at `'A'`):

| theorem | statement |
|---|---|
| `TypeCorrect` | `Spec => []TypeOK` |
| `Invariant` | `Spec => []IInv` |
| `RaceFreedom` | `Spec => []NoDataRace` |
| `GuessBounded` | `Spec => []NeverOvershoots` |
| `VerdictsStand`, `VerdictsFresh` | `Spec => []VerdictStands`, `Spec => []VerdictIsFresh` |
| `TokensUnique`, `WakeupsKept` | `Spec => []OneToken`, `Spec => []NoLostWakeup` |
| `Refinement` | `Spec => SearchSpec` |
| `FoundWhenDivisible` | if `N % M = 0`, `Spec => []ClientFoundTheString` |

None of the safety properties is inductive. `GuessInvariant` strengthens them in two layers:

* `ControlInv` says where threads are. The mutex makes their numbers distinct
  (`StartInv`, `DistinctIds`); `thread_no` is the number of threads that have
  counted themselves, hence at most `M`. The right to touch block `i` is a baton that is with client
  thread `i`, in semaphore `i`, with server thread `i` or in semaphore `i+M`,
  and in one of these places only (`BatonInv`).
* `DataInv` says what the segments hold. A block is untouched until its
  client thread fills it (`FillInv`). While the baton is on its way back, a
  verdict of 0 is about the guess that is there (`JudgedInv`): this is what keeps
  the client from passing the letter. What a thread has seen to be right
  is right (`RightInv`).

The proof takes one action at a time. Batons are shown to be kept first, then
the disjointness of blocks (`i*(N/M)` arithmetic) turns a write to one position into
a statement about one block. `RaceFreedom` follows: two threads at the same position are in
the same block, have the same number, and would both hold its baton. `FoundWhenDivisible`
needs that the blocks cover every position when `M` divides `N`, and that the
`M` numbers taken by joined threads are all of `0 .. M-1`.

`MyShell_proofs` proves, for every size of the history, set of process ids, and number of
pipes, lines and events:

| theorem | statement |
|---|---|
| `TypeCorrect` | `Spec => []TypeOK` |
| `CleanPrompt` | `Spec => []PromptIsClean` |
| `SignalPassedOn`, `SignalToOne` | `Spec => PassedOn`, `Spec => OneTarget` |
| `HistoryRecent` | `Spec => []Recent` |

Its inductive invariant is `ShellInv`. Not even `TypeOK` is inductive: a child inherits `globalPid`, which may be
-1, but only between a failed fork and the exit (`TargetInv`). `CleanPrompt` needs to know why `waitpid` may return:
a child in `news` has ended or was stopped once (`NewsInv`), so that each child is background, was stopped, or is
the one the shell is about to wait for (`ChildInv`). `SignalPassedOn` needs that `globalPid` and
`pid` agree while the shell waits (`WaitInv`), and that only the handler takes the shell's
signal. `HistoryRecent` needs arithmetic: fewer than `SIZE` numbers in a row have different
remainders modulo `SIZE`, so a new line replaces the oldest.

`GuessSession_proofs` proves, for every set of clients and of keys, every number of faults, and
whatever the clients ask for:

| theorem | statement |
|---|---|
| `TypeCorrect` | `Spec => []TypeOK` |
| `EndsMatch` | `Spec => []Matched` |

The inductive invariant is `SessionInv`. Its parts: a key that is not `IPC_PRIVATE` names at most one
segment (`SegsOK`); what the server has made so far has the keys it remembers, and nothing else has
them (`MadeInv`), since a removed segment has lost its key and a new one takes only a key that names nothing; a client is
waiting or accepted, and once only (`QueueInv`); and what a client has not yet received, together with what it has,
is what the server has sent it so far, in order (`Buffer`, `Talk`). The last is what
`Matched` turns on: a client that attaches over an open connection has received the keys of this session and of
no other.

`GuessService_proofs` adds what holds if nobody is killed or interrupted, an `int` is longer than a
`char`, and clients ask for `0` to `N` threads (`Undisturbed`), for any number of clients and sessions:

| theorem | statement |
|---|---|
| `NothingLeaks` | `Undisturbed` implies `Spec => []NoLeak` |
| `ClientsAttach` | `Undisturbed` implies `Spec => []AttachesInTime` |
| `ServerPlays` | `Undisturbed` implies `Spec => []PlaysWithServer` |
| `ClientsApart` | `Undisturbed` implies `Spec => []Isolation` |

`ServiceInv` is inductive together with `SessionInv`. The segments that are not removed are those
the server has created and not yet removed, one for each index (`HeldInv`). That `CreateSegment` never takes over the first
segment for the second is arithmetic: `N` bytes are no room for `N` ints. A segment of the session is mapped by
the connected client only (`MapInv`). Neither end of a connection goes before the game is solved
(`OpenInv`), and it is not solved before the client has attached (`SolvedInv`): so the server
joins, closes and removes too late to disturb a client that still attaches.

`ShellPipeline_proofs` proves, for every set of lines of fewer than `SIZE` words, every number of stages, faults and
units, and every size of pipes:

| theorem | statement |
|---|---|
| `ReadersSeeTheEnd` | `Spec => []OnlyItsWriter` |
| `Refinement` | `Spec => PipelineSpec` |
| `TypeCorrect` | `Spec => []TypeOK` |
| `ExecutesAsWritten` | `Spec => []AsWritten` |
| `RedirectionsAreCommand` | `redirections(a) = CommandOf(words)` if `a` holds one command with redirections, `words` |

The assumptions are that a line has a word besides `mytime` and `&` (the shell forks no child for an empty one), that no
word is a null pointer, that there are more places for words and for stages than a line needs, and that no sign and not `history` names a program.

The inductive invariant of the first two is `PipeInv`. `ControlInv` says how far the loop is: `in` is the number of stages it has waited
for or failed to fork, and only those and the one it waits for exist. Its initial case is a count: `args` has no more
`|` than the line (`CountPipes`). `EndsInv` says who has which end open: a stage before exec the write end of its own
pipe and no other, since the child closed the earlier ones before it forked; a stage after exec only its standard
output; the child the one it has just made. `DataInv` says that what a pipe holds, after what has been read from it, is what was
written into it, in order. For the refinement, a program finds the end of its input only when its pipe is empty and
nobody can write; by `EndsInv` the stage before has then ended or was never forked, and by
`DataInv` everything it wrote has been read. A fork that failed is the abstract stage's `Quit`.

The other two need `WordsInv` besides, and `SizesInv` for the bounds. What `args` holds is the line up to its `NULL`,
whatever is above it (`Holds`). `PositionInv` says that the part that begins at `nextPipe` has no higher number than the loop has
turns: without it `nextArg` could be called behind the `NULL` and read what earlier lines left. It is an inequality, since an empty part
leaves `nextPipe` where it is; in a well-formed pipeline the two are equal (`PipelineInv`), and then
the words up to the next `|` are that part by definition (`PartIs`): a `|` is found by how many there are up to it, and no two
have as many. `RedirectedInv` follows a line with redirections through a failing exec, after which the child
goes on with the whole line as one stage: its first word is then no program either. That the loop of `redirections` leaves the
command is shown from the end of the line backwards: of the positions that the loop comes to, the last one at which it
returned anything but the rest of the command would be an exception to `LoopStep`. So no induction theorem is needed,
and neither is one to know that the recursive function exists (`LoopExists`).

`ProcFamily_proofs` proves, for every finite set of processes, any number of them in `setproclimit` at once, and every set of
limits (`TaskAssumption`):

| theorem | statement |
|---|---|
| `FamilyTypes` | `Spec => []TypeOK` |
| `WalkStaysBelow` | `Spec => StaysBelow` |
| `WalkSetsMembers` | `Spec => SetsMembers` |

The kernel keeps its tree: whoever has a parent has one that is alive, and the list of a process has its children, each
once (`TreeInv`). Of a call that has been calm the stack is a path in this tree: each activation is at a child
of its process, and the activation above is that child's. So the node after a child exists, and all the stack is below the root of the call
(`StaysBelow`). For `SetsMembers` the walk is
cut into what it has done and what is left: of the tasks that were there when the call began, each child of a process
that the walk has passed has its new fields and so has all that is below it, each child that it has not passed is yet to come. Forks do not disturb this
because they append to a list. At the end the processes with new fields hold the root and all their
children, and `Below` is the least such set. The initial tree has its parents before their children in the order of pids, so what is
said of all lines of descent there follows from the least pid that is an exception.

`ProcTests_proofs` proves, for every finite set of processes that holds init, every set of programs among them, bound on times, width
of an unsigned long, set of limits and numbers in the header (`ProcTimesAssumption`, `ProcTestsAssumption`):

| theorem | statement |
|---|---|
| `TimesTypes` | `TestsSpec => []TypeOK` |
| `TotalOfFamily` | `TestsSpec => Total` |
| `ExtremesOfFamily` | `TestsSpec => Extremes` |
| `PrintsOwnLimits` | `TestsSpec => []ReadsBack` |
| `TotalsGrow` | `TestsSpec => Growing` |

The inductive invariant is `TestsInv`. `KernelInv` and `CallInv` are types, with a list of processes without repetition. `CalmInv`
is about a call that nobody has disturbed: the three fields that it has read are those the process has now; of the members that the walk has
passed, the sum is, modulo `ULong`, a number between the sum of their times at the call and that of their times now, and the two extremes are
between the extremes of these. A member that runs adds to the second sum whether or not it has been passed; a
member that is forked has no time yet, and comes last in the list; a step over a member adds a time
between its first and its present one. `Total` is this at the end of the list, where
all members have been passed. `ProgInv` says what a program may rely on since its own `setproclimit`: its
process is the root of its family with the limits it has set (`OwnLimits`), the struct it holds was the answer of such a call, and the total there is not above
the family's time now. `Growing` compares this with the `Total` of the next call; its
bound on the family's time is what makes the two remainders comparable.

`TaskLists_proofs` has the lemmas both rest on: the node after a node and the list without one, for lists without repetition; least and
greatest numbers of a finite set; sums of a function over a finite set when a member is added or a value grows; and
remainders of sums.

Only model-checked: everything that needs fairness (`Termination`,
`SearchProgress`, `Served`, `Ends`, `PrintsThree`, `ComesBack`, `Finishes`), which is out of the prover's reach, and the
properties that a run refutes.

## 11. Not modelled

* In `setproclimit`: the search of the list of all processes, which is one step; threads, each with
  its own list of children; the depth of the kernel stack; negative limits; the
  `printk` calls, and the re-use of a released `task_struct` by another process.
* In `getproclimit`: the search for a pid step by step; the conversion of jiffies to microseconds; threads; the
  exit of a process and its release are one step.
* In the shell: `timeCounter` and `printTime`, which subtract clock readings and print them; the working directory; what is printed, `name`
  included; failures of `pipe`, `dup2` and `malloc`; lines longer than a buffer; characters and blanks within a line; `printArgs`, which is never called.
* test2, which ignores the results of its calls; a program that makes any call stands for it.
* In the game: the printed times; failures of `socket`, `bind`, `listen`,
  `accept`, `shmat`, `pthread_create`, and of `calloc` for want of memory; a
  System V identifier that is used again; a semaphore set 0 that the server may not remove.
  Segments that stand for one another after a leak (the first two may be one
  segment) are modelled as far as their creation and removal go; the game over
  such segments is not.
* Build files, and what the stock kernel files contain besides the two calls.

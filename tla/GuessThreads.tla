----------------------------- MODULE GuessThreads -----------------------------
(***************************************************************************)
(* One session of the guessing game of Assignment2, from the moment both   *)
(* processes start to create threads to the moment both have joined them.  *)
(*                                                                         *)
(* The server and the client each run M threads over three shared memory   *)
(* segments: shm1 holds the client's guesses, shm2 the server's verdicts,  *)
(* shm3 an array of 2*M semaphores.  Thread i of the client hands its      *)
(* block of guesses to thread i of the server with semaphore i, and gets   *)
(* the verdicts back with semaphore i + M.  A step is what a loop does at   *)
(* one position, or one operation on a mutex, a semaphore or a thread.     *)
(* That a loop reads and writes its position in one step hides nothing as  *)
(* long as no other thread touches the position, which NoDataRace states.  *)
(***************************************************************************)
EXTENDS GuessBlocks, FiniteSets

VARIABLES
  secret,     \* secretString
  shm1,       \* first segment: a guessed character for every position
  shm2,       \* second segment: 1 where the guess was right, else 0
  shm3,       \* third segment: the values of the 2*M semaphores
  created,    \* how many threads main has created so far (each process)
  joined,     \* how many threads main has joined so far (each process)
  locked,     \* whether mtx is held (each process has its own mtx)
  thread_no,  \* the next thread number (each process has its own counter)
  pc,         \* where each thread is
  tid,        \* the number each thread took
  at,         \* the index of the loop each thread is in
  flag        \* whether a thread of the client has seen a wrong guess

memory  == <<shm1, shm2, shm3>>
mains   == <<created, joined>>
startup == <<locked, thread_no>>
vars == <<secret, memory, mains, startup, pc, tid, at, flag>>

Side   == {"client", "server"}
Thread == Side \X Id               \* <<process, index in its threads array>>
Sem    == 0 .. 2 * M - 1

NoId == -1
Unnumbered == {"unborn", "lock", "load"}
Critical   == {"load", "store", "unlock"}
Starting   == Unnumbered \cup Critical
Playing    == [client |-> {"fill", "post", "wait", "scan", "exit"},
               server |-> {"found", "wait", "compare", "post", "exit"}]

TypeOK ==
  /\ secret \in [Position -> Alphabet]
  /\ shm1 \in [Position -> Char]
  /\ shm2 \in [Position -> {0, 1}]
  /\ shm3 \in [Sem -> Nat]
  /\ created \in [Side -> 0 .. M]
  /\ joined \in [Side -> 0 .. M]
  /\ locked \in [Side -> BOOLEAN]
  /\ thread_no \in [Side -> Nat]
  /\ pc \in [Thread -> Starting \cup Playing.client \cup Playing.server]
  /\ tid \in [Thread -> Nat \cup {NoId}]
  /\ at \in [Thread -> Int]
  /\ flag \in [Thread -> BOOLEAN]

(* The server has drawn the secret and initialised the three segments.     *)
Init ==
  /\ secret \in [Position -> Alphabet]
  /\ shm1 = [k \in Position |-> Blank]
  /\ shm2 = [k \in Position |-> 0]
  /\ shm3 = [j \in Sem |-> 0]
  /\ created = [s \in Side |-> 0]
  /\ joined = [s \in Side |-> 0]
  /\ locked = [s \in Side |-> FALSE]
  /\ thread_no = [s \in Side |-> 0]
  /\ pc = [p \in Thread |-> "unborn"]
  /\ tid = [p \in Thread |-> NoId]
  /\ at = [p \in Thread |-> 0]
  /\ flag = [p \in Thread |-> FALSE]

Goto(p, l) == pc' = [pc EXCEPT ![p] = l]

-----------------------------------------------------------------------------
(* A loop over the block of thread p is at position at[p].                 *)

InBlock(p)  == at[p] < High(tid[p])
Advance(p)  == at' = [at EXCEPT ![p] = @ + 1]
Restart(p)  == at' = [at EXCEPT ![p] = Low(tid[p])]

sem_post(j) == shm3' = [shm3 EXCEPT ![j] = @ + 1]
sem_wait(j) == shm3[j] > 0 /\ shm3' = [shm3 EXCEPT ![j] = @ - 1]

-----------------------------------------------------------------------------
(***************************************************************************)
(* Slips a programmer could make in this code.  No action uses them: each  *)
(* shows, put in the place of the operator its name begins with, that some *)
(* property below tells the code from the slip.                            *)
(***************************************************************************)

(* for (i = 0; i <= M; i++)                                                *)
Create_OneMore(s) ==
  /\ created[s] <= M
  /\ created' = [created EXCEPT ![s] = @ + 1]
  /\ Goto(<<s, created[s]>>, "lock")
  /\ UNCHANGED <<secret, memory, joined, startup, tid, at, flag>>

(* no pthread_mutex_lock                                                   *)
Lock_Absent(p) ==
  /\ pc[p] = "lock"
  /\ Goto(p, "load")
  /\ UNCHANGED <<secret, memory, mains, startup, tid, at, flag>>

(* tid.i = thread_no                                                       *)
StoreNumber_Absent(p) ==
  /\ pc[p] = "store"
  /\ Goto(p, "unlock")
  /\ UNCHANGED <<secret, memory, mains, startup, tid, at, flag>>

(* sem_wait(&tid.shm3[tid.i]): the client takes its own token back         *)
ClientWait_OwnToken(p) ==
  /\ p[1] = "client"
  /\ pc[p] = "wait"
  /\ sem_wait(tid[p])
  /\ Goto(p, "scan")
  /\ Restart(p)
  /\ UNCHANGED <<secret, shm1, shm2, mains, startup, tid, flag>>

(* the increment outside the if                                            *)
ScanRight_Increments(p) ==
  /\ pc[p] = "scan"
  /\ InBlock(p)
  /\ shm2[at[p]] # 0
  /\ shm1' = [shm1 EXCEPT ![at[p]] = NextChar(@)]
  /\ Advance(p)
  /\ UNCHANGED <<secret, shm2, shm3, mains, startup, pc, tid, flag>>

(* no flag = 1                                                             *)
ScanWrong_NoFlag(p) ==
  /\ pc[p] = "scan"
  /\ InBlock(p)
  /\ shm2[at[p]] = 0
  /\ shm1' = [shm1 EXCEPT ![at[p]] = NextChar(@)]
  /\ Advance(p)
  /\ UNCHANGED <<secret, shm2, shm3, mains, startup, pc, tid, flag>>

(* no sem_wait                                                             *)
ServerWait_Absent(p) ==
  /\ p[1] = "server"
  /\ pc[p] = "wait"
  /\ Goto(p, "compare")
  /\ Restart(p)
  /\ UNCHANGED <<secret, memory, mains, startup, tid, flag>>

(* shm2[i] = 0 without its else                                            *)
Compare_NoElse(p) ==
  /\ pc[p] = "compare"
  /\ InBlock(p)
  /\ shm2' = [shm2 EXCEPT ![at[p]] = 0]
  /\ Advance(p)
  /\ UNCHANGED <<secret, shm1, shm3, mains, startup, pc, tid, flag>>

(* i < high - 1                                                            *)
CompareEnds_Early(p) ==
  /\ pc[p] = "compare"
  /\ at[p] >= High(tid[p]) - 1
  /\ Goto(p, "post")
  /\ UNCHANGED <<secret, memory, mains, startup, tid, at, flag>>

(* sem_post(&tid.shm3[tid.i + tid.M - 1])                                  *)
ServerPost_OffByOne(p) ==
  /\ p[1] = "server"
  /\ pc[p] = "post"
  /\ sem_post(tid[p] + M - 1)
  /\ Goto(p, "found")
  /\ Restart(p)
  /\ UNCHANGED <<secret, shm1, shm2, mains, startup, tid, flag>>

-----------------------------------------------------------------------------
(* The main thread of either process: pthread_create in a loop, then       *)
(* pthread_join in a loop.                                                 *)

Create(s) ==
  /\ created[s] < M
  /\ created' = [created EXCEPT ![s] = @ + 1]
  /\ Goto(<<s, created[s]>>, "lock")
  /\ UNCHANGED <<secret, memory, joined, startup, tid, at, flag>>

Join(s) ==
  /\ created[s] = M
  /\ joined[s] < M
  /\ pc[<<s, joined[s]>>] = "exit"
  /\ joined' = [joined EXCEPT ![s] = @ + 1]
  /\ UNCHANGED <<secret, memory, created, startup, pc, tid, at, flag>>

Main(s) == Create(s) \/ Join(s)

-----------------------------------------------------------------------------
(* The beginning of threadManipul, the same in both programs: the thread   *)
(* takes a number under the mutex.                                         *)

Lock(p) ==
  /\ pc[p] = "lock"
  /\ ~locked[p[1]]
  /\ locked' = [locked EXCEPT ![p[1]] = TRUE]
  /\ Goto(p, "load")
  /\ UNCHANGED <<secret, memory, mains, thread_no, tid, at, flag>>

(* tid.i = thread_no++ reads the counter and then writes it.               *)
LoadNumber(p) ==
  /\ pc[p] = "load"
  /\ tid' = [tid EXCEPT ![p] = thread_no[p[1]]]
  /\ Goto(p, "store")
  /\ UNCHANGED <<secret, memory, mains, startup, at, flag>>

StoreNumber(p) ==
  /\ pc[p] = "store"
  /\ thread_no' = [thread_no EXCEPT ![p[1]] = tid[p] + 1]
  /\ Goto(p, "unlock")
  /\ UNCHANGED <<secret, memory, mains, locked, tid, at, flag>>

(* The thread goes to its first loop, over its own block.                  *)
Unlock(p) ==
  /\ pc[p] = "unlock"
  /\ locked' = [locked EXCEPT ![p[1]] = FALSE]
  /\ Goto(p, IF p[1] = "client" THEN "fill" ELSE "found")
  /\ at' = [at EXCEPT ![p] = Low(tid[p])]
  /\ UNCHANGED <<secret, memory, mains, thread_no, tid, flag>>

Start(p) == Lock(p) \/ LoadNumber(p) \/ StoreNumber(p) \/ Unlock(p)

-----------------------------------------------------------------------------
(* threadManipul of the client                                             *)

Fill(p) ==
  /\ pc[p] = "fill"
  /\ InBlock(p)
  /\ shm1' = [shm1 EXCEPT ![at[p]] = First]
  /\ Advance(p)
  /\ UNCHANGED <<secret, shm2, shm3, mains, startup, pc, tid, flag>>

FillEnds(p) ==
  /\ pc[p] = "fill"
  /\ ~InBlock(p)
  /\ Goto(p, "post")
  /\ UNCHANGED <<secret, memory, mains, startup, tid, at, flag>>

(* The head of the loop: flag = 0, and the block is handed to the server.  *)
ClientPost(p) ==
  /\ p[1] = "client"
  /\ pc[p] = "post"
  /\ flag' = [flag EXCEPT ![p] = FALSE]
  /\ sem_post(tid[p])
  /\ Goto(p, "wait")
  /\ UNCHANGED <<secret, shm1, shm2, mains, startup, tid, at>>

ClientWait(p) ==
  /\ p[1] = "client"
  /\ pc[p] = "wait"
  /\ sem_wait(tid[p] + M)
  /\ Goto(p, "scan")
  /\ Restart(p)
  /\ UNCHANGED <<secret, shm1, shm2, mains, startup, tid, flag>>

(* A position the server found wrong gets the next character.              *)
ScanWrong(p) ==
  /\ pc[p] = "scan"
  /\ InBlock(p)
  /\ shm2[at[p]] = 0
  /\ shm1' = [shm1 EXCEPT ![at[p]] = NextChar(@)]
  /\ flag' = [flag EXCEPT ![p] = TRUE]
  /\ Advance(p)
  /\ UNCHANGED <<secret, shm2, shm3, mains, startup, pc, tid>>

ScanRight(p) ==
  /\ pc[p] = "scan"
  /\ InBlock(p)
  /\ shm2[at[p]] # 0
  /\ Advance(p)
  /\ UNCHANGED <<secret, memory, mains, startup, pc, tid, flag>>

ScanEnds(p) ==
  /\ pc[p] = "scan"
  /\ ~InBlock(p)
  /\ Goto(p, IF flag[p] THEN "post" ELSE "exit")
  /\ UNCHANGED <<secret, memory, mains, startup, tid, at, flag>>

ClientThread(p) ==
  \/ Start(p)
  \/ Fill(p) \/ FillEnds(p)
  \/ ClientPost(p) \/ ClientWait(p)
  \/ ScanWrong(p) \/ ScanRight(p) \/ ScanEnds(p)

-----------------------------------------------------------------------------
(* threadManipul of the server, with found and compare_with_string         *)

(* found returns 0 at the first position that is not yet right ...         *)
FoundWrong(p) ==
  /\ pc[p] = "found"
  /\ InBlock(p)
  /\ shm2[at[p]] = 0
  /\ Goto(p, "wait")
  /\ UNCHANGED <<secret, memory, mains, startup, tid, at, flag>>

FoundRight(p) ==
  /\ pc[p] = "found"
  /\ InBlock(p)
  /\ shm2[at[p]] # 0
  /\ Advance(p)
  /\ UNCHANGED <<secret, memory, mains, startup, pc, tid, flag>>

(* ... and 1 when it has seen them all: the thread exits.                  *)
FoundEnds(p) ==
  /\ pc[p] = "found"
  /\ ~InBlock(p)
  /\ Goto(p, "exit")
  /\ UNCHANGED <<secret, memory, mains, startup, tid, at, flag>>

ServerWait(p) ==
  /\ p[1] = "server"
  /\ pc[p] = "wait"
  /\ sem_wait(tid[p])
  /\ Goto(p, "compare")
  /\ Restart(p)
  /\ UNCHANGED <<secret, shm1, shm2, mains, startup, tid, flag>>

Compare(p) ==
  /\ pc[p] = "compare"
  /\ InBlock(p)
  /\ shm2' = [shm2 EXCEPT ![at[p]] = IF shm1[at[p]] = secret[at[p]] THEN 1 ELSE 0]
  /\ Advance(p)
  /\ UNCHANGED <<secret, shm1, shm3, mains, startup, pc, tid, flag>>

CompareEnds(p) ==
  /\ pc[p] = "compare"
  /\ ~InBlock(p)
  /\ Goto(p, "post")
  /\ UNCHANGED <<secret, memory, mains, startup, tid, at, flag>>

ServerPost(p) ==
  /\ p[1] = "server"
  /\ pc[p] = "post"
  /\ sem_post(tid[p] + M)
  /\ Goto(p, "found")
  /\ Restart(p)
  /\ UNCHANGED <<secret, shm1, shm2, mains, startup, tid, flag>>

ServerThread(p) ==
  \/ Start(p)
  \/ FoundWrong(p) \/ FoundRight(p) \/ FoundEnds(p)
  \/ ServerWait(p) \/ Compare(p) \/ CompareEnds(p) \/ ServerPost(p)

-----------------------------------------------------------------------------
(* Both processes have joined their threads; the session is over.          *)
SessionOver == joined["client"] = M /\ joined["server"] = M

Ended == SessionOver /\ UNCHANGED vars

Next ==
  \/ \E s \in Side : Main(s)
  \/ \E i \in Id : ClientThread(<<"client", i>>) \/ ServerThread(<<"server", i>>)
  \/ Ended

Spec == Init /\ [][Next]_vars

(* The kernel schedules every thread that can run.                         *)
FairSpec ==
  /\ Spec
  /\ \A s \in Side : WF_vars(Main(s))
  /\ \A i \in Id : /\ WF_vars(ClientThread(<<"client", i>>))
                   /\ WF_vars(ServerThread(<<"server", i>>))

-----------------------------------------------------------------------------
(* Two threads on the same position.  Cells are named by segment.          *)

Writes(p) ==
  CASE pc[p] \in {"fill", "scan"} /\ InBlock(p) -> {<<"shm1", at[p]>>}
    [] pc[p] = "compare" /\ InBlock(p)          -> {<<"shm2", at[p]>>}
    [] OTHER                                    -> {}

Reads(p) ==
  CASE pc[p] \in {"scan", "found"} /\ InBlock(p) -> {<<"shm2", at[p]>>}
    [] pc[p] = "compare" /\ InBlock(p)           -> {<<"shm1", at[p]>>}
    [] OTHER                                     -> {}

(* No thread is about to write a cell of a segment that another thread, of *)
(* either process, is about to read or write: the plain char and int       *)
(* accesses of client.c and server.c never race.                           *)
NoDataRace ==
  \A p, q \in Thread : p # q => Writes(p) \cap (Reads(q) \cup Writes(q)) = {}

(* The client steps through the alphabet and stops in time: no guess ever  *)
(* passes the secret letter, so no char is ever incremented out of range.  *)
NeverOvershoots == \A k \in Position : shm1[k] <= secret[k]

(* A verdict of 1 is never out of date: while it stands in the second      *)
(* segment, the guess in the first segment is the secret letter.           *)
VerdictStands == \A k \in Position : shm2[k] = 1 => shm1[k] = secret[k]

(* When the client acts on the verdict 0, that verdict is about the guess  *)
(* it is going to replace, not about an earlier one.                       *)
VerdictIsFresh ==
  \A p \in Thread : pc[p] = "scan" /\ InBlock(p) /\ shm2[at[p]] = 0
                      => shm1[at[p]] # secret[at[p]]

(* The two semaphores of a pair never hold more than one token together.   *)
OneToken == \A i \in Id : shm3[i] + shm3[i + M] <= 1

(* When both threads of a pair are in sem_wait, a token is on its way to   *)
(* one of them: no wake-up is lost.                                        *)
NoLostWakeup ==
  \A i \in Id : \A c, s \in Id :
    /\ tid[<<"client", c>>] = i /\ pc[<<"client", c>>] = "wait"
    /\ tid[<<"server", s>>] = i /\ pc[<<"server", s>>] = "wait"
    => shm3[i] + shm3[i + M] = 1

-----------------------------------------------------------------------------
(* The session implements the search for the letters.                      *)
Retired(s) == {tid[p] : p \in {q \in Thread : q[1] = s /\ pc[q] = "exit"}}

Search == INSTANCE LetterSearch
            WITH guess <- shm1,
                 clientDone <- Retired("client"),
                 serverDone <- Retired("server")

(* Guesses go up one letter at a time, only where they are wrong, and a    *)
(* thread of either process exits only when its whole block is guessed.    *)
SearchSpec == Search!Spec

(* With fair scheduling the search also makes progress to its end.         *)
SearchProgress == Search!FairSpec

(* Both processes get past pthread_join for all of their threads.          *)
Termination == <>SessionOver

(* What the server reports when it has joined its threads.                 *)
ClientFoundTheString ==
  joined["server"] = M => \A k \in Position : shm1[k] = secret[k]
=============================================================================

----------------------------- MODULE GuessSession -----------------------------
(***************************************************************************)
(* The main functions of server.c and client.c of Assignment2: a server    *)
(* that serves one client after the other over a Unix socket, and the      *)
(* System V segments each session creates, maps and removes.  The letters  *)
(* and the threads that play are in GuessThreads; here a game is one step, *)
(* taken when a client plays over the segments of the server.              *)
(*                                                                         *)
(* A step is a system call by which processes see each other.  A client    *)
(* may crash and the server may get SIGINT at any step; then the kernel    *)
(* closes sockets and detaches segments, but removes no segment.           *)
(***************************************************************************)
EXTENDS Integers, Sequences, FiniteSets

CONSTANTS
  N,              \* the server's argv[1]
  ThreadArg,      \* what the clients' argv[1] may be
  Client,         \* client processes; one that has ended may be run again
  Key,            \* what ftok("./server.c", rand() % 100) may return
  IntSize,        \* sizeof(int)
  SemSize,        \* sizeof(sem_t)
  Backlog,        \* listen(s, 1)
  SegId,          \* bound: identifiers of segments that exist together
  MaxFaults       \* bound: how often the server gets SIGINT or a client crashes

ASSUME SizesAssumption ==
  /\ N \in Nat \ {0} /\ ThreadArg \subseteq Int
  /\ IntSize \in Nat \ {0} /\ SemSize \in Nat \ {0} /\ Backlog \in Nat
  /\ SegId \subseteq Nat \ {0}
  /\ MaxFaults \in Nat

VARIABLES
  srv,         \* where the server is
  conn,        \* s2: the client whose connection the server has accepted
  M,           \* the server's M, which keeps its value between sessions
  seg,         \* the segment the server is creating or removing
  k,           \* the server's keys
  shmid,       \* the server's segment identifiers
  queue,       \* connections the server has not accepted yet
  toServer,    \* what each client has sent and the server has not received
  toClient,    \* what the server has sent and each client has not received
  cli,         \* where each client is
  cM, cN, ck,  \* its numofThreads, N and keys
  cshm,        \* the segments it has mapped so far
  segs,        \* the kernel's segments
  foreign,     \* whether another program's semaphore set 0 exists
  faults       \* interrupts and crashes so far

serverVars == <<srv, conn, M, seg, k, shmid>>
clientVars == <<cli, cM, cN, ck, cshm>>
socketVars == <<queue, toServer, toClient>>
vars == <<serverVars, clientVars, socketVars, faults, segs, foreign>>

Server  == "server"
None    == "none"
NoSeg   == 0
Private == 0                        \* IPC_PRIVATE, the initial value of a key
Which   == 1 .. 3
Segment == [key : Key \cup {Private}, size : Nat, maps : SUBSET (Client \cup {Server}),
            removed : BOOLEAN, solved : BOOLEAN]

Connected == {"send", "recvN", "recvKeys", "attach", "play"}
Ended     == {"exit", "failed"}

TypeOK ==
  /\ srv \in {"accept", "recv", "sendN", "create", "sendKeys", "play",
              "close", "detach", "semctl", "remove", "down"}
  /\ conn \in Client \cup {None}
  /\ M \in ThreadArg
  /\ seg \in Which
  /\ k \in [Which -> Key \cup {Private}]
  /\ shmid \in [Which -> SegId \cup {NoSeg}]
  /\ queue \in Seq(Client)
  /\ toServer \in [Client -> Seq(ThreadArg)]
  /\ toClient \in [Client -> Seq({<<N>>} \cup [Which -> Key \cup {Private}])]
  /\ cli \in [Client -> {"idle"} \cup Connected \cup Ended]
  /\ cM \in [Client -> ThreadArg \cup {0}]
  /\ cN \in [Client -> {0, N}]
  /\ ck \in [Client -> [Which -> Key \cup {Private}]]
  /\ cshm \in [Client -> UNION {[1 .. n -> SegId] : n \in 0 .. 3}]
  /\ DOMAIN segs \subseteq SegId /\ \A i \in DOMAIN segs : segs[i] \in Segment
  /\ foreign \in BOOLEAN
  /\ faults \in 0 .. MaxFaults

NoKeys == [w \in Which |-> Private]

(* Neither a client nor a key is a value that stands for something else.   *)
ASSUME NamesAssumption == Client \cap {Server, None} = {} /\ Private \notin Key

(* The server listens; M is uninitialised.                                 *)
Init ==
  /\ srv = "accept" /\ conn = None /\ M \in ThreadArg /\ seg = 1
  /\ k = NoKeys /\ shmid = [w \in Which |-> NoSeg]
  /\ queue = << >>
  /\ toServer = [c \in Client |-> << >>] /\ toClient = [c \in Client |-> << >>]
  /\ cli = [c \in Client |-> "idle"]
  /\ cM = [c \in Client |-> 0] /\ cN = [c \in Client |-> 0]
  /\ ck = [c \in Client |-> NoKeys] /\ cshm = [c \in Client |-> << >>]
  /\ segs = << >>
  /\ foreign = TRUE
  /\ faults = 0

-----------------------------------------------------------------------------
(* The kernel                                                              *)

(* The segment a key names.  IPC_RMID takes the key from a segment, which  *)
(* goes on existing for the processes that have mapped it.                 *)
Named(key) == {i \in DOMAIN segs : segs[i].key = key /\ ~segs[i].removed}

Exists(S) == {i \in DOMAIN S : ~S[i].removed \/ S[i].maps # {}}
Kept(S)   == [i \in Exists(S) |-> S[i]]

Mapped(S, i, x) == [S EXCEPT ![i].maps = @ \cup {x}]

(* shmget and shmat of a new segment, which the kernel fills with zeros.   *)
FreeId == SegId \ (DOMAIN segs \cup {shmid[w] : w \in Which})

NewSegment(i, key, size, x) ==
  /\ i \in FreeId /\ \A j \in FreeId : i <= j
  /\ segs' = [j \in DOMAIN segs \cup {i} |->
                IF j = i THEN [key |-> key, size |-> size, maps |-> {x},
                               removed |-> FALSE, solved |-> FALSE]
                         ELSE segs[j]]

(* The kernel detaches the segments of a process that exits or calls shmdt.*)
Detached(x) == Kept([i \in DOMAIN segs |-> [segs[i] EXCEPT !.maps = @ \ {x}]])

(* The other end of the connection of client c is still open.              *)
ServerEnd(c) == conn = c \/ \E n \in 1 .. Len(queue) : queue[n] = c
ClientEnd(c) == cli[c] \in Connected

ServerDies ==
  /\ srv' = "down" /\ conn' = None /\ queue' = << >>
  /\ segs' = Detached(Server)
  /\ UNCHANGED <<M, seg, k, shmid, toServer, toClient>>

(* The variables of main when a client starts, or has ended.               *)
Fresh(c) ==
  /\ cN' = [cN EXCEPT ![c] = 0]
  /\ ck' = [ck EXCEPT ![c] = NoKeys]
  /\ cshm' = [cshm EXCEPT ![c] = << >>]

(* A client that ends leaves its segments; what it has sent can still be   *)
(* received.                                                               *)
ClientEnds(c, how) ==
  /\ cli' = [cli EXCEPT ![c] = how]
  /\ cM' = [cM EXCEPT ![c] = 0]
  /\ Fresh(c)
  /\ segs' = Detached(c)

(* send to a client that has gone raises SIGPIPE, which the server does    *)
(* not handle.                                                             *)
Send(msg, next) ==
  /\ \/ /\ ClientEnd(conn)
        /\ toClient' = [toClient EXCEPT ![conn] = Append(@, msg)]
        /\ srv' = next
        /\ UNCHANGED <<conn, M, k, shmid, queue, toServer, segs>>
     \/ /\ ~ClientEnd(conn)
        /\ ServerDies
  /\ seg' = 1
  /\ UNCHANGED <<clientVars, foreign, faults>>

(* The bytes of segment w for m threads and n letters.                     *)
Size(w, m, n) == CASE w = 1 -> n [] w = 2 -> n * IntSize [] w = 3 -> 2 * m * SemSize

-----------------------------------------------------------------------------
(***************************************************************************)
(* Slips a programmer could make in this code.  No action uses them: each  *)
(* shows, put in the place of the operator its name begins with, that some *)
(* property below tells the code from the slip.                            *)
(***************************************************************************)

(* the newest connection first                                             *)
Accept_Newest ==
  /\ srv = "accept"
  /\ queue # << >>
  /\ conn' = queue[Len(queue)]
  /\ queue' = SubSeq(queue, 1, Len(queue) - 1)
  /\ srv' = "recv"
  /\ UNCHANGED <<M, seg, k, shmid, toServer, toClient, clientVars, segs, foreign, faults>>

(* send(s2, k, sizeof(key_t), 0)                                           *)
SendKeys_OneKey == srv = "sendKeys" /\ Send(<<k[1]>>, "play")

(* the key of an earlier try is kept                                       *)
CreateSegment_OldKey ==
  /\ srv = "create"
  /\ \E key \in Key, old \in Key, i \in SegId :
       /\ Named(key) = {} /\ Size(seg, M, N) > 0
       /\ NewSegment(i, key, Size(seg, M, N), Server)
       /\ k' = [k EXCEPT ![seg] = old]
       /\ shmid' = [shmid EXCEPT ![seg] = i]
  /\ IF seg = 3 THEN srv' = "sendKeys" /\ seg' = 1
                ELSE srv' = "create" /\ seg' = seg + 1
  /\ UNCHANGED <<conn, M, clientVars, socketVars, foreign, faults>>

(* no pthread_join                                                         *)
JoinThreads_Absent ==
  /\ srv = "play"
  /\ srv' = "close"
  /\ UNCHANGED <<conn, M, seg, k, shmid, clientVars, socketVars, segs, foreign, faults>>

(* threads that have one letter have none: (N - 1) / M                     *)
JoinThreads_NoLetters ==
  /\ srv = "play"
  /\ M >= N \/ segs[shmid[3]].solved
  /\ srv' = "close"
  /\ UNCHANGED <<conn, M, seg, k, shmid, clientVars, socketVars, segs, foreign, faults>>

(* the third shmctl forgotten                                              *)
RemoveSegment_FirstTwo ==
  /\ srv = "remove"
  /\ segs' = Kept([segs EXCEPT ![shmid[seg]].removed = TRUE])
  /\ IF seg = 2 THEN srv' = "accept" /\ seg' = 1
                ELSE srv' = "remove" /\ seg' = seg + 1
  /\ shmid' = [shmid EXCEPT ![seg] = NoSeg]
  /\ UNCHANGED <<conn, M, k, socketVars, clientVars, foreign, faults>>

-----------------------------------------------------------------------------
(* main of server.c                                                        *)

Accept ==
  /\ srv = "accept"
  /\ queue # << >>
  /\ conn' = Head(queue)
  /\ queue' = Tail(queue)
  /\ srv' = "recv"
  /\ UNCHANGED <<M, seg, k, shmid, toServer, toClient, clientVars, segs, foreign, faults>>

(* recv leaves M alone when the client has gone.  calloc(2*M) fails when M *)
(* is negative, and the server exits.                                      *)
RecvM ==
  /\ srv = "recv"
  /\ \/ /\ toServer[conn] # << >>
        /\ Head(toServer[conn]) >= 0
        /\ M' = Head(toServer[conn])
        /\ toServer' = [toServer EXCEPT ![conn] = Tail(@)]
        /\ srv' = "sendN"
        /\ UNCHANGED <<conn, queue, toClient, seg, k, shmid, segs>>
     \/ /\ toServer[conn] = << >> /\ ~ClientEnd(conn)
        /\ M >= 0
        /\ srv' = "sendN"
        /\ UNCHANGED <<conn, M, queue, toServer, toClient, seg, k, shmid, segs>>
     \/ /\ IF toServer[conn] # << >> THEN Head(toServer[conn]) < 0
                                     ELSE ~ClientEnd(conn) /\ M < 0
        /\ ServerDies
  /\ UNCHANGED <<clientVars, foreign, faults>>

SendN    == srv = "sendN" /\ Send(<<N>>, "create")
SendKeys == srv = "sendKeys" /\ Send(k, "play")

(* A key that names no segment creates one.  A key in use gives the        *)
(* segment that has it, if it is large enough, except for the third, which *)
(* asks for IPC_EXCL.  Other keys fail, and another key is drawn; a size   *)
(* of 0 fails with every key, for ever.                                    *)
CreateSegment ==
  /\ srv = "create"
  /\ \E key \in Key, i \in SegId :
       /\ \/ /\ Named(key) = {} /\ Size(seg, M, N) > 0
             /\ NewSegment(i, key, Size(seg, M, N), Server)
          \/ /\ i \in Named(key) /\ seg # 3 /\ segs[i].size >= Size(seg, M, N)
             /\ segs' = Mapped(segs, i, Server)
       /\ k' = [k EXCEPT ![seg] = key]
       /\ shmid' = [shmid EXCEPT ![seg] = i]
  /\ IF seg = 3 THEN srv' = "sendKeys" /\ seg' = 1
                ELSE srv' = "create" /\ seg' = seg + 1
  /\ UNCHANGED <<conn, M, clientVars, socketVars, foreign, faults>>

(* The threads of both sides find the string.  They need the server and a  *)
(* client with the same M over the same segments, and a letter for each    *)
(* thread; then all of them end, in any order.                             *)
Solve ==
  /\ srv = "play"
  /\ M <= N
  /\ \E c \in Client : cli[c] = "play" /\ cM[c] = M /\ \A w \in Which : cshm[c][w] = shmid[w]
  /\ ~segs[shmid[3]].solved
  /\ segs' = [segs EXCEPT ![shmid[3]].solved = TRUE]
  /\ UNCHANGED <<serverVars, clientVars, socketVars, foreign, faults>>

(* pthread_join; threads without letters end at once.                      *)
JoinThreads ==
  /\ srv = "play"
  /\ M > N \/ segs[shmid[3]].solved
  /\ srv' = "close"
  /\ UNCHANGED <<conn, M, seg, k, shmid, clientVars, socketVars, segs, foreign, faults>>

Close ==
  /\ srv = "close"
  /\ conn' = None
  /\ srv' = "detach"
  /\ UNCHANGED <<M, seg, k, shmid, clientVars, socketVars, segs, foreign, faults>>

Detach ==
  /\ srv = "detach"
  /\ segs' = Detached(Server)
  /\ srv' = "semctl"
  /\ UNCHANGED <<conn, M, seg, k, shmid, clientVars, socketVars, foreign, faults>>

(* semid[i] is what sem_init returned, 0: semctl removes set 0, whoever    *)
(* created it.                                                             *)
RemoveSemaphores ==
  /\ srv = "semctl"
  /\ foreign' = FALSE
  /\ seg' = 1
  /\ srv' = "remove"
  /\ UNCHANGED <<conn, M, k, shmid, clientVars, socketVars, segs, faults>>

(* shmctl(IPC_RMID) of a segment that is gone fails, and the server exits. *)
(* Keys and identifiers are overwritten before they are read again, so the *)
(* model forgets them here.                                                *)
RemoveSegment ==
  /\ srv = "remove"
  /\ \/ /\ shmid[seg] \in DOMAIN segs
        /\ segs' = Kept([segs EXCEPT ![shmid[seg]].removed = TRUE])
        /\ IF seg = 3 THEN srv' = "accept" /\ seg' = 1
                      ELSE srv' = "remove" /\ seg' = seg + 1
        /\ shmid' = [shmid EXCEPT ![seg] = NoSeg]
        /\ k' = [k EXCEPT ![seg] = Private]
        /\ UNCHANGED <<conn, M, socketVars>>
     \/ /\ shmid[seg] \notin DOMAIN segs
        /\ ServerDies
  /\ UNCHANGED <<clientVars, foreign, faults>>

ServerStep ==
  \/ Accept \/ RecvM \/ SendN \/ CreateSegment \/ SendKeys \/ Solve \/ JoinThreads
  \/ Close \/ Detach \/ RemoveSemaphores \/ RemoveSegment

(* SIGINT: the handler closes a descriptor and exits.                      *)
signalIntHandler ==
  /\ srv # "down"
  /\ faults < MaxFaults
  /\ faults' = faults + 1
  /\ ServerDies
  /\ UNCHANGED <<clientVars, foreign>>

(* The server is run again: unlink, bind and listen.                       *)
StartServer ==
  /\ srv = "down"
  /\ srv' = "accept" /\ seg' = 1
  /\ k' = NoKeys /\ shmid' = [w \in Which |-> NoSeg]
  /\ M' \in ThreadArg
  /\ UNCHANGED <<conn, clientVars, socketVars, segs, foreign, faults>>

-----------------------------------------------------------------------------
(* main of client.c                                                        *)

(* The client is run; connect fails when no server listens, and waits when *)
(* the backlog is full.                                                    *)
Connect(c) ==
  /\ cli[c] \in {"idle"} \cup Ended
  /\ ~ServerEnd(c)
  /\ \/ srv = "down" /\ cli' = [cli EXCEPT ![c] = "failed"] /\ UNCHANGED <<cM, queue>>
     \/ /\ srv # "down" /\ Len(queue) <= Backlog
        /\ cli' = [cli EXCEPT ![c] = "send"] /\ queue' = Append(queue, c)
        /\ \E m \in ThreadArg : cM' = [cM EXCEPT ![c] = m]
  /\ Fresh(c)
  /\ toServer' = [toServer EXCEPT ![c] = << >>]
  /\ toClient' = [toClient EXCEPT ![c] = << >>]
  /\ UNCHANGED <<serverVars, segs, foreign, faults>>

(* send to a server that has gone raises SIGPIPE.                          *)
SendM(c) ==
  /\ cli[c] = "send"
  /\ \/ /\ ServerEnd(c)
        /\ toServer' = [toServer EXCEPT ![c] = Append(@, cM[c])]
        /\ cli' = [cli EXCEPT ![c] = "recvN"]
        /\ UNCHANGED <<cM, cN, ck, cshm, segs>>
     \/ /\ ~ServerEnd(c)
        /\ ClientEnds(c, "failed")
        /\ UNCHANGED toServer
  /\ UNCHANGED <<serverVars, queue, toClient, foreign, faults>>

(* recv leaves its variable alone when the server has gone.                *)
RecvN(c) ==
  /\ cli[c] = "recvN"
  /\ \/ /\ toClient[c] # << >>
        /\ cN' = [cN EXCEPT ![c] = Head(toClient[c])[1]]
        /\ toClient' = [toClient EXCEPT ![c] = Tail(@)]
     \/ toClient[c] = << >> /\ ~ServerEnd(c) /\ UNCHANGED <<cN, toClient>>
  /\ cli' = [cli EXCEPT ![c] = "recvKeys"]
  /\ UNCHANGED <<serverVars, cM, ck, cshm, queue, toServer, segs, foreign, faults>>

RecvKeys(c) ==
  /\ cli[c] = "recvKeys"
  /\ \/ /\ toClient[c] # << >>
        /\ ck' = [ck EXCEPT ![c] = Head(toClient[c])]
        /\ toClient' = [toClient EXCEPT ![c] = Tail(@)]
     \/ toClient[c] = << >> /\ ~ServerEnd(c) /\ UNCHANGED <<ck, toClient>>
  /\ cli' = [cli EXCEPT ![c] = "attach"]
  /\ UNCHANGED <<serverVars, cM, cN, cshm, queue, toServer, segs, foreign, faults>>

(* shmget without IPC_CREAT finds the segment that has the key now; with   *)
(* the key IPC_PRIVATE it creates one.  A client that gets none exits.     *)
Attach(c) ==
  LET w    == Len(cshm[c]) + 1
      key  == ck[c][w]
      size == Size(w, cM[c], cN[c])
      fits == {i \in Named(key) : key # Private /\ segs[i].size >= size /\ size >= 0}
  IN
  /\ cli[c] = "attach"
  /\ \/ \E i \in SegId :
          /\ \/ i \in fits /\ segs' = Mapped(segs, i, c)
             \/ key = Private /\ size > 0 /\ NewSegment(i, Private, size, c)
          /\ cshm' = [cshm EXCEPT ![c] = Append(@, i)]
          /\ cli' = [cli EXCEPT ![c] = IF w = 3 THEN "play" ELSE "attach"]
          /\ UNCHANGED <<cM, cN, ck>>
     \/ /\ fits = {} /\ ~(key = Private /\ size > 0)
        /\ ClientEnds(c, "failed")
  /\ UNCHANGED <<serverVars, socketVars, foreign, faults>>

(* pthread_join, close and the end: threads end when the game is solved.   *)
Leave(c) ==
  /\ cli[c] = "play"
  /\ cM[c] = 0 \/ segs[cshm[c][3]].solved
  /\ ClientEnds(c, "exit")
  /\ UNCHANGED <<serverVars, socketVars, foreign, faults>>

ClientStep(c) == SendM(c) \/ RecvN(c) \/ RecvKeys(c) \/ Attach(c) \/ Leave(c)

Crash(c) ==
  /\ ClientEnd(c)
  /\ faults < MaxFaults
  /\ faults' = faults + 1
  /\ ClientEnds(c, "failed")
  /\ UNCHANGED <<serverVars, socketVars, foreign>>

-----------------------------------------------------------------------------
Next ==
  \/ ServerStep \/ signalIntHandler \/ StartServer
  \/ \E c \in Client : Connect(c) \/ ClientStep(c) \/ Crash(c)

Spec == Init /\ [][Next]_vars

(* The kernel schedules both programs; nobody has to run or kill them.     *)
FairSpec == Spec /\ WF_vars(ServerStep) /\ \A c \in Client : WF_vars(ClientStep(c))

-----------------------------------------------------------------------------
(* When the server waits for the next connection, every segment of the     *)
(* sessions before is removed: no key stays in use.                        *)
NoLeak == srv = "accept" => \A i \in DOMAIN segs : segs[i].removed

(* The keys a client is about to use still name the segments of its        *)
(* session: the server has not removed them and nobody has taken the keys. *)
AttachesInTime ==
  \A c \in Client : cli[c] = "attach" =>
    /\ conn = c
    /\ \A w \in Which : Named(ck[c][w]) = {shmid[w]}

(* A client whose threads wait is served: the server plays with it, over   *)
(* the same segments.                                                      *)
PlaysWithServer ==
  \A c \in Client : cli[c] = "play" /\ ~segs[cshm[c][3]].solved =>
    srv = "play" /\ conn = c /\ \A w \in Which : cshm[c][w] = shmid[w]

(* No two clients map the same segment, although keys are used again.      *)
Isolation == \A i \in DOMAIN segs : Cardinality(segs[i].maps \cap Client) <= 1

(* Whatever crashes, and whichever segments a killed server has left       *)
(* behind, an open connection means that both sides use the same segments. *)
Matched ==
  \A c \in Client : cli[c] \in {"attach", "play"} /\ ServerEnd(c) =>
    /\ conn = c
    /\ \A w \in Which : ck[c][w] = k[w] /\ Named(k[w]) = {shmid[w]}
    /\ \A w \in 1 .. Len(cshm[c]) : cshm[c][w] = shmid[w]

(* Every client that connects finds the string and ends.                   *)
Served == \A c \in Client : cli[c] = "send" ~> cli[c] = "exit"
=============================================================================

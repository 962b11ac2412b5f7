-------------------------- MODULE GuessService_proofs --------------------------
(***************************************************************************)
(* The order of sessions when nobody is killed or interrupted and no       *)
(* client asks for a negative number of threads or for more than there are *)
(* letters: for any number of clients, that come again and again.          *)
(***************************************************************************)
EXTENDS GuessSession_proofs, FiniteSetTheorems

-----------------------------------------------------------------------------
(* The inductive invariant                                                 *)

(* An int is longer than a char: a segment of letters has no room for the  *)
(* verdicts about them.                                                    *)
Undisturbed == MaxFaults = 0 /\ IntSize > 1 /\ ThreadArg \subseteq 0 .. N

(* The segments the server has created and not yet removed.                *)
Held(w) == Made(w) \/ srv \in {"detach", "semctl"} \/ (srv = "remove" /\ w >= seg)

HeldInv ==
  /\ \A w \in Which : Held(w) => shmid[w] \in DOMAIN segs /\ ~segs[shmid[w]].removed
  /\ \A v, w \in Which : Held(v) /\ Held(w) /\ shmid[v] = shmid[w] => v = w
  /\ \A i \in DOMAIN segs : ~segs[i].removed => \E w \in Which : Held(w) /\ i = shmid[w]
  /\ srv = "create" /\ seg > 1 => segs[shmid[1]].size = N

(* A segment belongs to one client, and stays as long as that maps it.     *)
MapInv ==
  /\ \A w \in Which : Made(w) => \A c \in Client : c \in segs[shmid[w]].maps => c = conn
  /\ \A i \in DOMAIN segs : \A c, d \in Client : c \in segs[i].maps /\ d \in segs[i].maps => c = d
  /\ \A c \in Client : cli[c] \in {"attach", "play"} =>
       \A w \in 1 .. Len(cshm[c]) : cshm[c][w] \in DOMAIN segs /\ c \in segs[cshm[c][w]].maps

(* Neither end of a connection goes before the game is solved.             *)
Early == {"send", "recvN", "recvKeys", "attach"}

OpenInv ==
  /\ srv # "down"
  /\ \A n \in 1 .. Len(queue) : ClientEnd(queue[n])
  /\ srv \in {"recv", "sendN", "create", "sendKeys"} => ClientEnd(conn)
  /\ \A c \in Client : cli[c] \in Early => ServerEnd(c)
  /\ \A c \in Client : cli[c] = "play" => Len(cshm[c]) = 3 /\ (~segs[cshm[c][3]].solved => ServerEnd(c))

SolvedInv ==
  /\ srv = "sendKeys" => ~segs[shmid[3]].solved
  /\ srv = "close" => segs[shmid[3]].solved
  /\ srv \in {"play", "close"} /\ segs[shmid[3]].solved => cli[conn] \notin Early

ServiceInv == HeldInv /\ MapInv /\ OpenInv /\ SolvedInv

-----------------------------------------------------------------------------
(* Segments                                                                *)

(* As far as the server has to remove them, and as far as clients map them.*)
SameHeld(S, T) ==
  /\ \A i \in DOMAIN S : ~S[i].removed => i \in DOMAIN T /\ ~T[i].removed /\ T[i].size = S[i].size
  /\ \A i \in DOMAIN T : ~T[i].removed => i \in DOMAIN S /\ ~S[i].removed

SameMaps(S, T) ==
  /\ \A i \in DOMAIN S : (\E c \in Client : c \in S[i].maps) => i \in DOMAIN T
  /\ \A i \in DOMAIN T : i \in DOMAIN S /\ \A c \in Client : c \in T[i].maps <=> c \in S[i].maps

SolvedStays(S, T) ==
  \A i \in DOMAIN S : (\E c \in Client : c \in S[i].maps) /\ S[i].solved => T[i].solved

LEMMA SameRefl == SameHeld(segs, segs) /\ SameMaps(segs, segs) /\ SolvedStays(segs, segs)
  BY DEF SameHeld, SameMaps, SolvedStays

LEMMA DetachedFacts ==
  ASSUME SegsOK(segs), NEW x
  PROVE  /\ DOMAIN Detached(x) \subseteq DOMAIN segs
         /\ \A i \in DOMAIN segs : ~segs[i].removed \/ segs[i].maps \ {x} # {} => i \in DOMAIN Detached(x)
         /\ \A i \in DOMAIN Detached(x) :
              /\ Detached(x)[i].removed = segs[i].removed /\ Detached(x)[i].size = segs[i].size
              /\ Detached(x)[i].solved = segs[i].solved /\ Detached(x)[i].maps = segs[i].maps \ {x}
  <1> DEFINE T == [i \in DOMAIN segs |-> [segs[i] EXCEPT !.maps = @ \ {x}]]
  <1>1. /\ DOMAIN T = DOMAIN segs
        /\ \A i \in DOMAIN segs : /\ T[i].removed = segs[i].removed /\ T[i].size = segs[i].size
                                  /\ T[i].solved = segs[i].solved /\ T[i].maps = segs[i].maps \ {x}
    BY DEF SegsOK, Segment
  <1>2. Detached(x) = Kept(T)
    BY DEF Detached
  <1> HIDE DEF T
  <1>3. DOMAIN Kept(T) = Exists(T) /\ \A i \in Exists(T) : Kept(T)[i] = T[i]
    BY DEF Kept
  <1>4. Exists(T) = {i \in DOMAIN T : ~T[i].removed \/ T[i].maps # {}}
    BY DEF Exists
  <1> QED
    BY <1>1, <1>2, <1>3, <1>4

LEMMA ServerDetaches ==
  ASSUME SegsOK(segs)
  PROVE  LET T == Detached(Server) IN SameHeld(segs, T) /\ SameMaps(segs, T) /\ SolvedStays(segs, T)
  <1>1. \A i \in DOMAIN segs : \A c \in Client : c \in segs[i].maps \ {Server} <=> c \in segs[i].maps
    BY Names
  <1>2. \A i \in DOMAIN segs : (\E c \in Client : c \in segs[i].maps) => segs[i].maps \ {Server} # {}
    BY Names
  <1> QED
    BY <1>1, <1>2, DetachedFacts DEF SameHeld, SameMaps, SolvedStays

LEMMA SolvedSame ==
  ASSUME SegsOK(segs), NEW i
  PROVE  LET T == [segs EXCEPT ![i].solved = TRUE]
         IN  SameHeld(segs, T) /\ SameMaps(segs, T) /\ SolvedStays(segs, T)
  <1> DEFINE T == [segs EXCEPT ![i].solved = TRUE]
  <1>1. DOMAIN T = DOMAIN segs /\ \A j \in DOMAIN segs : j # i => T[j] = segs[j]
    OBVIOUS
  <1>2. i \in DOMAIN segs => /\ T[i].removed = segs[i].removed /\ T[i].size = segs[i].size
                             /\ T[i].maps = segs[i].maps /\ T[i].solved
    BY DEF SegsOK, Segment
  <1> HIDE DEF T
  <1>3. SameHeld(segs, T) /\ SameMaps(segs, T) /\ SolvedStays(segs, T)
    BY <1>1, <1>2 DEF SameHeld, SameMaps, SolvedStays
  <1> QED
    BY <1>3 DEF T

LEMMA RemovedSame ==
  ASSUME SegsOK(segs), NEW i
  PROVE  LET T == Kept([segs EXCEPT ![i].removed = TRUE])
         IN  /\ SameMaps(segs, T) /\ SolvedStays(segs, T)
             /\ \A j \in DOMAIN segs : j # i /\ ~segs[j].removed => j \in DOMAIN T /\ ~T[j].removed
             /\ \A j \in DOMAIN T : ~T[j].removed => j \in DOMAIN segs /\ j # i /\ ~segs[j].removed
  <1> DEFINE S == [segs EXCEPT ![i].removed = TRUE]
  <1>1. DOMAIN S = DOMAIN segs /\ \A j \in DOMAIN segs : j # i => S[j] = segs[j]
    OBVIOUS
  <1>2. i \in DOMAIN segs => S[i].removed /\ S[i].maps = segs[i].maps /\ S[i].solved = segs[i].solved
    BY DEF SegsOK, Segment
  <1>3. DOMAIN Kept(S) = Exists(S) /\ \A j \in Exists(S) : Kept(S)[j] = S[j]
    BY DEF Kept
  <1>4. Exists(S) = {j \in DOMAIN S : ~S[j].removed \/ S[j].maps # {}}
    BY DEF Exists
  <1> HIDE DEF S
  <1>5. /\ \A j \in DOMAIN segs : ~segs[j].removed /\ j # i => j \in Exists(S)
        /\ \A j \in DOMAIN segs : segs[j].maps # {} => j \in Exists(S)
    BY <1>1, <1>2, <1>4
  <1> DEFINE T == Kept(S)
  <1>6. DOMAIN T = Exists(S) /\ \A j \in Exists(S) : T[j] = S[j]
    BY <1>3
  <1> HIDE DEF T
  <1>7. SameMaps(segs, T)
    <2>1. \A j \in DOMAIN segs : segs[j].maps # {} => j \in DOMAIN T
      BY <1>5, <1>6
    <2>2. \A j \in DOMAIN T : j \in DOMAIN segs /\ T[j].maps = segs[j].maps
      BY <1>1, <1>2, <1>4, <1>6
    <2> QED  BY <2>1, <2>2 DEF SameMaps
  <1>8. SolvedStays(segs, T)
    BY <1>1, <1>2, <1>4, <1>5, <1>6 DEF SolvedStays
  <1>9. /\ \A j \in DOMAIN segs : j # i /\ ~segs[j].removed => j \in DOMAIN T /\ ~T[j].removed
        /\ \A j \in DOMAIN T : ~T[j].removed => j \in DOMAIN segs /\ j # i /\ ~segs[j].removed
    BY <1>1, <1>2, <1>4, <1>5, <1>6
  <1> QED
    BY <1>7, <1>8, <1>9 DEF T, S

-----------------------------------------------------------------------------
(* What several actions keep                                               *)

LEMMA HeldFrame ==
  ASSUME HeldInv, SameHeld(segs, segs'), shmid' = shmid, \A w \in Which : Held(w)' <=> Held(w),
         srv' = "create" /\ seg' > 1 => srv = "create" /\ seg > 1
  PROVE  HeldInv'
  <1>1. 1 \in Which
    BY DEF Which
  <1>2. srv = "create" /\ seg > 1 => Held(1)
    BY DEF Held, Made
  <1> QED
    BY <1>1, <1>2 DEF HeldInv, SameHeld

LEMMA MapFrame ==
  ASSUME HeldInv', MapInv, SameMaps(segs, segs'),
         \A w \in Which : Made(w)' => Made(w) /\ conn' = conn /\ shmid'[w] = shmid[w],
         UNCHANGED <<cli, cshm>>
  PROVE  MapInv'
  <1>1. \A w \in Which : Made(w)' => shmid'[w] \in DOMAIN segs'
    BY DEF HeldInv, Held
  <1>2. ASSUME NEW w \in Which, Made(w)', NEW c \in Client, c \in segs'[shmid'[w]].maps
        PROVE  c = conn'
    <2>1. Made(w) /\ conn' = conn /\ shmid'[w] = shmid[w] /\ shmid'[w] \in DOMAIN segs'
      BY <1>1, <1>2 DEF SameMaps
    <2> QED  BY <1>2, <2>1 DEF SameMaps, MapInv
  <1>3. \A i \in DOMAIN segs' : \A c, d \in Client : c \in segs'[i].maps /\ d \in segs'[i].maps => c = d
    BY DEF SameMaps, MapInv
  <1>4. ASSUME NEW c \in Client, cli[c] \in {"attach", "play"}, NEW w \in 1 .. Len(cshm[c])
        PROVE  cshm[c][w] \in DOMAIN segs' /\ c \in segs'[cshm[c][w]].maps
    BY <1>4 DEF SameMaps, MapInv
  <1> QED
    BY <1>2, <1>3, <1>4 DEF MapInv

LEMMA OpenFrame ==
  ASSUME MapInv, OpenInv, SolvedStays(segs, segs'), UNCHANGED <<conn, queue, cli, cshm>>, srv' # "down",
         srv' \in {"recv", "sendN", "create", "sendKeys"} => srv \in {"recv", "sendN", "create", "sendKeys"}
  PROVE  OpenInv'
  <1>1. ASSUME NEW c \in Client, cli[c] = "play", segs[cshm[c][3]].solved
        PROVE  segs'[cshm[c][3]].solved
    <2>1. 3 \in 1 .. Len(cshm[c])
      BY <1>1 DEF OpenInv
    <2>2. cshm[c][3] \in DOMAIN segs /\ c \in segs[cshm[c][3]].maps
      BY <1>1, <2>1 DEF MapInv
    <2> QED  BY <1>1, <2>2 DEF SolvedStays
  <1>2. /\ \A n \in 1 .. Len(queue) : ClientEnd(queue[n])'
        /\ srv' \in {"recv", "sendN", "create", "sendKeys"} => ClientEnd(conn)'
        /\ \A c \in Client : ServerEnd(c)' <=> ServerEnd(c)
    BY DEF OpenInv, ClientEnd, ServerEnd
  <1> QED
    BY <1>1, <1>2 DEF OpenInv

-----------------------------------------------------------------------------
(* The server                                                              *)

LEMMA NobodyDies ==
  ASSUME SessionInv, ServiceInv, Undisturbed
  PROVE  /\ RecvM => ~(M < 0) /\ \A c \in Client : toServer[c] # << >> => Head(toServer[c]) >= 0
         /\ SendN \/ SendKeys => ClientEnd(conn)
         /\ RemoveSegment => shmid[seg] \in DOMAIN segs
         /\ ~signalIntHandler /\ ~StartServer /\ \A c \in Client : ~Crash(c)
  <1>1. ThreadArg \subseteq Nat
    BY SizesAssumption DEF Undisturbed
  <1>2. M \in Nat
    BY <1>1 DEF SessionInv, ServerInv, ServerType
  <1>3. ASSUME NEW c \in Client, toServer[c] # << >>
        PROVE  Head(toServer[c]) >= 0
    <2>1. toServer[c] \in Seq(ThreadArg)
      BY DEF SessionInv, ClientInv, ClientType
    <2>2. Head(toServer[c]) \in ThreadArg
      BY <1>3, <2>1, TailElements
    <2>3. Head(toServer[c]) \in Nat
      BY <1>1, <2>2, Zenon
    <2> QED  BY <2>3
  <1>4. SendN \/ SendKeys => ClientEnd(conn)
    BY DEF SendN, SendKeys, ServiceInv, OpenInv
  <1>5. RemoveSegment => shmid[seg] \in DOMAIN segs
    <2> SUFFICES ASSUME RemoveSegment PROVE shmid[seg] \in DOMAIN segs
      OBVIOUS
    <2>1. srv = "remove" /\ seg \in Which /\ seg >= seg
      BY WhichType DEF RemoveSegment, SessionInv, ServerInv, ServerType
    <2> QED  BY <2>1 DEF ServiceInv, HeldInv, Held
  <1>6. ~(faults < MaxFaults)
    BY SizesAssumption DEF SessionInv, Bounds, Undisturbed
  <1>7. ~signalIntHandler /\ ~StartServer /\ \A c \in Client : ~Crash(c)
    BY <1>6 DEF signalIntHandler, StartServer, Crash, ServiceInv, OpenInv
  <1> QED
    BY <1>2, <1>3, <1>4, <1>5, <1>7

LEMMA AcceptService == ASSUME SessionInv, ServiceInv, Accept PROVE ServiceInv'
  <1> USE DEF ServiceInv
  <1>1. /\ srv = "accept" /\ srv' = "recv" /\ queue \in Seq(Client) /\ queue # << >>
        /\ conn' = Head(queue) /\ queue' = Tail(queue)
        /\ UNCHANGED <<seg, shmid, cli, cshm, segs>>
    BY DEF Accept, clientVars, SessionInv, ServerInv, ServerType
  <1>2. /\ conn' \in Client /\ Len(queue) \in Nat \ {0} /\ conn' = queue[1]
        /\ Len(queue') = Len(queue) - 1 /\ \A n \in 1 .. Len(queue) - 1 : queue'[n] = queue[n + 1]
    BY <1>1, TailElements
  <1>3. conn = None
    BY <1>1 DEF SessionInv, ServerInv, QueueInv
  <1>4. HeldInv'
    BY <1>1, SameRefl, HeldFrame DEF Held, Made
  <1>5. MapInv'
    BY <1>1, SameRefl, <1>4, MapFrame DEF Made
  <1>6. ASSUME NEW c \in Client, ServerEnd(c)
        PROVE  ServerEnd(c)'
    <2>1. PICK n \in 1 .. Len(queue) : queue[n] = c
      BY <1>3, <1>6, Names DEF ServerEnd
    <2>2. CASE n = 1
      BY <1>2, <2>1, <2>2 DEF ServerEnd
    <2>3. CASE n # 1
      <3>1. n - 1 \in 1 .. Len(queue') /\ queue'[n - 1] = c
        BY <1>2, <2>1, <2>3
      <3> QED  BY <3>1 DEF ServerEnd
    <2> QED  BY <2>2, <2>3
  <1>7. ASSUME NEW n \in 1 .. Len(queue')
        PROVE  cli'[queue'[n]] \in Connected
    <2>1. n + 1 \in 1 .. Len(queue) /\ queue'[n] = queue[n + 1]
      BY <1>2
    <2> QED  BY <1>1, <2>1 DEF OpenInv, ClientEnd
  <1>8. cli'[conn'] \in Connected
    <2>1. 1 \in 1 .. Len(queue)
      BY <1>2
    <2> QED  BY <1>1, <1>2, <2>1 DEF OpenInv, ClientEnd
  <1>9. OpenInv'
    BY <1>1, <1>6, <1>7, <1>8 DEF OpenInv, ClientEnd
  <1>10. SolvedInv'
    BY <1>1 DEF SolvedInv
  <1> QED
    BY <1>4, <1>5, <1>9, <1>10

LEMMA TalkService ==
  ASSUME SessionInv, ServiceInv, Undisturbed, RecvM \/ SendN \/ SendKeys \/ JoinThreads
  PROVE  ServiceInv'
  <1> USE DEF ServiceInv
  <1>1. /\ UNCHANGED <<conn, queue, shmid, segs, cli, cshm>>
        /\ \/ srv = "recv" /\ srv' = "sendN"
           \/ srv = "sendN" /\ srv' = "create" /\ seg' = 1
           \/ srv = "sendKeys" /\ srv' = "play"
           \/ srv = "play" /\ srv' = "close" /\ (M > N \/ segs[shmid[3]].solved)
    <2>1. CASE RecvM
      <3>1. conn \in Client
        BY <2>1 DEF RecvM, SessionInv, ServerInv, ServerType, QueueInv
      <3>2. /\ ~(IF toServer[conn] # << >> THEN Head(toServer[conn]) < 0 ELSE ~ClientEnd(conn) /\ M < 0)
        <4>1. ~(M < 0)
          BY <2>1, NobodyDies
        <4>2. toServer[conn] # << >> => Head(toServer[conn]) \in Nat
          <5>1. toServer[conn] \in Seq(ThreadArg)
            BY <3>1 DEF SessionInv, ClientInv, ClientType
          <5>2. toServer[conn] # << >> => Head(toServer[conn]) \in ThreadArg
            BY <5>1, TailElements
          <5>3. ThreadArg \subseteq Nat
            BY SizesAssumption DEF Undisturbed
          <5> QED  BY <5>2, <5>3, Zenon
        <4> QED  BY <4>1, <4>2
      <3> QED  BY <2>1, <3>2 DEF RecvM, clientVars
    <2>2. CASE SendN \/ SendKeys
      BY <2>2, NobodyDies DEF SendN, SendKeys, Send, clientVars
    <2>3. CASE JoinThreads
      BY <2>3 DEF JoinThreads, clientVars, socketVars
    <2> QED  BY <2>1, <2>2, <2>3
  <1>2. \A w \in Which : (Held(w)' <=> Held(w)) /\ (Made(w)' => Made(w))
    BY <1>1 DEF Held, Made, Which
  <1>3. HeldInv'
    BY <1>1, <1>2, SameRefl, HeldFrame
  <1>4. MapInv'
    BY <1>1, <1>2, SameRefl, <1>3, MapFrame
  <1>5. OpenInv'
    BY <1>1, SameRefl, OpenFrame
  <1>6. ~(M > N)
    BY SizesAssumption DEF SessionInv, ServerInv, ServerType, Undisturbed
  <1>7. SolvedInv'
    BY <1>1, <1>6 DEF SolvedInv
  <1> QED
    BY <1>3, <1>4, <1>5, <1>7

(* The client with which the server solves the game is the connected one.  *)
LEMMA SolveService == ASSUME SessionInv, ServiceInv, Solve PROVE ServiceInv'
  <1> USE DEF ServiceInv
  <1>1. /\ srv = "play" /\ UNCHANGED <<srv, conn, queue, seg, shmid, cli, cshm>>
        /\ segs' = [segs EXCEPT ![shmid[3]].solved = TRUE]
    BY DEF Solve, serverVars, clientVars, socketVars
  <1>2. PICK c \in Client : cli[c] = "play" /\ cshm[c][3] = shmid[3] /\ ~segs[shmid[3]].solved
    BY DEF Solve, Which
  <1>3. conn = c
    BY <1>2, OpenMatched DEF OpenInv, Matched
  <1>4. SameHeld(segs, segs') /\ SameMaps(segs, segs') /\ SolvedStays(segs, segs')
    BY <1>1, SolvedSame DEF SessionInv, ServerInv
  <1>5. HeldInv'
    BY <1>1, <1>4, HeldFrame DEF Held, Made
  <1>6. MapInv'
    BY <1>1, <1>4, <1>5, MapFrame DEF Made
  <1>7. OpenInv'
    BY <1>1, <1>4, OpenFrame
  <1>8. SolvedInv'
    BY <1>1, <1>2, <1>3 DEF SolvedInv, Early
  <1> QED
    BY <1>5, <1>6, <1>7, <1>8

LEMMA CloseService ==
  ASSUME SessionInv, ServiceInv, Close \/ Detach \/ RemoveSemaphores
  PROVE  ServiceInv'
  <1> USE DEF ServiceInv
  <1>1. /\ UNCHANGED <<queue, shmid, cli, cshm>>
        /\ \/ srv = "close" /\ srv' = "detach" /\ conn' = None /\ segs' = segs
           \/ srv = "detach" /\ srv' = "semctl" /\ conn' = conn /\ segs' = Detached(Server)
           \/ srv = "semctl" /\ srv' = "remove" /\ seg' = 1 /\ conn' = conn /\ segs' = segs
    BY DEF Close, Detach, RemoveSemaphores, clientVars, socketVars
  <1>2. SameHeld(segs, segs') /\ SameMaps(segs, segs') /\ SolvedStays(segs, segs')
    BY <1>1, SameRefl, ServerDetaches DEF SessionInv, ServerInv
  <1>3. \A w \in Which : (Held(w)' <=> Held(w)) /\ ~Made(w)'
    BY <1>1, WhichType DEF Held, Made
  <1>4. HeldInv'
    BY <1>1, <1>2, <1>3, HeldFrame
  <1>5. MapInv'
    BY <1>1, <1>2, <1>3, <1>4, MapFrame
  <1>6. OpenInv'
    <2>1. CASE srv # "close"
      BY <1>1, <1>2, <2>1, OpenFrame
    <2>2. CASE srv = "close"
      <3>1. conn \in Client /\ segs[shmid[3]].solved /\ cli[conn] \notin Early
        BY <2>2 DEF SessionInv, ServerInv, QueueInv, ServerType, SolvedInv
      <3>2. ASSUME NEW c \in Client, ServerEnd(c), c # conn
            PROVE  ServerEnd(c)'
        BY <1>1, <3>2 DEF ServerEnd
      <3>3. cli[conn] = "play" => segs[cshm[conn][3]].solved
        <4>1. SUFFICES ASSUME cli[conn] = "play", ServerEnd(conn)
                       PROVE  cshm[conn][3] = shmid[3]
          BY <3>1 DEF OpenInv
        <4>2. 3 \in 1 .. Len(cshm[conn])
          BY <3>1, <4>1 DEF OpenInv
        <4> QED  BY <3>1, <4>1, <4>2, OpenMatched DEF Matched
      <3>4. /\ \A n \in 1 .. Len(queue) : ClientEnd(queue[n])'
        BY <1>1 DEF OpenInv, ClientEnd
      <3> QED  BY <1>1, <2>2, <3>1, <3>2, <3>3, <3>4 DEF OpenInv
    <2> QED  BY <2>1, <2>2
  <1>7. SolvedInv'
    BY <1>1 DEF SolvedInv
  <1> QED
    BY <1>4, <1>5, <1>6, <1>7
(* A key that is in use names a segment of the session, which has no room  *)
(* for the second; so every segment is new.                                *)
LEMMA CreateService == ASSUME SessionInv, ServiceInv, Undisturbed, CreateSegment PROVE ServiceInv'
  <1> USE DEF ServiceInv
  <1>1. /\ srv = "create" /\ seg \in {1, 2, 3} /\ UNCHANGED <<conn, queue, cli, cshm>>
        /\ IF seg = 3 THEN srv' = "sendKeys" /\ seg' = 1 ELSE srv' = "create" /\ seg' = seg + 1
    BY WhichType DEF CreateSegment, clientVars, socketVars, SessionInv, ServerInv, ServerType
  <1>2. \A w \in Which : (Held(w) <=> w < seg) /\ (Made(w) <=> w < seg)
    BY <1>1 DEF Held, Made
  <1>3. PICK key \in Key, i \in SegId :
          /\ \/ NewSegment(i, key, Size(seg, M, N), Server)
             \/ i \in Named(key) /\ seg # 3 /\ segs[i].size >= Size(seg, M, N)
          /\ shmid' = [shmid EXCEPT ![seg] = i]
    BY DEF CreateSegment
  <1>4. ~(i \in Named(key) /\ seg # 3 /\ segs[i].size >= Size(seg, M, N))
    <2> SUFFICES ASSUME i \in Named(key), seg # 3 PROVE ~(segs[i].size >= Size(seg, M, N))
      OBVIOUS
    <2>1. i \in DOMAIN segs /\ ~segs[i].removed
      BY DEF Named
    <2>2. PICK w \in Which : Held(w) /\ i = shmid[w]
      BY <2>1 DEF HeldInv
    <2>3. seg = 2 /\ w = 1
      BY <1>1, <1>2, <2>2, WhichType
    <2>4. segs[i].size = N
      BY <1>1, <2>2, <2>3 DEF HeldInv
    <2>5. Size(seg, M, N) = N * IntSize
      BY <2>3 DEF Size
    <2>6. N \in Nat \ {0} /\ IntSize \in Nat /\ IntSize > 1
      BY SizesAssumption DEF Undisturbed
    <2>7. N * IntSize > N
      BY <2>6
    <2> QED  BY <2>4, <2>5, <2>6, <2>7
  <1>5. /\ i \notin DOMAIN segs /\ DOMAIN segs' = DOMAIN segs \cup {i}
        /\ \A j \in DOMAIN segs : segs'[j] = segs[j]
        /\ segs'[i].size = Size(seg, M, N) /\ segs'[i].maps = {Server}
        /\ ~segs'[i].removed /\ ~segs'[i].solved
    BY <1>3, <1>4 DEF NewSegment, FreeId
  <1>6. shmid'[seg] = i /\ \A w \in Which : w # seg => shmid'[w] = shmid[w]
    BY <1>1, <1>3, WhichType DEF SessionInv, ServerInv, ServerType
  <1>7. \A w \in Which : (Held(w)' <=> w <= seg) /\ (Made(w)' <=> w <= seg)
    BY <1>1, WhichType DEF Held, Made
  <1>8. \A w \in Which : w < seg => shmid[w] \in DOMAIN segs /\ ~segs[shmid[w]].removed
    BY <1>2 DEF HeldInv
  <1>9. HeldInv'
    <2>1. \A w \in Which : w <= seg => shmid'[w] \in DOMAIN segs' /\ ~segs'[shmid'[w]].removed
      BY <1>1, <1>5, <1>6, <1>8, WhichType
    <2>2. \A v, w \in Which : v <= seg /\ w <= seg /\ shmid'[v] = shmid'[w] => v = w
      <3>1. \A v, w \in Which : v < seg /\ w < seg /\ shmid[v] = shmid[w] => v = w
        BY <1>2 DEF HeldInv
      <3> QED  BY <1>1, <1>5, <1>6, <1>8, <3>1, WhichType
    <2>3. ASSUME NEW j \in DOMAIN segs', ~segs'[j].removed
          PROVE  \E w \in Which : w <= seg /\ j = shmid'[w]
      <3>1. CASE j = i
        BY <1>1, <1>6, <3>1, WhichType
      <3>2. CASE j # i
        <4>1. PICK w \in Which : Held(w) /\ j = shmid[w]
          BY <1>5, <2>3, <3>2 DEF HeldInv
        <4> QED  BY <1>1, <1>2, <1>6, <4>1, WhichType
      <3> QED  BY <3>1, <3>2
    <2>4. srv' = "create" /\ seg' > 1 => segs'[shmid'[1]].size = N
      <3>1. CASE seg = 1
        BY <1>5, <1>6, <3>1 DEF Size
      <3>2. CASE seg # 1
        <4>1. segs[shmid[1]].size = N
          BY <1>1, <3>2 DEF HeldInv
        <4> QED  BY <1>1, <1>5, <1>6, <1>8, <3>2, <4>1, WhichType
      <3> QED  BY <3>1, <3>2
    <2> QED  BY <1>7, <2>1, <2>2, <2>3, <2>4 DEF HeldInv
  <1>10. MapInv'
    <2>1. \A c \in Client : c \notin segs'[i].maps
      BY <1>5, Names
    <2>2. ASSUME NEW w \in Which, w <= seg, NEW c \in Client, c \in segs'[shmid'[w]].maps
          PROVE  c = conn
      <3>1. w # seg /\ w < seg
        BY <1>1, <1>6, <2>1, <2>2, WhichType
      <3> QED  BY <1>2, <1>5, <1>6, <1>8, <2>2, <3>1 DEF MapInv
    <2>3. \A j \in DOMAIN segs' : \A c, d \in Client : c \in segs'[j].maps /\ d \in segs'[j].maps => c = d
      BY <1>5, <2>1 DEF MapInv
    <2>4. ASSUME NEW c \in Client, cli[c] \in {"attach", "play"}, NEW w \in 1 .. Len(cshm[c])
          PROVE  cshm[c][w] \in DOMAIN segs' /\ c \in segs'[cshm[c][w]].maps
      BY <1>5, <2>4 DEF MapInv
    <2> QED  BY <1>1, <1>7, <2>2, <2>3, <2>4 DEF MapInv
  <1>11. OpenInv'
    <2>1. SolvedStays(segs, segs')
      BY <1>5 DEF SolvedStays
    <2> QED  BY <1>1, <2>1, OpenFrame
  <1>12. SolvedInv'
    BY <1>1, <1>5, <1>6 DEF SolvedInv
  <1> QED
    BY <1>9, <1>10, <1>11, <1>12

LEMMA RemoveService == ASSUME SessionInv, ServiceInv, Undisturbed, RemoveSegment PROVE ServiceInv'
  <1> USE DEF ServiceInv
  <1>1. /\ srv = "remove" /\ seg \in {1, 2, 3} /\ UNCHANGED <<conn, queue, cli, cshm>>
        /\ IF seg = 3 THEN srv' = "accept" /\ seg' = 1 ELSE srv' = "remove" /\ seg' = seg + 1
        /\ segs' = Kept([segs EXCEPT ![shmid[seg]].removed = TRUE])
        /\ shmid' = [shmid EXCEPT ![seg] = NoSeg]
    BY NobodyDies, WhichType DEF RemoveSegment, clientVars, socketVars, SessionInv, ServerInv, ServerType
  <1>2. /\ \A w \in Which : Held(w) <=> w >= seg
        /\ \A w \in Which : (Held(w)' <=> w > seg) /\ ~Made(w)'
    BY <1>1, WhichType DEF Held, Made
  <1>3. \A w \in Which : w # seg => shmid'[w] = shmid[w]
    BY <1>1 DEF SessionInv, ServerInv, ServerType
  <1>4. /\ SameMaps(segs, segs') /\ SolvedStays(segs, segs')
        /\ \A j \in DOMAIN segs : j # shmid[seg] /\ ~segs[j].removed => j \in DOMAIN segs' /\ ~segs'[j].removed
        /\ \A j \in DOMAIN segs' : ~segs'[j].removed => j \in DOMAIN segs /\ j # shmid[seg] /\ ~segs[j].removed
    BY <1>1, RemovedSame DEF SessionInv, ServerInv
  <1>5. HeldInv'
    <2>1. seg \in Which /\ Held(seg)
      BY <1>1, <1>2, WhichType
    <2>2. ASSUME NEW w \in Which, w > seg
          PROVE  /\ Held(w) /\ w # seg /\ shmid[w] # shmid[seg] /\ shmid'[w] = shmid[w]
                 /\ shmid'[w] \in DOMAIN segs' /\ ~segs'[shmid'[w]].removed
      <3>1. Held(w) /\ w # seg
        BY <1>1, <1>2, <2>2, WhichType
      <3>2. shmid[w] # shmid[seg] /\ shmid[w] \in DOMAIN segs /\ ~segs[shmid[w]].removed
        BY <2>1, <3>1 DEF HeldInv
      <3> QED  BY <1>3, <1>4, <3>1, <3>2
    <2>3. \A v, w \in Which : v > seg /\ w > seg /\ shmid'[v] = shmid'[w] => v = w
      BY <2>2 DEF HeldInv
    <2>4. ASSUME NEW j \in DOMAIN segs', ~segs'[j].removed
          PROVE  \E w \in Which : w > seg /\ j = shmid'[w]
      <3>1. j \in DOMAIN segs /\ j # shmid[seg] /\ ~segs[j].removed
        BY <1>4, <2>4
      <3>2. PICK w \in Which : Held(w) /\ j = shmid[w]
        BY <3>1 DEF HeldInv
      <3>3. w # seg /\ w > seg
        BY <1>1, <1>2, <3>1, <3>2, WhichType
      <3> QED  BY <1>3, <3>2, <3>3
    <2> QED  BY <1>1, <1>2, <2>2, <2>3, <2>4 DEF HeldInv
  <1>6. MapInv'
    BY <1>1, <1>2, <1>4, <1>5, MapFrame
  <1>7. OpenInv'
    BY <1>1, <1>4, OpenFrame
  <1>8. SolvedInv'
    BY <1>1 DEF SolvedInv
  <1> QED
    BY <1>5, <1>6, <1>7, <1>8
-----------------------------------------------------------------------------
(* The clients                                                             *)

LEMMA ConnectService ==
  ASSUME SessionInv, ServiceInv, NEW c \in Client, Connect(c)
  PROVE  ServiceInv'
  <1> USE DEF ServiceInv
  <1>1. /\ UNCHANGED <<srv, conn, seg, shmid, segs>> /\ queue' = Append(queue, c)
        /\ cli' = [cli EXCEPT ![c] = "send"] /\ cshm' = [cshm EXCEPT ![c] = << >>]
        /\ conn # c
    BY DEF Connect, Fresh, serverVars, OpenInv, ServerEnd
  <1>2. /\ cli'[c] = "send"
        /\ \A d \in Client : d # c => cli'[d] = cli[d] /\ cshm'[d] = cshm[d]
    BY <1>1 DEF SessionInv, ClientInv, ClientType
  <1>3. /\ queue \in Seq(Client) /\ Len(queue) \in Nat /\ Len(queue') = Len(queue) + 1
        /\ queue'[Len(queue) + 1] = c /\ \A n \in 1 .. Len(queue) : queue'[n] = queue[n] /\ queue[n] \in Client
    BY <1>1, AppendElements DEF SessionInv, ServerInv, ServerType
  <1>4. HeldInv'
    BY <1>1, SameRefl, HeldFrame DEF Held, Made
  <1>5. MapInv'
    <2>1. ASSUME NEW d \in Client, cli'[d] \in {"attach", "play"}
          PROVE  cli[d] \in {"attach", "play"} /\ cshm'[d] = cshm[d]
      BY <1>2, <2>1
    <2> QED  BY <1>1, <2>1 DEF MapInv, Made
  <1>6. ASSUME NEW d \in Client, ServerEnd(d) \/ d = c
        PROVE  ServerEnd(d)'
    <2>1. \A n \in 1 .. Len(queue) : n \in 1 .. Len(queue') /\ queue'[n] = queue[n]
      BY <1>3
    <2>2. Len(queue) + 1 \in 1 .. Len(queue')
      BY <1>3
    <2> QED  BY <1>1, <1>3, <1>6, <2>1, <2>2 DEF ServerEnd
  <1>7. ASSUME NEW d \in Client, ClientEnd(d) \/ d = c
        PROVE  cli'[d] \in Connected
    BY <1>2, <1>7 DEF ClientEnd, Connected
  <1>8. ASSUME NEW n \in 1 .. Len(queue')
        PROVE  cli'[queue'[n]] \in Connected
    <2>1. CASE n = Len(queue) + 1
      BY <1>3, <1>7, <2>1
    <2>2. CASE n # Len(queue) + 1
      <3>1. n \in 1 .. Len(queue)
        BY <1>3, <2>2
      <3> QED  BY <1>3, <1>7, <3>1 DEF OpenInv
    <2> QED  BY <2>1, <2>2
  <1>9. OpenInv'
    <2>1. srv \in {"recv", "sendN", "create", "sendKeys"} => cli'[conn] \in Connected
      <3>1. srv \in {"recv", "sendN", "create", "sendKeys"} => conn \in Client
        BY DEF SessionInv, ServerInv, ServerType, QueueInv
      <3> QED  BY <1>7, <3>1 DEF OpenInv
    <2>2. \A d \in Client : cli'[d] \in Early => ServerEnd(d)'
      BY <1>2, <1>6 DEF OpenInv
    <2>3. \A d \in Client : cli'[d] = "play" =>
             Len(cshm'[d]) = 3 /\ (~segs[cshm'[d][3]].solved => ServerEnd(d)')
      BY <1>2, <1>6 DEF OpenInv
    <2> QED  BY <1>1, <1>8, <2>1, <2>2, <2>3 DEF OpenInv, ClientEnd
  <1>10. SolvedInv'
    <2>1. srv \in {"play", "close"} => cli'[conn] = cli[conn]
      BY <1>1, <1>2 DEF SessionInv, ServerInv, ServerType, QueueInv
    <2> QED  BY <1>1, <2>1 DEF SolvedInv
  <1> QED
    BY <1>4, <1>5, <1>9, <1>10

(* Until it has the keys, a client finds the server at the other end.      *)
LEMMA EarlyService ==
  ASSUME SessionInv, ServiceInv, NEW c \in Client, SendM(c) \/ RecvN(c) \/ RecvKeys(c)
  PROVE  ServiceInv'
  <1> USE DEF ServiceInv
  <1>1. cli[c] \in {"send", "recvN", "recvKeys"} /\ cli[c] \in Early /\ ServerEnd(c) /\ cshm[c] = << >>
    <2>1. cli[c] \in {"send", "recvN", "recvKeys"}
      BY DEF SendM, RecvN, RecvKeys
    <2> QED  BY <2>1 DEF Early, OpenInv, SessionInv, ClientInv, Buffer
  <1>2. /\ UNCHANGED <<srv, conn, seg, shmid, queue, segs, cshm>>
        /\ \E next \in {"recvN", "recvKeys", "attach"} : cli' = [cli EXCEPT ![c] = next]
    BY <1>1 DEF SendM, RecvN, RecvKeys, serverVars
  <1>3. /\ cli'[c] \in {"recvN", "recvKeys", "attach"}
        /\ \A d \in Client : d # c => cli'[d] = cli[d]
    BY <1>2 DEF SessionInv, ClientInv, ClientType
  <1>4. HeldInv'
    BY <1>2, SameRefl, HeldFrame DEF Held, Made
  <1>5. MapInv'
    <2>1. \A w \in 1 .. Len(cshm[c]) : FALSE
      BY <1>1
    <2>2. ASSUME NEW d \in Client, cli'[d] \in {"attach", "play"}, NEW w \in 1 .. Len(cshm[d])
          PROVE  cshm[d][w] \in DOMAIN segs /\ d \in segs[cshm[d][w]].maps
      BY <1>3, <2>1, <2>2 DEF MapInv
    <2> QED  BY <1>2, <2>2 DEF MapInv, Made
  <1>6. OpenInv'
    <2>1. \A d \in Client : ServerEnd(d)' <=> ServerEnd(d)
      BY <1>2 DEF ServerEnd
    <2>2. ASSUME NEW d \in Client, ClientEnd(d)
          PROVE  cli'[d] \in Connected
      BY <1>3, <2>2 DEF ClientEnd, Connected
    <2>3. \A n \in 1 .. Len(queue) : queue[n] \in Client
      BY DEF SessionInv, ServerInv, ServerType
    <2>4. srv \in {"recv", "sendN", "create", "sendKeys"} => conn \in Client
      BY DEF SessionInv, ServerInv, ServerType, QueueInv
    <2>5. \A d \in Client : cli'[d] \in Early => ServerEnd(d)
      BY <1>1, <1>3 DEF OpenInv
    <2>6. \A d \in Client : cli'[d] = "play" => Len(cshm[d]) = 3 /\ (~segs[cshm[d][3]].solved => ServerEnd(d))
      BY <1>3 DEF OpenInv
    <2> QED  BY <1>2, <2>1, <2>2, <2>3, <2>4, <2>5, <2>6 DEF OpenInv, ClientEnd
  <1>7. SolvedInv'
    <2>1. ASSUME srv \in {"play", "close"}, segs[shmid[3]].solved
          PROVE  conn \in Client /\ conn # c /\ cli'[conn] = cli[conn]
      BY <1>1, <1>3, <2>1 DEF SolvedInv, SessionInv, ServerInv, ServerType, QueueInv
    <2> QED  BY <1>2, <2>1 DEF SolvedInv
  <1> QED
    BY <1>4, <1>5, <1>6, <1>7

(* A client that attaches, or waits for the game to be solved, is the one  *)
(* the server has accepted, and the server is playing.                     *)
LEMMA Playing ==
  ASSUME SessionInv, ServiceInv, NEW c \in Client,
         cli[c] = "attach" \/ (cli[c] = "play" /\ ~segs[cshm[c][3]].solved)
  PROVE  /\ conn = c /\ srv = "play" /\ ServerEnd(c) /\ ~segs[shmid[3]].solved
         /\ \A w \in Which : ck[c][w] = k[w] /\ k[w] \in Key /\ Named(k[w]) = {shmid[w]}
         /\ \A w \in 1 .. Len(cshm[c]) : cshm[c][w] = shmid[w]
  <1> USE DEF ServiceInv
  <1>1. ServerEnd(c)
    BY DEF OpenInv, Early
  <1>2. /\ conn = c
        /\ \A w \in Which : ck[c][w] = k[w] /\ Named(k[w]) = {shmid[w]}
        /\ \A w \in 1 .. Len(cshm[c]) : cshm[c][w] = shmid[w]
    BY <1>1, OpenMatched DEF Matched
  <1>3. Talk(c) /\ ClientEnd(c)
    BY DEF SessionInv, ClientInv, ClientEnd, Connected
  <1>4. srv \in {"recv", "sendN", "create", "sendKeys", "play", "close"}
    <2>1. srv \notin {"accept", "detach", "semctl", "remove", "down"}
      BY <1>2, Names DEF SessionInv, ServerInv, QueueInv
    <2> QED  BY <2>1 DEF SessionInv, ServerInv, ServerType
  <1>5. srv \in {"play", "close"}
    BY <1>2, <1>3, <1>4 DEF Talk, Waiting
  <1>6. \A w \in Which : k[w] \in Key
    BY <1>5 DEF SessionInv, ServerInv, MadeInv, Made
  <1>7. ~segs[shmid[3]].solved
    <2>1. CASE cli[c] = "attach"
      BY <1>2, <1>5, <2>1 DEF SolvedInv, Early
    <2>2. CASE cli[c] = "play" /\ ~segs[cshm[c][3]].solved
      <3>1. 3 \in 1 .. Len(cshm[c])
        BY <2>2 DEF OpenInv
      <3> QED  BY <1>2, <2>2, <3>1
    <2> QED  BY <2>1, <2>2
  <1>8. srv = "play"
    BY <1>5, <1>7 DEF SolvedInv
  <1> QED
    BY <1>1, <1>2, <1>6, <1>7, <1>8
(* A client that has all keys may go: nobody sends to it any more.         *)
LEMMA EndsService ==
  ASSUME SessionInv, ServiceInv, NEW c \in Client, cli[c] \in {"attach", "play"},
         NEW how \in Ended, ClientEnds(c, how), UNCHANGED <<serverVars, queue>>
  PROVE  ServiceInv'
  <1> USE DEF ServiceInv
  <1>1. /\ UNCHANGED <<srv, conn, seg, shmid, queue>> /\ segs' = Detached(c)
        /\ cli' = [cli EXCEPT ![c] = how] /\ cshm' = [cshm EXCEPT ![c] = << >>]
    BY DEF ClientEnds, Fresh, serverVars
  <1>2. /\ cli'[c] \in {"exit", "failed"}
        /\ \A d \in Client : d # c => cli'[d] = cli[d] /\ cshm'[d] = cshm[d]
    BY <1>1 DEF SessionInv, ClientInv, ClientType, Ended
  <1>3. /\ DOMAIN segs' \subseteq DOMAIN segs
        /\ \A i \in DOMAIN segs : ~segs[i].removed \/ segs[i].maps \ {c} # {} => i \in DOMAIN segs'
        /\ \A i \in DOMAIN segs' :
             /\ segs'[i].removed = segs[i].removed /\ segs'[i].size = segs[i].size
             /\ segs'[i].solved = segs[i].solved /\ segs'[i].maps = segs[i].maps \ {c}
    BY <1>1, DetachedFacts DEF SessionInv, ServerInv
  <1>4. HeldInv'
    <2>1. SameHeld(segs, segs')
      BY <1>3 DEF SameHeld
    <2> QED  BY <1>1, <2>1, HeldFrame DEF Held, Made
  <1>5. MapInv'
    <2>1. \A w \in Which : Made(w) => shmid[w] \in DOMAIN segs'
      BY <1>1, <1>4 DEF HeldInv, Held, Made
    <2>2. \A w \in Which : Made(w) => \A d \in Client : d \in segs'[shmid[w]].maps => d = conn
      BY <1>3, <2>1 DEF MapInv
    <2>3. \A i \in DOMAIN segs' : \A d, e \in Client : d \in segs'[i].maps /\ e \in segs'[i].maps => d = e
      BY <1>3 DEF MapInv
    <2>4. ASSUME NEW d \in Client, cli'[d] \in {"attach", "play"}, NEW w \in 1 .. Len(cshm'[d])
          PROVE  cshm'[d][w] \in DOMAIN segs' /\ d \in segs'[cshm'[d][w]].maps
      <3>1. d # c /\ cli[d] \in {"attach", "play"} /\ cshm'[d] = cshm[d]
        BY <1>2, <2>4
      <3>2. cshm[d][w] \in DOMAIN segs /\ d \in segs[cshm[d][w]].maps \ {c}
        BY <2>4, <3>1 DEF MapInv
      <3>3. cshm[d][w] \in DOMAIN segs'
        BY <1>3, <3>2
      <3> QED  BY <1>3, <3>1, <3>2, <3>3
    <2> QED  BY <1>1, <2>2, <2>3, <2>4 DEF MapInv, Made
  <1>6. Talk(c) /\ ClientEnd(c)
    BY DEF SessionInv, ClientInv, ClientEnd, Connected
  <1>7. ASSUME NEW d \in Client, d # c, cli[d] = "play", ~segs'[cshm[d][3]].solved
        PROVE  ~segs[cshm[d][3]].solved
    <2>1. 3 \in 1 .. Len(cshm[d])
      BY <1>7 DEF OpenInv
    <2>2. cshm[d][3] \in DOMAIN segs /\ d \in segs[cshm[d][3]].maps \ {c}
      BY <1>7, <2>1 DEF MapInv
    <2>3. cshm[d][3] \in DOMAIN segs'
      BY <1>3, <2>2
    <2> QED  BY <1>3, <1>7, <2>3
  <1>8. OpenInv'
    <2>1. \A n \in 1 .. Len(queue) : queue[n] # c /\ queue[n] \in Client
      BY <1>6 DEF Talk, Waiting, SessionInv, ServerInv, ServerType
    <2>2. srv \in {"recv", "sendN", "create", "sendKeys"} => conn # c /\ conn \in Client
      BY <1>6 DEF Talk, Waiting, SessionInv, ServerInv, ServerType, QueueInv
    <2>3. \A d \in Client : ServerEnd(d)' <=> ServerEnd(d)
      BY <1>1 DEF ServerEnd
    <2>4. \A d \in Client : cli'[d] \in Early => ServerEnd(d)
      BY <1>2 DEF OpenInv, Early
    <2>5. \A d \in Client : cli'[d] = "play" =>
             Len(cshm'[d]) = 3 /\ (~segs'[cshm'[d][3]].solved => ServerEnd(d))
      BY <1>2, <1>7 DEF OpenInv
    <2> QED  BY <1>1, <1>2, <2>1, <2>2, <2>3, <2>4, <2>5 DEF OpenInv, ClientEnd
  <1>9. SolvedInv'
    <2>1. srv \in {"sendKeys", "play", "close"} => conn \in Client /\ shmid[3] \in DOMAIN segs'
      BY <1>1, <1>4, WhichType DEF SessionInv, ServerInv, ServerType, QueueInv, HeldInv, Held, Made
    <2>2. srv \in {"sendKeys", "play", "close"} => segs'[shmid[3]].solved = segs[shmid[3]].solved
      BY <1>3, <2>1
    <2>3. conn = c => cli'[conn] \notin Early
      BY <1>2 DEF Early
    <2>4. conn \in Client /\ conn # c => cli'[conn] = cli[conn]
      BY <1>2
    <2> QED  BY <1>1, <2>1, <2>2, <2>3, <2>4 DEF SolvedInv
  <1> QED
    BY <1>4, <1>5, <1>8, <1>9

(* The keys lead a client to the segments of its own session.              *)
LEMMA AttachService ==
  ASSUME SessionInv, ServiceInv, NEW c \in Client, Attach(c)
  PROVE  ServiceInv'
  <1> USE DEF ServiceInv
  <1> DEFINE w == Len(cshm[c]) + 1
  <1>1. cli[c] = "attach" /\ UNCHANGED <<serverVars, queue>> /\ Len(cshm[c]) < 3
    BY DEF Attach, socketVars, SessionInv, ClientInv, Buffer
  <1>2. CASE ClientEnds(c, "failed")
    BY <1>1, <1>2, EndsService DEF Ended
  <1>3. CASE ~ClientEnds(c, "failed")
    <2>1. PICK n \in 0 .. 3 : cshm[c] \in [1 .. n -> SegId]
      BY DEF SessionInv, ClientInv, ClientType
    <2>2. cshm[c] \in Seq(SegId) /\ Len(cshm[c]) = n /\ n \in {0, 1, 2} /\ w = n + 1 /\ w \in Which
      BY <1>1, <2>1, WhichType
    <2>3. /\ conn = c /\ srv = "play" /\ ServerEnd(c) /\ ~segs[shmid[3]].solved
          /\ \A v \in Which : ck[c][v] = k[v] /\ k[v] \in Key /\ Named(k[v]) = {shmid[v]}
      BY <1>1, Playing
    <2>4. PICK i \in SegId :
            /\ \/ i \in Named(ck[c][w]) /\ segs' = Mapped(segs, i, c)
               \/ ck[c][w] = Private
            /\ cshm' = [cshm EXCEPT ![c] = Append(@, i)]
            /\ cli' = [cli EXCEPT ![c] = IF w = 3 THEN "play" ELSE "attach"]
      BY <1>3 DEF Attach
    <2> HIDE DEF w
    <2>5. i = shmid[w] /\ segs' = Mapped(segs, i, c)
      BY <2>2, <2>3, <2>4, Names
    <2>6. i \in DOMAIN segs
      BY <2>2, <2>3, <2>5 DEF Named
    <2>7. /\ DOMAIN segs' = DOMAIN segs /\ \A j \in DOMAIN segs : j # i => segs'[j] = segs[j]
          /\ segs'[i].removed = segs[i].removed /\ segs'[i].size = segs[i].size
          /\ segs'[i].solved = segs[i].solved /\ segs'[i].maps = segs[i].maps \cup {c}
      BY <2>5, <2>6 DEF Mapped, SessionInv, ServerInv, SegsOK, Segment
    <2>8. /\ UNCHANGED <<srv, conn, seg, shmid, queue>>
          /\ \A d \in Client : d # c => cli'[d] = cli[d] /\ cshm'[d] = cshm[d]
          /\ cli'[c] = (IF w = 3 THEN "play" ELSE "attach") /\ cshm'[c] = Append(cshm[c], i)
      BY <1>1, <2>4 DEF serverVars, SessionInv, ClientInv, ClientType
    <2>9. /\ Len(cshm'[c]) = w /\ cshm'[c][w] = i
          /\ \A m \in 1 .. Len(cshm'[c]) : m = w \/ (m \in 1 .. Len(cshm[c]) /\ cshm'[c][m] = cshm[c][m])
      <3>1. /\ Len(Append(cshm[c], i)) = n + 1 /\ Append(cshm[c], i)[n + 1] = i
            /\ \A m \in 1 .. n : Append(cshm[c], i)[m] = cshm[c][m]
        BY <2>2, AppendElements
      <3>2. \A m \in 1 .. n + 1 : m = n + 1 \/ m \in 1 .. n
        BY <2>2
      <3> QED  BY <2>2, <2>8, <3>1, <3>2
    <2>10. HeldInv'
      <3>1. SameHeld(segs, segs')
        BY <2>7 DEF SameHeld
      <3> QED  BY <2>8, <3>1, HeldFrame DEF Held, Made
    <2>11. MapInv'
      <3>1. Made(w)
        BY <2>3 DEF Made
      <3>2. \A v \in Which : Made(v) => shmid[v] \in DOMAIN segs
        BY DEF HeldInv, Held
      <3>3. \A v \in Which : Made(v) => \A d \in Client : d \in segs'[shmid[v]].maps => d = conn
        BY <2>3, <2>7, <3>2 DEF MapInv
      <3>4. \A d \in Client : d \in segs[i].maps => d = c
        BY <2>2, <2>3, <2>5, <3>1 DEF MapInv
      <3>5. \A j \in DOMAIN segs' : \A d, e \in Client : d \in segs'[j].maps /\ e \in segs'[j].maps => d = e
        BY <2>7, <3>4 DEF MapInv
      <3>6. ASSUME NEW d \in Client, cli'[d] \in {"attach", "play"}, NEW m \in 1 .. Len(cshm'[d])
            PROVE  cshm'[d][m] \in DOMAIN segs' /\ d \in segs'[cshm'[d][m]].maps
        <4>1. CASE d = c /\ m = w
          BY <2>6, <2>7, <2>9, <4>1
        <4>2. CASE d # c \/ m # w
          <5>1. cli[d] \in {"attach", "play"} /\ m \in 1 .. Len(cshm[d]) /\ cshm'[d][m] = cshm[d][m]
            BY <1>1, <2>8, <2>9, <3>6, <4>2
          <5>2. cshm[d][m] \in DOMAIN segs /\ d \in segs[cshm[d][m]].maps
            BY <5>1 DEF MapInv
          <5> QED  BY <2>7, <5>1, <5>2
        <4> QED  BY <4>1, <4>2
      <3> QED  BY <2>8, <3>3, <3>5, <3>6 DEF MapInv, Made
    <2>12. OpenInv'
      <3>1. \A j \in DOMAIN segs : segs'[j].solved = segs[j].solved
        BY <2>7
      <3>2. ASSUME NEW d \in Client, ClientEnd(d)
            PROVE  cli'[d] \in Connected
        BY <2>8, <3>2 DEF ClientEnd, Connected
      <3>3. \A m \in 1 .. Len(queue) : queue[m] \in Client
        BY DEF SessionInv, ServerInv, ServerType
      <3>4. srv' \notin {"recv", "sendN", "create", "sendKeys", "down"}
        BY <2>3, <2>8
      <3>5. \A d \in Client : ServerEnd(d)' <=> ServerEnd(d)
        BY <2>8 DEF ServerEnd
      <3>6. \A d \in Client : cli'[d] \in Early => ServerEnd(d)
        BY <2>3, <2>8 DEF OpenInv
      <3>7. ASSUME NEW d \in Client, cli'[d] = "play"
            PROVE  Len(cshm'[d]) = 3 /\ (~segs'[cshm'[d][3]].solved => ServerEnd(d))
        <4>1. CASE d = c
          BY <2>3, <2>8, <2>9, <3>7, <4>1
        <4>2. CASE d # c
          <5>1. cli[d] = "play" /\ cshm'[d] = cshm[d] /\ Len(cshm[d]) = 3
            BY <2>8, <3>7, <4>2 DEF OpenInv
          <5>2. 3 \in 1 .. Len(cshm[d])
            BY <5>1
          <5>3. cshm[d][3] \in DOMAIN segs
            BY <5>1, <5>2 DEF MapInv
          <5> QED  BY <3>1, <5>1, <5>3 DEF OpenInv
        <4> QED  BY <4>1, <4>2
      <3> QED  BY <2>8, <3>2, <3>3, <3>4, <3>5, <3>6, <3>7 DEF OpenInv, ClientEnd
    <2>13. SolvedInv'
      <3>1. shmid[3] \in DOMAIN segs
        BY <2>3, WhichType DEF Named
      <3>2. ~segs'[shmid[3]].solved
        BY <2>3, <2>7, <3>1
      <3> QED  BY <2>3, <2>8, <3>2 DEF SolvedInv
    <2> QED  BY <2>10, <2>11, <2>12, <2>13
  <1> QED
    BY <1>2, <1>3

LEMMA LeaveService ==
  ASSUME SessionInv, ServiceInv, NEW c \in Client, Leave(c)
  PROVE  ServiceInv'
  <1>1. cli[c] = "play" /\ ClientEnds(c, "exit") /\ UNCHANGED <<serverVars, queue>> /\ "exit" \in Ended
    BY DEF Leave, socketVars, Ended
  <1> QED
    BY <1>1, EndsService

-----------------------------------------------------------------------------
(* All steps                                                               *)

LEMMA InitService == Init => ServiceInv
  <1> SUFFICES ASSUME Init PROVE ServiceInv
    OBVIOUS
  <1>1. HeldInv
    BY DEF Init, HeldInv, Held, Made
  <1>2. MapInv /\ OpenInv /\ SolvedInv
    BY DEF Init, MapInv, Made, OpenInv, SolvedInv, Early
  <1> QED
    BY <1>1, <1>2 DEF ServiceInv

LEMMA StutterService ==
  ASSUME ServiceInv, UNCHANGED vars
  PROVE  ServiceInv'
  <1>1. UNCHANGED <<srv, conn, seg, shmid, queue, cli, cshm, segs>>
    BY DEF vars, serverVars, clientVars, socketVars
  <1>2. HeldInv'
    BY <1>1, SameRefl, HeldFrame DEF ServiceInv, Held, Made
  <1>3. MapInv'
    BY <1>1, <1>2, SameRefl, MapFrame DEF ServiceInv, Made
  <1>4. OpenInv'
    BY <1>1, SameRefl, OpenFrame DEF ServiceInv, OpenInv
  <1>5. SolvedInv'
    BY <1>1 DEF ServiceInv, SolvedInv
  <1> QED
    BY <1>2, <1>3, <1>4, <1>5 DEF ServiceInv

LEMMA ServiceStep ==
  ASSUME Undisturbed
  PROVE  SessionInv /\ ServiceInv /\ [Next]_vars => ServiceInv'
  <1> SUFFICES ASSUME SessionInv, ServiceInv, [Next]_vars PROVE ServiceInv'
    OBVIOUS
  <1>1. CASE ServerStep
    BY <1>1, AcceptService, TalkService, CreateService, SolveService, CloseService, RemoveService DEF ServerStep
  <1>2. ~signalIntHandler /\ ~StartServer /\ \A c \in Client : ~Crash(c)
    BY NobodyDies
  <1>3. ASSUME NEW c \in Client, Connect(c) \/ ClientStep(c)
        PROVE  ServiceInv'
    BY <1>3, ConnectService, EarlyService, AttachService, LeaveService DEF ClientStep
  <1>4. CASE UNCHANGED vars
    BY <1>4, StutterService
  <1> QED
    BY <1>1, <1>2, <1>3, <1>4 DEF Next

LEMMA Service == ASSUME Undisturbed PROVE Spec => [](SessionInv /\ ServiceInv)
  <1>1. Init => SessionInv /\ ServiceInv
    BY InitInv, InitService
  <1>2. SessionInv /\ ServiceInv /\ [Next]_vars => (SessionInv /\ ServiceInv)'
    BY InvStep, ServiceStep
  <1> QED
    BY <1>1, <1>2, PTL DEF Spec

(* Each session removes what it has created before the next is accepted.   *)
THEOREM NothingLeaks == ASSUME Undisturbed PROVE Spec => []NoLeak
  <1>1. SessionInv /\ ServiceInv => NoLeak
    BY DEF ServiceInv, HeldInv, Held, Made, NoLeak
  <1> QED
    BY <1>1, Service, PTL

(* The server removes no segment and draws no key of a session before its  *)
(* client has attached.                                                    *)
THEOREM ClientsAttach == ASSUME Undisturbed PROVE Spec => []AttachesInTime
  <1>1. SessionInv /\ ServiceInv => AttachesInTime
    <2> SUFFICES ASSUME SessionInv, ServiceInv, NEW c \in Client, cli[c] = "attach"
                 PROVE  conn = c /\ \A w \in Which : Named(ck[c][w]) = {shmid[w]}
      BY DEF AttachesInTime
    <2> QED  BY Playing
  <1> QED
    BY <1>1, Service, PTL

(* A client whose game is not solved has a server that plays it.           *)
THEOREM ServerPlays == ASSUME Undisturbed PROVE Spec => []PlaysWithServer
  <1>1. SessionInv /\ ServiceInv => PlaysWithServer
    <2> SUFFICES ASSUME SessionInv, ServiceInv, NEW c \in Client, cli[c] = "play", ~segs[cshm[c][3]].solved
                 PROVE  srv = "play" /\ conn = c /\ \A w \in Which : cshm[c][w] = shmid[w]
      BY DEF PlaysWithServer
    <2>1. Len(cshm[c]) = 3
      BY DEF ServiceInv, OpenInv
    <2> QED  BY <2>1, Playing DEF Which
  <1> QED
    BY <1>1, Service, PTL

(* No segment is shared by two clients, however often they come again.     *)
THEOREM ClientsApart == ASSUME Undisturbed PROVE Spec => []Isolation
  <1>1. SessionInv /\ ServiceInv => Isolation
    <2> SUFFICES ASSUME SessionInv, ServiceInv, NEW i \in DOMAIN segs
                 PROVE  Cardinality(segs[i].maps \cap Client) <= 1
      BY DEF Isolation
    <2> DEFINE S == segs[i].maps \cap Client
    <2>1. \A c, d \in S : c = d
      BY DEF ServiceInv, MapInv
    <2>2. CASE S = {}
      BY <2>2, FS_EmptySet
    <2>3. CASE S # {}
      <3>1. PICK c : S = {c}
        BY <2>1, <2>3
      <3>2. Cardinality({c}) = 1
        BY FS_Singleton
      <3> QED  BY <3>1, <3>2
    <2> QED  BY <2>2, <2>3
  <1> QED
    BY <1>1, Service, PTL
=============================================================================

-------------------------- MODULE GuessSession_proofs --------------------------
(***************************************************************************)
(* The two ends of a connection, for any number of clients, threads, keys, *)
(* crashes and interrupts.                                                 *)
(***************************************************************************)
EXTENDS GuessSession, SequenceTheorems, TLAPS

-----------------------------------------------------------------------------
(* The inductive invariant                                                 *)

KeyOrNone == Key \cup {Private}
Keys      == [Which -> KeyOrNone]

(* Keys name at most one segment.                                          *)
SegsOK(S) ==
  /\ DOMAIN S \subseteq SegId /\ \A i \in DOMAIN S : S[i] \in Segment
  /\ \A i, j \in DOMAIN S :
       S[i].key = S[j].key /\ S[i].key # Private /\ ~S[i].removed /\ ~S[j].removed => i = j

NamedIn(S, key) == {i \in DOMAIN S : S[i].key = key /\ ~S[i].removed}

(* The segments the server has made so far have the keys it remembers.     *)
Made(w) == (srv = "create" /\ w < seg) \/ srv \in {"sendKeys", "play", "close"}

MadeInv == \A w \in Which : Made(w) => k[w] \in Key /\ NamedIn(segs, k[w]) = {shmid[w]}

(* A connection is waiting or accepted, and not both.                      *)
QueueInv ==
  /\ conn = None <=> srv \in {"accept", "detach", "semctl", "remove", "down"}
  /\ \A n \in 1 .. Len(queue) : queue[n] # conn
  /\ \A m, n \in 1 .. Len(queue) : queue[m] = queue[n] => m = n

(* What a client may still receive, and what it has done.                  *)
Buffer(c) ==
  /\ cli[c] = "send" => toServer[c] = << >> /\ toClient[c] = << >> /\ cM[c] \in ThreadArg
  /\ cli[c] = "recvN" => \/ toClient[c] = << >> \/ toClient[c] = << <<N>> >>
                         \/ \E q \in Keys : toClient[c] = << <<N>>, q>>
  /\ cli[c] = "recvKeys" => toClient[c] = << >> \/ \E q \in Keys : toClient[c] = <<q>>
  /\ cli[c] \in {"send", "recvN", "recvKeys"} => cshm[c] = << >>
  /\ cli[c] = "attach" => Len(cshm[c]) < 3

(* The client of a connection has got what the server has sent so far, or  *)
(* it is on its way.                                                       *)
Waiting(c) == cli[c] \in {"send", "recvN"} /\ toClient[c] = << >>

Talk(c) == ClientEnd(c) =>
  /\ \A n \in 1 .. Len(queue) : queue[n] = c => Waiting(c)
  /\ conn = c =>
       /\ srv \in {"recv", "sendN"} => Waiting(c)
       /\ srv = "sendN" => cli[c] # "send"
       /\ srv \in {"create", "sendKeys"} =>
            \/ cli[c] = "recvN" /\ toClient[c] = << <<N>> >>
            \/ cli[c] = "recvKeys" /\ toClient[c] = << >>
       /\ srv \in {"play", "close"} =>
            \/ cli[c] = "recvN" /\ toClient[c] = << <<N>>, k>>
            \/ cli[c] = "recvKeys" /\ toClient[c] = <<k>>
            \/ /\ cli[c] \in {"attach", "play"} /\ ck[c] = k
               /\ \A w \in 1 .. Len(cshm[c]) : cshm[c][w] = shmid[w]

ServerType ==
  /\ srv \in {"accept", "recv", "sendN", "create", "sendKeys", "play",
              "close", "detach", "semctl", "remove", "down"}
  /\ conn \in Client \cup {None} /\ M \in ThreadArg /\ seg \in Which
  /\ k \in Keys /\ shmid \in [Which -> SegId \cup {NoSeg}]
  /\ queue \in Seq(Client)

Message == {<<N>>} \cup Keys

ClientType ==
  /\ toServer \in [Client -> Seq(ThreadArg)] /\ toClient \in [Client -> Seq(Message)]
  /\ cli \in [Client -> {"idle"} \cup Connected \cup Ended]
  /\ cM \in [Client -> ThreadArg \cup {0}] /\ cN \in [Client -> {0, N}]
  /\ ck \in [Client -> Keys]
  /\ cshm \in [Client -> UNION {[1 .. n -> SegId] : n \in 0 .. 3}]

Bounds == foreign \in BOOLEAN /\ faults \in 0 .. MaxFaults

ServerInv == ServerType /\ SegsOK(segs) /\ MadeInv /\ QueueInv
ClientInv == ClientType /\ \A c \in Client : Buffer(c) /\ Talk(c)

SessionInv == ServerInv /\ ClientInv /\ Bounds

-----------------------------------------------------------------------------
(* Sequences                                                               *)

LEMMA AppendOne == \A x : Append(<< >>, x) = <<x>>
  OBVIOUS

LEMMA AppendTwo == \A x, y : Append(<<x>>, y) = <<x, y>>
  <1> TAKE x, y
  <1> DEFINE s == Append(<<x>>, y)
             t == <<x, y>>
  <1>1. s \in Seq({x, y}) /\ t \in Seq({x, y}) /\ Len(s) = 2 /\ Len(t) = 2
    OBVIOUS
  <1>2. s[1] = t[1] /\ s[2] = t[2]
    OBVIOUS
  <1> HIDE DEF s, t
  <1>3. \A i \in 1 .. Len(s) : s[i] = t[i]
    BY <1>1, <1>2
  <1>4. s = t
    BY <1>1, <1>3, SeqEqual
  <1> QED
    BY <1>4 DEF s, t

LEMMA OneReceived == \A x : Head(<<x>>) = x /\ Tail(<<x>>) = << >> /\ <<x>> # << >>
  OBVIOUS

LEMMA TwoReceived == \A x, y : Head(<<x, y>>) = x /\ Tail(<<x, y>>) = <<y>> /\ <<x, y>> # << >>
  OBVIOUS

LEMMA TailElements ==
  ASSUME NEW S, NEW q \in Seq(S), q # << >>
  PROVE  /\ Head(q) \in S /\ Tail(q) \in Seq(S) /\ Len(q) \in Nat \ {0} /\ Head(q) = q[1]
         /\ Len(Tail(q)) = Len(q) - 1 /\ \A n \in 1 .. Len(q) - 1 : Tail(q)[n] = q[n + 1]
  OBVIOUS

LEMMA AppendElements ==
  ASSUME NEW S, NEW q \in Seq(S), NEW x \in S
  PROVE  /\ Append(q, x) \in Seq(S) /\ Len(q) \in Nat /\ Len(Append(q, x)) = Len(q) + 1
         /\ Append(q, x)[Len(q) + 1] = x /\ \A n \in 1 .. Len(q) : Append(q, x)[n] = q[n]
  OBVIOUS

-----------------------------------------------------------------------------
(* Segments                                                                *)

SameNames(S, T) == \A key \in Key : NamedIn(T, key) = NamedIn(S, key)

LEMMA KeptNames ==
  ASSUME NEW S, SegsOK(S)
  PROVE  SegsOK(Kept(S)) /\ SameNames(S, Kept(S))
  <1>1. DOMAIN Kept(S) = Exists(S) /\ Exists(S) \subseteq DOMAIN S /\ \A i \in Exists(S) : Kept(S)[i] = S[i]
    BY DEF Kept, Exists
  <1>2. \A i \in DOMAIN S : ~S[i].removed => i \in Exists(S)
    BY DEF Exists
  <1> QED
    BY <1>1, <1>2 DEF SegsOK, SameNames, NamedIn

(* T is S, except for who maps what and whether games are solved.          *)
Alike(S, T) ==
  /\ DOMAIN T = DOMAIN S
  /\ \A i \in DOMAIN S : T[i] \in Segment /\ T[i].key = S[i].key /\ T[i].removed = S[i].removed

LEMMA AlikeNames ==
  ASSUME NEW S, NEW T, SegsOK(S), Alike(S, T)
  PROVE  SegsOK(T) /\ SameNames(S, T)
  BY DEF SegsOK, Alike, SameNames, NamedIn

LEMMA DetachedNames ==
  ASSUME NEW x, SegsOK(segs)
  PROVE  SegsOK(Detached(x)) /\ SameNames(segs, Detached(x))
  <1> DEFINE T == [i \in DOMAIN segs |-> [segs[i] EXCEPT !.maps = @ \ {x}]]
  <1>1. Alike(segs, T)
    BY DEF Alike, SegsOK, Segment
  <1>2. SegsOK(T) /\ SameNames(segs, T)
    BY <1>1, AlikeNames
  <1>3. Detached(x) = Kept(T)
    BY DEF Detached
  <1> HIDE DEF T
  <1>4. SegsOK(Kept(T)) /\ SameNames(T, Kept(T))
    BY <1>2, KeptNames
  <1> QED
    BY <1>2, <1>3, <1>4 DEF SameNames

LEMMA MappedNames ==
  ASSUME SegsOK(segs), NEW i \in DOMAIN segs, NEW x \in Client \cup {Server}
  PROVE  SegsOK(Mapped(segs, i, x)) /\ SameNames(segs, Mapped(segs, i, x))
  <1>1. Alike(segs, Mapped(segs, i, x))
    BY DEF Alike, SegsOK, Segment, Mapped
  <1> QED
    BY <1>1, AlikeNames

LEMMA SolvedNames ==
  ASSUME SegsOK(segs), NEW i
  PROVE  LET T == [segs EXCEPT ![i].solved = TRUE] IN SegsOK(T) /\ SameNames(segs, T)
  <1>1. Alike(segs, [segs EXCEPT ![i].solved = TRUE])
    BY DEF Alike, SegsOK, Segment
  <1> QED
    BY <1>1, AlikeNames

LEMMA RemovedNames ==
  ASSUME SegsOK(segs), NEW i
  PROVE  SegsOK(Kept([segs EXCEPT ![i].removed = TRUE]))
  <1> DEFINE T == [segs EXCEPT ![i].removed = TRUE]
  <1>1. DOMAIN T = DOMAIN segs /\ \A j \in DOMAIN segs : j # i => T[j] = segs[j]
    OBVIOUS
  <1>2. i \in DOMAIN segs => T[i] \in Segment /\ T[i].removed
    BY DEF SegsOK, Segment
  <1> HIDE DEF T
  <1>3. SegsOK(T)
    BY <1>1, <1>2 DEF SegsOK
  <1> QED
    BY <1>3, KeptNames DEF T

LEMMA NewNames ==
  ASSUME SegsOK(segs), NEW i \in SegId, NEW key \in KeyOrNone, NEW size \in Nat,
         NEW x \in Client \cup {Server}, NewSegment(i, key, size, x),
         key = Private \/ NamedIn(segs, key) = {}
  PROVE  /\ SegsOK(segs')
         /\ \A other \in Key : other # key => NamedIn(segs', other) = NamedIn(segs, other)
         /\ key # Private => NamedIn(segs', key) = {i}
  <1> DEFINE new == [key |-> key, size |-> size, maps |-> {x}, removed |-> FALSE, solved |-> FALSE]
  <1>1. new \in Segment /\ new.key = key /\ ~new.removed
    BY DEF Segment, KeyOrNone
  <1>2. i \notin DOMAIN segs
    BY DEF NewSegment, FreeId
  <1>3. /\ DOMAIN segs' = DOMAIN segs \cup {i} /\ segs'[i] = new
        /\ \A j \in DOMAIN segs : segs'[j] = segs[j]
    BY <1>2 DEF NewSegment
  <1> HIDE DEF new
  <1>4. \A j \in DOMAIN segs : key # Private => segs[j].key # key \/ segs[j].removed
    BY DEF NamedIn
  <1>5. SegsOK(segs')
    BY <1>1, <1>2, <1>3, <1>4 DEF SegsOK
  <1>6. \A other \in Key : other # key => NamedIn(segs', other) = NamedIn(segs, other)
    BY <1>1, <1>2, <1>3 DEF NamedIn
  <1>7. key # Private => NamedIn(segs', key) = {i}
    BY <1>1, <1>2, <1>3, <1>4 DEF NamedIn
  <1> QED
    BY <1>5, <1>6, <1>7

-----------------------------------------------------------------------------
(* What several actions do                                                 *)

LEMMA Names == Server \notin Client /\ None \notin Client /\ Private \notin Key
  BY NamesAssumption

LEMMA WhichType == Which = {1, 2, 3}
  BY DEF Which

LEMMA NoKeysType == NoKeys \in Keys
  BY DEF NoKeys, Keys, KeyOrNone

LEMMA InitInv == Init => SessionInv
  <1> SUFFICES ASSUME Init PROVE SessionInv
    OBVIOUS
  <1>1. ServerType
    BY NoKeysType DEF Init, ServerType, Which
  <1>2. << >> \in [1 .. 0 -> SegId] /\ 0 \in 0 .. 3
    OBVIOUS
  <1>3. << >> \in UNION {[1 .. n -> SegId] : n \in 0 .. 3}
    BY <1>2
  <1>4. ClientType
    BY <1>3, NoKeysType DEF Init, ClientType
  <1>5. SegsOK(segs) /\ MadeInv /\ QueueInv
    BY DEF Init, SegsOK, MadeInv, Made, QueueInv
  <1>6. \A c \in Client : Buffer(c) /\ Talk(c)
    BY DEF Init, Buffer, Talk, ClientEnd, Connected
  <1>7. Bounds
    BY SizesAssumption DEF Init, Bounds
  <1> QED
    BY <1>1, <1>4, <1>5, <1>6, <1>7 DEF SessionInv, ServerInv, ClientInv

LEMMA TalkSame ==
  ASSUME NEW d \in Client, Talk(d), UNCHANGED <<srv, conn, queue, k, shmid>>,
         UNCHANGED <<cli[d], toClient[d], ck[d], cshm[d]>>
  PROVE  Talk(d)'
  BY DEF Talk, ClientEnd, Waiting

LEMMA BufferSame ==
  ASSUME NEW d \in Client, Buffer(d), UNCHANGED <<cli[d], toServer[d], toClient[d], cM[d], cshm[d]>>
  PROVE  Buffer(d)'
  BY DEF Buffer

LEMMA MadeSame ==
  ASSUME ServerType, MadeInv, SegsOK(segs'), SameNames(segs, segs'), UNCHANGED <<seg, k, shmid>>,
         \A w \in Which : Made(w)' => Made(w)
  PROVE  MadeInv'
  BY DEF MadeInv, SameNames

(* The server exits: no connection is open any more.                       *)
LEMMA DiesInv ==
  ASSUME SessionInv, ServerDies, UNCHANGED clientVars
  PROVE  ServerInv' /\ ClientInv'
  <1> USE DEF SessionInv, ServerInv, ClientInv
  <1>1. /\ srv' = "down" /\ conn' = None /\ queue' = << >> /\ segs' = Detached(Server)
        /\ UNCHANGED <<M, seg, k, shmid, toServer, toClient, cli, cM, cN, ck, cshm>>
    BY DEF ServerDies, clientVars
  <1>2. ServerType'
    BY <1>1 DEF ServerType
  <1>3. SegsOK(segs')
    BY <1>1, DetachedNames
  <1>4. MadeInv' /\ QueueInv'
    BY <1>1 DEF MadeInv, Made, QueueInv
  <1>5. ClientType'
    BY <1>1 DEF ClientType
  <1>6. ASSUME NEW d \in Client
        PROVE  Buffer(d)' /\ Talk(d)'
    <2>1. Buffer(d)'
      BY <1>1, BufferSame
    <2>2. Talk(d)'
      BY <1>1, Names DEF Talk
    <2> QED  BY <2>1, <2>2
  <1> QED
    BY <1>2, <1>3, <1>4, <1>5, <1>6

(* A client ends: its own connection has one end less.                     *)
LEMMA EndsInv ==
  ASSUME SessionInv, NEW c \in Client, NEW how \in Ended, ClientEnds(c, how),
         UNCHANGED <<serverVars, queue, toServer, toClient>>
  PROVE  ServerInv' /\ ClientInv'
  <1> USE DEF SessionInv, ServerInv, ClientInv
  <1>1. UNCHANGED <<srv, conn, M, seg, k, shmid, queue, toServer, toClient>>
    BY DEF serverVars
  <1>2. /\ cli' = [cli EXCEPT ![c] = how] /\ cM' = [cM EXCEPT ![c] = 0]
        /\ cN' = [cN EXCEPT ![c] = 0] /\ ck' = [ck EXCEPT ![c] = NoKeys]
        /\ cshm' = [cshm EXCEPT ![c] = << >>] /\ segs' = Detached(c)
    BY DEF ClientEnds, Fresh
  <1>3. ServerType' /\ QueueInv'
    BY <1>1 DEF ServerType, QueueInv
  <1>4. SegsOK(segs') /\ SameNames(segs, segs')
    BY <1>2, DetachedNames
  <1>5. MadeInv'
    BY <1>1, <1>4, MadeSame DEF Made
  <1>6. << >> \in UNION {[1 .. n -> SegId] : n \in 0 .. 3}
    <2>1. << >> \in [1 .. 0 -> SegId] /\ 0 \in 0 .. 3
      OBVIOUS
    <2> QED  BY <2>1
  <1>7. ClientType'
    BY <1>1, <1>2, <1>6, NoKeysType DEF ClientType
  <1>8. ASSUME NEW d \in Client
        PROVE  Buffer(d)' /\ Talk(d)'
    <2>1. CASE d = c
      <3>1. cli'[c] = how
        BY <1>2 DEF ClientType
      <3> QED  BY <2>1, <3>1 DEF Buffer, Talk, ClientEnd, Connected, Ended
    <2>2. CASE d # c
      <3>1. UNCHANGED <<cli[d], toServer[d], toClient[d], cM[d], ck[d], cshm[d]>>
        BY <1>1, <1>2, <2>2 DEF ClientType
      <3> QED  BY <1>1, <3>1, BufferSame, TalkSame
    <2> QED  BY <2>1, <2>2
  <1> QED
    BY <1>3, <1>4, <1>5, <1>7, <1>8

-----------------------------------------------------------------------------
(* The server                                                              *)

(* Steps of the server that concern no client.                             *)
LEMMA ServerAlone ==
  ASSUME SessionInv, UNCHANGED <<conn, queue, toServer, toClient, cli, cM, cN, ck, cshm>>,
         \A c \in Client : Talk(c)'
  PROVE  ClientInv'
  BY BufferSame DEF SessionInv, ClientInv, ClientType

LEMMA AcceptStep == ASSUME SessionInv, Accept PROVE ServerInv' /\ ClientInv'
  <1> USE DEF SessionInv, ServerInv, ClientInv
  <1>1. /\ srv = "accept" /\ srv' = "recv" /\ queue \in Seq(Client) /\ queue # << >>
        /\ conn' = Head(queue) /\ queue' = Tail(queue)
        /\ UNCHANGED <<M, seg, k, shmid, toServer, toClient, cli, cM, cN, ck, cshm, segs>>
    BY DEF Accept, clientVars, ServerType
  <1>2. /\ conn' \in Client /\ queue' \in Seq(Client) /\ Len(queue) \in Nat \ {0} /\ conn' = queue[1]
        /\ Len(queue') = Len(queue) - 1 /\ \A n \in 1 .. Len(queue) - 1 : queue'[n] = queue[n + 1]
    BY <1>1, TailElements
  <1>3. ServerType' /\ SegsOK(segs)' /\ MadeInv'
    BY <1>1, <1>2 DEF ServerType, MadeInv, Made, SegsOK
  <1>4. \A m, n \in 1 .. Len(queue) : queue[m] = queue[n] => m = n
    BY DEF QueueInv
  <1>5. QueueInv'
    <2>1. conn' # None
      BY <1>2, Names
    <2>2. ASSUME NEW n \in 1 .. Len(queue')
          PROVE  n + 1 \in 1 .. Len(queue) /\ 1 \in 1 .. Len(queue) /\ queue'[n] = queue[n + 1]
      BY <1>2
    <2>3. \A n \in 1 .. Len(queue') : queue'[n] # conn'
      BY <1>2, <1>4, <2>2
    <2>4. \A m, n \in 1 .. Len(queue') : queue'[m] = queue'[n] => m = n
      BY <1>2, <1>4, <2>2
    <2> QED  BY <1>1, <2>1, <2>3, <2>4 DEF QueueInv
  <1>6. ASSUME NEW d \in Client
        PROVE  Buffer(d)' /\ Talk(d)'
    <2>1. Buffer(d)'
      BY <1>1, BufferSame
    <2>2. ASSUME ClientEnd(d)
          PROVE  \A n \in 1 .. Len(queue) : queue[n] = d => Waiting(d)
      BY <2>2 DEF Talk
    <2>3. Talk(d)'
      <3>1. (ClientEnd(d)' <=> ClientEnd(d)) /\ (Waiting(d)' <=> Waiting(d))
        BY <1>1 DEF ClientEnd, Waiting
      <3>2. SUFFICES ASSUME ClientEnd(d)
                     PROVE  /\ \A n \in 1 .. Len(queue') : queue'[n] = d => Waiting(d)
                            /\ conn' = d => Waiting(d)
        BY <1>1, <3>1 DEF Talk
      <3>3. 1 \in 1 .. Len(queue)
        BY <1>2
      <3>4. \A n \in 1 .. Len(queue') : n + 1 \in 1 .. Len(queue) /\ queue'[n] = queue[n + 1]
        BY <1>2
      <3> QED  BY <1>2, <2>2, <3>2, <3>3, <3>4
    <2> QED  BY <2>1, <2>3
  <1>7. ClientType'
    BY <1>1 DEF ClientType
  <1> QED
    BY <1>3, <1>5, <1>6, <1>7

LEMMA RecvMStep == ASSUME SessionInv, RecvM PROVE ServerInv' /\ ClientInv'
  <1> USE DEF SessionInv, ServerInv, ClientInv
  <1>1. CASE ServerDies
    BY <1>1, DiesInv DEF RecvM
  <1>2. CASE ~ServerDies
    <2>1. /\ srv = "recv" /\ srv' = "sendN"
          /\ UNCHANGED <<conn, queue, toClient, seg, k, shmid, segs, cli, cM, cN, ck, cshm>>
      BY <1>2 DEF RecvM, clientVars
    <2>2. conn \in Client
      BY <2>1 DEF QueueInv, ServerType
    <2>3. \/ /\ toServer[conn] # << >> /\ M' = Head(toServer[conn])
             /\ toServer' = [toServer EXCEPT ![conn] = Tail(@)]
          \/ ~ClientEnd(conn) /\ UNCHANGED <<M, toServer>>
      BY <1>2 DEF RecvM
    <2>4. M' \in ThreadArg /\ toServer' \in [Client -> Seq(ThreadArg)]
      <3>1. toServer[conn] \in Seq(ThreadArg)
        BY <2>2 DEF ClientType
      <3>2. toServer[conn] # << >> => Head(toServer[conn]) \in ThreadArg /\ Tail(toServer[conn]) \in Seq(ThreadArg)
        BY <3>1, TailElements
      <3> QED  BY <2>3, <3>2 DEF ServerType, ClientType
    <2>5. ServerType' /\ ClientType'
      BY <2>1, <2>4 DEF ServerType, ClientType
    <2>6. SegsOK(segs)' /\ MadeInv' /\ QueueInv'
      BY <2>1 DEF SegsOK, MadeInv, Made, QueueInv
    <2>7. ASSUME NEW d \in Client
          PROVE  Buffer(d)' /\ Talk(d)'
      <3>1. CASE d = conn
        <4>1. ClientEnd(d) => cli[d] # "send"
          BY <2>3, <3>1 DEF Buffer
        <4>2. cli[d] # "send"
          BY <4>1 DEF ClientEnd, Connected
        <4>3. Buffer(d)'
          BY <2>1, <4>2 DEF Buffer
        <4>4. Talk(d)'
          BY <2>1, <4>2 DEF Talk, ClientEnd, Waiting
        <4> QED  BY <4>3, <4>4
      <3>2. CASE d # conn
        <4>1. toServer'[d] = toServer[d]
          BY <2>3, <3>2 DEF ClientType
        <4>2. Buffer(d)'
          BY <2>1, <4>1, BufferSame
        <4>3. Talk(d)'
          BY <2>1, <3>2 DEF Talk, ClientEnd, Waiting
        <4> QED  BY <4>2, <4>3
      <3> QED  BY <3>1, <3>2
    <2> QED  BY <2>5, <2>6, <2>7
  <1> QED
    BY <1>1, <1>2

(* Send changes what one client may receive, or ends the server.           *)
LEMMA SendCases ==
  ASSUME SessionInv, NEW msg \in Message, NEW next, Send(msg, next), srv \in {"sendN", "sendKeys"}
  PROVE  \/ ServerInv' /\ ClientInv'
         \/ /\ conn \in Client /\ ClientEnd(conn) /\ srv' = next /\ seg' = 1
            /\ toClient' = [toClient EXCEPT ![conn] = Append(@, msg)]
            /\ toClient' \in [Client -> Seq(Message)]
            /\ UNCHANGED <<conn, M, k, shmid, queue, toServer, segs, cli, cM, cN, ck, cshm>>
  <1> USE DEF SessionInv, ServerInv, ClientInv
  <1>1. conn \in Client
    BY DEF QueueInv, ServerType
  <1>2. CASE ServerDies
    BY <1>2, DiesInv DEF Send
  <1>3. CASE ~ServerDies
    <2>1. /\ ClientEnd(conn) /\ srv' = next /\ seg' = 1
          /\ toClient' = [toClient EXCEPT ![conn] = Append(@, msg)]
          /\ UNCHANGED <<conn, M, k, shmid, queue, toServer, segs, cli, cM, cN, ck, cshm>>
      BY <1>3 DEF Send, clientVars
    <2>2. Append(toClient[conn], msg) \in Seq(Message)
      BY <1>1, AppendElements DEF ClientType
    <2>3. toClient' \in [Client -> Seq(Message)]
      BY <1>1, <2>1, <2>2 DEF ClientType
    <2> QED  BY <1>1, <2>1, <2>3
  <1> QED
    BY <1>2, <1>3

(* Of a step that sends msg, what is left to show is Talk of the client.   *)
LEMMA SendFrame ==
  ASSUME SessionInv, conn \in Client, seg' = 1,
         srv' \in {"create", "play"}, srv \in {"sendN", "sendKeys"},
         toClient' \in [Client -> Seq(Message)],
         \A d \in Client : d # conn => toClient'[d] = toClient[d],
         UNCHANGED <<conn, M, k, shmid, queue, toServer, segs, cli, cM, cN, ck, cshm>>,
         srv = "sendKeys" \/ srv' = "create",
         Buffer(conn)', Talk(conn)'
  PROVE  ServerInv' /\ ClientInv'
  <1> USE DEF SessionInv, ServerInv, ClientInv
  <1>1. ServerType' /\ ClientType'
    BY DEF ServerType, ClientType, Which
  <1>2. SegsOK(segs)' /\ QueueInv'
    BY DEF SegsOK, QueueInv
  <1>3. MadeInv'
    <2>1. \A w \in Which : Made(w)' => Made(w)
      BY DEF Made, Which
    <2> QED  BY <2>1 DEF MadeInv
  <1>4. ASSUME NEW d \in Client, d # conn
        PROVE  Buffer(d)' /\ Talk(d)'
    <2>1. Buffer(d)'
      BY <1>4, BufferSame
    <2>2. Talk(d)'
      BY <1>4 DEF Talk, ClientEnd, Waiting
    <2> QED  BY <2>1, <2>2
  <1> QED
    BY <1>1, <1>2, <1>3, <1>4

LEMMA SendNStep == ASSUME SessionInv, SendN PROVE ServerInv' /\ ClientInv'
  <1>1. srv = "sendN" /\ Send(<<N>>, "create") /\ <<N>> \in Message
    BY DEF SendN, Message
  <1>2. SUFFICES ASSUME conn \in Client, ClientEnd(conn), srv' = "create", seg' = 1,
                        toClient' = [toClient EXCEPT ![conn] = Append(@, <<N>>)],
                        toClient' \in [Client -> Seq(Message)],
                        UNCHANGED <<conn, M, k, shmid, queue, toServer, segs, cli, cM, cN, ck, cshm>>
                 PROVE  ServerInv' /\ ClientInv'
    BY <1>1, SendCases
  <1>3. Talk(conn) /\ ClientType
    BY <1>2 DEF SessionInv, ClientInv
  <1>4. cli[conn] = "recvN" /\ toClient[conn] = << >>
    BY <1>1, <1>2, <1>3 DEF Talk, Waiting
  <1>5. toClient'[conn] = << <<N>> >> /\ \A d \in Client : d # conn => toClient'[d] = toClient[d]
    BY <1>2, <1>3, <1>4, AppendOne DEF ClientType
  <1>6. Buffer(conn)'
    <2>1. Buffer(conn)
      BY <1>2 DEF SessionInv, ClientInv
    <2> QED  BY <1>2, <1>4, <1>5, <2>1 DEF Buffer
  <1>7. \A n \in 1 .. Len(queue) : queue[n] # conn
    BY DEF SessionInv, ServerInv, QueueInv
  <1>8. Talk(conn)'
    BY <1>2, <1>4, <1>5, <1>7 DEF Talk
  <1> QED
    BY <1>1, <1>2, <1>5, <1>6, <1>8, SendFrame

LEMMA SendKeysStep == ASSUME SessionInv, SendKeys PROVE ServerInv' /\ ClientInv'
  <1>1. srv = "sendKeys" /\ Send(k, "play") /\ k \in Keys /\ k \in Message
    BY DEF SendKeys, Message, SessionInv, ServerInv, ServerType
  <1>2. SUFFICES ASSUME conn \in Client, ClientEnd(conn), srv' = "play", seg' = 1,
                        toClient' = [toClient EXCEPT ![conn] = Append(@, k)],
                        toClient' \in [Client -> Seq(Message)],
                        UNCHANGED <<conn, M, k, shmid, queue, toServer, segs, cli, cM, cN, ck, cshm>>
                 PROVE  ServerInv' /\ ClientInv'
    BY <1>1, SendCases
  <1>3. Talk(conn) /\ Buffer(conn) /\ ClientType
    BY <1>2 DEF SessionInv, ClientInv
  <1>4. \/ cli[conn] = "recvN" /\ toClient[conn] = << <<N>> >>
        \/ cli[conn] = "recvKeys" /\ toClient[conn] = << >>
    BY <1>1, <1>2, <1>3 DEF Talk
  <1>5. toClient'[conn] = Append(toClient[conn], k) /\ \A d \in Client : d # conn => toClient'[d] = toClient[d]
    BY <1>2, <1>3 DEF ClientType
  <1>6. \/ cli[conn] = "recvN" /\ toClient'[conn] = << <<N>>, k>>
        \/ cli[conn] = "recvKeys" /\ toClient'[conn] = <<k>>
    BY <1>4, <1>5, AppendOne, AppendTwo
  <1>7. Buffer(conn)'
    <2>1. conn' = conn /\ cli'[conn] = cli[conn] /\ cshm'[conn] = cshm[conn]
      BY <1>2
    <2>2. cshm[conn] = << >>
      BY <1>3, <1>4 DEF Buffer
    <2>3. CASE cli[conn] = "recvN" /\ toClient'[conn] = << <<N>>, k>>
      <3>1. \E q \in Keys : toClient'[conn] = << <<N>>, q>>
        BY <1>1, <2>3
      <3> QED  BY <2>1, <2>2, <2>3, <3>1 DEF Buffer
    <2>4. CASE cli[conn] = "recvKeys" /\ toClient'[conn] = <<k>>
      <3>1. \E q \in Keys : toClient'[conn] = <<q>>
        BY <1>1, <2>4
      <3> QED  BY <2>1, <2>2, <2>4, <3>1 DEF Buffer
    <2> QED  BY <1>6, <2>3, <2>4
  <1>8. \A n \in 1 .. Len(queue) : queue[n] # conn
    BY DEF SessionInv, ServerInv, QueueInv
  <1>9. Talk(conn)'
    BY <1>2, <1>6, <1>8 DEF Talk
  <1> QED
    BY <1>1, <1>2, <1>5, <1>7, <1>9, SendFrame

(* The server gets a segment under a key that names no other.              *)
LEMMA CreateStep == ASSUME SessionInv, CreateSegment PROVE ServerInv' /\ ClientInv'
  <1> USE DEF SessionInv, ServerInv, ClientInv
  <1> PICK key \in Key, i \in SegId :
        /\ \/ /\ Named(key) = {} /\ Size(seg, M, N) > 0
              /\ NewSegment(i, key, Size(seg, M, N), Server)
           \/ /\ i \in Named(key) /\ segs' = Mapped(segs, i, Server)
        /\ k' = [k EXCEPT ![seg] = key]
        /\ shmid' = [shmid EXCEPT ![seg] = i]
    BY DEF CreateSegment
  <1>1. /\ srv = "create" /\ UNCHANGED <<conn, M, queue, toServer, toClient, cli, cM, cN, ck, cshm>>
        /\ IF seg = 3 THEN srv' = "sendKeys" /\ seg' = 1 ELSE srv' = "create" /\ seg' = seg + 1
    BY DEF CreateSegment, clientVars, socketVars
  <1>2. seg \in Which /\ k \in Keys /\ M \in Int /\ Named(key) = NamedIn(segs, key) /\ key \in KeyOrNone /\ key # Private
    BY SizesAssumption, Names DEF ServerType, Named, NamedIn, KeyOrNone
  <1>3. /\ SegsOK(segs') /\ NamedIn(segs', key) = {i}
        /\ \A other \in Key : other # key => NamedIn(segs', other) = NamedIn(segs, other)
    <2>1. CASE NamedIn(segs, key) = {} /\ Size(seg, M, N) > 0 /\ NewSegment(i, key, Size(seg, M, N), Server)
      <3>1. Size(seg, M, N) \in Nat
        BY <1>2, <2>1, SizesAssumption DEF Size, Which
      <3> QED  BY <1>2, <2>1, <3>1, NewNames
    <2>2. CASE i \in NamedIn(segs, key) /\ segs' = Mapped(segs, i, Server)
      <3>1. i \in DOMAIN segs
        BY <2>2 DEF NamedIn
      <3>2. SegsOK(segs') /\ SameNames(segs, segs')
        BY <2>2, <3>1, MappedNames
      <3>3. NamedIn(segs, key) = {i}
        BY <1>2, <2>2 DEF NamedIn, SegsOK
      <3> QED  BY <3>2, <3>3 DEF SameNames
    <2> QED  BY <1>2, <2>1, <2>2
  <1>4. ServerType' /\ ClientType'
    <2>1. srv' \in {"sendKeys", "create"} /\ seg' \in Which
      BY <1>1, <1>2, WhichType
    <2>2. k' \in Keys /\ shmid' \in [Which -> SegId \cup {NoSeg}]
      BY <1>2 DEF ServerType, Keys
    <2> QED  BY <1>1, <2>1, <2>2 DEF ServerType, ClientType
  <1>5. MadeInv'
    <2>1. SUFFICES ASSUME NEW w \in Which, Made(w)'
                   PROVE  k'[w] \in Key /\ NamedIn(segs', k'[w]) = {shmid'[w]}
      BY DEF MadeInv
    <2>2. CASE w = seg
      BY <1>2, <1>3, <2>2 DEF ServerType, Keys
    <2>3. CASE w # seg
      <3>1. Made(w)
        BY <1>1, <1>2, <2>1, <2>3, WhichType DEF Made
      <3>2. k'[w] = k[w] /\ shmid'[w] = shmid[w]
        BY <1>2, <2>3 DEF ServerType, Keys
      <3>3. k[w] \in Key /\ NamedIn(segs, k[w]) = {shmid[w]}
        BY <3>1 DEF MadeInv
      <3>4. CASE k[w] # key
        BY <1>3, <3>2, <3>3, <3>4
      <3>5. CASE k[w] = key
        <4>1. i \in NamedIn(segs, key)
          BY <1>2, <3>3, <3>5
        <4>2. i = shmid[w]
          BY <3>3, <3>5, <4>1
        <4> QED  BY <1>3, <3>2, <3>3, <3>5, <4>2
      <3> QED  BY <3>4, <3>5
    <2> QED  BY <2>2, <2>3
  <1>6. QueueInv'
    BY <1>1 DEF QueueInv
  <1>7. ASSUME NEW d \in Client
        PROVE  Buffer(d)' /\ Talk(d)'
    <2>1. Buffer(d)'
      BY <1>1, BufferSame
    <2>2. Talk(d)'
      BY <1>1 DEF Talk, ClientEnd, Waiting
    <2> QED  BY <2>1, <2>2
  <1> QED
    BY <1>3, <1>4, <1>5, <1>6, <1>7

LEMMA PlayStep ==
  ASSUME SessionInv, Solve \/ JoinThreads
  PROVE  ServerInv' /\ ClientInv'
  <1> USE DEF SessionInv, ServerInv, ClientInv
  <1>1. /\ srv = "play" /\ srv' \in {"play", "close"}
        /\ UNCHANGED <<conn, M, seg, k, shmid, queue, toServer, toClient, cli, cM, cN, ck, cshm>>
        /\ segs' = segs \/ segs' = [segs EXCEPT ![shmid[3]].solved = TRUE]
    BY DEF Solve, JoinThreads, serverVars, clientVars, socketVars
  <1>2. SegsOK(segs') /\ SameNames(segs, segs')
    BY <1>1, SolvedNames DEF SameNames
  <1>3. ServerType' /\ ClientType' /\ QueueInv'
    BY <1>1 DEF ServerType, ClientType, QueueInv
  <1>4. MadeInv'
    BY <1>1, <1>2, MadeSame DEF Made
  <1>5. ASSUME NEW d \in Client
        PROVE  Buffer(d)' /\ Talk(d)'
    <2>1. Buffer(d)'
      BY <1>1, BufferSame
    <2>2. Talk(d)'
      BY <1>1 DEF Talk, ClientEnd, Waiting
    <2> QED  BY <2>1, <2>2
  <1> QED
    BY <1>2, <1>3, <1>4, <1>5

(* The server has closed the connection, or waits for one.                 *)
LEMMA Unconnected ==
  ASSUME SessionInv, conn' = None, srv' \in {"accept", "detach", "semctl", "remove", "down"},
         k' \in Keys, shmid' \in [Which -> SegId \cup {NoSeg}], seg' \in Which, M' \in ThreadArg,
         SegsOK(segs'), UNCHANGED <<queue, toServer, toClient, cli, cM, cN, ck, cshm>>
  PROVE  ServerInv' /\ ClientInv'
  <1> USE DEF SessionInv, ServerInv, ClientInv
  <1>1. ServerType' /\ ClientType'
    BY DEF ServerType, ClientType
  <1>2. MadeInv'
    BY DEF MadeInv, Made
  <1>3. QueueInv'
    <2>1. \A n \in 1 .. Len(queue) : queue[n] \in Client
      BY DEF ServerType
    <2> QED  BY <2>1, Names DEF QueueInv
  <1>4. ASSUME NEW d \in Client
        PROVE  Buffer(d)' /\ Talk(d)'
    <2>1. Buffer(d)'
      BY BufferSame
    <2>2. Talk(d)'
      BY Names DEF Talk, ClientEnd, Waiting
    <2> QED  BY <2>1, <2>2
  <1> QED
    BY <1>1, <1>2, <1>3, <1>4

LEMMA CloseStep ==
  ASSUME SessionInv, Close \/ Detach \/ RemoveSemaphores \/ RemoveSegment \/ StartServer
  PROVE  ServerInv' /\ ClientInv'
  <1>1. ServerType /\ QueueInv /\ SegsOK(segs)
    BY DEF SessionInv, ServerInv
  <1>2. CASE Close
    BY <1>1, <1>2, Unconnected DEF Close, ServerType, clientVars, socketVars
  <1>3. CASE Detach
    <2>1. conn = None /\ segs' = Detached(Server)
      BY <1>1, <1>3 DEF Detach, QueueInv
    <2>2. SegsOK(segs')
      BY <1>1, <2>1, DetachedNames
    <2> QED  BY <1>1, <1>3, <2>1, <2>2, Unconnected DEF Detach, ServerType, clientVars, socketVars
  <1>4. CASE RemoveSemaphores
    <2>1. conn = None /\ 1 \in Which
      BY <1>1, <1>4 DEF RemoveSemaphores, QueueInv, Which
    <2> QED  BY <1>1, <1>4, <2>1, Unconnected DEF RemoveSemaphores, ServerType, clientVars, socketVars
  <1>5. CASE RemoveSegment
    <2>1. CASE ServerDies
      BY <1>5, <2>1, DiesInv DEF RemoveSegment
    <2>2. CASE ~ServerDies
      <3>1. /\ srv = "remove" /\ segs' = Kept([segs EXCEPT ![shmid[seg]].removed = TRUE])
            /\ IF seg = 3 THEN srv' = "accept" /\ seg' = 1 ELSE srv' = "remove" /\ seg' = seg + 1
            /\ shmid' = [shmid EXCEPT ![seg] = NoSeg] /\ k' = [k EXCEPT ![seg] = Private]
            /\ UNCHANGED <<conn, M, queue, toServer, toClient, cli, cM, cN, ck, cshm>>
        BY <1>5, <2>2 DEF RemoveSegment, clientVars, socketVars
      <3>2. SegsOK(segs')
        BY <1>1, <3>1, RemovedNames
      <3>3. k' \in Keys /\ shmid' \in [Which -> SegId \cup {NoSeg}]
        BY <1>1, <3>1 DEF ServerType, Keys, KeyOrNone
      <3>4. seg' \in Which /\ srv' \in {"accept", "remove"}
        BY <1>1, <3>1, WhichType DEF ServerType
      <3>5. conn' = None /\ M' \in ThreadArg
        BY <1>1, <3>1 DEF QueueInv, ServerType
      <3> QED  BY <3>1, <3>2, <3>3, <3>4, <3>5, Unconnected
    <2> QED  BY <2>1, <2>2
  <1>6. CASE StartServer
    <2>1. conn = None /\ 1 \in Which /\ NoKeys \in Keys
      BY <1>1, <1>6, NoKeysType DEF StartServer, QueueInv, Which
    <2>2. [w \in Which |-> NoSeg] \in [Which -> SegId \cup {NoSeg}]
      OBVIOUS
    <2> QED  BY <1>1, <1>6, <2>1, <2>2, Unconnected DEF StartServer, clientVars, socketVars
  <1> QED
    BY <1>2, <1>3, <1>4, <1>5, <1>6

-----------------------------------------------------------------------------
(* The clients                                                             *)

(* A step of one client that neither accepts nor closes a connection.      *)
LEMMA ClientFrame ==
  ASSUME SessionInv, NEW c \in Client, UNCHANGED <<srv, conn, M, seg, k, shmid, queue>>,
         SegsOK(segs'), SameNames(segs, segs'), ClientType',
         \A d \in Client : d # c => UNCHANGED <<cli[d], toServer[d], toClient[d], cM[d], ck[d], cshm[d]>>,
         Buffer(c)', Talk(c)'
  PROVE  ServerInv' /\ ClientInv'
  <1> USE DEF SessionInv, ServerInv, ClientInv
  <1>1. ServerType' /\ QueueInv'
    BY DEF ServerType, QueueInv
  <1>2. MadeInv'
    BY MadeSame DEF Made
  <1>3. ASSUME NEW d \in Client, d # c
        PROVE  Buffer(d)' /\ Talk(d)'
    <2>1. UNCHANGED <<cli[d], toServer[d], toClient[d], cM[d], ck[d], cshm[d]>>
      BY <1>3
    <2> QED  BY <2>1, BufferSame, TalkSame
  <1> QED
    BY <1>1, <1>2, <1>3

LEMMA SameSegs == SegsOK(segs) /\ segs' = segs => SegsOK(segs') /\ SameNames(segs, segs')
  BY DEF SegsOK, SameNames

LEMMA EmptyType == << >> \in UNION {[1 .. n -> SegId] : n \in 0 .. 3}
  <1>1. << >> \in [1 .. 0 -> SegId] /\ 0 \in 0 .. 3
    OBVIOUS
  <1> QED
    BY <1>1

LEMMA ConnectStep ==
  ASSUME SessionInv, NEW c \in Client, Connect(c)
  PROVE  ServerInv' /\ ClientInv'
  <1> USE DEF SessionInv, ServerInv, ClientInv
  <1>1. /\ UNCHANGED <<srv, conn, M, seg, k, shmid, segs>> /\ ~ServerEnd(c)
        /\ cN' = [cN EXCEPT ![c] = 0] /\ ck' = [ck EXCEPT ![c] = NoKeys] /\ cshm' = [cshm EXCEPT ![c] = << >>]
        /\ toServer' = [toServer EXCEPT ![c] = << >>] /\ toClient' = [toClient EXCEPT ![c] = << >>]
    BY DEF Connect, Fresh, serverVars
  <1>2. \/ /\ cli' = [cli EXCEPT ![c] = "failed"] /\ UNCHANGED <<cM, queue>>
        \/ /\ cli' = [cli EXCEPT ![c] = "send"] /\ queue' = Append(queue, c)
           /\ \E m \in ThreadArg : cM' = [cM EXCEPT ![c] = m]
    BY DEF Connect
  <1>3. /\ queue \in Seq(Client) /\ Len(queue) \in Nat
        /\ conn # c /\ \A n \in 1 .. Len(queue) : queue[n] # c
    BY <1>1 DEF ServerEnd, ServerType
  <1>4. \/ queue' = queue
        \/ /\ queue' = Append(queue, c) /\ Len(queue') = Len(queue) + 1 /\ queue'[Len(queue) + 1] = c
           /\ \A n \in 1 .. Len(queue) : queue'[n] = queue[n]
    BY <1>2, <1>3, AppendElements
  <1>5. /\ \A n \in 1 .. Len(queue') : queue'[n] = c \/ (n \in 1 .. Len(queue) /\ queue'[n] = queue[n])
        /\ \A m, n \in 1 .. Len(queue') : queue'[m] = queue'[n] => m = n
    <2>1. CASE queue' = queue
      BY <2>1 DEF QueueInv
    <2>2. CASE queue' # queue
      <3>1. \A m, n \in 1 .. Len(queue) : queue[m] = queue[n] => m = n
        BY DEF QueueInv
      <3>2. \A n \in 1 .. Len(queue') : n = Len(queue) + 1 \/ n \in 1 .. Len(queue)
        BY <1>3, <1>4, <2>2
      <3> QED  BY <1>3, <1>4, <2>2, <3>1, <3>2
    <2> QED  BY <2>1, <2>2
  <1>6. ServerType' /\ QueueInv'
    <2>1. queue' \in Seq(Client)
      BY <1>2, <1>3, AppendElements
    <2>2. \A n \in 1 .. Len(queue') : queue'[n] # conn
      BY <1>3, <1>5 DEF QueueInv
    <2> QED  BY <1>1, <1>5, <2>1, <2>2 DEF ServerType, QueueInv
  <1>7. SegsOK(segs') /\ MadeInv'
    BY <1>1 DEF SegsOK, MadeInv, Made
  <1>8. ClientType'
    <2>1. cM' \in [Client -> ThreadArg \cup {0}] /\ cli' \in [Client -> {"idle"} \cup Connected \cup Ended]
      BY <1>2 DEF ClientType, Connected, Ended
    <2>2. toServer' \in [Client -> Seq(ThreadArg)] /\ toClient' \in [Client -> Seq(Message)]
      BY <1>1 DEF ClientType
    <2>3. cN' \in [Client -> {0, N}] /\ ck' \in [Client -> Keys]
      BY <1>1, NoKeysType DEF ClientType
    <2>4. cshm' \in [Client -> UNION {[1 .. n -> SegId] : n \in 0 .. 3}]
      BY <1>1, EmptyType DEF ClientType
    <2> QED  BY <2>1, <2>2, <2>3, <2>4 DEF ClientType
  <1>9. ASSUME NEW d \in Client
        PROVE  Buffer(d)' /\ Talk(d)'
    <2>1. CASE d = c
      <3>1. toServer'[c] = << >> /\ toClient'[c] = << >> /\ cshm'[c] = << >>
        BY <1>1 DEF ClientType
      <3>2. cli'[c] = "failed" \/ (cli'[c] = "send" /\ cM'[c] \in ThreadArg)
        BY <1>2 DEF ClientType
      <3>3. Buffer(c)'
        BY <3>1, <3>2 DEF Buffer
      <3>4. Talk(c)'
        BY <1>1, <1>3, <3>1, <3>2 DEF Talk, ClientEnd, Connected, Waiting
      <3> QED  BY <2>1, <3>3, <3>4
    <2>2. CASE d # c
      <3>1. UNCHANGED <<cli[d], toServer[d], toClient[d], cM[d], ck[d], cshm[d]>>
        BY <1>1, <1>2, <2>2 DEF ClientType
      <3>2. \A n \in 1 .. Len(queue') : queue'[n] = d => n \in 1 .. Len(queue) /\ queue[n] = d
        BY <1>5, <2>2
      <3>3. Talk(d)'
        BY <1>1, <3>1, <3>2 DEF Talk, ClientEnd, Waiting
      <3> QED  BY <3>1, <3>3, BufferSame
    <2> QED  BY <2>1, <2>2
  <1> QED
    BY <1>6, <1>7, <1>8, <1>9

LEMMA SendMStep ==
  ASSUME SessionInv, NEW c \in Client, SendM(c)
  PROVE  ServerInv' /\ ClientInv'
  <1> USE DEF SessionInv, ServerInv, ClientInv
  <1>1. CASE ~ServerEnd(c)
    <2>1. ClientEnds(c, "failed") /\ UNCHANGED <<serverVars, queue, toServer, toClient>> /\ "failed" \in Ended
      BY <1>1 DEF SendM, Ended
    <2> QED  BY <2>1, EndsInv
  <1>2. CASE ServerEnd(c)
    <2>1. /\ cli[c] = "send" /\ cli' = [cli EXCEPT ![c] = "recvN"]
          /\ toServer' = [toServer EXCEPT ![c] = Append(@, cM[c])]
          /\ UNCHANGED <<srv, conn, M, seg, k, shmid, queue, toClient, cM, cN, ck, cshm, segs>>
      BY <1>2 DEF SendM, serverVars
    <2>2. cM[c] \in ThreadArg /\ toClient[c] = << >> /\ cshm[c] = << >>
      BY <2>1 DEF Buffer
    <2>3. Append(toServer[c], cM[c]) \in Seq(ThreadArg)
      BY <2>2, AppendElements DEF ClientType
    <2>4. ClientType'
      BY <2>1, <2>3 DEF ClientType, Connected
    <2>5. cli'[c] = "recvN" /\ toClient'[c] = << >> /\ cshm'[c] = << >>
      BY <2>1, <2>2 DEF ClientType
    <2>6. Buffer(c)'
      BY <2>5 DEF Buffer
    <2>7. Talk(c)'
      BY <2>1, <2>5 DEF Talk, ClientEnd, Connected, Waiting
    <2>8. \A d \in Client : d # c => UNCHANGED <<cli[d], toServer[d], toClient[d], cM[d], ck[d], cshm[d]>>
      BY <2>1 DEF ClientType
    <2>9. SegsOK(segs') /\ SameNames(segs, segs')
      BY <2>1, SameSegs
    <2> QED  BY <2>1, <2>4, <2>6, <2>7, <2>8, <2>9, ClientFrame
  <1> QED
    BY <1>1, <1>2

(* A client that receives while its connection is open gets what the       *)
(* server has sent; if nothing is there and the server has gone, nothing.  *)
LEMMA RecvNStep ==
  ASSUME SessionInv, NEW c \in Client, RecvN(c)
  PROVE  ServerInv' /\ ClientInv'
  <1> USE DEF SessionInv, ServerInv, ClientInv
  <1>1. /\ cli[c] = "recvN" /\ cli' = [cli EXCEPT ![c] = "recvKeys"]
        /\ UNCHANGED <<srv, conn, M, seg, k, shmid, queue, toServer, cM, ck, cshm, segs>>
        /\ \/ /\ toClient[c] # << >> /\ cN' = [cN EXCEPT ![c] = Head(toClient[c])[1]]
              /\ toClient' = [toClient EXCEPT ![c] = Tail(@)]
           \/ toClient[c] = << >> /\ ~ServerEnd(c) /\ UNCHANGED <<cN, toClient>>
    BY DEF RecvN, serverVars
  <1>2. Buffer(c) /\ Talk(c) /\ cshm[c] = << >> /\ ClientEnd(c)
    BY <1>1 DEF Buffer, ClientEnd, Connected
  <1>3. \/ toClient[c] = << >> /\ toClient'[c] = << >> /\ ~ServerEnd(c) /\ cN' = cN
        \/ /\ toClient[c] = << <<N>> >> /\ toClient'[c] = << >>
           /\ cN' = [cN EXCEPT ![c] = N]
        \/ \E q \in Keys : /\ toClient[c] = << <<N>>, q>> /\ toClient'[c] = <<q>>
                           /\ cN' = [cN EXCEPT ![c] = N]
    <2>1. CASE toClient[c] = << >>
      BY <1>1, <2>1
    <2>2. CASE toClient[c] = << <<N>> >>
      BY <1>1, <2>2, OneReceived DEF ClientType
    <2>3. ASSUME NEW q \in Keys, toClient[c] = << <<N>>, q>>
          PROVE  toClient'[c] = <<q>> /\ cN' = [cN EXCEPT ![c] = N]
      BY <1>1, <2>3, TwoReceived DEF ClientType
    <2> QED  BY <1>1, <1>2, <2>1, <2>2, <2>3 DEF Buffer
  <1>4. toClient'[c] = << >> \/ \E q \in Keys : toClient'[c] = <<q>>
    BY <1>3
  <1>5. cli'[c] = "recvKeys" /\ cshm'[c] = << >>
    BY <1>1, <1>2 DEF ClientType
  <1>6. ClientType'
    <2>1. toClient'[c] \in Seq(Message)
      <3>1. << >> \in Seq(Message)
        OBVIOUS
      <3>2. ASSUME NEW q \in Keys PROVE <<q>> \in Seq(Message)
        <4> q \in Message
          BY DEF Message
        <4> HIDE DEF Message
        <4> QED  OBVIOUS
      <3> QED  BY <1>4, <3>1, <3>2
    <2>2. toClient' \in [Client -> Seq(Message)]
      BY <1>1, <2>1 DEF ClientType
    <2>3. cN' \in [Client -> {0, N}]
      BY <1>3 DEF ClientType
    <2> QED  BY <1>1, <2>2, <2>3 DEF ClientType, Connected
  <1>7. Buffer(c)'
    BY <1>4, <1>5 DEF Buffer
  <1>8. Talk(c)'
    <2>1. CASE ~ServerEnd(c)
      BY <1>1, <2>1 DEF Talk, ServerEnd
    <2>2. CASE toClient[c] # << >>
      <3>1. ~Waiting(c)
        BY <2>2 DEF Waiting
      <3>2. srv \in {"create", "sendKeys"} /\ conn = c => toClient[c] = << <<N>> >>
        BY <1>1, <1>2 DEF Talk
      <3>3. srv \in {"create", "sendKeys"} /\ conn = c => toClient'[c] = << >>
        BY <1>1, <2>2, <3>2, OneReceived DEF ClientType
      <3>4. srv \in {"play", "close"} /\ conn = c => toClient[c] = << <<N>>, k>>
        BY <1>1, <1>2 DEF Talk
      <3>5. ASSUME srv \in {"play", "close"}, conn = c PROVE toClient'[c] = <<k>>
        <4>1. Tail(toClient[c]) = <<k>>
          BY <3>4, <3>5, TwoReceived
        <4> QED  BY <1>1, <2>2, <4>1 DEF ClientType
      <3> QED  BY <1>1, <1>2, <1>5, <3>1, <3>3, <3>5 DEF Talk
    <2> QED  BY <1>3, <2>1, <2>2
  <1>9. \A d \in Client : d # c => UNCHANGED <<cli[d], toServer[d], toClient[d], cM[d], ck[d], cshm[d]>>
    BY <1>1 DEF ClientType
  <1> QED
    BY <1>1, <1>6, <1>7, <1>8, <1>9, SameSegs, ClientFrame

LEMMA RecvKeysStep ==
  ASSUME SessionInv, NEW c \in Client, RecvKeys(c)
  PROVE  ServerInv' /\ ClientInv'
  <1> USE DEF SessionInv, ServerInv, ClientInv
  <1>1. /\ cli[c] = "recvKeys" /\ cli' = [cli EXCEPT ![c] = "attach"]
        /\ UNCHANGED <<srv, conn, M, seg, k, shmid, queue, toServer, cM, cN, cshm, segs>>
        /\ \/ /\ toClient[c] # << >> /\ ck' = [ck EXCEPT ![c] = Head(toClient[c])]
              /\ toClient' = [toClient EXCEPT ![c] = Tail(@)]
           \/ toClient[c] = << >> /\ ~ServerEnd(c) /\ UNCHANGED <<ck, toClient>>
    BY DEF RecvKeys, serverVars
  <1>2. Buffer(c) /\ Talk(c) /\ cshm[c] = << >> /\ ClientEnd(c)
    BY <1>1 DEF Buffer, ClientEnd, Connected
  <1>3. toClient'[c] = << >> /\ ck' \in [Client -> Keys]
    <2>1. CASE toClient[c] = << >>
      BY <1>1, <2>1 DEF ClientType
    <2>2. ASSUME NEW q \in Keys, toClient[c] = <<q>>
          PROVE  toClient'[c] = << >> /\ ck' \in [Client -> Keys]
      <3>1. Head(toClient[c]) = q /\ Tail(toClient[c]) = << >> /\ toClient[c] # << >>
        BY <2>2, OneReceived
      <3> QED  BY <1>1, <3>1 DEF ClientType
    <2> QED  BY <1>1, <1>2, <2>1, <2>2 DEF Buffer
  <1>4. cli'[c] = "attach" /\ cshm'[c] = << >> /\ Len(cshm'[c]) = 0
    BY <1>1, <1>2 DEF ClientType
  <1>5. ClientType'
    <2>1. toClient' \in [Client -> Seq(Message)]
      <3>1. << >> \in Seq(Message)
        OBVIOUS
      <3>2. toClient' = [toClient EXCEPT ![c] = << >>]
        BY <1>1, <1>3 DEF ClientType
      <3> QED  BY <3>1, <3>2 DEF ClientType
    <2> QED  BY <1>1, <1>3, <2>1 DEF ClientType, Connected
  <1>6. Buffer(c)'
    BY <1>4 DEF Buffer
  <1>7. Talk(c)'
    <2>1. CASE ~ServerEnd(c)
      BY <1>1, <2>1 DEF Talk, ServerEnd
    <2>2. CASE toClient[c] # << >>
      <3>1. ~Waiting(c)
        BY <2>2 DEF Waiting
      <3>2. ASSUME conn = c
            PROVE  srv \in {"play", "close"} /\ toClient[c] = <<k>>
        <4>1. srv \notin {"accept", "detach", "semctl", "remove", "down"}
          BY <3>2, Names DEF QueueInv
        <4>2. srv \in {"recv", "sendN", "create", "sendKeys", "play", "close"}
          BY <4>1 DEF ServerType
        <4> QED  BY <1>1, <1>2, <2>2, <3>1, <3>2, <4>2 DEF Talk
      <3>3. conn = c => ck'[c] = k
        BY <1>1, <2>2, <3>2, OneReceived DEF ClientType
      <3>4. \A w \in 1 .. Len(cshm'[c]) : cshm'[c][w] = shmid[w]
        BY <1>4
      <3> QED  BY <1>1, <1>2, <1>4, <3>1, <3>2, <3>3, <3>4 DEF Talk
    <2> QED  BY <1>1, <2>1, <2>2
  <1>8. \A d \in Client : d # c => UNCHANGED <<cli[d], toServer[d], toClient[d], cM[d], ck[d], cshm[d]>>
    BY <1>1 DEF ClientType
  <1> QED
    BY <1>1, <1>5, <1>6, <1>7, <1>8, SameSegs, ClientFrame

(* With the server's keys a client finds the server's segments.            *)
LEMMA AttachStep ==
  ASSUME SessionInv, NEW c \in Client, Attach(c)
  PROVE  ServerInv' /\ ClientInv'
  <1> USE DEF SessionInv, ServerInv, ClientInv
  <1> DEFINE w    == Len(cshm[c]) + 1
             key  == ck[c][w]
             size == Size(w, cM[c], cN[c])
             fits == {i \in Named(key) : key # Private /\ segs[i].size >= size /\ size >= 0}
  <1>1. /\ cli[c] = "attach" /\ UNCHANGED <<srv, conn, M, seg, k, shmid, queue, toServer, toClient>>
        /\ \/ \E i \in SegId :
                /\ \/ i \in fits /\ segs' = Mapped(segs, i, c)
                   \/ key = Private /\ size > 0 /\ NewSegment(i, Private, size, c)
                /\ cshm' = [cshm EXCEPT ![c] = Append(@, i)]
                /\ cli' = [cli EXCEPT ![c] = IF w = 3 THEN "play" ELSE "attach"]
                /\ UNCHANGED <<cM, cN, ck>>
           \/ ClientEnds(c, "failed")
    BY DEF Attach, serverVars, socketVars
  <1>2. CASE ClientEnds(c, "failed")
    <2>1. UNCHANGED <<serverVars, queue, toServer, toClient>> /\ "failed" \in Ended
      BY DEF Attach, socketVars, Ended
    <2> QED  BY <1>2, <2>1, EndsInv
  <1>3. CASE ~ClientEnds(c, "failed")
    <2>1. PICK i \in SegId :
            /\ \/ i \in fits /\ segs' = Mapped(segs, i, c)
               \/ key = Private /\ size > 0 /\ NewSegment(i, Private, size, c)
            /\ cshm' = [cshm EXCEPT ![c] = Append(@, i)]
            /\ cli' = [cli EXCEPT ![c] = IF w = 3 THEN "play" ELSE "attach"]
            /\ UNCHANGED <<cM, cN, ck>>
      BY <1>1, <1>3
    <2>2. PICK n \in 0 .. 3 : cshm[c] \in [1 .. n -> SegId]
      BY DEF ClientType
    <2>3. cshm[c] \in Seq(SegId) /\ Len(cshm[c]) = n /\ n < 3
      BY <1>1, <2>2 DEF Buffer
    <2>4. w = n + 1 /\ w \in Which
      BY <2>3, WhichType
    <2>5. key \in KeyOrNone /\ ck[c] \in Keys
      BY <2>4 DEF ClientType, Keys
    <2>6. size \in Int
      <3>1. cM[c] \in Int /\ cN[c] \in Int
        <4>1. cM[c] \in ThreadArg \cup {0} /\ cN[c] \in {0, N}
          BY DEF ClientType
        <4>2. ThreadArg \subseteq Int /\ N \in Int
          BY SizesAssumption
        <4>3. cM[c] \in Int
          <5>1. CASE cM[c] \in ThreadArg
            BY <4>2, <5>1, Zenon
          <5>2. CASE cM[c] = 0
            BY <5>2
          <5> QED  BY <4>1, <5>1, <5>2
        <4>4. cN[c] \in Int
          BY <4>1, <4>2
        <4> QED  BY <4>3, <4>4
      <3> QED  BY <2>4, <3>1, SizesAssumption, WhichType DEF Size
    <2> HIDE DEF key, size
    <2>7. SegsOK(segs') /\ SameNames(segs, segs')
      <3>1. CASE i \in fits /\ segs' = Mapped(segs, i, c)
        <4>1. i \in DOMAIN segs
          BY <3>1 DEF Named
        <4> QED  BY <3>1, <4>1, MappedNames
      <3>2. CASE key = Private /\ size > 0 /\ NewSegment(i, Private, size, c)
        <4>1. size \in Nat /\ Private \in KeyOrNone
          BY <2>6, <3>2 DEF KeyOrNone
        <4>2. /\ SegsOK(segs')
              /\ \A other \in Key : other # Private => NamedIn(segs', other) = NamedIn(segs, other)
          BY <3>2, <4>1, NewNames
        <4> QED  BY <4>2, Names DEF SameNames
      <3> QED  BY <2>1, <3>1, <3>2
    <2>8. /\ cshm'[c] = Append(cshm[c], i) /\ Len(cshm'[c]) = n + 1
          /\ cshm'[c][n + 1] = i /\ \A m \in 1 .. n : cshm'[c][m] = cshm[c][m]
          /\ cshm'[c] \in [1 .. n + 1 -> SegId]
      <3>1. cshm'[c] = Append(cshm[c], i)
        BY <2>1 DEF ClientType
      <3>2. /\ Append(cshm[c], i) \in Seq(SegId) /\ Len(Append(cshm[c], i)) = n + 1
            /\ Append(cshm[c], i)[n + 1] = i /\ \A m \in 1 .. n : Append(cshm[c], i)[m] = cshm[c][m]
        BY <2>3, AppendElements
      <3>3. Append(cshm[c], i) \in [1 .. n + 1 -> SegId]
        <4> DEFINE longer == Append(cshm[c], i)
        <4>1. longer \in Seq(SegId) /\ Len(longer) = n + 1
          BY <3>2
        <4> HIDE DEF longer
        <4>2. longer \in [1 .. Len(longer) -> SegId]
          BY <4>1
        <4> QED  BY <4>1, <4>2 DEF longer
      <3> QED  BY <3>1, <3>2, <3>3
    <2>9. cshm' \in [Client -> UNION {[1 .. m -> SegId] : m \in 0 .. 3}]
      <3>1. n + 1 \in 0 .. 3
        BY <2>3
      <3>2. cshm'[c] \in UNION {[1 .. m -> SegId] : m \in 0 .. 3}
        BY <2>8, <3>1
      <3> QED  BY <2>1, <3>2 DEF ClientType
    <2>10. cli'[c] = IF w = 3 THEN "play" ELSE "attach"
      BY <2>1 DEF ClientType
    <2>11. ClientType'
      <3>1. cli' \in [Client -> {"idle"} \cup Connected \cup Ended]
        BY <2>1 DEF ClientType, Connected
      <3> QED  BY <1>1, <2>1, <2>9, <3>1 DEF ClientType
    <2>12. Buffer(c)'
      BY <2>3, <2>4, <2>8, <2>10 DEF Buffer
    <2>13. Talk(c)'
      <3>1. Talk(c) /\ ClientEnd(c)
        BY <1>1 DEF ClientEnd, Connected
      <3>2. \A m \in 1 .. Len(queue) : queue[m] # c
        BY <1>1, <3>1 DEF Talk, Waiting
      <3>3. SUFFICES ASSUME conn = c
                     PROVE  /\ srv \in {"play", "close"} /\ ck'[c] = k
                            /\ \A m \in 1 .. Len(cshm'[c]) : cshm'[c][m] = shmid[m]
        BY <1>1, <2>10, <3>2 DEF Talk
      <3>4. srv \in {"play", "close"}
        <4>1. srv \notin {"accept", "detach", "semctl", "remove", "down"}
          BY <3>3, Names DEF QueueInv
        <4>2. srv \in {"recv", "sendN", "create", "sendKeys", "play", "close"}
          BY <4>1 DEF ServerType
        <4> QED  BY <1>1, <3>1, <3>3, <4>2 DEF Talk, Waiting
      <3>5. ck[c] = k /\ \A m \in 1 .. n : cshm[c][m] = shmid[m]
        BY <1>1, <2>3, <3>1, <3>3, <3>4 DEF Talk
      <3>6. key = k[w] /\ k[w] \in Key /\ NamedIn(segs, k[w]) = {shmid[w]}
        <4>1. Made(w)
          BY <3>4 DEF Made
        <4> QED  BY <2>4, <3>5, <4>1 DEF MadeInv, key
      <3>7. i \in NamedIn(segs, key)
        BY <2>1, <3>6, Names DEF Named, NamedIn
      <3>8. i = shmid[n + 1]
        BY <2>4, <3>6, <3>7
      <3> QED  BY <2>1, <2>3, <2>8, <3>4, <3>5, <3>8
    <2>14. \A d \in Client : d # c => UNCHANGED <<cli[d], toServer[d], toClient[d], cM[d], ck[d], cshm[d]>>
      BY <1>1, <2>1 DEF ClientType
    <2> QED  BY <1>1, <2>7, <2>11, <2>12, <2>13, <2>14, ClientFrame
  <1> QED
    BY <1>2, <1>3

LEMMA LeaveStep ==
  ASSUME SessionInv, NEW c \in Client, Leave(c) \/ Crash(c)
  PROVE  ServerInv' /\ ClientInv'
  <1>1. /\ ClientEnds(c, "exit") \/ ClientEnds(c, "failed")
        /\ UNCHANGED <<serverVars, queue, toServer, toClient>> /\ {"exit", "failed"} \subseteq Ended
    BY DEF Leave, Crash, socketVars, Ended
  <1> QED
    BY <1>1, EndsInv

-----------------------------------------------------------------------------
(* All steps                                                               *)

LEMMA BoundsStep ==
  ASSUME Bounds, [Next]_vars
  PROVE  Bounds'
  <1>1. foreign' \in {foreign, FALSE}
    BY DEF Next, ServerStep, ClientStep, Accept, RecvM, SendN, SendKeys, Send, CreateSegment, Solve,
           JoinThreads, Close, Detach, RemoveSemaphores, RemoveSegment, signalIntHandler, StartServer,
           Connect, SendM, RecvN, RecvKeys, Attach, Leave, Crash, vars
  <1>2. faults' = faults \/ (faults < MaxFaults /\ faults' = faults + 1)
    BY DEF Next, ServerStep, ClientStep, Accept, RecvM, SendN, SendKeys, Send, CreateSegment, Solve,
           JoinThreads, Close, Detach, RemoveSemaphores, RemoveSegment, signalIntHandler, StartServer,
           Connect, SendM, RecvN, RecvKeys, Attach, Leave, Crash, vars
  <1>3. foreign' \in BOOLEAN
    BY <1>1 DEF Bounds
  <1>4. faults' \in 0 .. MaxFaults
    BY <1>2, SizesAssumption DEF Bounds
  <1> QED
    BY <1>3, <1>4 DEF Bounds

LEMMA Stutter ==
  ASSUME SessionInv, UNCHANGED vars
  PROVE  ServerInv' /\ ClientInv'
  <1>1. UNCHANGED <<srv, conn, M, seg, k, shmid, queue, toServer, toClient, cli, cM, cN, ck, cshm, segs>>
    BY DEF vars, serverVars, clientVars, socketVars
  <1>2. ServerInv'
    BY <1>1 DEF SessionInv, ServerInv, ServerType, SegsOK, MadeInv, Made, QueueInv
  <1>3. ClientInv'
    BY <1>1, BufferSame, TalkSame DEF SessionInv, ClientInv, ClientType
  <1> QED
    BY <1>2, <1>3

LEMMA InvStep == SessionInv /\ [Next]_vars => SessionInv'
  <1> SUFFICES ASSUME SessionInv, [Next]_vars PROVE SessionInv'
    OBVIOUS
  <1>1. Bounds'
    BY BoundsStep DEF SessionInv
  <1>2. CASE ServerStep \/ StartServer
    <2>1. ServerInv' /\ ClientInv'
      BY <1>2, AcceptStep, RecvMStep, SendNStep, CreateStep, SendKeysStep, PlayStep, CloseStep DEF ServerStep
    <2> QED  BY <1>1, <2>1 DEF SessionInv
  <1>3. CASE signalIntHandler
    <2>1. ServerInv' /\ ClientInv'
      BY <1>3, DiesInv DEF signalIntHandler
    <2> QED  BY <1>1, <2>1 DEF SessionInv
  <1>4. ASSUME NEW c \in Client, Connect(c) \/ ClientStep(c) \/ Crash(c)
        PROVE  SessionInv'
    <2>1. ServerInv' /\ ClientInv'
      BY <1>4, ConnectStep, SendMStep, RecvNStep, RecvKeysStep, AttachStep, LeaveStep DEF ClientStep
    <2> QED  BY <1>1, <2>1 DEF SessionInv
  <1>5. CASE UNCHANGED vars
    BY <1>1, <1>5, Stutter DEF SessionInv
  <1> QED
    BY <1>2, <1>3, <1>4, <1>5 DEF Next

LEMMA Invariant == Spec => []SessionInv
  <1> QED
    BY InitInv, InvStep, PTL DEF Spec

-----------------------------------------------------------------------------
(* Every variable of server and clients keeps its type.                    *)
THEOREM TypeCorrect == Spec => []TypeOK
  <1>1. SessionInv => TypeOK
    BY DEF SessionInv, ServerInv, ServerType, ClientInv, ClientType, Bounds, SegsOK, Message, Keys, KeyOrNone, TypeOK
  <1> QED
    BY <1>1, Invariant, PTL

LEMMA OpenMatched == SessionInv => Matched
  <1> SUFFICES ASSUME SessionInv, NEW c \in Client, cli[c] \in {"attach", "play"}, ServerEnd(c)
               PROVE  /\ conn = c
                      /\ \A w \in Which : ck[c][w] = k[w] /\ Named(k[w]) = {shmid[w]}
                      /\ \A w \in 1 .. Len(cshm[c]) : cshm[c][w] = shmid[w]
    BY DEF Matched
  <1> USE DEF SessionInv, ServerInv, ClientInv
  <1>1. Talk(c) /\ ClientEnd(c)
    BY DEF ClientEnd, Connected
  <1>2. conn = c
    BY <1>1 DEF Talk, Waiting, ServerEnd
  <1>3. srv \notin {"accept", "detach", "semctl", "remove", "down"}
    BY <1>2, Names DEF QueueInv
  <1>4. srv \in {"recv", "sendN", "create", "sendKeys", "play", "close"}
    BY <1>3 DEF ServerType
  <1>5. srv \in {"play", "close"} /\ ck[c] = k /\ \A w \in 1 .. Len(cshm[c]) : cshm[c][w] = shmid[w]
    BY <1>1, <1>2, <1>4 DEF Talk, Waiting
  <1>6. \A w \in Which : NamedIn(segs, k[w]) = {shmid[w]}
    BY <1>5 DEF MadeInv, Made
  <1> QED
    BY <1>2, <1>5, <1>6 DEF Named, NamedIn

(* Whatever crashes, and whatever was left behind, as long as a connection *)
(* is open its two ends use the same segments.                             *)
THEOREM EndsMatch == Spec => []Matched
  <1> QED
    BY OpenMatched, Invariant, PTL
=============================================================================

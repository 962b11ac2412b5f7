-------------------------- MODULE ShellPipeline_proofs --------------------------
(***************************************************************************)
(* The ends of pipes, what a pipeline promises, and which words and files  *)
(* each process is given, for lines of any length, any number of stages    *)
(* and pipes of any size.                                                  *)
(***************************************************************************)
EXTENDS ShellPipeline, FiniteSetTheorems, SequenceTheorems, TLAPS

-----------------------------------------------------------------------------
(* The inductive invariant                                                 *)

State == {"none", "child", "program", "builtin", "done", "quit"}

(* The loop over the stages has come to stage s.                           *)
Forked(s) == s <= i \/ (pc = "wait" /\ s = i + 1)

ControlInv ==
  /\ pc \in {"redirect", "stages", "wait", "wait any", "exec", "exit", "lost"}
  /\ pipeCounter \in Nat /\ Main \in Process
  /\ i \in Nat /\ i <= pipeCounter /\ in = i
  /\ pc = "redirect" => i = 0
  /\ pc \in {"wait", "wait any"} => i < pipeCounter
  /\ st \in [Process -> State]
  /\ pc \in {"redirect", "stages", "wait", "wait any", "lost"} => st[Main] = "child"
  /\ pc = "exit" => st[Main] = "quit"
  /\ \A s \in Process : s # Main /\ st[s] # "none" => Forked(s)

(* Which ends of pipes the processes have open.                            *)
NoPipe(end) == end[1] # "pipe"

(* Before exec a stage holds the write end of its own pipe, and no other.  *)
StageEnds(s) ==
  /\ st[s] = "child" => /\ \A k \in Process : <<"write", k>> \in held[s] <=> k = s
                        /\ NoPipe(fd[s][1]) /\ NoPipe(fd[s][2])
  /\ st[s] \in {"program", "builtin"} =>
       /\ \A k \in Process : <<"write", k>> \notin held[s]
       /\ fd[s][2] = <<"pipe", s>>
       /\ IF s = 1 THEN NoPipe(fd[s][1]) ELSE fd[s][1] = <<"pipe", s - 1>>

MainEnds ==
  /\ \A k \in Process : <<"write", k>> \in held[Main] => pc \in {"wait", "wait any"} /\ k = i + 1
  /\ NoPipe(fd[Main][2])
  /\ IF i > 0 /\ i = pipeCounter /\ st[Main] \in {"program", "builtin"}
       THEN fd[Main][1] = <<"pipe", i>> ELSE NoPipe(fd[Main][1])

EndsInv ==
  /\ DOMAIN fd = Process /\ DOMAIN held = Process
  /\ \A s \in Process : st[s] \in {"none", "done", "quit"} => held[s] = {} /\ fd[s] = <<Nothing, Nothing>>
  /\ \A s \in Process : s # Main => StageEnds(s)
  /\ MainEnds

(* A pipe holds what has been written and not read, in order.              *)
Sent == [from : Process, number : Nat]

InPipe(k) ==
  /\ Len(got[k + 1]) + Len(pipe[k]) = wrote[k]
  /\ \A n \in 1 .. Len(pipe[k]) : pipe[k][n] = Unit(k, Len(got[k + 1]) + n)

DataInv ==
  /\ pipe \in [Process -> Seq(Sent)] /\ got \in [Process -> Seq(Sent)] /\ wrote \in [Process -> Nat]
  /\ \A k \in Process : k < Main => InPipe(k)

PipeInv == ControlInv /\ EndsInv /\ DataInv

-----------------------------------------------------------------------------
(* The number of stages                                                    *)

LEMMA Least ==
  ASSUME NEW S \in SUBSET Nat, NEW n \in S
  PROVE  Min(S) \in S /\ Min(S) <= n
  <1> DEFINE R == OpToRel(<, Nat)
  <1>1. IsWellFoundedOn(R, Nat)
    BY NatLessThanWellFounded
  <1>2. \A x, y \in Nat : y < x => <<y, x>> \in R
    BY DEF OpToRel
  <1> HIDE DEF R
  <1>3. PICK x \in S : \A y \in S : ~(<<y, x>> \in R)
    BY <1>1, WFMin
  <1>4. ASSUME NEW y \in S
        PROVE  x <= y
    <2>1. ~(y < x)
      BY <1>2, <1>3
    <2> QED  BY <2>1
  <1> QED
    BY <1>4 DEF Min

(* What the array args holds when the words of a line are in it.           *)
Holds(a, words) ==
  /\ words \in Seq(Word) /\ Len(words) \in Nat /\ Len(words) >= 1 /\ Len(words) < SIZE /\ SIZE \in Nat
  /\ \A n \in 1 .. Len(words) : a[n - 1] = words[n]
  /\ a[Len(words)] = NULL

LEMMA ArgsHold ==
  ASSUME NEW l \in Line, NEW old
  PROVE  Holds(parseArguments(l, old), Kept(l))
  <1> DEFINE words == Kept(l)
             a     == parseArguments(l, old)
  <1>1. words \in Seq(Word) /\ words # << >> /\ Len(words) < SIZE /\ SIZE \in Nat
    BY ShellAssumption
  <1>2. Len(words) \in Nat /\ Len(words) >= 1
    BY <1>1, EmptySeq, LenProperties
  <1>3. a = [x \in Index |-> IF x < Len(words) THEN words[x + 1] ELSE IF x = Len(words) THEN NULL ELSE old[x]]
    BY DEF parseArguments
  <1> HIDE DEF words, a
  <1>4. \A x \in Nat : x <= Len(words) =>
          a[x] = IF x < Len(words) THEN words[x + 1] ELSE NULL
    BY <1>1, <1>2, <1>3 DEF Index
  <1>5. ASSUME NEW n \in 1 .. Len(words) PROVE a[n - 1] = words[n]
    <2>1. n - 1 \in Nat /\ n - 1 < Len(words) /\ (n - 1) + 1 = n
      BY <1>2
    <2> QED  BY <1>4, <2>1
  <1> QED
    BY <1>1, <1>2, <1>4, <1>5 DEF Holds, words, a

LEMMA WordAt ==
  ASSUME NEW a, NEW words, Holds(a, words), NEW n \in 1 .. Len(words)
  PROVE  words[n] \in Word /\ words[n] # NULL /\ n \in Nat /\ n - 1 \in Nat
  BY ElementOfSeq DEF Holds, Word

LEMMA UsedArgs ==
  ASSUME NEW a, NEW words, Holds(a, words)
  PROVE  Used(a) = 0 .. Len(words) - 1 /\ Max(Used(a)) = Len(words) - 1
  <1> DEFINE S == {x \in Index : a[x] = NULL}
  <1>1. Len(words) \in Nat /\ Len(words) >= 1 /\ Len(words) \in Index
    BY DEF Holds, Index
  <1>2. S \in SUBSET Nat /\ Len(words) \in S
    BY <1>1 DEF Holds, Index
  <1>3. ASSUME NEW x \in Nat, x < Len(words) PROVE a[x] # NULL
    <2>1. x + 1 \in 1 .. Len(words) /\ (x + 1) - 1 = x
      BY <1>1, <1>3
    <2>2. a[x] = words[x + 1]
      BY <2>1 DEF Holds
    <2> QED  BY <2>1, <2>2, WordAt
  <1> HIDE DEF S
  <1>4. Min(S) \in S /\ Min(S) <= Len(words) /\ Min(S) \in Nat
    BY <1>2, Least
  <1>5. Min(S) = Len(words)
    <2>1. a[Min(S)] = NULL
      BY <1>4 DEF S
    <2> QED  BY <1>1, <1>3, <1>4, <2>1
  <1>6. Used(a) = 0 .. Len(words) - 1
    BY <1>5 DEF Used, S
  <1>7. Max(0 .. Len(words) - 1) = Len(words) - 1
    BY <1>1 DEF Max
  <1> QED
    BY <1>6, <1>7

LEMMA BarsFinite ==
  ASSUME NEW a, NEW words, Holds(a, words)
  PROVE  /\ IsFiniteSet(Bars(words)) /\ Cardinality(Bars(words)) \in Nat
         /\ Bars(words) \subseteq 1 .. Len(words)
  <1>1. Bars(words) \subseteq 1 .. Len(words) /\ Len(words) \in Nat
    BY DEF Bars, Holds
  <1>2. IsFiniteSet(1 .. Len(words))
    BY <1>1, FS_Interval
  <1> QED
    BY <1>1, <1>2, FS_Subset, FS_CardinalityType

(* In args there are as many | as in the line.                             *)
LEMMA PipesAreBars ==
  ASSUME NEW a, NEW words, Holds(a, words)
  PROVE  searchForPipe(a) = Cardinality(Bars(words))
  <1> DEFINE A == {x \in Used(a) : a[x] = "|"}
             B == Bars(words)
             f == [b \in B |-> b - 1]
  <1>1. Len(words) \in Nat /\ IsFiniteSet(B) /\ B \subseteq 1 .. Len(words) /\ Used(a) = 0 .. Len(words) - 1
    BY BarsFinite, UsedArgs DEF Holds
  <1>2. ASSUME NEW b \in 1 .. Len(words) PROVE b \in B <=> b - 1 \in A
    <2>1. b - 1 \in 0 .. Len(words) - 1 /\ a[b - 1] = words[b]
      BY <1>1 DEF Holds
    <2> QED  BY <1>1, <2>1 DEF Bars
  <1>3. \A x \in A : x + 1 \in 1 .. Len(words) /\ (x + 1) - 1 = x
    BY <1>1
  <1>4. searchForPipe(a) = Cardinality(A)
    BY DEF searchForPipe
  <1> HIDE DEF A, B
  <1>5. f \in Bijection(B, A)
    <2>1. f \in [B -> A]
      BY <1>1, <1>2
    <2>2. \A b, c \in B : f[b] = f[c] => b = c
      BY <1>1
    <2>3. ASSUME NEW x \in A PROVE \E b \in B : f[b] = x
      <3>1. x + 1 \in B /\ (x + 1) - 1 = x
        BY <1>2, <1>3
      <3> QED  BY <3>1
    <2> HIDE DEF f
    <2> QED  BY <2>1, <2>2, <2>3 DEF Bijection, Injection, IsInjective, Surjection
  <1> HIDE DEF f
  <1>6. ExistsBijection(B, A)
    BY <1>5 DEF ExistsBijection
  <1>7. Cardinality(A) = Cardinality(B)
    BY <1>1, <1>6, FS_Bijection
  <1> QED
    BY <1>4, <1>7 DEF B

(* There are fewer | than the bound on stages.                             *)
LEMMA CountPipes ==
  ASSUME NEW l \in Line, NEW old
  PROVE  /\ searchForPipe(parseArguments(l, old)) \in Nat
         /\ searchForPipe(parseArguments(l, old)) < MaxStages
  <1>1. Holds(parseArguments(l, old), Kept(l))
    BY ArgsHold
  <1>2. Cardinality(Bars(Kept(l))) \in Nat /\ Cardinality(Bars(Kept(l))) < MaxStages
    BY <1>1, BarsFinite, ShellAssumption
  <1> QED
    BY <1>1, <1>2, PipesAreBars

LEMMA InitInv == Init => PipeInv
  <1> SUFFICES ASSUME Init PROVE PipeInv
    OBVIOUS
  <1>1. pipeCounter \in Nat /\ Main \in Process
    <2>1. PICK old : args = parseArguments(line, old)
      BY DEF Init
    <2>2. pipeCounter \in Nat /\ pipeCounter < MaxStages
      BY <2>1, CountPipes DEF Init, pipeCounter
    <2> QED  BY <2>2, ShellAssumption DEF Main, Process
  <1>2. ControlInv
    BY <1>1 DEF Init, ControlInv, State
  <1>3. EndsInv
    BY <1>1 DEF Init, EndsInv, StageEnds, MainEnds, NoPipe, Tty
  <1>4. DataInv
    <2>1. << >> \in Seq(Sent) /\ Len(<< >>) = 0
      OBVIOUS
    <2>2. \A k \in Process : k < Main => k + 1 \in Process
      BY <1>1, ShellAssumption DEF Process, Main
    <2> QED  BY <1>1, <2>1, <2>2 DEF Init, DataInv, InPipe
  <1> QED
    BY <1>2, <1>3, <1>4 DEF PipeInv
-----------------------------------------------------------------------------
(* Facts that several steps use                                            *)

LEMMA Numbers == /\ Process \subseteq Nat /\ \A s \in Process : s >= 1
                 /\ \A m, n \in Nat : m + 1 \in Process /\ n < m => n + 1 \in Process
  <1>1. MaxStages \in Nat
    BY ShellAssumption
  <1> QED
    BY <1>1 DEF Process

LEMMA Counts == ControlInv => /\ pipeCounter \in Nat /\ Main = pipeCounter + 1 /\ Main \in Process
                              /\ i \in Nat /\ i <= pipeCounter /\ in = i
  <1>1. Main = pipeCounter + 1
    BY DEF Main
  <1> QED
    BY <1>1 DEF ControlInv

LEMMA SameLine == UNCHANGED args => UNCHANGED <<pipeCounter, Main>>
  BY DEF pipeCounter, Main

(* Every stage that has been forked comes before the child itself.         *)
LEMMA Before ==
  ASSUME ControlInv, NEW s \in Process, s # Main, st[s] # "none"
  PROVE  s < Main /\ s + 1 \in Process
  <1>1. Forked(s) /\ (pc = "wait" => i < pipeCounter)
    BY DEF ControlInv
  <1>2. s <= pipeCounter /\ s \in Nat
    BY <1>1, Counts, Numbers DEF Forked
  <1> QED
    BY <1>2, Counts, Numbers

LEMMA DataFrame ==
  ASSUME DataInv, UNCHANGED args, UNCHANGED data
  PROVE  DataInv'
  BY SameLine DEF data, DataInv, InPipe

(* Nothing has changed but how far the line is.                            *)
LEMMA EndsFrame ==
  ASSUME EndsInv, UNCHANGED <<args, i, st, fd, held>>,
         pc \in {"wait", "wait any"} => pc' \in {"wait", "wait any"}
  PROVE  EndsInv'
  <1>1. \A s \in Process : StageEnds(s)' <=> StageEnds(s)
    BY DEF StageEnds
  <1>2. MainEnds'
    BY SameLine DEF EndsInv, MainEnds
  <1> QED
    BY <1>1, <1>2, SameLine DEF EndsInv

-----------------------------------------------------------------------------
(* The child                                                               *)

LEMMA PassStep ==
  ASSUME PipeInv, NoRedirect \/ Lost
  PROVE  PipeInv'
  <1> USE DEF PipeInv
  <1>1. /\ UNCHANGED <<args, in, i, st, fd, held>> /\ UNCHANGED data
        /\ pc \in {"redirect", "stages"} /\ pc' \in {"stages", "lost"}
    BY DEF NoRedirect, Lost, procs
  <1>2. ControlInv'
    BY <1>1, SameLine DEF ControlInv, Forked
  <1>3. EndsInv'
    BY <1>1, EndsFrame
  <1> QED
    BY <1>1, <1>2, <1>3, DataFrame

LEMMA RedirectStep ==
  ASSUME PipeInv, Redirect
  PROVE  PipeInv'
  <1> USE DEF PipeInv
  <1>1. PICK stdin, stdout :
          /\ NoPipe(stdin) /\ NoPipe(stdout)
          /\ fd' = [fd EXCEPT ![Main] = <<stdin, stdout>>]
          /\ \/ pc' = "exec" /\ \E how \in {"program", "builtin"} : st' = [st EXCEPT ![Main] = how]
             \/ pc' = "stages" /\ st' = st
    <2>1. \A file : NoPipe(<<"read", file>>) /\ NoPipe(<<"append", file>>) /\ NoPipe(<<"create", file>>) /\ NoPipe(Tty)
      BY DEF NoPipe, Tty
    <2> QED  BY <2>1 DEF Redirect, Exec
  <1>2. UNCHANGED <<args, in, i, held>> /\ UNCHANGED data /\ pc = "redirect" /\ i = 0 /\ Main \in Process
    BY DEF Redirect, ControlInv
  <1>3. ControlInv'
    BY <1>1, <1>2, SameLine DEF ControlInv, Forked, State
  <1>4. /\ fd'[Main] = <<stdin, stdout>> /\ \A s \in Process : s # Main => fd'[s] = fd[s] /\ st'[s] = st[s]
        /\ st'[Main] \in {"child", "program", "builtin"}
    BY <1>1, <1>2 DEF EndsInv, ControlInv, State
  <1>5. EndsInv'
    <2>1. \A s \in Process : s # Main => StageEnds(s)'
      BY <1>2, <1>4 DEF EndsInv, StageEnds
    <2>2. MainEnds'
      <3>1. NoPipe(fd'[Main][1]) /\ NoPipe(fd'[Main][2])
        BY <1>1, <1>4
      <3>2. \A k \in Process : <<"write", k>> \notin held[Main]
        BY <1>2 DEF EndsInv, MainEnds
      <3>3. ~(i' > 0) /\ held'[Main'] = held[Main] /\ fd'[Main'] = fd'[Main]
        BY <1>2, SameLine
      <3> QED  BY <3>1, <3>2, <3>3 DEF MainEnds
    <2> QED  BY <1>1, <1>2, <1>4, <2>1, <2>2, SameLine DEF EndsInv
  <1> QED
    BY <1>2, <1>3, <1>5, DataFrame

LEMMA SpawnStep ==
  ASSUME PipeInv, Spawn
  PROVE  PipeInv'
  <1> USE DEF PipeInv
  <1> DEFINE s == i + 1
             both == {<<"read", s>>, <<"write", s>>}
  <1>1. /\ UNCHANGED <<args, in, i>> /\ UNCHANGED data /\ pc = "stages" /\ pc' = "wait" /\ i < pipeCounter
        /\ held' = [held EXCEPT ![Main] = @ \cup both, ![s] = held[Main] \cup both]
        /\ st' = [st EXCEPT ![s] = "child"] /\ fd' = [fd EXCEPT ![s] = fd[Main]]
    BY DEF Spawn, TakeWords
  <1>2. /\ i \in Nat /\ pipeCounter \in Nat /\ Main = pipeCounter + 1 /\ Main \in Process
        /\ s \in Process /\ s # Main /\ st[Main] = "child"
    BY <1>1, Counts, Numbers DEF ControlInv
  <1>3. /\ st'[s] = "child" /\ \A q \in Process : q # s => st'[q] = st[q] /\ fd'[q] = fd[q]
        /\ fd'[s] = fd[Main] /\ held'[Main] = held[Main] \cup both /\ held'[s] = held[Main] \cup both
        /\ \A q \in Process : q # s /\ q # Main => held'[q] = held[q]
    BY <1>1, <1>2 DEF EndsInv, ControlInv
  <1>4. ControlInv'
    <2>1. \A q \in Process : q # Main /\ st'[q] # "none" => q <= i \/ q = s
      BY <1>1, <1>3 DEF ControlInv, Forked
    <2>2. st' \in [Process -> State]
      BY <1>1 DEF ControlInv, State
    <2> QED  BY <1>1, <1>2, <1>3, <2>1, <2>2, SameLine DEF ControlInv, Forked
  <1>5. \A k \in Process : <<"write", k>> \notin held[Main]
    BY <1>1 DEF EndsInv, MainEnds
  <1>6. \A k \in Process : <<"write", k>> \in both <=> k = s
    OBVIOUS
  <1> HIDE DEF both
  <1>7. EndsInv'
    <2>1. \A k \in Process : (<<"write", k>> \in held'[s] <=> k = s) /\ (<<"write", k>> \in held'[Main] <=> k = s)
      BY <1>3, <1>5, <1>6
    <2>2. NoPipe(fd[Main][1]) /\ NoPipe(fd[Main][2])
      BY <1>1, <1>2 DEF EndsInv, MainEnds
    <2>3. StageEnds(s)'
      <3> HIDE DEF s
      <3>1. /\ \A k \in Process : <<"write", k>> \in held'[s] <=> k = s
            /\ NoPipe(fd'[s][1]) /\ NoPipe(fd'[s][2]) /\ st'[s] = "child"
        BY <1>3, <2>1, <2>2
      <3>2. s' = s
        BY <1>1 DEF s
      <3> QED  BY <3>1, <3>2 DEF StageEnds
    <2>4. \A q \in Process : q # Main => StageEnds(q)'
      <3>1. ASSUME NEW q \in Process, q # Main, q # s PROVE StageEnds(q)'
        BY <1>3, <3>1 DEF EndsInv, StageEnds
      <3>2. ASSUME NEW q \in Process, q = s PROVE StageEnds(q)'
        <4>1. s' = s
          BY <1>1
        <4> QED  BY <2>3, <3>2, <4>1 DEF StageEnds
      <3> QED  BY <3>1, <3>2
    <2>5. MainEnds'
      BY <1>1, <1>2, <1>3, <2>1, <2>2, SameLine DEF MainEnds
    <2>6. \A q \in Process : st'[q] \in {"none", "done", "quit"} => held'[q] = {} /\ fd'[q] = <<Nothing, Nothing>>
      BY <1>2, <1>3 DEF EndsInv
    <2> QED  BY <1>1, <2>4, <2>5, <2>6, SameLine DEF EndsInv
  <1> QED
    BY <1>1, <1>4, <1>7, DataFrame

LEMMA SpawnFailsStep ==
  ASSUME PipeInv, SpawnFails
  PROVE  PipeInv'
  <1> USE DEF PipeInv
  <1>1. /\ UNCHANGED <<args, in, i, st, fd>> /\ UNCHANGED data /\ pc = "stages" /\ pc' = "wait any" /\ i < pipeCounter
        /\ held' = [held EXCEPT ![Main] = @ \cup {<<"read", i + 1>>, <<"write", i + 1>>}]
    BY DEF SpawnFails, TakeWords
  <1>2. ControlInv'
    <2>1. \A s \in Process : s # Main /\ st'[s] # "none" => s <= i
      BY <1>1 DEF ControlInv, Forked
    <2>2. /\ Main' = Main /\ pipeCounter' = pipeCounter /\ i' = i /\ in' = in /\ st' = st
          /\ pc = "stages" /\ pc' = "wait any" /\ i < pipeCounter
      BY <1>1, SameLine
    <2> QED  BY <2>1, <2>2 DEF ControlInv, Forked
  <1>3. Main \in Process /\ st[Main] = "child"
    BY <1>1 DEF ControlInv
  <1>4. /\ held'[Main] = held[Main] \cup {<<"read", i + 1>>, <<"write", i + 1>>}
        /\ \A q \in Process : q # Main => held'[q] = held[q]
    BY <1>1, <1>3 DEF EndsInv
  <1>5. EndsInv'
    <2>1. \A q \in Process : q # Main => StageEnds(q)'
      BY <1>1, <1>4 DEF EndsInv, StageEnds
    <2>2. MainEnds'
      BY <1>1, <1>3, <1>4, SameLine DEF EndsInv, MainEnds
    <2> QED  BY <1>1, <1>3, <1>4, <2>1, <2>2, SameLine DEF EndsInv
  <1> QED
    BY <1>1, <1>2, <1>5, DataFrame

LEMMA DiesStep ==
  ASSUME PipeInv, NoChild \/ NoCommand
  PROVE  PipeInv'
  <1> USE DEF PipeInv
  <1>1. /\ UNCHANGED <<args, in, i>> /\ UNCHANGED data /\ pc \in {"redirect", "wait any"} /\ pc' = "exit"
        /\ st' = [st EXCEPT ![Main] = "quit"] /\ held' = [held EXCEPT ![Main] = {}]
        /\ fd' = [fd EXCEPT ![Main] = <<Nothing, Nothing>>]
    BY DEF NoChild, NoCommand, Dies
  <1>2. Main \in Process
    BY DEF ControlInv
  <1>3. /\ st'[Main] = "quit" /\ held'[Main] = {} /\ fd'[Main] = <<Nothing, Nothing>>
        /\ \A q \in Process : q # Main => st'[q] = st[q] /\ held'[q] = held[q] /\ fd'[q] = fd[q]
    BY <1>1, <1>2 DEF EndsInv, ControlInv
  <1>4. ControlInv'
    BY <1>1, <1>3, SameLine DEF ControlInv, Forked, State
  <1>5. EndsInv'
    <2>1. \A q \in Process : q # Main => StageEnds(q)'
      BY <1>3 DEF EndsInv, StageEnds
    <2>2. MainEnds'
      <3>1. Main' = Main /\ held'[Main] = {} /\ fd'[Main] = <<Nothing, Nothing>> /\ st'[Main] = "quit"
        BY <1>1, <1>3, SameLine
      <3>2. NoPipe(Nothing)
        BY DEF NoPipe, Nothing
      <3>3. NoPipe(fd'[Main][1]) /\ NoPipe(fd'[Main][2])
        BY <3>1, <3>2
      <3> QED  BY <3>1, <3>3 DEF MainEnds
    <2> QED  BY <1>1, <1>3, <2>1, <2>2, SameLine DEF EndsInv
  <1> QED
    BY <1>1, <1>4, <1>5, DataFrame

LEMMA WaitStep ==
  ASSUME PipeInv, NEW s \in Process, Wait(s)
  PROVE  PipeInv'
  <1> USE DEF PipeInv
  <1>1. /\ UNCHANGED <<args, st, fd>> /\ UNCHANGED data /\ pc \in {"wait", "wait any"} /\ pc' = "stages"
        /\ in' = i + 1 /\ i' = i + 1 /\ held' = [held EXCEPT ![Main] = @ \ {<<"write", i + 1>>}]
    BY DEF Wait
  <1>2. /\ Main \in Process /\ st[Main] = "child" /\ i \in Nat /\ i < pipeCounter /\ pipeCounter \in Nat
        /\ Process \subseteq Nat
    BY <1>1, Counts, Numbers DEF ControlInv
  <1>3. ControlInv'
    <2>1. \A q \in Process : Forked(q) => q <= i + 1
      BY <1>2 DEF Forked
    <2>2. \A q \in Process : q # Main /\ st'[q] # "none" => q <= i'
      BY <1>1, <2>1 DEF ControlInv
    <2>3. i + 1 \in Nat /\ i + 1 <= pipeCounter
      BY <1>2
    <2> QED  BY <1>1, <1>2, <2>2, <2>3, SameLine DEF ControlInv, Forked
  <1>4. /\ held'[Main] = held[Main] \ {<<"write", i + 1>>}
        /\ \A q \in Process : q # Main => held'[q] = held[q]
    BY <1>1, <1>2 DEF EndsInv
  <1>5. EndsInv'
    <2>1. \A q \in Process : q # Main => StageEnds(q)'
      BY <1>1, <1>4 DEF EndsInv, StageEnds
    <2>2. MainEnds'
      BY <1>1, <1>2, <1>4, SameLine DEF EndsInv, MainEnds
    <2> QED  BY <1>1, <1>2, <1>4, <2>1, <2>2, SameLine DEF EndsInv
  <1> QED
    BY <1>1, <1>3, <1>5, DataFrame

LEMMA LastStep ==
  ASSUME PipeInv, Last
  PROVE  PipeInv'
  <1> USE DEF PipeInv
  <1>1. /\ UNCHANGED <<args, in, i, held>> /\ UNCHANGED data /\ pc = "stages" /\ i = pipeCounter
        /\ \/ pc' = "lost" /\ UNCHANGED <<st, fd>>
           \/ /\ pc' = "exec" /\ \E how \in {"program", "builtin"} : st' = [st EXCEPT ![Main] = how]
              /\ \E stdout : /\ fd' = [fd EXCEPT ![Main] = <<IF in = 0 THEN fd[Main][1] ELSE <<"pipe", in>>, stdout>>]
                             /\ NoPipe(stdout)
    <2>1. NoPipe(fd[Main][2])
      BY DEF EndsInv, MainEnds
    <2>2. \A words : NoPipe(printHistory(words).stdout)
      BY <2>1 DEF printHistory, NoPipe
    <2> QED  BY <2>1, <2>2 DEF Last, TakeWords, Exec
  <1>2. CASE pc' = "lost" /\ UNCHANGED <<st, fd>>
    <2>1. ControlInv'
      BY <1>1, <1>2, SameLine DEF ControlInv, Forked
    <2>2. EndsInv'
      BY <1>1, <1>2, EndsFrame
    <2> QED  BY <1>1, <2>1, <2>2, DataFrame
  <1>3. CASE pc' = "exec"
    <2>1. /\ Main \in Process /\ st[Main] = "child" /\ i \in Nat /\ in = i
      BY <1>1 DEF ControlInv
    <2>2. PICK stdout : /\ fd' = [fd EXCEPT ![Main] = <<IF in = 0 THEN fd[Main][1] ELSE <<"pipe", in>>, stdout>>]
                        /\ NoPipe(stdout)
      BY <1>1, <1>3
    <2>3. PICK how \in {"program", "builtin"} : st' = [st EXCEPT ![Main] = how]
      BY <1>1, <1>3
    <2>4. /\ fd'[Main] = <<IF in = 0 THEN fd[Main][1] ELSE <<"pipe", in>>, stdout>> /\ st'[Main] = how
          /\ \A q \in Process : q # Main => st'[q] = st[q] /\ fd'[q] = fd[q]
      BY <2>1, <2>2, <2>3 DEF EndsInv, ControlInv
    <2>5. ControlInv'
      BY <1>1, <1>3, <2>3, <2>4, SameLine DEF ControlInv, Forked, State
    <2>6. NoPipe(fd[Main][1])
      BY <2>1 DEF EndsInv, MainEnds
    <2>7. EndsInv'
      <3>1. \A q \in Process : q # Main => StageEnds(q)'
        BY <1>1, <2>4 DEF EndsInv, StageEnds
      <3>2. MainEnds'
        BY <1>1, <1>3, <2>1, <2>2, <2>4, <2>6, SameLine DEF EndsInv, MainEnds
      <3> QED  BY <1>1, <2>2, <2>4, <3>1, <3>2, SameLine DEF EndsInv
    <2> QED  BY <1>1, <2>5, <2>7, DataFrame
  <1> QED
    BY <1>1, <1>2, <1>3

-----------------------------------------------------------------------------
(* The stages                                                              *)

LEMMA StageExecStep ==
  ASSUME PipeInv, NEW s \in Process, StageExec(s)
  PROVE  PipeInv'
  <1> USE DEF PipeInv
  <1> DEFINE stdin == IF s = 1 THEN fd[s][1] ELSE <<"pipe", s - 1>>
             gone  == {<<"read", s - 1>>, <<"write", s>>}
  <1>1. PICK how \in {"program", "builtin"} : st' = [st EXCEPT ![s] = how]
    BY DEF StageExec, Exec
  <1>2. /\ UNCHANGED <<args, in, i, pc>> /\ UNCHANGED data /\ s # Main /\ st[s] = "child"
        /\ fd' = [fd EXCEPT ![s] = <<stdin, <<"pipe", s>> >>] /\ held' = [held EXCEPT ![s] = @ \ gone]
    BY DEF StageExec, Exec, child
  <1>3. /\ st'[s] = how /\ fd'[s] = <<stdin, <<"pipe", s>> >> /\ held'[s] = held[s] \ gone
        /\ \A q \in Process : q # s => st'[q] = st[q] /\ fd'[q] = fd[q] /\ held'[q] = held[q]
    BY <1>1, <1>2 DEF EndsInv, ControlInv
  <1>4. Main \in Process /\ Main' = Main /\ pipeCounter' = pipeCounter
    BY <1>2, SameLine DEF ControlInv
  <1>5. ControlInv'
    <2>1. st' \in [Process -> State]
      BY <1>1 DEF ControlInv, State
    <2> QED  BY <1>2, <1>3, <1>4, <2>1 DEF ControlInv, Forked
  <1>6. EndsInv'
    <2>1. \A k \in Process : <<"write", k>> \in held[s] => <<"write", k>> \in gone
      BY <1>2 DEF EndsInv, StageEnds
    <2>2. s = 1 => NoPipe(fd[s][1])
      BY <1>2 DEF EndsInv, StageEnds
    <2>3. StageEnds(s)'
      <3> HIDE DEF gone
      <3>1. \A k \in Process : <<"write", k>> \notin held'[s]
        BY <1>3, <2>1
      <3>2. fd'[s][2] = <<"pipe", s>> /\ fd'[s][1] = stdin /\ st'[s] # "child"
        BY <1>3
      <3> QED  BY <2>2, <3>1, <3>2 DEF StageEnds
    <2>4. \A q \in Process : q # s /\ q # Main => StageEnds(q)'
      BY <1>3 DEF EndsInv, StageEnds
    <2>5. fd'[Main] = fd[Main] /\ held'[Main] = held[Main] /\ st'[Main] = st[Main]
      BY <1>2, <1>3, <1>4
    <2>6. MainEnds'
      BY <1>2, <1>4, <2>5 DEF EndsInv, MainEnds
    <2>7. \A q \in Process : st'[q] \in {"none", "done", "quit"} => held'[q] = {} /\ fd'[q] = <<Nothing, Nothing>>
      BY <1>3 DEF EndsInv
    <2>8. DOMAIN fd' = Process /\ DOMAIN held' = Process
      BY <1>2 DEF EndsInv
    <2> HIDE DEF stdin, gone
    <2> QED  BY <1>4, <2>3, <2>4, <2>6, <2>7, <2>8 DEF EndsInv
  <1> QED
    BY <1>2, <1>5, <1>6, DataFrame

(* A process whose standard output is a pipe is a stage, and it is its own *)
(* pipe; if it reads from one, that is the pipe of the stage before.       *)
LEMMA Pipes ==
  ASSUME ControlInv, EndsInv, NEW p \in Process, st[p] \in {"program", "builtin"}
  PROVE  /\ fd[p][2][1] = "pipe" => p < Main /\ fd[p][2] = <<"pipe", p>>
         /\ p # Main => fd[p][2] = <<"pipe", p>>
         /\ fd[p][1][1] = "pipe" => /\ fd[p][1] = <<"pipe", p - 1>> /\ p > 1 /\ p <= Main
                                    /\ p - 1 \in Process
  <1>1. Process \subseteq Nat /\ \A q \in Process : q >= 1
    BY Numbers
  <1>2. \A m \in Process : m > 1 => m - 1 \in Process
    BY ShellAssumption DEF Process
  <1>3. CASE p = Main
    <2>1. NoPipe(fd[p][2]) /\ (fd[p][1][1] = "pipe" => i > 0 /\ i = pipeCounter /\ fd[p][1] = <<"pipe", i>>)
      BY <1>3 DEF EndsInv, MainEnds, NoPipe
    <2>2. i \in Nat /\ p \in Nat /\ (i = pipeCounter => i = p - 1)
      BY <1>1, <1>3, Counts
    <2>3. fd[p][1][1] = "pipe" => fd[p][1] = <<"pipe", p - 1>> /\ p > 1
      BY <2>1, <2>2
    <2> QED  BY <1>2, <1>3, <2>1, <2>2, <2>3 DEF NoPipe
  <1>4. CASE p # Main
    <2>1. p < Main
      BY <1>4, Before
    <2>2. fd[p][2] = <<"pipe", p>> /\ IF p = 1 THEN NoPipe(fd[p][1]) ELSE fd[p][1] = <<"pipe", p - 1>>
      BY <1>4 DEF EndsInv, StageEnds
    <2>3. p \in Nat /\ p >= 1 /\ Main \in Nat
      BY <1>1 DEF ControlInv
    <2>4. fd[p][1][1] = "pipe" => p > 1
      BY <2>2, <2>3 DEF NoPipe
    <2> QED  BY <1>2, <1>4, <2>1, <2>2, <2>3, <2>4 DEF NoPipe
  <1> QED
    BY <1>3, <1>4

LEMMA ControlFrame ==
  ASSUME ControlInv, EndsInv, UNCHANGED <<child, procs>>
  PROVE  ControlInv' /\ EndsInv'
  <1>1. UNCHANGED <<args, in, i, pc, st, fd, held>>
    BY DEF child, procs
  <1>2. ControlInv'
    BY <1>1, SameLine DEF ControlInv, Forked
  <1> QED
    BY <1>1, <1>2, EndsFrame

LEMMA WriteStep ==
  ASSUME PipeInv, NEW p \in Process, Write(p)
  PROVE  PipeInv'
  <1> USE DEF PipeInv
  <1>1. UNCHANGED <<child, procs>> /\ UNCHANGED got /\ wrote' = [wrote EXCEPT ![p] = @ + 1]
        /\ st[p] \in {"program", "builtin"}
    BY DEF Write, Running
  <1>2. ControlInv' /\ EndsInv' /\ Main' = Main
    BY <1>1, ControlFrame, SameLine DEF child
  <1>3. /\ wrote'[p] = wrote[p] + 1 /\ \A k \in Process : k # p => wrote'[k] = wrote[k]
        /\ wrote' \in [Process -> Nat]
    BY <1>1, Numbers DEF DataInv
  <1>4. p \in Nat /\ wrote[p] \in Nat
    BY Numbers DEF DataInv
  <1>5. CASE fd[p][2][1] # "pipe"
    <2>1. p = Main /\ pipe' = pipe
      BY <1>1, <1>5, Pipes DEF Write
    <2>2. \A k \in Process : k < Main => k # p
      BY <2>1, Numbers
    <2>3. \A k \in Process : k < Main => InPipe(k)'
      BY <1>1, <1>3, <2>1, <2>2 DEF DataInv, InPipe
    <2> QED  BY <1>1, <1>2, <1>3, <2>1, <2>3 DEF DataInv
  <1>6. CASE fd[p][2][1] = "pipe"
    <2> DEFINE u == Unit(p, wrote[p] + 1)
               L == Len(pipe[p])
               G == Len(got[p + 1])
    <2>1. p < Main /\ pipe' = [pipe EXCEPT ![p] = Append(@, u)]
      BY <1>1, <1>6, Pipes DEF Write
    <2>2. u \in Sent
      BY <1>4 DEF Unit, Sent
    <2> HIDE DEF u
    <2>3. pipe[p] \in Seq(Sent) /\ pipe' \in [Process -> Seq(Sent)] /\ pipe'[p] = Append(pipe[p], u)
          /\ \A k \in Process : k # p => pipe'[k] = pipe[k]
      BY <2>1, <2>2 DEF DataInv
    <2>4. Len(pipe'[p]) = L + 1 /\ L \in Nat
      BY <2>2, <2>3, AppendProperties
    <2>5. pipe'[p][L + 1] = u /\ \A n \in 1 .. L : pipe'[p][n] = pipe[p][n]
      BY <2>2, <2>3, AppendProperties
    <2>6. p + 1 \in Process /\ InPipe(p)
      BY <1>1, <2>1, Before, Numbers DEF DataInv
    <2>7. G \in Nat
      BY <2>6 DEF DataInv
    <2>8. G + L = wrote[p]
      BY <2>6 DEF InPipe
    <2>9. \A n \in 1 .. L : pipe[p][n] = Unit(p, G + n)
      BY <2>6 DEF InPipe
    <2> HIDE DEF L, G
    <2>10. G + (L + 1) = wrote[p] + 1
      BY <2>4, <2>7, <2>8
    <2>11. ASSUME NEW n \in 1 .. L + 1
           PROVE  pipe'[p][n] = Unit(p, G + n)
      <3>1. CASE n \in 1 .. L
        BY <2>5, <2>9, <3>1
      <3>2. CASE n = L + 1
        <4>1. G + n = wrote[p] + 1
          BY <2>10, <3>2
        <4> QED  BY <2>5, <3>2, <4>1 DEF u
      <3>3. n \in 1 .. L \/ n = L + 1
        BY <2>4, <2>11
      <3> QED  BY <3>1, <3>2, <3>3
    <2>12. InPipe(p)'
      <3>1. p' = p /\ G = Len(got'[p + 1])
        BY <1>1 DEF G
      <3>2. G + Len(pipe'[p]) = wrote'[p]
        BY <1>3, <2>4, <2>10
      <3>3. \A n \in 1 .. Len(pipe'[p]) : pipe'[p][n] = Unit(p, G + n)
        BY <2>4, <2>11
      <3> QED  BY <3>1, <3>2, <3>3 DEF InPipe
    <2>13. ASSUME NEW k \in Process, k < Main, k # p
           PROVE  InPipe(k)'
      <3>1. got' = got /\ pipe'[k] = pipe[k] /\ wrote'[k] = wrote[k] /\ InPipe(k)
        BY <1>1, <1>3, <2>3, <2>13 DEF DataInv
      <3> QED  BY <3>1 DEF InPipe
    <2>14. \A k \in Process : k < Main => InPipe(k)'
      <3>1. ASSUME NEW k \in Process, k < Main, k = p
            PROVE  InPipe(k)'
        BY <2>12, <3>1 DEF InPipe
      <3> QED  BY <2>13, <3>1
    <2> QED  BY <1>1, <1>2, <1>3, <2>3, <2>14 DEF DataInv
  <1> QED
    BY <1>5, <1>6

LEMMA ReadStep ==
  ASSUME PipeInv, NEW p \in Process, Read(p)
  PROVE  PipeInv' /\ p > 1 /\ p - 1 \in Process /\ Len(got[p]) < wrote[p - 1]
         /\ got' = [got EXCEPT ![p] = Append(@, Unit(p - 1, Len(@) + 1))]
  <1> USE DEF PipeInv
  <1>1. UNCHANGED <<child, procs>> /\ UNCHANGED wrote /\ st[p] \in {"program", "builtin"} /\ fd[p][1][1] = "pipe"
    BY DEF Read
  <1>2. ControlInv' /\ EndsInv' /\ Main' = Main
    BY <1>1, ControlFrame, SameLine DEF child
  <1>3. p > 1 /\ p <= Main /\ p - 1 \in Process /\ fd[p][1] = <<"pipe", p - 1>>
    BY <1>1, Pipes
  <1>4. p \in Nat /\ Main \in Nat
    BY Numbers DEF ControlInv
  <1>5. PICK k \in Process : k = p - 1
    BY <1>3
  <1>6. k + 1 = p /\ k < Main /\ k \in Nat /\ fd[p][1][2] = k
    BY <1>3, <1>4, <1>5
  <1> DEFINE L == Len(pipe[k])
             G == Len(got[p])
             h == Head(pipe[k])
  <1>7. pipe[k] # << >> /\ got' = [got EXCEPT ![p] = Append(@, h)] /\ pipe' = [pipe EXCEPT ![k] = Tail(@)]
    BY <1>6 DEF Read
  <1>8. InPipe(k)
    BY <1>6 DEF DataInv
  <1>9. G + L = wrote[k]
    BY <1>6, <1>8 DEF InPipe
  <1>10. \A n \in 1 .. L : pipe[k][n] = Unit(k, G + n)
    BY <1>6, <1>8 DEF InPipe
  <1>11. pipe[k] \in Seq(Sent) /\ got[p] \in Seq(Sent) /\ wrote[k] \in Nat
    BY DEF DataInv
  <1>12. L \in Nat /\ L >= 1 /\ G \in Nat
    BY <1>7, <1>11, EmptySeq, LenProperties
  <1>13. Tail(pipe[k]) \in Seq(Sent) /\ Len(Tail(pipe[k])) = L - 1
    BY <1>7, <1>11, HeadTailProperties
  <1>14. \A n \in 1 .. L - 1 : Tail(pipe[k])[n] = pipe[k][n + 1]
    BY <1>7, <1>11, <1>13, HeadTailProperties
  <1>15. h = pipe[k][1] /\ h \in Sent
    BY <1>7, <1>11, HeadTailProperties
  <1>16. Append(got[p], h) \in Seq(Sent) /\ Len(Append(got[p], h)) = G + 1
    BY <1>11, <1>15, AppendProperties
  <1>17. /\ got' \in [Process -> Seq(Sent)] /\ pipe' \in [Process -> Seq(Sent)]
         /\ got'[p] = Append(got[p], h) /\ pipe'[k] = Tail(pipe[k])
         /\ \A q \in Process : (q # p => got'[q] = got[q]) /\ (q # k => pipe'[q] = pipe[q])
    BY <1>7, <1>13, <1>16 DEF DataInv
  <1>18. Len(pipe'[k]) = L - 1 /\ Len(got'[p]) = G + 1
    BY <1>13, <1>16, <1>17
  <1> HIDE DEF L, G, h
  <1>19. h = Unit(k, G + 1)
    <2>1. 1 \in 1 .. L
      BY <1>12
    <2> QED  BY <1>10, <1>15, <2>1
  <1>20. G < wrote[k]
    BY <1>9, <1>11, <1>12
  <1>21. (G + 1) + (L - 1) = wrote[k]
    BY <1>9, <1>11, <1>12
  <1>22. ASSUME NEW n \in 1 .. L - 1
         PROVE  pipe'[k][n] = Unit(k, (G + 1) + n)
    <2>1. n + 1 \in 1 .. L /\ G + (n + 1) = (G + 1) + n
      BY <1>12
    <2>2. pipe'[k][n] = pipe[k][n + 1]
      BY <1>14, <1>17
    <2> QED  BY <1>10, <2>1, <2>2
  <1>23. InPipe(k)'
    <2>1. k' = k /\ got'[k + 1] = got'[p]
      BY <1>6
    <2>2. Len(got'[k + 1]) + Len(pipe'[k]) = wrote'[k]
      BY <1>1, <1>18, <1>21, <2>1
    <2>3. \A n \in 1 .. Len(pipe'[k]) : pipe'[k][n] = Unit(k, Len(got'[k + 1]) + n)
      BY <1>18, <1>22, <2>1
    <2> QED  BY <2>1, <2>2, <2>3 DEF InPipe
  <1>24. ASSUME NEW q \in Process, q < Main, q # k
         PROVE  InPipe(q)'
    <2>1. q \in Nat /\ Main = pipeCounter + 1 /\ pipeCounter \in Nat /\ Main \in Process
      BY Numbers, Counts
    <2>2. q + 1 # p
      BY <1>4, <1>6, <1>24, <2>1
    <2>3. q + 1 \in Process
      BY <1>24, <2>1, ShellAssumption DEF Process
    <2>4. got'[q + 1] = got[q + 1] /\ pipe'[q] = pipe[q] /\ wrote' = wrote /\ InPipe(q)
      BY <1>1, <1>17, <1>24, <2>2, <2>3 DEF DataInv
    <2> QED  BY <2>4 DEF InPipe
  <1>25. DataInv'
    <2>1. \A q \in Process : q < Main => InPipe(q)'
      <3>1. ASSUME NEW q \in Process, q = k
            PROVE  InPipe(q)'
        BY <1>23, <3>1 DEF InPipe
      <3> QED  BY <1>24, <3>1
    <2> QED  BY <1>1, <1>2, <1>17, <2>1 DEF DataInv
  <1>26. got' = [got EXCEPT ![p] = Append(@, Unit(k, Len(@) + 1))]
    BY <1>7, <1>19 DEF G
  <1>27. Len(got[p]) < wrote[p - 1]
    BY <1>5, <1>20 DEF G
  <1> QED
    BY <1>2, <1>3, <1>5, <1>25, <1>26, <1>27

LEMMA CloseStep ==
  ASSUME PipeInv, NEW p \in Process, NEW how \in {"done", "quit"},
         st[p] \in {"program", "builtin"}, Close(p, how), UNCHANGED <<pipe, wrote, got>>
  PROVE  PipeInv'
  <1> USE DEF PipeInv
  <1>1. /\ UNCHANGED <<args, in, i, pc>> /\ UNCHANGED data
        /\ st' = [st EXCEPT ![p] = how] /\ held' = [held EXCEPT ![p] = {}]
        /\ fd' = [fd EXCEPT ![p] = <<Nothing, Nothing>>]
    BY DEF Close, child, data
  <1>2. /\ st'[p] = how /\ held'[p] = {} /\ fd'[p] = <<Nothing, Nothing>>
        /\ \A q \in Process : q # p => st'[q] = st[q] /\ held'[q] = held[q] /\ fd'[q] = fd[q]
    BY <1>1 DEF EndsInv, ControlInv
  <1>3. Main \in Process /\ Main' = Main /\ pipeCounter' = pipeCounter
    BY <1>1, SameLine DEF ControlInv
  <1>4. ControlInv'
    <2>1. st' \in [Process -> State]
      BY <1>1 DEF ControlInv, State
    <2>2. pc # "exec" => p # Main
      BY DEF ControlInv
    <2>3. \A q \in Process : st'[q] # "none" => st[q] # "none"
      BY <1>2
    <2> QED  BY <1>1, <1>2, <1>3, <2>1, <2>2, <2>3 DEF ControlInv, Forked
  <1>5. EndsInv'
    <2>1. \A q \in Process : q # Main => StageEnds(q)'
      BY <1>2 DEF EndsInv, StageEnds
    <2>2. MainEnds'
      <3>1. CASE p # Main
        <4>1. fd'[Main] = fd[Main] /\ held'[Main] = held[Main] /\ st'[Main] = st[Main]
          BY <1>2, <1>3, <3>1
        <4> QED  BY <1>1, <1>3, <4>1 DEF EndsInv, MainEnds
      <3>2. CASE p = Main
        <4>1. NoPipe(Nothing)
          BY DEF NoPipe, Nothing
        <4>2. held'[Main] = {} /\ NoPipe(fd'[Main][1]) /\ NoPipe(fd'[Main][2]) /\ st'[Main] \in {"done", "quit"}
          BY <1>2, <3>2, <4>1
        <4> QED  BY <1>3, <4>2 DEF MainEnds
      <3> QED  BY <3>1, <3>2
    <2> QED  BY <1>1, <1>2, <1>3, <2>1, <2>2 DEF EndsInv
  <1> QED
    BY <1>1, <1>4, <1>5, DataFrame

-----------------------------------------------------------------------------
(* The invariant, and what follows from it                                 *)

LEMMA InvStep == PipeInv /\ [Next]_vars => PipeInv'
  <1> SUFFICES ASSUME PipeInv, [Next]_vars PROVE PipeInv'
    OBVIOUS
  <1>1. ASSUME UNCHANGED <<child, procs>>, UNCHANGED data PROVE PipeInv'
    BY <1>1, ControlFrame, DataFrame DEF PipeInv, child
  <1>2. ASSUME ChildStep PROVE PipeInv'
    BY <1>2, PassStep, RedirectStep, SpawnStep, SpawnFailsStep, DiesStep, WaitStep, LastStep DEF ChildStep
  <1>3. ASSUME NEW p \in Process, Step(p) \/ Quit(p) \/ Stop(p) \/ Continue(p) PROVE PipeInv'
    <2>1. CASE StageExec(p)
      BY <2>1, StageExecStep
    <2>2. CASE Write(p)
      BY <2>2, WriteStep
    <2>3. CASE Read(p)
      BY <2>3, ReadStep
    <2>4. CASE Finish(p) \/ Quit(p)
      <3>1. PICK how \in {"done", "quit"} : Close(p, how)
        BY <2>4 DEF Finish, Quit
      <3>2. st[p] \in {"program", "builtin"} /\ UNCHANGED data
        BY <2>4, <3>1 DEF Finish, Quit, Running, Close
      <3> QED  BY <3>1, <3>2, CloseStep DEF data
    <2>5. CASE Stop(p) \/ Continue(p)
      BY <1>1, <2>5 DEF Stop, Continue
    <2> QED  BY <1>3, <2>1, <2>2, <2>3, <2>4, <2>5 DEF Step
  <1>4. ASSUME UNCHANGED vars PROVE PipeInv'
    BY <1>1, <1>4 DEF vars
  <1> QED
    BY <1>2, <1>3, <1>4 DEF Next, Finished

THEOREM Invariant == Spec => []PipeInv
  BY InitInv, InvStep, PTL DEF Spec

(* A process that reads from a pipe is told when its writer has ended:     *)
(* with any number of stages, and whichever of them are stopped, killed or *)
(* could not be forked, nobody else can write into it.                     *)
THEOREM ReadersSeeTheEnd == Spec => []OnlyItsWriter
  <1>1. PipeInv => OnlyItsWriter
    <2> SUFFICES ASSUME PipeInv, NEW p \in Process, Running(p), fd[p][1][1] = "pipe",
                        NEW q \in Process, Writes(q, fd[p][1][2])
                 PROVE  q = fd[p][1][2]
      BY DEF OnlyItsWriter
    <2> USE DEF PipeInv
    <2>1. /\ st[p] \in {"program", "builtin"} /\ fd[p][1] = <<"pipe", p - 1>> /\ p > 1 /\ p - 1 \in Process
      BY Pipes DEF Running
    <2>2. PICK k \in Process : k = p - 1 /\ fd[p][1][2] = k
      BY <2>1
    <2>3. fd[q][2] = <<"pipe", k>> \/ <<"write", k>> \in held[q]
      BY <2>2 DEF Writes
    <2>4. CASE q = Main
      <3>1. fd[q][2] # <<"pipe", k>>
        <4>1. NoPipe(fd[q][2])
          BY <2>4 DEF EndsInv, MainEnds
        <4> QED  BY <4>1 DEF NoPipe
      <3>2. pc \in {"wait", "wait any"} /\ k = i + 1
        BY <2>3, <2>4, <3>1 DEF EndsInv, MainEnds
      <3>3. p # Main /\ Forked(p)
        BY <2>1, <3>2 DEF ControlInv
      <3>4. p \in Nat /\ i \in Nat
        BY Numbers, Counts
      <3>5. p <= i + 1
        BY <3>3, <3>4 DEF Forked
      <3>6. k # i + 1
        BY <2>2, <3>4, <3>5
      <3> QED  BY <3>2, <3>6
    <2>5. CASE q # Main /\ st[q] \in {"none", "done", "quit"}
      <3>1. held[q] = {} /\ fd[q][2] = Nothing
        BY <2>5 DEF EndsInv
      <3> QED  BY <2>3, <3>1 DEF Nothing
    <2>6. CASE q # Main /\ st[q] = "child"
      BY <2>2, <2>3, <2>6 DEF EndsInv, StageEnds, NoPipe
    <2>7. CASE q # Main /\ st[q] \in {"program", "builtin"}
      BY <2>2, <2>3, <2>7 DEF EndsInv, StageEnds
    <2>8. st[q] \in State
      BY DEF ControlInv
    <2> QED  BY <2>4, <2>5, <2>6, <2>7, <2>8 DEF State
  <1> QED
    BY <1>1, Invariant, PTL

-----------------------------------------------------------------------------
(* The pipeline                                                            *)

Shown == <<wrote, got, [p \in Process |-> Status(p)]>>

LEMMA Stutter ==
  ASSUME UNCHANGED <<wrote, got>>, \A p \in Process : Status(p)' = Status(p)
  PROVE  UNCHANGED Shown
  BY DEF Shown

(* How far a process is for the pipeline does not depend on whether it has *)
(* been forked or has its program yet.                                     *)
LEMMA StatusOf ==
  ASSUME NEW p \in Process
  PROVE  /\ st[p] \in {"child", "program", "builtin"} => Status(p) = "open"
         /\ st[p] = "none" /\ ~(p <= i) => Status(p) = "open"
         /\ st[p] = "none" /\ p <= i => Status(p) = "quit"
         /\ st[p] \in {"done", "quit"} => Status(p) = IF p = Main /\ i < pipeCounter THEN "quit" ELSE st[p]
  BY DEF Status, Ended

LEMMA StatusFrame ==
  ASSUME UNCHANGED <<args, i>>, NEW p \in Process, st'[p] = st[p]
  PROVE  Status(p)' = Status(p)
  BY SameLine DEF Status, Ended

LEMMA StageQuits ==
  ASSUME NEW p \in Process, Status(p) = "open", Status(p)' = "quit", UNCHANGED <<wrote, got>>,
         \A q \in Process : q # p => Status(q)' = Status(q)
  PROVE  Stages!Quit(p)
  BY DEF Stages!Quit

LEMMA CloseRefines ==
  ASSUME PipeInv, NEW p \in Process, NEW how \in {"done", "quit"}, Running(p), Close(p, how),
         how = "done" => st[p] = "program" /\ EndOfInput(p)
  PROVE  Stages!Finish(p) \/ Stages!Quit(p)
  <1> USE DEF PipeInv
  <1>1. /\ st[p] \in {"program", "builtin"} /\ st' = [st EXCEPT ![p] = how]
        /\ UNCHANGED <<args, i>> /\ UNCHANGED <<wrote, got>>
    BY DEF Close, Running, child, data
  <1>2. st'[p] = how /\ \A q \in Process : q # p => st'[q] = st[q]
    BY <1>1 DEF ControlInv
  <1>3. /\ Status(p) = "open" /\ Status(p)' = IF p = Main /\ i < pipeCounter THEN "quit" ELSE how
        /\ \A q \in Process : q # p => Status(q)' = Status(q)
    <2>1. Status(p) = "open"
      BY <1>1, StatusOf
    <2>2. Status(p)' = IF p = Main /\ i < pipeCounter THEN "quit" ELSE how
      BY <1>1, <1>2, SameLine DEF Status, Ended
    <2>3. \A q \in Process : q # p => Status(q)' = Status(q)
      BY <1>1, <1>2, StatusFrame
    <2> QED  BY <2>1, <2>2, <2>3
  <1>4. CASE how = "quit" \/ (p = Main /\ i < pipeCounter)
    BY <1>1, <1>3, <1>4, StageQuits
  <1>5. CASE how = "done" /\ ~(p = Main /\ i < pipeCounter)
    <2>1. ASSUME p > 1
          PROVE  /\ p - 1 \in Process /\ Status(p - 1) # "open"
                 /\ Len(got[p]) = wrote[p - 1]
      <3>1. st[p] = "program" /\ EndOfInput(p) /\ p \in Nat
        BY <1>5, Numbers
      <3>2. fd[p][1][1] = "pipe"
        <4>1. CASE p # Main
          BY <2>1, <3>1, <4>1 DEF EndsInv, StageEnds
        <4>2. CASE p = Main
          <5>1. i \in Nat /\ i <= pipeCounter /\ pipeCounter \in Nat /\ Main = pipeCounter + 1
            BY Counts
          <5>2. i > 0 /\ i = pipeCounter
            BY <1>5, <2>1, <4>2, <5>1
          <5>3. fd[p][1] = <<"pipe", i>>
            BY <3>1, <4>2, <5>2 DEF EndsInv, MainEnds
          <5> QED  BY <5>3
        <4> QED  BY <4>1, <4>2
      <3>3. fd[p][1] = <<"pipe", p - 1>> /\ p <= Main /\ p - 1 \in Process /\ Main \in Process
        BY <1>1, <3>2, Pipes DEF ControlInv
      <3>4. PICK k \in Process : k = p - 1
        BY <3>3
      <3>5. /\ fd[p][1][2] = k /\ k \in Nat /\ k + 1 = p /\ k < Main /\ k # Main
        BY <3>1, <3>3, <3>4, Numbers
      <3>6. pipe[k] = << >> /\ \A q \in Process : ~Writes(q, k)
        BY <3>1, <3>2, <3>5 DEF EndOfInput
      <3>7. Len(got[p]) = wrote[k]
        <4>1. Len(got[p]) + Len(pipe[k]) = wrote[k]
          BY <3>5 DEF DataInv, InPipe
        <4>2. Len(got[p]) \in Nat /\ Len(pipe[k]) = 0
          BY <3>6 DEF DataInv
        <4> QED  BY <4>1, <4>2
      <3>8. st[k] \in {"none", "done", "quit"}
        <4>1. StageEnds(k) /\ ~Writes(k, k) /\ st[k] \in State
          BY <3>5, <3>6 DEF EndsInv, ControlInv
        <4> QED  BY <4>1 DEF StageEnds, Writes, State
      <3>9. k <= i
        <4>1. CASE p = Main
          BY <1>5, <3>5, <4>1, Counts
        <4>2. CASE p # Main
          <5>1. Forked(p)
            BY <3>1, <4>2 DEF ControlInv
          <5>2. i \in Nat
            BY Counts
          <5> QED  BY <3>1, <3>5, <5>1, <5>2 DEF Forked
        <4> QED  BY <4>1, <4>2
      <3>10. Status(k) # "open"
        BY <3>5, <3>8, <3>9, StatusOf
      <3> QED  BY <3>3, <3>4, <3>7, <3>10
    <2>2. Status(p)' = "done"
      BY <1>3, <1>5
    <2> QED  BY <1>1, <1>3, <2>1, <2>2 DEF Stages!Finish
  <1> QED
    BY <1>4, <1>5

LEMMA WaitRefines ==
  ASSUME PipeInv, NEW s \in Process, Wait(s)
  PROVE  UNCHANGED Shown \/ \E p \in Process : Stages!Quit(p)
  <1> USE DEF PipeInv
  <1>1. /\ UNCHANGED args /\ UNCHANGED st /\ UNCHANGED <<wrote, got>> /\ i' = i + 1 /\ pc \in {"wait", "wait any"}
    BY DEF Wait, data
  <1>2. i \in Nat /\ pipeCounter \in Nat /\ i < pipeCounter /\ Main \in Process /\ Main = pipeCounter + 1
        /\ st[Main] = "child"
    BY <1>1, Counts DEF ControlInv
  <1>3. PICK p \in Process : p = i + 1 /\ p # Main
    <2>1. i + 1 \in Process
      BY <1>2, Numbers
    <2> QED  BY <1>2, <2>1
  <1>4. ASSUME NEW q \in Process, q # p \/ st[q] # "none"
        PROVE  Status(q)' = Status(q)
    <2>1. q \in Nat /\ (q <= i + 1 => q <= i \/ q = i + 1)
      BY <1>2, Numbers
    <2>2. q <= i => q <= i + 1
      BY <1>2, <2>1
    <2>3. q = Main => ~Ended(q) /\ st[q] # "none"
      BY <1>2 DEF Ended
    <2>4. (q <= i' /\ st[q] = "none") <=> (q <= i /\ st[q] = "none")
      BY <1>1, <1>3, <1>4, <2>1, <2>2
    <2>5. Main' = Main
      BY <1>1, SameLine
    <2> QED  BY <1>1, <2>3, <2>4, <2>5 DEF Status, Ended
  <1>5. CASE st[p] # "none"
    <2>1. \A q \in Process : Status(q)' = Status(q)
      BY <1>4, <1>5
    <2> QED  BY <1>1, <2>1, Stutter
  <1>6. CASE st[p] = "none"
    <2>1. ~(p <= i) /\ p <= i'
      <3>1. i' = p /\ p \in Nat
        BY <1>1, <1>3, Numbers
      <3>2. ~(p <= i) /\ p <= p
        BY <1>2, <1>3, <3>1
      <3> QED  BY <3>1, <3>2
    <2>2. Status(p) = "open"
      BY <1>6, <2>1, StatusOf
    <2>3. Status(p)' = "quit"
      BY <1>1, <1>6, <2>1 DEF Status
    <2> QED  BY <1>1, <1>4, <2>2, <2>3, StageQuits
  <1> QED
    BY <1>5, <1>6

LEMMA ChildRefines ==
  ASSUME PipeInv, Redirect \/ NoRedirect \/ Spawn \/ SpawnFails \/ Last \/ Lost
  PROVE  UNCHANGED Shown
  <1> USE DEF PipeInv
  <1>1. UNCHANGED <<args, i>> /\ UNCHANGED <<wrote, got>> /\ st \in [Process -> State] /\ Main \in Process
        /\ pc \in {"redirect", "stages"} /\ st[Main] = "child"
    BY DEF Redirect, NoRedirect, Spawn, SpawnFails, Last, Lost, TakeWords, ControlInv, data
  <1>2. CASE UNCHANGED st
    BY <1>1, <1>2, StatusFrame, Stutter
  <1>3. CASE Spawn
    <2>1. st' = [st EXCEPT ![i + 1] = "child"] /\ i \in Nat /\ i < pipeCounter /\ pc = "stages"
      <3>1. st' = [st EXCEPT ![i + 1] = "child"] /\ i < pipeCounter /\ pc = "stages"
        BY <1>3 DEF Spawn, TakeWords
      <3> QED  BY <3>1, Counts
    <2>2. ASSUME NEW q \in Process, q # i + 1
          PROVE  Status(q)' = Status(q)
      BY <1>1, <2>1, <2>2, StatusFrame
    <2>3. ASSUME NEW q \in Process, q = i + 1
          PROVE  Status(q)' = Status(q)
      <3>1. q \in Nat /\ ~(q <= i) /\ q # Main
        BY <2>1, <2>3, Numbers DEF Main, ControlInv
      <3>2. st[q] = "none"
        BY <2>1, <3>1 DEF ControlInv, Forked
      <3>3. Status(q) = "open"
        BY <3>1, <3>2, StatusOf
      <3>4. st'[q] = "child"
        BY <1>1, <2>1, <2>3
      <3> QED  BY <3>3, <3>4 DEF Status, Ended
    <2> QED  BY <1>1, <2>2, <2>3, Stutter
  <1>4. CASE Redirect \/ Last
    <2>1. PICK how \in {"child", "program", "builtin"} : st' = [st EXCEPT ![Main] = how]
      <3>1. st = [st EXCEPT ![Main] = "child"]
        BY <1>1
      <3> QED  BY <1>4, <3>1 DEF Redirect, Last, Exec
    <2>2. st'[Main] = how /\ \A q \in Process : q # Main => st'[q] = st[q]
      BY <1>1, <2>1
    <2>3. Status(Main) = "open"
      BY <1>1, StatusOf
    <2>4. Status(Main)' = "open"
      BY <1>1, <2>2, SameLine DEF Status, Ended
    <2>5. ASSUME NEW q \in Process
          PROVE  Status(q)' = Status(q)
      BY <1>1, <2>2, <2>3, <2>4, StatusFrame, SameLine
    <2> QED  BY <1>1, <2>5, Stutter
  <1> QED
    BY <1>2, <1>3, <1>4 DEF NoRedirect, SpawnFails, Lost, procs

(* The detailed pipeline keeps the promise of Pipeline: for every line and *)
(* every size of pipes what a stage writes the next one reads, in order,   *)
(* and a stage that has come to the end of its input has read all of it.   *)
THEOREM Refinement == Spec => PipelineSpec
  <1>1. Init => Stages!Init
    <2> SUFFICES ASSUME Init PROVE Stages!Init
      OBVIOUS
    <2>1. ASSUME NEW p \in Process
          PROVE  Status(p) = "open"
      <3>1. ~(p <= i) /\ ~Ended(p)
        BY Numbers DEF Init, Ended
      <3> QED  BY <3>1 DEF Status
    <2> QED  BY <2>1 DEF Init, Stages!Init
  <1>2. PipeInv /\ [Next]_vars => [Stages!Next]_Shown
    <2> SUFFICES ASSUME PipeInv, [Next]_vars PROVE Stages!Next \/ UNCHANGED Shown
      OBVIOUS
    <2>1. ASSUME UNCHANGED <<child, procs>>, UNCHANGED <<wrote, got>> PROVE UNCHANGED Shown
      <3>1. UNCHANGED <<args, i>> /\ UNCHANGED st
        BY <2>1 DEF child, procs
      <3> QED  BY <2>1, <3>1, StatusFrame, Stutter
    <2>2. ASSUME ChildStep PROVE Stages!Next \/ UNCHANGED Shown
      <3>1. CASE NoChild \/ NoCommand
        <4>1. /\ st' = [st EXCEPT ![Main] = "quit"] /\ UNCHANGED <<args, i>> /\ UNCHANGED <<wrote, got>>
              /\ pc \in {"redirect", "wait any"}
          BY <3>1 DEF NoChild, NoCommand, Dies, data
        <4>2. Main \in Process /\ st[Main] = "child"
          BY <4>1 DEF PipeInv, ControlInv
        <4>3. st'[Main] = "quit" /\ \A q \in Process : q # Main => st'[q] = st[q]
          BY <4>1, <4>2 DEF PipeInv, ControlInv
        <4>4. Status(Main) = "open"
          BY <4>2, StatusOf
        <4>5. PICK p \in Process : p = Main
          BY <4>2
        <4>6. Status(p)' = "quit"
          BY <4>1, <4>2, <4>3, <4>5, SameLine DEF Status, Ended
        <4>7. \A q \in Process : q # p => Status(q)' = Status(q)
          BY <4>1, <4>3, <4>5, StatusFrame
        <4> QED  BY <4>1, <4>4, <4>5, <4>6, <4>7, StageQuits DEF Stages!Next
      <3>2. CASE \E s \in Process : Wait(s)
        BY <3>2, WaitRefines DEF Stages!Next
      <3> QED  BY <2>2, <3>1, <3>2, ChildRefines DEF ChildStep
    <2>3. ASSUME NEW p \in Process, Step(p) \/ Quit(p) \/ Stop(p) \/ Continue(p)
          PROVE  Stages!Next \/ UNCHANGED Shown
      <3>1. CASE StageExec(p)
        <4>1. PICK how \in {"program", "builtin"} : st' = [st EXCEPT ![p] = how]
          BY <3>1 DEF StageExec, Exec
        <4>2. UNCHANGED <<args, i>> /\ UNCHANGED <<wrote, got>> /\ st[p] = "child"
          BY <3>1 DEF StageExec, child, data
        <4>3. st'[p] = how /\ \A q \in Process : q # p => st'[q] = st[q]
          BY <4>1 DEF PipeInv, ControlInv
        <4>4. Status(p) = "open"
          BY <4>2, StatusOf
        <4>5. Status(p)' = "open"
          BY <4>3 DEF Status, Ended
        <4>6. \A q \in Process : Status(q)' = Status(q)
          BY <4>2, <4>3, <4>4, <4>5, StatusFrame
        <4> QED  BY <4>2, <4>6, Stutter
      <3>2. CASE Write(p)
        <4>1. /\ UNCHANGED <<child, procs>> /\ UNCHANGED got /\ wrote' = [wrote EXCEPT ![p] = @ + 1]
              /\ st[p] \in {"program", "builtin"} /\ wrote[p] < Units(p)
          BY <3>2 DEF Write, Running
        <4>2. wrote[p] < MaxUnits
          <5>1. wrote[p] \in Nat
            BY DEF PipeInv, DataInv
          <5> QED  BY <4>1, <5>1, ShellAssumption DEF Units
        <4>3. Status(p) = "open"
          BY <4>1, StatusOf
        <4>4. UNCHANGED <<args, i>> /\ UNCHANGED st
          BY <4>1 DEF child, procs
        <4>5. \A q \in Process : Status(q)' = Status(q)
          BY <4>4, StatusFrame
        <4>6. Stages!Produce(p)
          BY <4>1, <4>2, <4>3, <4>5 DEF Stages!Produce
        <4> QED  BY <4>6 DEF Stages!Next
      <3>3. CASE Read(p)
        <4>1. /\ UNCHANGED <<child, procs>> /\ UNCHANGED wrote /\ st[p] = "program"
          BY <3>3 DEF Read
        <4>2. /\ p > 1 /\ Len(got[p]) < wrote[p - 1]
              /\ got' = [got EXCEPT ![p] = Append(@, Unit(p - 1, Len(@) + 1))]
          BY <3>3, ReadStep
        <4>3. Status(p) = "open"
          BY <4>1, StatusOf
        <4>4. UNCHANGED <<args, i>> /\ UNCHANGED st
          BY <4>1 DEF child, procs
        <4>5. \A q \in Process : Status(q)' = Status(q)
          BY <4>4, StatusFrame
        <4>6. Stages!Receive(p)
          BY <4>1, <4>2, <4>3, <4>5 DEF Stages!Receive, Stages!Unit, Unit
        <4> QED  BY <4>6 DEF Stages!Next
      <3>4. CASE Finish(p) \/ Quit(p)
        <4>1. PICK how \in {"done", "quit"} : /\ Close(p, how) /\ Running(p)
                                              /\ how = "done" => st[p] = "program" /\ EndOfInput(p)
          BY <3>4 DEF Finish, Quit
        <4> QED  BY <4>1, CloseRefines DEF Stages!Next
      <3>5. CASE Stop(p) \/ Continue(p)
        BY <2>1, <3>5 DEF Stop, Continue, data
      <3> QED  BY <2>3, <3>1, <3>2, <3>3, <3>4, <3>5 DEF Step
    <2>4. CASE UNCHANGED vars
      BY <2>1, <2>4 DEF vars, data
    <2> QED  BY <2>2, <2>3, <2>4 DEF Next, Finished
  <1> QED
    BY <1>1, <1>2, Invariant, PTL DEF Spec, PipelineSpec, Stages!Spec, Shown

-----------------------------------------------------------------------------
(* What nextArg returns                                                    *)

(* The part of the line that begins behind word number p and ends before   *)
(* word number e.                                                          *)
EndOfPart(words, p, e) ==
  /\ e \in p + 1 .. Len(words) + 1
  /\ e <= Len(words) => words[e] = "|"
  /\ \A n \in p + 1 .. e - 1 : words[n] # "|"

LEMMA NextArg ==
  ASSUME NEW a, NEW words, Holds(a, words), NEW p \in 0 .. Len(words), NEW old
  PROVE  \E e \in Nat : EndOfPart(words, p, e) /\ LET r == nextArg(a, old, p) IN
           IF e = p + 1 THEN r.tempargs = old /\ r.nextPipe = p
           ELSE r.tempargs = SubSeq(words, p + 1, e - 1) /\ r.nextPipe = e
  <1> DEFINE S   == {x \in p .. SIZE - 1 : a[x] \in {"|", NULL}}
             end == Min(S)
             r   == nextArg(a, old, p)
  <1>1. /\ Len(words) \in Nat /\ p \in Nat /\ p <= Len(words) /\ Len(words) < SIZE /\ SIZE \in Nat
        /\ a[Len(words)] = NULL
    BY DEF Holds
  <1>2. S \in SUBSET Nat /\ Len(words) \in S
    BY <1>1
  <1>3. ASSUME NEW x \in S PROVE end <= x
    BY <1>2, Least
  <1>4. end \in S /\ end \in Nat /\ p <= end /\ end <= Len(words)
    BY <1>2, Least
  <1>5. ASSUME NEW n \in p + 1 .. end PROVE words[n] # "|" /\ a[n - 1] = words[n]
    <2>1. n \in 1 .. Len(words) /\ n - 1 \in p .. SIZE - 1 /\ ~(end <= n - 1)
      BY <1>1, <1>4
    <2>2. a[n - 1] = words[n]
      BY <2>1 DEF Holds
    <2>3. n - 1 \notin S
      BY <1>3, <2>1
    <2> QED  BY <2>1, <2>2, <2>3
  <1>6. ASSUME end < Len(words) PROVE words[end + 1] = "|"
    <2>1. end + 1 \in 1 .. Len(words) /\ (end + 1) - 1 = end
      BY <1>1, <1>4, <1>6
    <2>2. a[end] = words[end + 1] /\ words[end + 1] # NULL
      BY <2>1, WordAt DEF Holds
    <2> QED  BY <1>4, <2>2
  <1>7. r = IF end = p THEN [tempargs |-> old, nextPipe |-> p]
            ELSE [tempargs |-> [n \in 1 .. end - p |-> a[p + n - 1]], nextPipe |-> end + 1]
    BY DEF nextArg
  <1> HIDE DEF S, r, end
  <1>8. EndOfPart(words, p, end + 1)
    BY <1>1, <1>4, <1>5, <1>6 DEF EndOfPart
  <1>9. ASSUME end # p
        PROVE  [n \in 1 .. end - p |-> a[p + n - 1]] = SubSeq(words, p + 1, end)
    <2> DEFINE s == SubSeq(words, p + 1, end)
    <2>1. \A n \in p + 1 .. end : words[n] \in Word
      <3>1. \A n \in p + 1 .. end : n \in 1 .. Len(words)
        BY <1>1, <1>4
      <3> QED  BY <3>1, WordAt
    <2>2. p + 1 \in Int /\ end \in Int
      BY <1>1, <1>4
    <2>3. /\ s \in Seq(Word) /\ Len(s) = (IF p + 1 <= end THEN end - (p + 1) + 1 ELSE 0)
          /\ \A n \in 1 .. end - (p + 1) + 1 : s[n] = words[p + 1 + n - 1]
      BY <2>1, <2>2, SubSeqProperties
    <2> HIDE DEF s
    <2>4. Len(s) = end - p /\ s = [n \in 1 .. end - p |-> s[n]]
      <3>1. Len(s) = end - p
        BY <1>1, <1>4, <1>9, <2>3
      <3>2. s \in [1 .. Len(s) -> Word]
        BY <2>3, LenProperties
      <3> QED  BY <3>1, <3>2
    <2>5. ASSUME NEW n \in 1 .. end - p PROVE s[n] = a[p + n - 1]
      <3>1. n \in 1 .. end - (p + 1) + 1 /\ p + 1 + n - 1 = p + n /\ p + n \in p + 1 .. end
            /\ (p + n) - 1 = p + n - 1
        BY <1>1, <1>4
      <3>2. s[n] = words[p + n]
        BY <2>3, <3>1
      <3>3. words[p + n] = a[(p + n) - 1]
        BY <1>5, <3>1
      <3> QED  BY <3>1, <3>2, <3>3
    <2> QED  BY <2>4, <2>5 DEF s
  <1>10. end + 1 \in Nat /\ (end + 1 = p + 1 <=> end = p) /\ (end + 1) - 1 = end
    BY <1>1, <1>4
  <1>11. IF end + 1 = p + 1 THEN r.tempargs = old /\ r.nextPipe = p
         ELSE r.tempargs = SubSeq(words, p + 1, (end + 1) - 1) /\ r.nextPipe = end + 1
    <2>1. CASE end = p
      BY <1>7, <1>10, <2>1
    <2>2. CASE end # p
      BY <1>7, <1>9, <1>10, <2>2
    <2> QED  BY <2>1, <2>2
  <1> QED
    BY <1>8, <1>10, <1>11 DEF r

-----------------------------------------------------------------------------
(* The parts of a line                                                     *)

(* How many members of S there are up to p.                                *)
UpTo(S, p) == Cardinality({n \in S : n <= p})

LEMMA UpToNumber ==
  ASSUME NEW N \in Nat, NEW S \in SUBSET (1 .. N), NEW p \in Nat
  PROVE  /\ IsFiniteSet(S) /\ Cardinality(S) \in Nat
         /\ UpTo(S, p) \in Nat /\ UpTo(S, p) <= Cardinality(S)
         /\ p = 0 => UpTo(S, p) = 0
         /\ p >= N => UpTo(S, p) = Cardinality(S)
         /\ p \in S => UpTo(S, p) >= 1
  <1> DEFINE T == {n \in S : n <= p}
  <1>0. S \subseteq 1 .. N /\ \A n \in S : n \in Nat /\ 1 <= n /\ n <= N
    OBVIOUS
  <1>1. IsFiniteSet(S)
    <2>1. IsFiniteSet(1 .. N)
      BY FS_Interval
    <2> QED  BY <1>0, <2>1, FS_Subset
  <1>2. UpTo(S, p) = Cardinality(T) /\ T \subseteq S
    BY DEF UpTo
  <1>3. /\ p = 0 => T = {}
        /\ p >= N => T = S
        /\ p \in S => T # {}
    <2>0. /\ \A n \in S : p = 0 => ~(n <= p)
          /\ \A n \in S : p >= N => n <= p
      BY <1>0
    <2>1. p = 0 => T = {}
      BY ONLY <2>0
    <2>2. p >= N => T = S
      BY ONLY <2>0
    <2>3. p \in S => p \in T
      OBVIOUS
    <2> QED  BY <2>1, <2>2, <2>3
  <1> HIDE DEF T
  <1>4. IsFiniteSet(T) /\ Cardinality(T) \in Nat /\ Cardinality(T) <= Cardinality(S) /\ Cardinality(S) \in Nat
    BY <1>1, <1>2, FS_Subset, FS_CardinalityType
  <1>5. Cardinality(T) = 0 <=> T = {}
    BY <1>4, FS_EmptySet
  <1>6. p \in S => Cardinality(T) >= 1
    BY <1>3, <1>4, <1>5
  <1> QED
    BY <1>1, <1>2, <1>3, <1>4, <1>5, <1>6

LEMMA UpToNext ==
  ASSUME NEW N \in Nat, NEW S \in SUBSET (1 .. N), NEW p \in Nat
  PROVE  UpTo(S, p + 1) = IF p + 1 \in S THEN UpTo(S, p) + 1 ELSE UpTo(S, p)
  <1> DEFINE T == {n \in S : n <= p}
             U == {n \in S : n <= p + 1}
  <1>0. \A n \in S : n \in Nat
    OBVIOUS
  <1>1. U = IF p + 1 \in S THEN T \cup {p + 1} ELSE T
    <2>1. \A n \in S : n <= p + 1 <=> n <= p \/ n = p + 1
      BY <1>0
    <2> QED  BY ONLY <2>1, p + 1 <= p + 1
  <1>2. p + 1 \notin T /\ T \subseteq S
    OBVIOUS
  <1>3. UpTo(S, p) = Cardinality(T) /\ UpTo(S, p + 1) = Cardinality(U)
    BY DEF UpTo
  <1> HIDE DEF T, U
  <1>4. IsFiniteSet(T)
    BY <1>2, UpToNumber, FS_Subset
  <1> QED
    BY <1>1, <1>2, <1>3, <1>4, FS_AddElement

(* No two members have the same number.                                    *)
LEMMA UpToInjective ==
  ASSUME NEW N \in Nat, NEW S \in SUBSET (1 .. N), NEW b \in S, NEW c \in S, UpTo(S, b) = UpTo(S, c)
  PROVE  b = c
  <1>1. IsFiniteSet(S) /\ \A n \in S : n \in Nat
    <2>1. IsFiniteSet(S)
      BY UpToNumber
    <2> QED  BY <2>1
  <1>2. ASSUME NEW x \in S, NEW y \in S, x < y
        PROVE  UpTo(S, x) # UpTo(S, y)
    <2> DEFINE T == {d \in S : d <= x}
               U == {d \in S : d <= y}
    <2>0. y <= y /\ ~(y <= x) /\ \A d \in S : d <= x => d <= y
      BY <1>1, <1>2
    <2>1. T \subseteq U /\ y \in U /\ y \notin T /\ U \subseteq S
      BY ONLY <2>0, y \in S
    <2>2. UpTo(S, x) = Cardinality(T) /\ UpTo(S, y) = Cardinality(U)
      BY DEF UpTo
    <2> HIDE DEF T, U
    <2>3. IsFiniteSet(U)
      BY <1>1, <2>1, FS_Subset
    <2>4. Cardinality(T) = Cardinality(U) => T = U
      BY <2>1, <2>3, FS_Subset
    <2> QED  BY <2>1, <2>2, <2>4
  <1> QED
    BY <1>1, <1>2

(* Between two positions with one | among them, or none.                   *)
LEMMA UpToEnd ==
  ASSUME NEW a, NEW words, Holds(a, words), NEW p \in 0 .. Len(words), NEW e \in Nat, EndOfPart(words, p, e)
  PROVE  /\ e <= Len(words) => e \in Bars(words) /\ UpTo(Bars(words), e) = UpTo(Bars(words), p) + 1
         /\ e = Len(words) + 1 => UpTo(Bars(words), p) = Cardinality(Bars(words))
  <1> DEFINE S == {b \in Bars(words) : b <= p}
             T == {b \in Bars(words) : b <= e}
  <1>1. IsFiniteSet(Bars(words)) /\ S \subseteq Bars(words) /\ Bars(words) \subseteq 1 .. Len(words) /\ Len(words) \in Nat
    BY BarsFinite DEF Holds
  <1>2. UpTo(Bars(words), p) = Cardinality(S) /\ UpTo(Bars(words), e) = Cardinality(T)
    BY DEF UpTo
  <1>3. ASSUME NEW b \in Bars(words), b > p PROVE b >= e
    <2>1. b \in 1 .. Len(words) /\ words[b] = "|"
      BY DEF Bars
    <2>2. b \notin p + 1 .. e - 1
      BY <2>1 DEF EndOfPart
    <2> QED  BY <1>1, <1>3, <2>1, <2>2
  <1>4. ASSUME e <= Len(words) PROVE e \in Bars(words) /\ T = S \cup {e} /\ e \notin S
    <2>1. e \in Bars(words) /\ e > p
      BY <1>1, <1>4 DEF EndOfPart, Bars
    <2> QED  BY <1>1, <1>3, <2>1
  <1>5. ASSUME e = Len(words) + 1 PROVE S = Bars(words)
    BY <1>1, <1>3, <1>5
  <1> HIDE DEF S, T
  <1>6. IsFiniteSet(S)
    BY <1>1, FS_Subset
  <1>7. e <= Len(words) => Cardinality(T) = Cardinality(S) + 1
    BY <1>4, <1>6, FS_AddElement
  <1> QED
    BY <1>2, <1>4, <1>5, <1>7

(* After n parts of a pipeline nextPipe is p.                              *)
AtPart(words, p, n) ==
  \/ p = 0 /\ n = 0
  \/ p \in Bars(words) /\ UpTo(Bars(words), p) = n
  \/ p = Len(words) + 1 /\ n = Cardinality(Bars(words)) + 1

LEMMA PartIs ==
  ASSUME NEW a, NEW words, Holds(a, words), NEW p \in 0 .. Len(words), NEW n \in Nat, AtPart(words, p, n),
         NEW e \in Nat, EndOfPart(words, p, e)
  PROVE  /\ Part(words, n + 1) = SubSeq(words, p + 1, e - 1)
         /\ AtPart(words, e, n + 1) /\ n + 1 \in 1 .. Cardinality(Bars(words)) + 1
  <1> DEFINE bar(m) == CHOOSE b \in Bars(words) : Cardinality({c \in Bars(words) : c <= b}) = m
             count == Cardinality(Bars(words))
             first == IF n + 1 = 1 THEN 1 ELSE bar((n + 1) - 1) + 1
             last  == IF n + 1 = count + 1 THEN Len(words) ELSE bar(n + 1) - 1
  <1>1. Len(words) \in Nat /\ count \in Nat /\ Bars(words) \subseteq 1 .. Len(words)
    BY BarsFinite DEF Holds
  <1>2. Part(words, n + 1) = SubSeq(words, first, last)
    BY DEF Part
  <1>3. ASSUME NEW b \in Bars(words) PROVE bar(UpTo(Bars(words), b)) = b
    <2>1. \A c \in Bars(words) : Cardinality({d \in Bars(words) : d <= c}) = UpTo(Bars(words), b) => c = b
      BY <1>1, UpToInjective DEF UpTo
    <2> QED  BY <2>1 DEF UpTo
  <1> HIDE DEF bar
  <1>4. UpTo(Bars(words), p) = n /\ (n = 0 => p = 0)
    <2>1. p # Len(words) + 1
      BY <1>1
    <2>2. CASE p = 0 /\ n = 0
      BY <1>1, <2>2, UpToNumber
    <2>3. CASE p \in Bars(words) /\ UpTo(Bars(words), p) = n
      <3>1. UpTo(Bars(words), p) >= 1
        BY <1>1, <2>3, UpToNumber
      <3> QED  BY <2>3, <3>1
    <2> QED  BY <2>1, <2>2, <2>3 DEF AtPart
  <1>5. first = p + 1
    <2>1. CASE n = 0
      BY <1>4, <2>1
    <2>2. CASE n # 0
      <3>1. p \in Bars(words) /\ (n + 1) - 1 = n /\ n + 1 # 1
        BY <1>1, <2>2 DEF AtPart
      <3>2. bar(n) = p
        BY <1>3, <1>4, <3>1
      <3> QED  BY <3>1, <3>2
    <2> QED  BY <2>1, <2>2
  <1>6. e \in 1 .. Len(words) + 1
    BY <1>1 DEF EndOfPart
  <1>7. CASE e <= Len(words)
    <2>1. e \in Bars(words) /\ UpTo(Bars(words), e) = n + 1
      BY <1>4, <1>7, UpToEnd
    <2>2. n + 1 <= count
      BY <1>1, <1>6, <2>1, UpToNumber
    <2>3. last = e - 1
      <3>1. bar(n + 1) = e
        BY <1>3, <2>1
      <3> QED  BY <1>1, <2>2, <3>1
    <2>4. Part(words, n + 1) = SubSeq(words, p + 1, e - 1)
      <3> HIDE DEF first, last
      <3> QED  BY <1>2, <1>5, <2>3
    <2>5. AtPart(words, e, n + 1)
      BY <2>1 DEF AtPart
    <2> QED  BY <1>1, <2>2, <2>4, <2>5
  <1>8. CASE e = Len(words) + 1
    <2>1. n = count
      BY <1>4, <1>8, UpToEnd
    <2>2. last = e - 1
      BY <1>1, <1>8, <2>1
    <2>3. Part(words, n + 1) = SubSeq(words, p + 1, e - 1)
      <3> HIDE DEF first, last
      <3> QED  BY <1>2, <1>5, <2>2
    <2>4. AtPart(words, e, n + 1)
      BY <1>8, <2>1 DEF AtPart
    <2> QED  BY <1>1, <2>1, <2>3, <2>4
  <1> QED
    BY <1>6, <1>7, <1>8
-----------------------------------------------------------------------------
(* What redirections returns                                               *)

(* The loop of redirections from each position on, from position m.        *)
LoopFrom(a, m, g) ==
  g = [x \in m .. SIZE + 1 |->
         IF x >= SIZE \/ (x > 0 /\ a[x] = NULL) THEN << >>
         ELSE IF a[x] \in Redirection THEN g[x + 2]
         ELSE <<a[x]>> \o g[x + 1]]

LEMMA Unfold ==
  ASSUME NEW a
  PROVE  redirections(a) = (CHOOSE g : LoopFrom(a, 0, g))[0]
  BY DEF redirections, LoopFrom

LEMMA LoopValue ==
  ASSUME NEW a, NEW m, NEW g, LoopFrom(a, m, g), NEW x \in m .. SIZE + 1
  PROVE  g[x] = IF x >= SIZE \/ (x > 0 /\ a[x] = NULL) THEN << >>
                ELSE IF a[x] \in Redirection THEN g[x + 2]
                ELSE <<a[x]>> \o g[x + 1]
  BY DEF LoopFrom

(* There is such a function, by induction on the number of positions.      *)
LEMMA LoopExists ==
  ASSUME NEW a, SIZE \in Nat
  PROVE  \E g : LoopFrom(a, 0, g)
  <1> DEFINE Bad == {n \in 0 .. SIZE + 2 : ~\E g : LoopFrom(a, SIZE + 2 - n, g)}
  <1>1. ASSUME Bad # {}
        PROVE  FALSE
    <2>1. PICK n \in Bad : \A m \in Bad : n <= m
      <3>1. Bad \in SUBSET Nat
        OBVIOUS
      <3>2. PICK k \in Bad : TRUE
        BY <1>1
      <3> HIDE DEF Bad
      <3>3. Min(Bad) \in Bad /\ \A m \in Bad : Min(Bad) <= m
        BY <3>1, <3>2, Least
      <3> QED  BY <3>3
    <2> DEFINE first == SIZE + 2 - n
    <2>2. n \in Nat /\ n <= SIZE + 2 /\ first \in Nat /\ first <= SIZE + 2 /\ ~\E g : LoopFrom(a, first, g)
      OBVIOUS
    <2>3. CASE n = 0
      <3>1. first = SIZE + 2 /\ first .. SIZE + 1 = {}
        BY <2>2, <2>3
      <3> HIDE DEF first
      <3>2. LoopFrom(a, first, [x \in {} |-> << >>])
        BY <3>1 DEF LoopFrom
      <3> QED  BY <2>2, <3>2
    <2>4. CASE n # 0
      <3>1. n - 1 \in 0 .. SIZE + 2 /\ ~(n <= n - 1) /\ SIZE + 2 - (n - 1) = first + 1
        BY <2>2, <2>4
      <3>2. n - 1 \notin Bad
        BY <2>1, <3>1
      <3>3. PICK h : LoopFrom(a, first + 1, h)
        BY <3>1, <3>2
      <3>4. first <= SIZE + 1
        BY <2>2, <2>4
      <3> HIDE DEF first
      <3> DEFINE g == [x \in first .. SIZE + 1 |->
                         IF x >= SIZE \/ (x > 0 /\ a[x] = NULL) THEN << >>
                         ELSE IF a[x] \in Redirection THEN h[x + 2]
                         ELSE <<a[x]>> \o h[x + 1]]
      <3>5. ASSUME NEW x \in first + 1 .. SIZE + 1 PROVE g[x] = h[x]
        <4>1. x \in first .. SIZE + 1
          BY <2>2
        <4>2. h[x] = IF x >= SIZE \/ (x > 0 /\ a[x] = NULL) THEN << >>
                     ELSE IF a[x] \in Redirection THEN h[x + 2]
                     ELSE <<a[x]>> \o h[x + 1]
          BY <3>3, LoopValue
        <4> QED  BY <4>1, <4>2
      <3>6. ASSUME NEW x \in first .. SIZE + 1
            PROVE  g[x] = IF x >= SIZE \/ (x > 0 /\ a[x] = NULL) THEN << >>
                          ELSE IF a[x] \in Redirection THEN g[x + 2]
                          ELSE <<a[x]>> \o g[x + 1]
        <4>1. g[x] = IF x >= SIZE \/ (x > 0 /\ a[x] = NULL) THEN << >>
                     ELSE IF a[x] \in Redirection THEN h[x + 2]
                     ELSE <<a[x]>> \o h[x + 1]
          OBVIOUS
        <4> HIDE DEF g
        <4>2. CASE x >= SIZE
          BY <4>1, <4>2
        <4>3. CASE x < SIZE
          <5>1. x + 1 \in first + 1 .. SIZE + 1 /\ x + 2 \in first + 1 .. SIZE + 1
            BY <2>2, <4>3
          <5>2. g[x + 1] = h[x + 1] /\ g[x + 2] = h[x + 2]
            BY <3>5, <5>1
          <5> QED  BY <4>1, <5>2
        <4> QED  BY <2>2, <4>2, <4>3
      <3>7. g = [x \in first .. SIZE + 1 |-> g[x]]
        OBVIOUS
      <3> HIDE DEF g
      <3>8. LoopFrom(a, first, g)
        BY <3>6, <3>7 DEF LoopFrom
      <3> QED  BY <2>2, <3>8
    <2> QED  BY <2>3, <2>4
  <1>2. SIZE + 2 \in 0 .. SIZE + 2 /\ SIZE + 2 - (SIZE + 2) = 0
    OBVIOUS
  <1> QED
    BY <1>1, <1>2

(* The positions of the command, which no sign and no target stands at.    *)
Plain(words) == {n \in 1 .. Len(words) : ~IsSign(words, n) /\ ~IsTarget(words, n)}

LEMMA CommandWords ==
  ASSUME NEW a, NEW words, Holds(a, words)
  PROVE  /\ \E V : CommandOf(words) \in Seq(V)
         /\ Len(CommandOf(words)) = Cardinality(Plain(words)) /\ Cardinality(Plain(words)) \in Nat
         /\ Plain(words) \in SUBSET (1 .. Len(words)) /\ Len(words) \in Nat
         /\ \A n \in Plain(words) : /\ UpTo(Plain(words), n) \in 1 .. Cardinality(Plain(words))
                                    /\ CommandOf(words)[UpTo(Plain(words), n)] = words[n]
  <1> DEFINE P == Plain(words)
             nth(k) == CHOOSE n \in P : Cardinality({m \in P : m <= n}) = k
             C == CommandOf(words)
             V == {words[nth(k)] : k \in 1 .. Cardinality(P)}
  <1>1. P \in SUBSET (1 .. Len(words)) /\ Len(words) \in Nat
    BY DEF Plain, Holds
  <1>2. C = [k \in 1 .. Cardinality(P) |-> words[nth(k)]]
    BY DEF CommandOf, Plain
  <1>3. ASSUME NEW n \in P PROVE nth(UpTo(P, n)) = n
    <2>1. \A m \in P : Cardinality({d \in P : d <= m}) = UpTo(P, n) => m = n
      <3> HIDE DEF P
      <3> QED  BY <1>1, UpToInjective DEF UpTo
    <2> QED  BY <2>1 DEF UpTo
  <1> HIDE DEF P
  <1>4. Cardinality(P) \in Nat
    BY <1>1, UpToNumber
  <1>5. C \in [1 .. Cardinality(P) -> V]
    <2>1. \A k \in 1 .. Cardinality(P) : words[nth(k)] \in V
      OBVIOUS
    <2> HIDE DEF nth, V
    <2> QED  BY <1>2, <2>1
  <1> HIDE DEF nth, V
  <1>6. C \in Seq(V)
    BY <1>4, <1>5, SeqDef
  <1>7. Len(C) = Cardinality(P)
    BY <1>4, <1>5, <1>6, LenProperties
  <1>8. ASSUME NEW n \in P
        PROVE  UpTo(P, n) \in 1 .. Cardinality(P) /\ C[UpTo(P, n)] = words[n]
    <2>1. n \in Nat
      BY <1>1
    <2>2. UpTo(P, n) \in 1 .. Cardinality(P)
      BY <1>1, <1>4, <2>1, UpToNumber
    <2> QED  BY <1>2, <1>3, <2>2
  <1> QED
    BY <1>1, <1>4, <1>6, <1>7, <1>8 DEF P

(* The words of the command that stand behind word number x.               *)
Rest(words, x) == SubSeq(CommandOf(words), UpTo(Plain(words), x) + 1, Cardinality(Plain(words)))

LEMMA LoopStep ==
  ASSUME NEW a, NEW words, Holds(a, words), IsRedirected(words), NEW g, LoopFrom(a, 0, g),
         NEW x \in 0 .. Len(words), ~IsTarget(words, x + 1),
         \A y \in 0 .. Len(words) : y > x /\ ~IsTarget(words, y + 1) => g[y] = Rest(words, y)
  PROVE  g[x] = Rest(words, x)
  <1> DEFINE P == Plain(words)
             c == Cardinality(P)
             C == CommandOf(words)
  <1>1. /\ Len(words) \in Nat /\ Len(words) >= 1 /\ Len(words) < SIZE /\ SIZE \in Nat /\ x \in Nat /\ x <= Len(words)
        /\ a[Len(words)] = NULL
    BY DEF Holds
  <1>2. g[x] = IF x >= SIZE \/ (x > 0 /\ a[x] = NULL) THEN << >>
               ELSE IF a[x] \in Redirection THEN g[x + 2]
               ELSE <<a[x]>> \o g[x + 1]
    <2>1. x \in 0 .. SIZE + 1
      BY <1>1
    <2> QED  BY <2>1, LoopValue
  <1>3. P \in SUBSET (1 .. Len(words)) /\ c \in Nat
    BY CommandWords
  <1>4. CASE x = Len(words)
    <2>1. g[x] = << >>
      BY <1>1, <1>2, <1>4
    <2>2. UpTo(P, x) = c
      BY <1>1, <1>3, <1>4, UpToNumber
    <2>3. c + 1 \in Int /\ c \in Int /\ c < c + 1
      BY <1>3
    <2>4. SubSeq(C, c + 1, c) = << >>
      BY <2>3, SubSeqEmpty
    <2> QED  BY <2>1, <2>2, <2>4 DEF Rest
  <1>5. CASE x < Len(words)
    <2>1. x + 1 \in 1 .. Len(words) /\ a[x] = words[x + 1] /\ a[x] # NULL /\ x < SIZE
      <3>1. x + 1 \in 1 .. Len(words) /\ (x + 1) - 1 = x
        BY <1>1, <1>5
      <3>2. a[x] = words[x + 1]
        BY <3>1 DEF Holds
      <3> QED  BY <1>1, <3>1, <3>2, WordAt
    <2>2. CASE words[x + 1] \in Redirection
      <3>1. IsSign(words, x + 1)
        BY <2>1, <2>2 DEF IsSign
      <3>2. x + 1 < Len(words) /\ ~IsSign(words, (x + 1) + 1)
        BY <2>1, <3>1 DEF IsRedirected
      <3>3. (x + 1) + 1 = x + 2 /\ (x + 2) + 1 = x + 3 /\ (x + 3) - 1 = x + 2 /\ (x + 2) - 1 = x + 1
            /\ x + 2 \in 0 .. Len(words) /\ x + 2 > x
        BY <1>1, <3>2
      <3>4. ~IsTarget(words, (x + 2) + 1) /\ IsTarget(words, x + 2)
        BY <3>1, <3>2, <3>3 DEF IsTarget
      <3>5. g[x + 2] = Rest(words, x + 2)
        BY <3>3, <3>4
      <3>6. x + 1 \notin P /\ x + 2 \notin P
        BY <3>1, <3>4 DEF Plain
      <3>7. UpTo(P, x + 2) = UpTo(P, x)
        <4> HIDE DEF P
        <4>1. UpTo(P, x + 1) = UpTo(P, x)
          BY <1>1, <1>3, <3>6, UpToNext
        <4>2. UpTo(P, (x + 1) + 1) = UpTo(P, x + 1)
          <5>1. x + 1 \in Nat /\ (x + 1) + 1 \notin P
            BY <1>1, <3>3, <3>6
          <5> QED  BY <1>1, <1>3, <5>1, UpToNext
        <4> QED  BY <3>3, <4>1, <4>2
      <3>8. g[x] = g[x + 2]
        BY <1>2, <2>1, <2>2, <1>1
      <3> QED  BY <3>5, <3>7, <3>8 DEF Rest
    <2>3. CASE words[x + 1] \notin Redirection
      <3>1. (x + 1) + 1 = x + 2 /\ (x + 2) - 1 = x + 1 /\ x + 1 \in 0 .. Len(words) /\ x + 1 > x
        BY <1>1, <1>5
      <3>2. ~IsSign(words, x + 1) /\ ~IsTarget(words, (x + 1) + 1)
        BY <2>3, <3>1 DEF IsSign, IsTarget
      <3>3. g[x + 1] = Rest(words, x + 1)
        BY <3>1, <3>2
      <3>4. x + 1 \in P
        BY <2>1, <3>2 DEF Plain
      <3> DEFINE r == UpTo(P, x) + 1
      <3>5. UpTo(P, x + 1) = r
        BY <1>1, <1>3, <3>4, UpToNext
      <3>6. r \in 1 .. c /\ C[r] = words[x + 1] /\ Len(C) = c /\ \E V : C \in Seq(V)
        BY <3>4, <3>5, CommandWords
      <3> HIDE DEF C, P, c
      <3>7. SubSeq(C, r, c) = <<C[r]>> \o SubSeq(C, r + 1, c)
        <4>1. PICK V : C \in Seq(V)
          BY <3>6
        <4>2. r \in 1 .. Len(C) /\ c \in r .. Len(C)
          BY <1>3, <3>6
        <4> QED  BY <4>1, <4>2, SubSeqRecursiveFirst
      <3>8. g[x] = <<words[x + 1]>> \o g[x + 1]
        BY <1>1, <1>2, <2>1, <2>3
      <3>9. Rest(words, x + 1) = SubSeq(C, r + 1, c) /\ Rest(words, x) = SubSeq(C, r, c)
        BY <3>5 DEF Rest, C, P, c
      <3> QED  BY <3>3, <3>6, <3>7, <3>8, <3>9
    <2> QED  BY <2>2, <2>3
  <1> QED
    BY <1>1, <1>4, <1>5

(* Of every line that is one command with redirections, the loop of        *)
(* redirections, which skips a sign and the word after it, leaves exactly  *)
(* the words of the command, in order and not none.                        *)
THEOREM RedirectionsAreCommand ==
  ASSUME NEW a, NEW words, Holds(a, words), IsRedirected(words)
  PROVE  /\ redirections(a) = CommandOf(words) /\ CommandOf(words) # << >>
         /\ words[1] \notin Redirection => CommandOf(words)[1] = words[1]
  <1> DEFINE P == Plain(words)
  <1>1. /\ Len(words) \in Nat /\ Len(words) >= 1 /\ SIZE \in Nat
        /\ P \in SUBSET (1 .. Len(words)) /\ Cardinality(P) \in Nat
        /\ Len(CommandOf(words)) = Cardinality(P)
    BY CommandWords DEF Holds
  <1>2. PICK g : g = (CHOOSE h : LoopFrom(a, 0, h)) /\ LoopFrom(a, 0, g)
    BY <1>1, LoopExists
  <1> DEFINE Bad == {d \in 0 .. Len(words) :
                       ~IsTarget(words, Len(words) - d + 1) /\ g[Len(words) - d] # Rest(words, Len(words) - d)}
  <1>3. ASSUME Bad # {} PROVE FALSE
    <2>1. PICK d \in Bad : \A e \in Bad : d <= e
      <3>1. Bad \in SUBSET Nat
        OBVIOUS
      <3>2. PICK k \in Bad : TRUE
        BY <1>3
      <3> HIDE DEF Bad
      <3>3. Min(Bad) \in Bad /\ \A e \in Bad : Min(Bad) <= e
        BY <3>1, <3>2, Least
      <3> QED  BY <3>3
    <2> DEFINE x == Len(words) - d
    <2>2. x \in 0 .. Len(words) /\ ~IsTarget(words, x + 1) /\ g[x] # Rest(words, x) /\ d \in Nat
      BY <1>1
    <2>3. ASSUME NEW y \in 0 .. Len(words), y > x, ~IsTarget(words, y + 1)
          PROVE  g[y] = Rest(words, y)
      <3>1. Len(words) - y \in 0 .. Len(words) /\ ~(d <= Len(words) - y) /\ Len(words) - (Len(words) - y) = y
        BY <1>1, <2>2, <2>3
      <3>2. Len(words) - y \notin Bad
        BY <2>1, <3>1
      <3> QED  BY <2>3, <3>1, <3>2
    <2> HIDE DEF x, Bad
    <2> QED  BY <1>2, <2>2, <2>3, LoopStep
  <1>4. ~IsTarget(words, 0 + 1)
    BY DEF IsTarget, IsSign
  <1>5. g[0] = Rest(words, 0)
    <2>1. Len(words) \in 0 .. Len(words) /\ Len(words) - Len(words) = 0
      BY <1>1
    <2>2. Len(words) \notin Bad
      BY <1>3
    <2> QED  BY <1>4, <2>1, <2>2
  <1> HIDE DEF P, Bad
  <1>6. UpTo(P, 0) = 0 /\ UpTo(P, 1) = IF 1 \in P THEN UpTo(P, 0) + 1 ELSE UpTo(P, 0)
    <2>1. UpTo(P, 0) = 0
      BY <1>1, UpToNumber
    <2>2. 0 \in Nat /\ 0 + 1 = 1
      OBVIOUS
    <2>3. UpTo(P, 0 + 1) = IF 0 + 1 \in P THEN UpTo(P, 0) + 1 ELSE UpTo(P, 0)
      BY <1>1, <2>2, UpToNext
    <2> QED  BY <2>1, <2>2, <2>3
  <1>7. Rest(words, 0) = CommandOf(words)
    <2>1. PICK V : CommandOf(words) \in Seq(V)
      BY CommandWords
    <2> QED  BY <1>1, <1>6, <2>1, SubSeqFull DEF Rest, P
  <1>8. CommandOf(words) # << >>
    <2>1. PICK n \in P : TRUE
      BY DEF IsRedirected, P, Plain
    <2>2. UpTo(P, n) \in 1 .. Cardinality(P)
      BY CommandWords DEF P
    <2>3. Len(CommandOf(words)) # 0
      BY <1>1, <2>2
    <2> QED  BY <2>3
  <1>9. ASSUME words[1] \notin Redirection PROVE CommandOf(words)[1] = words[1]
    <2>1. 1 \in P
      BY <1>1, <1>4, <1>9 DEF P, Plain, IsSign
    <2>2. UpTo(P, 1) = 1
      BY <1>6, <2>1
    <2> QED  BY <2>1, <2>2, CommandWords DEF P
  <1> QED
    BY <1>2, <1>5, <1>7, <1>8, <1>9, Unfold

-----------------------------------------------------------------------------
(* What searchForRedirection finds                                         *)

LEMMA Greatest ==
  ASSUME NEW N \in Nat, NEW S \in SUBSET (0 .. N), NEW n \in S
  PROVE  Max(S) \in S /\ \A m \in S : m <= Max(S)
  <1> DEFINE R == {d \in 0 .. N : N - d \in S}
  <1>1. R \in SUBSET Nat /\ \A m \in S : m \in Nat /\ m <= N /\ N - m \in R
    <2>1. ASSUME NEW m \in S PROVE m \in Nat /\ m <= N /\ N - m \in 0 .. N /\ N - (N - m) = m
      <3>1. m \in 0 .. N
        OBVIOUS
      <3> QED  BY <3>1
    <2> QED  BY <2>1
  <1>2. \A d \in R : d \in Nat /\ N - d \in S
    OBVIOUS
  <1> HIDE DEF R
  <1>3. Min(R) \in R /\ \A d \in R : Min(R) <= d
    BY <1>1, Least
  <1> DEFINE x == N - Min(R)
  <1>4. x \in S /\ \A m \in S : x >= m
    <2>1. ASSUME NEW m \in S PROVE x >= m
      <3>1. Min(R) <= N - m /\ m \in Nat /\ Min(R) \in Nat
        BY <1>1, <1>2, <1>3
      <3> QED  BY <3>1
    <2> QED  BY <1>2, <1>3, <2>1
  <1>5. \A m, k \in S : (m >= k <=> k <= m)
    BY <1>1
  <1> HIDE DEF x
  <1> QED
    BY <1>4, <1>5 DEF Max

LEMMA GivenWord ==
  ASSUME NEW a, NEW words, Holds(a, words), NEW sign
  PROVE  Given(a, sign) <=> \E n \in 1 .. Len(words) : words[n] = sign
  <1>1. Used(a) = 0 .. Len(words) - 1 /\ Len(words) \in Nat
    BY UsedArgs DEF Holds
  <1>2. ASSUME NEW x \in Used(a), a[x] = sign
        PROVE  \E n \in 1 .. Len(words) : words[n] = sign
    <2>1. x + 1 \in 1 .. Len(words) /\ (x + 1) - 1 = x
      BY <1>1
    <2> QED  BY <1>2, <2>1 DEF Holds
  <1>3. ASSUME NEW n \in 1 .. Len(words), words[n] = sign
        PROVE  \E x \in Used(a) : a[x] = sign
    <2>1. n - 1 \in Used(a) /\ a[n - 1] = words[n]
      BY <1>1 DEF Holds
    <2> QED  BY <1>3, <2>1
  <1> QED
    BY <1>2, <1>3 DEF Given

(* The file of a redirection is the word that stands after its sign.       *)
LEMMA TargetFound ==
  ASSUME NEW a, NEW words, Holds(a, words), IsRedirected(words),
         NEW sign \in Redirection, Given(a, sign)
  PROVE  /\ searchForRedirection(a, sign) = TargetOf(words, sign)
         /\ searchForRedirection(a, sign) # NULL
  <1> DEFINE S == {n \in 1 .. Len(words) : words[n] = sign}
             T == {0} \cup {x \in Used(a) : a[x] = sign}
             M == Max(S)
  <1>1. Used(a) = 0 .. Len(words) - 1 /\ Len(words) \in Nat
    BY UsedArgs DEF Holds
  <1>2. PICK k \in 1 .. Len(words) : k \in S
    BY GivenWord
  <1>3. S \in SUBSET (0 .. Len(words)) /\ T \in SUBSET (0 .. Len(words))
    BY <1>1
  <1>4. ASSUME NEW n \in S PROVE n \in 1 .. Len(words) /\ n \in Nat /\ n >= 1 /\ words[n] = sign
    BY <1>1
  <1>5. ASSUME NEW n \in S PROVE n - 1 \in T
    <2>1. n - 1 \in Used(a) /\ a[n - 1] = words[n]
      BY <1>1, <1>4 DEF Holds
    <2> QED  BY <1>4, <2>1
  <1>6. ASSUME NEW x \in T PROVE x = 0 \/ (x + 1 \in S /\ x \in Nat)
    <2>1. CASE x # 0
      <3>1. x \in 0 .. Len(words) - 1 /\ a[x] = sign
        BY <1>1, <2>1
      <3>2. x + 1 \in 1 .. Len(words) /\ (x + 1) - 1 = x /\ x \in Nat
        BY <1>1, <3>1
      <3>3. words[x + 1] = sign
        BY <3>1, <3>2 DEF Holds
      <3> QED  BY <3>2, <3>3
    <2> QED  BY <2>1
  <1>7. 0 \in T
    OBVIOUS
  <1>8. TargetOf(words, sign) = words[1 + M] /\ LastAt(a, sign) = Max(T)
    BY DEF TargetOf, LastAt
  <1> HIDE DEF S, T
  <1>9. M \in S /\ \A m \in S : m <= M
    BY <1>1, <1>2, <1>3, Greatest
  <1>10. Max(T) \in T /\ \A m \in T : m <= Max(T)
    BY <1>1, <1>3, <1>7, Greatest
  <1>11. Max(T) = M - 1
    <2> HIDE DEF M
    <2>1. M - 1 <= Max(T) /\ M \in Nat /\ M >= 1
      BY <1>4, <1>5, <1>9, <1>10
    <2>2. Max(T) = 0 \/ (Max(T) + 1 <= M /\ Max(T) \in Nat)
      BY <1>6, <1>9, <1>10
    <2> QED  BY <2>1, <2>2
  <1>12. M \in 1 .. Len(words) /\ words[M] = sign /\ M \in Nat
    BY <1>4, <1>9
  <1> HIDE DEF M
  <1>13. M + 1 \in 1 .. Len(words) /\ (M + 1) - 1 = (M - 1) + 1 /\ 1 + M = M + 1
    <2>1. M < Len(words)
      BY <1>12 DEF IsRedirected, IsSign
    <2> QED  BY <1>1, <1>12, <2>1
  <1>14. a[(M + 1) - 1] = words[M + 1] /\ words[M + 1] # NULL
    BY <1>13, WordAt DEF Holds
  <1> QED
    BY <1>8, <1>11, <1>13, <1>14 DEF searchForRedirection

-----------------------------------------------------------------------------
(* Where the child is in its line                                          *)

Typed == Kept(line)

(* The parts that nextArg has been called for.                             *)
Calls == IF pc \in {"redirect", "stages"} THEN i ELSE i + 1

LineInv == line \in Line /\ Holds(args, Typed)

PositionInv ==
  /\ nextPipe \in 0 .. Len(Typed) + 1
  /\ nextPipe <= Len(Typed) => UpTo(Bars(Typed), nextPipe) <= Calls
  /\ nextPipe = Len(Typed) + 1 => Calls = Cardinality(Bars(Typed)) + 1

PipelineInv ==
  IsPipeline(Typed) =>
    /\ pc # "lost" /\ AtPart(Typed, nextPipe, Calls)
    /\ \A p \in Process : prog[p] # << >> => prog[p] = Part(Typed, p)

FilesFound == \A sign \in {"<", ">>"} : Given(args, sign) => TargetOf(Typed, sign) \in File
Redirected == <<IF Given(args, "<") THEN <<"read", TargetOf(Typed, "<")>> ELSE Tty,
                IF Given(args, ">>") THEN <<"append", TargetOf(Typed, ">>")>>
                ELSE IF Given(args, ">") THEN <<"create", TargetOf(Typed, ">")>> ELSE Tty>>

(* A command with redirections whose first word is no program is printed   *)
(* as not found, and no program is executed.                               *)
RedirectedInv ==
  /\ pc = "redirect" => files = File /\ nextPipe = 0
  /\ IsRedirected(Typed) =>
       /\ pc = "stages" => Typed[1] \notin Command /\ nextPipe = 0
       /\ st[Main] = "program" /\ FilesFound => prog[Main] = CommandOf(Typed) /\ fd[Main] = Redirected

WordsInv == LineInv /\ PositionInv /\ PipelineInv /\ RedirectedInv /\ DOMAIN prog = Process

LEMMA Position ==
  ASSUME PipeInv, LineInv, PositionInv
  PROVE  /\ Len(Typed) \in Nat /\ pipeCounter = Cardinality(Bars(Typed)) /\ nextPipe \in Nat
         /\ pc \in {"redirect", "stages"} => nextPipe \in 0 .. Len(Typed) /\ UpTo(Bars(Typed), nextPipe) <= i
  <1>1. Len(Typed) \in Nat /\ pipeCounter = Cardinality(Bars(Typed))
    BY PipesAreBars DEF LineInv, Holds, pipeCounter
  <1>2. i \in Nat /\ i <= pipeCounter /\ pipeCounter \in Nat
    BY Counts DEF PipeInv
  <1>3. nextPipe \in Nat /\ nextPipe <= Len(Typed) + 1
    BY <1>1 DEF PositionInv
  <1>4. ASSUME pc \in {"redirect", "stages"} PROVE nextPipe # Len(Typed) + 1 /\ Calls = i
    BY <1>1, <1>2, <1>4 DEF PositionInv, Calls
  <1>5. ASSUME pc \in {"redirect", "stages"} PROVE nextPipe \in 0 .. Len(Typed)
    BY <1>1, <1>3, <1>4, <1>5
  <1> QED
    BY <1>1, <1>3, <1>4, <1>5 DEF PositionInv

(* What one turn of the loop takes: a part of the line, and where the next *)
(* one begins.                                                             *)
Taken(part, next) ==
  /\ next \in 0 .. Len(Typed) + 1
  /\ next <= Len(Typed) => UpTo(Bars(Typed), next) <= i + 1
  /\ next = Len(Typed) + 1 => i = Cardinality(Bars(Typed))
  /\ IsPipeline(Typed) => /\ part = Part(Typed, i + 1) /\ part # Garbage
                          /\ AtPart(Typed, next, i + 1)
  /\ IsRedirected(Typed) => part = Typed

LEMMA NextPart ==
  ASSUME PipeInv, WordsInv, pc = "stages"
  PROVE  Taken(NextWords.tempargs, NextWords.nextPipe)
  <1> DEFINE part == NextWords.tempargs
             next == NextWords.nextPipe
             B == Bars(Typed)
  <1>1. /\ Len(Typed) \in Nat /\ pipeCounter = Cardinality(B) /\ nextPipe \in Nat /\ nextPipe \in 0 .. Len(Typed)
        /\ UpTo(B, nextPipe) <= i /\ Holds(args, Typed)
    BY Position DEF WordsInv, LineInv
  <1>2. i \in Nat /\ i <= Cardinality(B) /\ Cardinality(B) \in Nat
    BY <1>1, Counts DEF PipeInv
  <1>3. UpTo(B, nextPipe) \in Nat
    <2>1. B \in SUBSET (1 .. Len(Typed))
      BY DEF Bars
    <2> HIDE DEF B
    <2> QED  BY <1>1, <2>1, UpToNumber
  <1>4. PICK e \in Nat : EndOfPart(Typed, nextPipe, e) /\
          IF e = nextPipe + 1 THEN part = tempargs /\ next = nextPipe
          ELSE part = SubSeq(Typed, nextPipe + 1, e - 1) /\ next = e
    BY <1>1, NextArg DEF NextWords
  <1> HIDE DEF part, next, B
  <1>5. e \in nextPipe + 1 .. Len(Typed) + 1 /\ e <= Len(Typed) + 1
    BY <1>1, <1>4 DEF EndOfPart
  <1>6. /\ e <= Len(Typed) => UpTo(B, e) = UpTo(B, nextPipe) + 1
        /\ e = Len(Typed) + 1 => UpTo(B, nextPipe) = Cardinality(B)
    BY <1>1, <1>4, UpToEnd DEF B
  <1>7. /\ next \in 0 .. Len(Typed) + 1
        /\ next <= Len(Typed) => UpTo(B, next) <= i + 1
        /\ next = Len(Typed) + 1 => i = Cardinality(B)
    <2>1. CASE e = nextPipe + 1
      BY <1>1, <1>2, <1>3, <1>4, <2>1
    <2>2. CASE e # nextPipe + 1
      <3>1. next = e
        BY <1>4, <2>2
      <3> QED  BY <1>1, <1>2, <1>3, <1>5, <1>6, <3>1
    <2> QED  BY <2>1, <2>2
  <1>8. ASSUME IsPipeline(Typed)
        PROVE  part = Part(Typed, i + 1) /\ part # Garbage /\ AtPart(Typed, next, i + 1)
    <2>1. AtPart(Typed, nextPipe, i)
      BY <1>8 DEF WordsInv, PipelineInv, Calls
    <2>2. /\ Part(Typed, i + 1) = SubSeq(Typed, nextPipe + 1, e - 1)
          /\ AtPart(Typed, e, i + 1) /\ i + 1 \in 1 .. Cardinality(Bars(Typed)) + 1
      BY <1>1, <1>2, <1>4, <2>1, PartIs
    <2>3. Part(Typed, i + 1) # << >>
      BY <1>8, <2>2 DEF IsPipeline
    <2>4. e # nextPipe + 1
      <3>1. ASSUME e = nextPipe + 1 PROVE FALSE
        <4>1. nextPipe + 1 \in Int /\ e - 1 \in Int /\ e - 1 < nextPipe + 1
          BY <1>1, <3>1
        <4>2. SubSeq(Typed, nextPipe + 1, e - 1) = << >>
          BY <4>1, SubSeqEmpty
        <4> QED  BY <2>2, <2>3, <4>2
      <3> QED  BY <3>1
    <2>5. part = Part(Typed, i + 1) /\ next = e
      BY <1>4, <2>2, <2>4
    <2>6. part # Garbage
      <3>1. \A n \in nextPipe + 1 .. e - 1 : Typed[n] \in Word
        <4>1. \A n \in nextPipe + 1 .. e - 1 : n \in 1 .. Len(Typed)
          BY <1>1, <1>5
        <4> QED  BY <1>1, <4>1, WordAt
      <3>2. nextPipe + 1 \in Int /\ e - 1 \in Int
        BY <1>1
      <3>3. part \in Seq(Word)
        BY <2>2, <2>5, <3>1, <3>2, SubSeqProperties
      <3>4. ASSUME part = Garbage PROVE FALSE
        <4>1. Len(part) = 1 /\ part[1] = NULL
          BY <3>4 DEF Garbage
        <4>2. part[1] \in Word
          BY <3>3, <4>1, ElementOfSeq
        <4> QED  BY <4>1, <4>2 DEF Word
      <3> QED  BY <3>4
    <2> QED  BY <2>2, <2>3, <2>5, <2>6
  <1>9. ASSUME IsRedirected(Typed) PROVE part = Typed
    <2>1. nextPipe = 0
      BY <1>9 DEF WordsInv, RedirectedInv
    <2>2. Len(Typed) >= 1 /\ Typed \in Seq(Word)
      BY <1>1 DEF Holds
    <2>3. e = Len(Typed) + 1
      <3>1. ASSUME e <= Len(Typed) PROVE FALSE
        <4>1. e \in 1 .. Len(Typed) /\ Typed[e] = "|"
          BY <1>1, <1>4, <1>5, <2>1, <3>1 DEF EndOfPart
        <4>2. Bars(Typed) = {}
          BY <1>9 DEF IsRedirected
        <4> QED  BY <4>1, <4>2 DEF Bars
      <3> QED  BY <1>1, <1>5, <3>1
    <2>4. nextPipe + 1 = 1 /\ e - 1 = Len(Typed) /\ e # nextPipe + 1
      BY <1>1, <2>1, <2>2, <2>3
    <2>5. part = SubSeq(Typed, 1, Len(Typed))
      BY <1>4, <2>4
    <2> QED  BY <2>2, <2>5, SubSeqFull
  <1> QED
    BY <1>7, <1>8, <1>9 DEF Taken, part, next, B

LEMMA InitWords == Init => WordsInv
  <1> SUFFICES ASSUME Init PROVE WordsInv
    OBVIOUS
  <1>1. PICK old : line \in Line /\ args = parseArguments(line, old)
    BY DEF Init
  <1>2. LineInv
    BY <1>1, ArgsHold DEF LineInv, Typed
  <1>3. Len(Typed) \in Nat /\ Len(Typed) >= 1 /\ nextPipe = 0 /\ i = 0 /\ pc = "redirect" /\ files = File
    BY <1>2 DEF LineInv, Holds, Init
  <1>4. PositionInv
    <2>1. Bars(Typed) \in SUBSET (1 .. Len(Typed)) /\ 0 \in Nat
      BY DEF Bars
    <2>2. UpTo(Bars(Typed), 0) = 0
      BY <1>3, <2>1, UpToNumber
    <2> QED  BY <1>3, <2>2 DEF PositionInv, Calls
  <1>5. PipelineInv
    BY <1>3 DEF PipelineInv, AtPart, Calls, Init
  <1>6. RedirectedInv
    <2>1. Main \in Process
      BY InitInv DEF PipeInv, ControlInv
    <2>2. st[Main] = "child"
      BY <2>1 DEF Init
    <2> QED  BY <1>3, <2>2 DEF RedirectedInv
  <1> QED
    BY <1>2, <1>4, <1>5, <1>6 DEF WordsInv, Init

LEMMA SameWords ==
  ASSUME UNCHANGED <<line, args>>
  PROVE  UNCHANGED <<Typed, Redirected, pipeCounter, Main>> /\ (FilesFound' <=> FilesFound)
  BY SameLine DEF Typed, FilesFound, Redirected

(* Nothing has changed for the words of the line.                          *)
LEMMA WordsFrame ==
  ASSUME PipeInv, WordsInv, UNCHANGED <<line, args, nextPipe>>, Calls' = Calls,
         DOMAIN prog' = Process, \A p \in Process : prog'[p] = prog[p],
         pc' = "lost" => pc = "lost",
         pc' = "redirect" => pc = "redirect" /\ files' = files,
         pc' = "stages" => pc = "stages" \/ pipeCounter > 0,
         st'[Main] = "program" => st[Main] = "program" /\ fd'[Main] = fd[Main]
  PROVE  WordsInv'
  <1>1. /\ Typed' = Typed /\ Main' = Main /\ Main \in Process /\ (FilesFound' <=> FilesFound) /\ Redirected' = Redirected
        /\ args' = args /\ nextPipe' = nextPipe /\ line' = line
    BY SameWords DEF PipeInv, ControlInv
  <1>2. LineInv'
    BY <1>1 DEF WordsInv, LineInv
  <1>3. PositionInv'
    BY <1>1 DEF WordsInv, PositionInv
  <1>4. PipelineInv'
    BY <1>1 DEF WordsInv, PipelineInv
  <1>5. RedirectedInv'
    <2>1. IsRedirected(Typed) => pipeCounter = 0
      <3>1. IsRedirected(Typed) => Cardinality(Bars(Typed)) = 0
        BY FS_EmptySet DEF IsRedirected
      <3> QED  BY <3>1, Position DEF WordsInv
    <2>2. prog'[Main] = prog[Main]
      BY <1>1
    <2> QED  BY <1>1, <2>1, <2>2 DEF WordsInv, RedirectedInv
  <1> QED
    BY <1>2, <1>3, <1>4, <1>5 DEF WordsInv

-----------------------------------------------------------------------------
(* The steps of the child                                                  *)

(* The child has taken part number i + 1 of its line.                      *)
LEMMA TakeStep ==
  ASSUME PipeInv, WordsInv, TakeWords
  PROVE  /\ Taken(tempargs', nextPipe') /\ pc = "stages" /\ UNCHANGED <<line, args>>
         /\ UNCHANGED i /\ pc' \notin {"redirect", "stages"} => PositionInv'
  <1>1. pc = "stages" /\ tempargs' = NextWords.tempargs /\ nextPipe' = NextWords.nextPipe /\ UNCHANGED <<line, args>>
    BY DEF TakeWords
  <1>2. Taken(NextWords.tempargs, NextWords.nextPipe)
    BY <1>1, NextPart
  <1>3. Taken(tempargs', nextPipe')
    BY <1>1, <1>2
  <1>4. ASSUME UNCHANGED i, pc' \notin {"redirect", "stages"}
        PROVE  PositionInv'
    <2>1. Typed' = Typed /\ Calls' = i + 1
      BY <1>1, <1>4, SameWords DEF Calls
    <2>2. i \in Nat
      BY Counts DEF PipeInv
    <2> QED  BY <1>3, <2>1, <2>2 DEF PositionInv, Taken
  <1> QED
    BY <1>1, <1>3, <1>4

LEMMA SpawnWords ==
  ASSUME PipeInv, WordsInv, Spawn \/ SpawnFails
  PROVE  WordsInv'
  <1>1. TakeWords /\ i < pipeCounter /\ UNCHANGED i /\ UNCHANGED args /\ pc = "stages" /\ pc' \in {"wait", "wait any"}
    BY DEF Spawn, SpawnFails, TakeWords
  <1>2. Taken(tempargs', nextPipe') /\ PositionInv' /\ UNCHANGED <<line, args>>
    BY <1>1, TakeStep
  <1>3. Typed' = Typed /\ Main' = Main /\ i \in Nat /\ Main = pipeCounter + 1 /\ pipeCounter \in Nat
        /\ i + 1 \in Process /\ Main # i + 1 /\ Main \in Process /\ st[Main] = "child"
    <2>1. i \in Nat /\ pipeCounter \in Nat /\ Main = pipeCounter + 1 /\ Main \in Process /\ st[Main] = "child"
      BY <1>1, Counts DEF PipeInv, ControlInv
    <2>2. i < pipeCounter
      BY <1>1
    <2>3. i + 1 \in Process /\ Main # i + 1
      BY <2>1, <2>2, Numbers
    <2> QED  BY <1>2, <2>1, <2>3, SameWords
  <1>4. LineInv'
    BY <1>2, <1>3 DEF WordsInv, LineInv
  <1>5. /\ DOMAIN prog' = Process
        /\ \A p \in Process : prog'[p] = prog[p] \/ (p = i + 1 /\ prog'[p] = tempargs')
    BY <1>3 DEF Spawn, SpawnFails, WordsInv
  <1>6. PipelineInv'
    <2> SUFFICES ASSUME IsPipeline(Typed)
                 PROVE  /\ pc' # "lost" /\ AtPart(Typed, nextPipe', i + 1)
                        /\ \A p \in Process : prog'[p] # << >> => prog'[p] = Part(Typed, p)
      BY <1>1, <1>3 DEF PipelineInv, Calls
    <2>1. tempargs' = Part(Typed, i + 1) /\ AtPart(Typed, nextPipe', i + 1)
      BY <1>2 DEF Taken
    <2> QED  BY <1>1, <1>5, <2>1 DEF WordsInv, PipelineInv
  <1>7. RedirectedInv'
    <2>1. st'[Main] = "child"
      <3>1. st' = st \/ st' = [st EXCEPT ![i + 1] = "child"]
        BY DEF Spawn, SpawnFails
      <3> QED  BY <1>3, <3>1 DEF PipeInv, ControlInv
    <2> QED  BY <1>1, <1>3, <2>1 DEF RedirectedInv
  <1> QED
    BY <1>2, <1>4, <1>5, <1>6, <1>7 DEF WordsInv

(* What exec is given becomes the program of p.                            *)
LEMMA Executed ==
  ASSUME NEW p \in Process, NEW words, NEW io, Exec(p, words, io), WordsInv, PipeInv
  PROVE  /\ DOMAIN prog' = Process /\ prog'[p] = words /\ \A q \in Process : q # p => prog'[q] = prog[q]
         /\ st'[p] = IF words[1] \in Command THEN "program" ELSE "builtin"
         /\ fd'[p] = io
  BY DEF Exec, WordsInv, PipeInv, ControlInv, EndsInv

LEMMA LastWords ==
  ASSUME PipeInv, WordsInv, Last
  PROVE  WordsInv'
  <1>1. TakeWords /\ i = pipeCounter /\ UNCHANGED i /\ pc = "stages" /\ pc' \in {"exec", "lost"}
    BY DEF Last, TakeWords
  <1>2. Taken(tempargs', nextPipe') /\ PositionInv' /\ UNCHANGED <<line, args>>
    BY <1>1, TakeStep
  <1>3. Typed' = Typed /\ Main' = Main /\ i \in Nat /\ Main = i + 1 /\ Main \in Process /\ st[Main] = "child"
    <2>1. i \in Nat /\ pipeCounter \in Nat /\ Main = pipeCounter + 1 /\ Main \in Process /\ st[Main] = "child"
      BY <1>1, Counts DEF PipeInv, ControlInv
    <2> QED  BY <1>1, <1>2, <2>1, SameWords
  <1>4. LineInv'
    BY <1>2, <1>3 DEF WordsInv, LineInv
  <1>5. \/ pc' = "lost" /\ UNCHANGED <<prog, st, fd>> /\ PastNull(tempargs')
        \/ pc' = "exec" /\ \E io : Exec(Main, tempargs', io)
    BY DEF Last
  <1>6. /\ DOMAIN prog' = Process
        /\ \A p \in Process : prog'[p] = prog[p] \/ (p = i + 1 /\ prog'[p] = tempargs')
        /\ st'[Main] = "program" => tempargs'[1] \in Command
    <2>1. CASE pc' = "lost" /\ UNCHANGED <<prog, st, fd>>
      BY <1>3, <2>1 DEF WordsInv
    <2>2. CASE \E io : Exec(Main, tempargs', io)
      BY <1>3, <2>2, Executed
    <2> QED  BY <1>5, <2>1, <2>2
  <1>7. PipelineInv'
    <2> SUFFICES ASSUME IsPipeline(Typed)
                 PROVE  /\ pc' # "lost" /\ AtPart(Typed, nextPipe', i + 1)
                        /\ \A p \in Process : prog'[p] # << >> => prog'[p] = Part(Typed, p)
      BY <1>1, <1>3 DEF PipelineInv, Calls
    <2>1. tempargs' = Part(Typed, i + 1) /\ AtPart(Typed, nextPipe', i + 1)
      BY <1>2 DEF Taken
    <2>2. \A sign \in Redirection : ~Given(args, sign)
      <3>1. Holds(args, Typed)
        BY DEF WordsInv, LineInv
      <3> QED  BY <3>1, GivenWord DEF IsPipeline
    <2>3. pc' # "lost"
      BY <1>5, <2>2 DEF PastNull, Redirection
    <2> QED  BY <1>6, <2>1, <2>3 DEF WordsInv, PipelineInv
  <1>8. RedirectedInv'
    <2>1. ASSUME IsRedirected(Typed) PROVE st'[Main] # "program"
      <3>1. tempargs' = Typed /\ Typed[1] \notin Command
        BY <1>1, <1>2, <2>1 DEF Taken, WordsInv, RedirectedInv
      <3> QED  BY <1>6, <3>1
    <2> QED  BY <1>1, <1>3, <2>1 DEF RedirectedInv
  <1> QED
    BY <1>2, <1>4, <1>6, <1>7, <1>8 DEF WordsInv

(* The redirections of a line are done as its user meant them.             *)
LEMMA RedirectWords ==
  ASSUME PipeInv, WordsInv, Redirect
  PROVE  WordsInv'
  <1> DEFINE stdin  == IF Given(args, "<") /\ Target("<") \in files THEN <<"read", Target("<")>> ELSE Tty
             stdout == IF Given(args, ">>") /\ Target(">>") \in files \cup Created
                         THEN <<"append", Target(">>")>>
                       ELSE IF Created # {} THEN <<"create", Target(">")>> ELSE Tty
             words  == redirections(args)
  <1>1. /\ pc = "redirect" /\ \E sign \in Redirection : Given(args, sign)
        /\ UNCHANGED <<line, args, nextPipe, i>>
        /\ IF words[1] \in Command
             THEN pc' = "exec" /\ Exec(Main, words, <<stdin, stdout>>)
             ELSE pc' = "stages" /\ UNCHANGED <<prog, st>>
    BY DEF Redirect, HasRedirection
  <1>2. /\ Typed' = Typed /\ Main' = Main /\ i = 0 /\ nextPipe = 0 /\ files = File /\ Main \in Process
        /\ st[Main] = "child" /\ (FilesFound' <=> FilesFound) /\ Redirected' = Redirected
    BY <1>1, SameWords DEF PipeInv, ControlInv, WordsInv, RedirectedInv
  <1>3. Holds(args, Typed) /\ Len(Typed) \in Nat /\ Len(Typed) >= 1
    BY DEF WordsInv, LineInv, Holds
  <1>4. LineInv'
    BY <1>1, <1>2 DEF WordsInv, LineInv
  <1>5. PositionInv'
    <2>1. UpTo(Bars(Typed), 0) <= i
      BY <1>1, <1>2, Position DEF WordsInv
    <2>2. Calls' \in {i, i + 1} /\ UpTo(Bars(Typed), 0) = 0
      <3>1. Bars(Typed) \in SUBSET (1 .. Len(Typed)) /\ 0 \in Nat
        BY DEF Bars
      <3>2. UpTo(Bars(Typed), 0) = 0
        BY <1>3, <3>1, UpToNumber
      <3> QED  BY <1>1, <3>2 DEF Calls
    <2> QED  BY <1>1, <1>2, <1>3, <2>1, <2>2 DEF PositionInv
  <1>6. PipelineInv'
    <2>1. ~IsPipeline(Typed)
      BY <1>1, <1>3, GivenWord DEF IsPipeline
    <2> QED  BY <1>2, <2>1 DEF PipelineInv
  <1>7. DOMAIN prog' = Process
    BY <1>1, <1>2, Executed DEF WordsInv
  <1>8. RedirectedInv'
    <2> SUFFICES ASSUME IsRedirected(Typed)
                 PROVE  /\ pc' = "stages" => Typed[1] \notin Command
                        /\ st'[Main] = "program" /\ FilesFound => prog'[Main] = CommandOf(Typed) /\ fd'[Main] = Redirected
      BY <1>1, <1>2 DEF RedirectedInv
    <2>1. /\ words = CommandOf(Typed) /\ words # << >>
          /\ Typed[1] \notin Redirection => words[1] = Typed[1]
      BY <1>3, RedirectionsAreCommand
    <2>2. \A sign \in Redirection : Given(args, sign) => Target(sign) = TargetOf(Typed, sign) /\ Target(sign) # NULL
      BY <1>3, TargetFound DEF Target
    <2>3. ASSUME FilesFound PROVE <<stdin, stdout>> = Redirected
      <3>1. /\ Given(args, "<") => Target("<") = TargetOf(Typed, "<") /\ Target("<") \in files
            /\ Given(args, ">>") => Target(">>") = TargetOf(Typed, ">>") /\ Target(">>") \in files
            /\ Given(args, ">") => Target(">") = TargetOf(Typed, ">") /\ Target(">") # NULL
        BY <1>2, <2>2, <2>3 DEF FilesFound, Redirection
      <3>2. Created # {} <=> Given(args, ">")
        BY <3>1 DEF Created
      <3> QED  BY <3>1, <3>2 DEF Redirected
    <2> HIDE DEF words, stdin, stdout
    <2>4. CASE words[1] \in Command
      <3>1. prog'[Main] = words /\ fd'[Main] = <<stdin, stdout>> /\ pc' = "exec"
        BY <1>1, <1>2, <2>1, <2>4, Executed
      <3> QED  BY <2>1, <2>3, <3>1
    <2>5. CASE words[1] \notin Command
      <3>1. pc' = "stages" /\ st' = st
        BY <1>1, <2>5
      <3>2. Typed[1] \notin Command
        BY <2>1, <2>5, ShellAssumption
      <3> QED  BY <1>2, <3>1, <3>2
    <2> QED  BY <2>4, <2>5
  <1> QED
    BY <1>4, <1>5, <1>6, <1>7, <1>8 DEF WordsInv

(* A line of which no word is left is neither of the two kinds.            *)
LEMMA NoCommandWords ==
  ASSUME PipeInv, WordsInv, NoCommand
  PROVE  WordsInv'
  <1>1. /\ pc = "redirect" /\ pc' = "exit" /\ HasRedirection /\ redirections(args) = << >>
        /\ UNCHANGED <<line, args, nextPipe, i, prog>> /\ st' = [st EXCEPT ![Main] = "quit"]
    BY DEF NoCommand, Dies
  <1>2. /\ Typed' = Typed /\ Main' = Main /\ i = 0 /\ nextPipe = 0 /\ Main \in Process /\ Holds(args, Typed)
        /\ Len(Typed) \in Nat /\ Len(Typed) >= 1 /\ st'[Main] = "quit"
    BY <1>1, SameWords DEF PipeInv, ControlInv, WordsInv, RedirectedInv, LineInv, Holds
  <1>3. LineInv'
    BY <1>1, <1>2 DEF WordsInv, LineInv
  <1>4. PositionInv'
    <2>1. Bars(Typed) \in SUBSET (1 .. Len(Typed)) /\ 0 \in Nat
      BY DEF Bars
    <2>2. UpTo(Bars(Typed), 0) = 0
      BY <1>2, <2>1, UpToNumber
    <2>3. Calls' = 1
      BY <1>1, <1>2 DEF Calls
    <2> QED  BY <1>1, <1>2, <2>2, <2>3 DEF PositionInv
  <1>5. PipelineInv'
    <2>1. ~IsPipeline(Typed)
      BY <1>1, <1>2, GivenWord DEF IsPipeline, HasRedirection
    <2> QED  BY <1>2, <2>1 DEF PipelineInv
  <1>6. RedirectedInv'
    <2>1. ~IsRedirected(Typed)
      BY <1>1, <1>2, RedirectionsAreCommand
    <2> QED  BY <1>1, <1>2, <2>1 DEF RedirectedInv
  <1> QED
    BY <1>1, <1>3, <1>4, <1>5, <1>6 DEF WordsInv

LEMMA LostWords ==
  ASSUME PipeInv, WordsInv, NoRedirect \/ Lost
  PROVE  WordsInv'
  <1>1. /\ UNCHANGED <<line, args, nextPipe, i, prog, st, fd>> /\ pc \in {"redirect", "stages"} /\ pc' \in {"stages", "lost"}
    BY DEF NoRedirect, Lost, procs
  <1>2. /\ Typed' = Typed /\ Main' = Main /\ i \in Nat /\ Main \in Process /\ st[Main] = "child"
        /\ Holds(args, Typed)
    BY <1>1, SameWords, Counts DEF PipeInv, ControlInv, WordsInv, LineInv
  <1>3. /\ nextPipe \in 0 .. Len(Typed) /\ UpTo(Bars(Typed), nextPipe) <= i /\ Len(Typed) \in Nat
    BY <1>1, Position DEF WordsInv
  <1>4. LineInv'
    BY <1>1, <1>2 DEF WordsInv, LineInv
  <1>5. PositionInv'
    <2>1. Calls' \in {i, i + 1}
      BY <1>1 DEF Calls
    <2>2. UpTo(Bars(Typed), nextPipe) \in Nat
      <3>1. Bars(Typed) \in SUBSET (1 .. Len(Typed)) /\ nextPipe \in Nat
        BY <1>3 DEF Bars
      <3> QED  BY <1>3, <3>1, UpToNumber
    <2> QED  BY <1>1, <1>2, <1>3, <2>1, <2>2 DEF PositionInv
  <1>6. PipelineInv'
    <2>1. ASSUME IsPipeline(Typed) PROVE NoRedirect
      <3>1. ASSUME Lost PROVE FALSE
        <4>1. Taken(NextWords.tempargs, NextWords.nextPipe)
          BY <3>1, NextPart DEF Lost
        <4> QED  BY <2>1, <3>1, <4>1 DEF Lost, Taken
      <3> QED  BY <3>1
    <2>2. ASSUME NoRedirect PROVE pc' = "stages" /\ Calls' = Calls
      BY <1>1, <2>2 DEF NoRedirect, Calls
    <2> QED  BY <1>1, <1>2, <2>1, <2>2 DEF WordsInv, PipelineInv
  <1>7. RedirectedInv'
    <2>1. ASSUME IsRedirected(Typed) PROVE Lost
      <3>1. PICK n \in 1 .. Len(Typed) : Typed[n] \in Redirection
        BY <2>1 DEF IsRedirected, IsSign
      <3>2. Given(args, Typed[n])
        BY <1>2, GivenWord
      <3> QED  BY <3>1, <3>2 DEF NoRedirect, HasRedirection
    <2>2. Lost => pc' = "lost"
      BY DEF Lost
    <2> QED  BY <1>1, <1>2, <2>1, <2>2 DEF RedirectedInv
  <1> QED
    BY <1>1, <1>4, <1>5, <1>6, <1>7 DEF WordsInv

LEMMA WordsStep == PipeInv /\ WordsInv /\ [Next]_vars => WordsInv'
  <1> SUFFICES ASSUME PipeInv, WordsInv, [Next]_vars PROVE WordsInv'
    OBVIOUS
  <1>1. Main \in Process /\ DOMAIN prog = Process /\ st \in [Process -> State] /\ DOMAIN fd = Process
    BY DEF PipeInv, ControlInv, EndsInv, WordsInv
  <1>2. ASSUME UNCHANGED <<child, prog, st, fd>> PROVE WordsInv'
    BY <1>2, <1>1, WordsFrame DEF child, Calls
  <1>3. ASSUME ChildStep PROVE WordsInv'
    <2>1. CASE NoChild
      <3>1. /\ UNCHANGED <<line, args, nextPipe, i, prog>> /\ pc = "wait any" /\ pc' = "exit"
            /\ st' = [st EXCEPT ![Main] = "quit"]
        BY <2>1 DEF NoChild, Dies
      <3>2. st'[Main] = "quit" /\ Calls' = Calls
        BY <1>1, <3>1 DEF Calls
      <3> QED  BY <1>1, <3>1, <3>2, WordsFrame
    <2>2. CASE \E s \in Process : Wait(s)
      <3>1. /\ UNCHANGED <<line, args, nextPipe, prog, st, fd>> /\ pc \in {"wait", "wait any"} /\ pc' = "stages"
            /\ i' = i + 1
        BY <2>2 DEF Wait
      <3>2. Calls' = Calls /\ pipeCounter > 0
        <4>1. i \in Nat /\ pipeCounter \in Nat /\ i < pipeCounter
          BY <3>1, Counts DEF PipeInv, ControlInv
        <4>2. Calls' = i + 1 /\ Calls = i + 1
          BY <3>1 DEF Calls
        <4>3. pipeCounter > 0
          BY <4>1
        <4> QED  BY <4>2, <4>3
      <3> QED  BY <1>1, <3>1, <3>2, WordsFrame
    <2> QED  BY <1>3, <2>1, <2>2, RedirectWords, NoCommandWords, LostWords, SpawnWords, LastWords DEF ChildStep
  <1>4. ASSUME NEW p \in Process, Step(p) \/ Quit(p) \/ Stop(p) \/ Continue(p) PROVE WordsInv'
    <2>1. CASE StageExec(p)
      <3>1. UNCHANGED <<line, args, nextPipe, i, pc, files>> /\ p # Main /\ \E io : Exec(p, prog[p], io)
        BY <2>1 DEF StageExec, child
      <3>2. DOMAIN prog' = Process /\ (\A q \in Process : prog'[q] = prog[q])
        BY <3>1, Executed
      <3>3. st'[Main] = st[Main] /\ fd'[Main] = fd[Main] /\ Calls' = Calls
        BY <1>1, <3>1 DEF Exec, Calls
      <3> QED  BY <1>1, <3>1, <3>2, <3>3, WordsFrame
    <2>2. CASE Finish(p) \/ Quit(p)
      <3>1. PICK how \in {"done", "quit"} : Close(p, how)
        BY <2>2 DEF Finish, Quit
      <3>2. UNCHANGED <<line, args, nextPipe, i, pc, files, prog>>
        BY <3>1 DEF Close, child
      <3>3. Calls' = Calls /\ (st'[Main] = "program" => st[Main] = "program" /\ fd'[Main] = fd[Main])
        BY <1>1, <3>1, <3>2 DEF Close, Calls
      <3> QED  BY <1>1, <3>2, <3>3, WordsFrame
    <2>3. CASE Write(p) \/ Read(p) \/ Stop(p) \/ Continue(p)
      BY <1>2, <2>3 DEF Write, Read, Stop, Continue, procs
    <2> QED  BY <1>4, <2>1, <2>2, <2>3 DEF Step
  <1>5. ASSUME UNCHANGED vars PROVE WordsInv'
    BY <1>2, <1>5 DEF vars, procs
  <1> QED
    BY <1>3, <1>4, <1>5 DEF Next, Finished

-----------------------------------------------------------------------------
(* Bounds                                                                  *)

Ends == {"read", "write"} \X Process

SizesInv ==
  /\ held \in [Process -> SUBSET Ends]
  /\ \A k \in Process : Len(pipe[k]) <= Capacity /\ wrote[k] <= MaxUnits
  /\ stopped \subseteq Process \ {Main} /\ news \subseteq Process \ {Main} /\ faults \in 0 .. MaxFaults

LEMMA InitSizes == Init => SizesInv
  <1> SUFFICES ASSUME Init PROVE SizesInv
    OBVIOUS
  <1>1. held \in [Process -> SUBSET Ends]
    BY DEF Init
  <1>2. \A k \in Process : Len(pipe[k]) <= Capacity /\ wrote[k] <= MaxUnits
    BY ShellAssumption DEF Init
  <1>3. stopped \subseteq Process \ {Main} /\ news \subseteq Process \ {Main} /\ faults \in 0 .. MaxFaults
    BY ShellAssumption DEF Init
  <1> QED
    BY <1>1, <1>2, <1>3 DEF SizesInv

LEMMA WriteSizes ==
  ASSUME PipeInv, SizesInv, NEW p \in Process, Write(p)
  PROVE  \A k \in Process : Len(pipe'[k]) <= Capacity /\ wrote'[k] <= MaxUnits
  <1>1. pipe \in [Process -> Seq(Sent)] /\ wrote \in [Process -> Nat] /\ st[p] \in {"program", "builtin"}
    BY DEF PipeInv, DataInv, Write, Running
  <1>2. ASSUME NEW k \in Process PROVE wrote'[k] <= MaxUnits
    <2>1. wrote[p] < Units(p) /\ wrote' = [wrote EXCEPT ![p] = @ + 1] /\ wrote[p] \in Nat /\ wrote[k] \in Nat
      BY <1>1 DEF Write
    <2>2. Units(p) \in Nat /\ Units(p) <= MaxUnits
      BY ShellAssumption DEF Units
    <2>3. wrote[p] + 1 <= MaxUnits
      BY <2>1, <2>2, ShellAssumption
    <2> QED  BY <1>1, <2>1, <2>3 DEF SizesInv
  <1>3. ASSUME NEW k \in Process PROVE Len(pipe'[k]) <= Capacity
    <2>1. CASE fd[p][2][1] # "pipe"
      BY <2>1 DEF Write, SizesInv
    <2>2. CASE fd[p][2][1] = "pipe"
      <3>1. fd[p][2][2] = p
        BY <1>1, <2>2, Pipes DEF PipeInv
      <3>2. PICK u : pipe' = [pipe EXCEPT ![p] = Append(@, u)] /\ Len(pipe[p]) < Capacity
        BY <2>2, <3>1 DEF Write
      <3>3. Len(Append(pipe[p], u)) = Len(pipe[p]) + 1 /\ Len(pipe[p]) \in Nat
        BY <1>1
      <3>4. Len(pipe[p]) + 1 <= Capacity
        BY <3>2, <3>3, ShellAssumption
      <3> QED  BY <1>1, <3>2, <3>3, <3>4 DEF SizesInv
    <2> QED  BY <2>1, <2>2
  <1> QED
    BY <1>2, <1>3

LEMMA ReadSizes ==
  ASSUME PipeInv, SizesInv, NEW p \in Process, Read(p)
  PROVE  \A k \in Process : Len(pipe'[k]) <= Capacity /\ wrote'[k] <= MaxUnits
  <1>1. pipe \in [Process -> Seq(Sent)] /\ fd[p][1][2] \in Process
    <2>1. st[p] \in {"program", "builtin"} /\ fd[p][1][1] = "pipe"
      BY DEF Read
    <2>2. fd[p][1] = <<"pipe", p - 1>> /\ p - 1 \in Process
      BY <2>1, Pipes DEF PipeInv
    <2> QED  BY <2>2 DEF PipeInv, DataInv
  <1>2. PICK n \in Process : pipe[n] # << >> /\ pipe' = [pipe EXCEPT ![n] = Tail(@)] /\ wrote' = wrote
    BY <1>1 DEF Read
  <1>3. Len(Tail(pipe[n])) = Len(pipe[n]) - 1 /\ Len(pipe[n]) \in Nat
    BY <1>1, <1>2, HeadTailProperties, LenProperties
  <1>4. Len(Tail(pipe[n])) <= Capacity
    BY <1>3, ShellAssumption DEF SizesInv
  <1> QED
    BY <1>1, <1>2, <1>4 DEF SizesInv

LEMMA SizesStep == PipeInv /\ SizesInv /\ [Next]_vars => SizesInv'
  <1> SUFFICES ASSUME PipeInv, SizesInv, [Next]_vars PROVE SizesInv'
    OBVIOUS
  <1>1. Main \in Process /\ i \in Nat /\ pipeCounter \in Nat /\ Main = pipeCounter + 1
    BY Counts DEF PipeInv
  <1>2. UNCHANGED args
    BY DEF Next, ChildStep, Redirect, NoCommand, NoRedirect, Spawn, SpawnFails, NoChild, Last, Lost, Wait, TakeWords,
           Step, StageExec, Write, Read, Finish, Quit, Close, Stop, Continue, Finished, vars, child
  <1>3. Main' = Main
    BY <1>2, SameLine
  <1>4. held' \in [Process -> SUBSET Ends]
    <2>1. ASSUME NEW p \in Process, NEW old \in SUBSET Ends, held' = [held EXCEPT ![p] = old]
          PROVE  held' \in [Process -> SUBSET Ends]
      BY <2>1 DEF SizesInv
    <2>2. ASSUME Spawn \/ SpawnFails PROVE held' \in [Process -> SUBSET Ends]
      <3> DEFINE both == {<<"read", i + 1>>, <<"write", i + 1>>}
      <3>1. i < pipeCounter
        BY <2>2 DEF Spawn, SpawnFails
      <3>2. i + 1 \in Process
        BY <1>1, <3>1, Numbers
      <3>3. both \subseteq Ends
        BY <3>2 DEF Ends
      <3>4. \/ held' = [held EXCEPT ![Main] = @ \cup both, ![i + 1] = held[Main] \cup both]
            \/ held' = [held EXCEPT ![Main] = @ \cup both]
        BY <2>2 DEF Spawn, SpawnFails
      <3> HIDE DEF both
      <3> QED  BY <1>1, <3>2, <3>3, <3>4 DEF SizesInv
    <2>3. ASSUME NEW s \in Process, Wait(s) PROVE held' \in [Process -> SUBSET Ends]
      BY <1>1, <2>3 DEF Wait, SizesInv
    <2>4. ASSUME NEW s \in Process, StageExec(s) PROVE held' \in [Process -> SUBSET Ends]
      BY <2>4 DEF StageExec, SizesInv
    <2>5. ASSUME NEW p \in Process, NEW how, Close(p, how) PROVE held' \in [Process -> SUBSET Ends]
      BY <2>5 DEF Close, SizesInv
    <2>6. ASSUME NoChild \/ NoCommand PROVE held' \in [Process -> SUBSET Ends]
      BY <1>1, <2>6 DEF NoChild, NoCommand, Dies, SizesInv
    <2>7. ASSUME UNCHANGED held PROVE held' \in [Process -> SUBSET Ends]
      BY <2>7 DEF SizesInv
    <2>8. ASSUME NEW p \in Process, Step(p) \/ Quit(p) \/ Stop(p) \/ Continue(p) PROVE held' \in [Process -> SUBSET Ends]
      BY <2>4, <2>5, <2>7, <2>8 DEF Step, Write, Read, Finish, Quit, Stop, Continue, procs
    <2>9. ASSUME ChildStep PROVE held' \in [Process -> SUBSET Ends]
      BY <2>2, <2>3, <2>6, <2>7, <2>9 DEF ChildStep, Redirect, NoRedirect, Last, Lost, procs
    <2> QED  BY <2>7, <2>8, <2>9 DEF Next, Finished, vars, procs
  <1>5. \A k \in Process : Len(pipe'[k]) <= Capacity /\ wrote'[k] <= MaxUnits
    <2>1. ASSUME UNCHANGED data PROVE \A k \in Process : Len(pipe'[k]) <= Capacity /\ wrote'[k] <= MaxUnits
      BY <2>1 DEF data, SizesInv
    <2>2. ASSUME ChildStep PROVE UNCHANGED data
      BY <2>2 DEF ChildStep, Redirect, NoCommand, NoRedirect, Spawn, SpawnFails, NoChild, Last, Lost, Wait
    <2>3. ASSUME NEW p \in Process, Step(p) \/ Quit(p) \/ Stop(p) \/ Continue(p)
          PROVE  UNCHANGED data \/ Write(p) \/ Read(p)
      BY <2>3 DEF Step, StageExec, Finish, Quit, Close, Stop, Continue
    <2> QED  BY <2>1, <2>2, <2>3, WriteSizes, ReadSizes DEF Next, Finished, vars
  <1>6. stopped' \subseteq Process \ {Main} /\ news' \subseteq Process \ {Main} /\ faults' \in 0 .. MaxFaults
    <2>1. ASSUME ChildStep PROVE stopped' = stopped /\ news' \subseteq news /\ faults' \in {faults, faults + 1}
                                 /\ (faults' # faults => faults < MaxFaults)
      BY <2>1 DEF ChildStep, Redirect, NoCommand, NoRedirect, Spawn, SpawnFails, NoChild, Last, Lost, Wait
    <2>2. ASSUME NEW p \in Process, Step(p) \/ Quit(p) \/ Stop(p) \/ Continue(p)
          PROVE  /\ stopped' \subseteq Process \ {Main} /\ news' \subseteq Process \ {Main}
                 /\ faults' \in {faults, faults + 1} /\ (faults' # faults => faults < MaxFaults)
      BY <2>2 DEF Step, StageExec, Write, Read, Finish, Quit, Close, Stop, Continue, SizesInv
    <2>3. ASSUME UNCHANGED vars PROVE stopped' = stopped /\ news' = news /\ faults' = faults
      BY <2>3 DEF vars
    <2>4. /\ stopped' \subseteq Process \ {Main} /\ news' \subseteq Process \ {Main}
          /\ faults' \in {faults, faults + 1} /\ (faults' # faults => faults < MaxFaults)
      BY <2>1, <2>2, <2>3 DEF Next, Finished, SizesInv
    <2>5. faults \in Nat /\ faults <= MaxFaults /\ MaxFaults \in Nat
      BY ShellAssumption DEF SizesInv
    <2> QED  BY <2>4, <2>5
  <1> QED
    BY <1>3, <1>4, <1>5, <1>6 DEF SizesInv

(* The child never asks for words beyond the end of its line, no pipe      *)
(* holds more than its capacity, no program writes more than it has to,    *)
(* and only stages are stopped or reported to waitpid: for any line, any   *)
(* number of stages and any number of faults.                              *)
THEOREM TypeCorrect == Spec => []TypeOK
  <1>1. PipeInv /\ WordsInv /\ SizesInv => TypeOK
    <2> SUFFICES ASSUME PipeInv, WordsInv, SizesInv PROVE TypeOK
      OBVIOUS
    <2>1. Main \in Process /\ i \in 0 .. pipeCounter /\ in \in 0 .. pipeCounter
      BY Counts DEF PipeInv
    <2>2. nextPipe \in 0 .. Max(Used(args)) + 2
      <3>1. Max(Used(args)) = Len(Typed) - 1 /\ Len(Typed) \in Nat
        BY UsedArgs DEF WordsInv, LineInv, Holds
      <3>2. Max(Used(args)) + 2 = Len(Typed) + 1
        BY <3>1
      <3> QED  BY <3>2 DEF WordsInv, PositionInv
    <2>3. /\ pc \in {"redirect", "stages", "wait", "wait any", "exec", "exit", "lost"}
          /\ st \in [Process -> {"none", "child", "program", "builtin", "done", "quit"}]
      BY DEF PipeInv, ControlInv, State
    <2>4. \A k \in Process : Len(pipe[k]) <= Capacity /\ wrote[k] \in 0 .. MaxUnits
      BY ShellAssumption DEF PipeInv, DataInv, SizesInv
    <2>5. /\ held \in [Process -> SUBSET ({"read", "write"} \X Process)]
          /\ stopped \subseteq Process /\ news \subseteq Process \ {Main} /\ faults \in 0 .. MaxFaults
      BY DEF SizesInv, Ends
    <2> QED  BY <2>1, <2>2, <2>3, <2>4, <2>5 DEF TypeOK
  <1> QED
    BY <1>1, Invariant, InitWords, WordsStep, InitSizes, SizesStep, PTL DEF Spec

(* Whatever args held before and however the stages interleave, fail to be *)
(* forked, stop or die: a process of a pipeline executes the words between *)
(* its | and the next, and a command with redirections runs with exactly   *)
(* its own words and the files that follow the last sign of each kind.     *)
THEOREM ExecutesAsWritten == Spec => []AsWritten
  <1>1. WordsInv => AsWritten
    <2> SUFFICES ASSUME WordsInv PROVE AsWritten
      OBVIOUS
    <2>1. IsPipeline(Typed) => pc # "lost" /\ \A p \in Process : prog[p] # << >> => prog[p] = Part(Typed, p)
      BY DEF WordsInv, PipelineInv
    <2>2. IsRedirected(Typed) /\ st[Main] = "program" /\ FilesFound => prog[Main] = CommandOf(Typed) /\ fd[Main] = Redirected
      BY DEF WordsInv, RedirectedInv
    <2> QED  BY <2>1, <2>2 DEF AsWritten, Typed, FilesFound, Redirected
  <1> QED
    BY <1>1, Invariant, InitWords, WordsStep, PTL DEF Spec
=============================================================================

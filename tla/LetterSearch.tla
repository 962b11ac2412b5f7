----------------------------- MODULE LetterSearch -----------------------------
(***************************************************************************)
(* What a session of the guessing game promises, without threads,          *)
(* semaphores or a second segment: at every position the guess goes from   *)
(* '0' to 'A' and then one letter at a time up to the secret letter, where *)
(* it stays; and a side retires a block only when the block is guessed.    *)
(***************************************************************************)
EXTENDS GuessBlocks

VARIABLES
  secret,      \* the string to be guessed
  guess,       \* the current guess for every position
  clientDone,  \* the blocks the client has retired
  serverDone   \* the blocks the server has retired

vars == <<secret, guess, clientDone, serverDone>>

TypeOK ==
  /\ secret \in [Position -> Alphabet]
  /\ guess \in [Position -> Char]
  /\ clientDone \subseteq Id
  /\ serverDone \subseteq Id

Init ==
  /\ secret \in [Position -> Alphabet]
  /\ guess = [k \in Position |-> Blank]
  /\ clientDone = {}
  /\ serverDone = {}

Guessed(i) == \A k \in Block(i) : guess[k] = secret[k]

FirstGuess(k) ==
  /\ guess[k] = Blank
  /\ guess' = [guess EXCEPT ![k] = First]
  /\ UNCHANGED <<secret, clientDone, serverDone>>

NextGuess(k) ==
  /\ guess[k] # Blank
  /\ guess[k] < secret[k]
  /\ guess' = [guess EXCEPT ![k] = guess[k] + 1]
  /\ UNCHANGED <<secret, clientDone, serverDone>>

ClientRetires(i) ==
  /\ Guessed(i)
  /\ clientDone' = clientDone \cup {i}
  /\ UNCHANGED <<secret, guess, serverDone>>

ServerRetires(i) ==
  /\ Guessed(i)
  /\ serverDone' = serverDone \cup {i}
  /\ UNCHANGED <<secret, guess, clientDone>>

Next ==
  \/ \E i \in Id : ClientRetires(i) \/ ServerRetires(i)
  \/ \E i \in Id : \E k \in Block(i) : FirstGuess(k) \/ NextGuess(k)

Spec == Init /\ [][Next]_vars

(* Every block is eventually guessed and retired by both sides.            *)
FairSpec == Spec /\ WF_vars(Next)
=============================================================================

----------------------------- MODULE GuessBlocks -----------------------------
(***************************************************************************)
(* The data that server.c and client.c of Assignment2 agree on: how long   *)
(* the secret string is, how many threads play on each side, which         *)
(* characters occur, and which positions of the string belong to which     *)
(* thread.                                                                 *)
(***************************************************************************)
EXTENDS Integers

CONSTANTS
  N,         \* length of the secret string (the server's argv[1])
  M,         \* threads on each side (the client's argv[1])
  CharMin,   \* the smallest and the largest value of a char;
  CharMax,   \*   incrementing the largest wraps around to the smallest
  Blank,     \* '0', with which the server fills the first segment
  First,     \* 'A', the first guess of the client for every position
  Alphabet   \* the characters createString draws the secret from

ASSUME SizeAssumption == N \in Nat \ {0} /\ M \in Nat \ {0}

(* '0' precedes 'A', and every letter of the secret is 'A' or follows it.  *)
ASSUME CharAssumption ==
  /\ CharMin \in Int /\ CharMax \in Int
  /\ Blank \in CharMin .. CharMax
  /\ First \in CharMin .. CharMax
  /\ Blank < First
  /\ Alphabet \subseteq First .. CharMax

Char == CharMin .. CharMax

(* x++ on a variable of type char *)
NextChar(c) == IF c = CharMax THEN CharMin ELSE c + 1

Position == 0 .. N - 1
Id == 0 .. M - 1

(***************************************************************************)
(* The positions of the thread that took number i: low <= k < high.  The   *)
(* division is C's integer division, so the N % M last positions belong to *)
(* nobody, and no position belongs to anybody when M > N.                  *)
(***************************************************************************)
Low(i)   == i * (N \div M)

(* A slip: one position less.                                              *)
High_Short(i) == (i + 1) * (N \div M) - 1

High(i)  == (i + 1) * (N \div M)
Block(i) == {k \in Position : Low(i) <= k /\ k < High(i)}
=============================================================================

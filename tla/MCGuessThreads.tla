---------------------------- MODULE MCGuessThreads ----------------------------
(* An instance of GuessThreads for TLC.  Characters are small integers: 0  *)
(* is '0', 1 is 'A', 2 is 'B'.                                             *)
EXTENDS GuessInvariant

MCAlphabet == {1, 2}
=============================================================================

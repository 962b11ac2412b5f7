---------------------------- MODULE MCGuessSession ----------------------------
(* Instances of GuessSession for TLC.  Keys and clients are model values   *)
(* that only safety runs permute; sizeof(int) is 4 and sizeof(sem_t) 32.   *)
EXTENDS GuessSession, TLC

OneOrTwo == {1, 2}
AnyArgument == {-1, 0, 1}
Symmetric == Permutations(Client) \cup Permutations(Key)
=============================================================================

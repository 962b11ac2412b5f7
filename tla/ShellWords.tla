------------------------------ MODULE ShellWords ------------------------------
(***************************************************************************)
(* The words of a command line of mysh: how parseArguments puts them into  *)
(* the array args, and what searchForRedirection, searchForPipe,           *)
(* redirections and nextArg find in it.                                    *)
(*                                                                         *)
(* A line is the sequence of its words.  The entries of args above its     *)
(* NULL are left from earlier lines, or from before the first one.         *)
(***************************************************************************)
EXTENDS Integers, Sequences, FiniteSets, FiniteSetsExt

CONSTANT SIZE      \* entries of args; no line has as many words

NULL  == "NULL"
Word  == STRING \ {NULL}    \* what parseArguments stores is never NULL
Index == 0 .. SIZE - 1

Redirection == {"<", ">", ">>"}

(* mytime and & may stand anywhere: they become flags.                     *)
Kept(line) == SelectSeq(line, LAMBDA w : w \notin {"mytime", "&"})

parseArguments(line, args) ==
  LET words == Kept(line)
  IN  [i \in Index |-> IF i < Len(words) THEN words[i + 1]
                       ELSE IF i = Len(words) THEN NULL ELSE args[i]]

(* The entries below the first NULL.                                       *)
Used(args) == 0 .. Min({i \in Index : args[i] = NULL}) - 1

(* Of a sign that occurs more than once the last occurrence counts.        *)
Given(args, sign) == \E i \in Used(args) : args[i] = sign
LastAt(args, sign) == Max({0} \cup {i \in Used(args) : args[i] = sign})

(* What stands after the sign; NULL if nothing does.                       *)
searchForRedirection(args, sign) == args[LastAt(args, sign) + 1]

searchForPipe(args) == Cardinality({i \in Used(args) : args[i] = "|"})

(* A slip: only the sign is skipped.                                       *)
redirections_SkipsOne(args) == SelectSeq([n \in 1 .. Max(Used(args)) + 1 |-> args[n - 1]],
                                         LAMBDA w : w \notin Redirection)

(* The words without the signs and what follows them.  The loop compares   *)
(* with NULL after its steps: a sign that is the last word takes it past   *)
(* the NULL, and up to the end of the array if it finds no other one.      *)
redirections(args) ==
  LET from[i \in 0 .. SIZE + 1] ==
        IF i >= SIZE \/ (i > 0 /\ args[i] = NULL) THEN << >>
        ELSE IF args[i] \in Redirection THEN from[i + 2]
        ELSE <<args[i]>> \o from[i + 1]
  IN  from[0]

(* Another: *nextPipe = i + 2                                              *)
nextArg_SkipsOne(args, tempargs, nextPipe) ==
  LET end == Min({i \in nextPipe .. SIZE - 1 : args[i] \in {"|", NULL}})
  IN  IF end = nextPipe THEN [tempargs |-> tempargs, nextPipe |-> nextPipe]
      ELSE [tempargs |-> [n \in 1 .. end - nextPipe |-> args[nextPipe + n - 1]],
            nextPipe |-> end + 2]

(* The words from nextPipe up to a | or the NULL.  If there are none,      *)
(* tempargs and nextPipe stay as they are.                                 *)
nextArg(args, tempargs, nextPipe) ==
  LET end == Min({i \in nextPipe .. SIZE - 1 : args[i] \in {"|", NULL}})
  IN  IF end = nextPipe THEN [tempargs |-> tempargs, nextPipe |-> nextPipe]
      ELSE [tempargs |-> [n \in 1 .. end - nextPipe |-> args[nextPipe + n - 1]],
            nextPipe |-> end + 1]

-----------------------------------------------------------------------------
(* What a user means by a line.                                            *)

Bars(words) == {n \in 1 .. Len(words) : words[n] = "|"}

(* Part number k of a line, between one | and the next.                    *)
Part(words, k) ==
  LET bar(n)   == CHOOSE b \in Bars(words) : Cardinality({c \in Bars(words) : c <= b}) = n
      first    == IF k = 1 THEN 1 ELSE bar(k - 1) + 1
      last     == IF k = Cardinality(Bars(words)) + 1 THEN Len(words) ELSE bar(k) - 1
  IN  SubSeq(words, first, last)

(* A pipeline of non-empty parts.                                          *)
IsPipeline(words) ==
  /\ \A n \in 1 .. Len(words) : words[n] \notin Redirection
  /\ \A k \in 1 .. Cardinality(Bars(words)) + 1 : Part(words, k) # << >>

(* One command with redirections, each to or from a word.                  *)
IsSign(words, n)   == n \in 1 .. Len(words) /\ words[n] \in Redirection
IsTarget(words, n) == IsSign(words, n - 1)
IsRedirected(words) ==
  /\ Bars(words) = {}
  /\ \E n \in 1 .. Len(words) : IsSign(words, n)
  /\ \A n \in 1 .. Len(words) : IsSign(words, n) => n < Len(words) /\ ~IsSign(words, n + 1)
  /\ \E n \in 1 .. Len(words) : ~IsSign(words, n) /\ ~IsTarget(words, n)

(* Its command, and the last word after one of the signs S.                *)
CommandOf(words) ==
  LET plain == {n \in 1 .. Len(words) : ~IsSign(words, n) /\ ~IsTarget(words, n)}
      nth(k) == CHOOSE n \in plain : Cardinality({m \in plain : m <= n}) = k
  IN  [k \in 1 .. Cardinality(plain) |-> words[nth(k)]]
TargetOf(words, sign) ==
  words[1 + Max({n \in 1 .. Len(words) : words[n] = sign})]
=============================================================================

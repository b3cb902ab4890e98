--------------------------- MODULE SubjectPattern ---------------------------
(***************************************************************************)
(* Subjects and subscription patterns of the bus, as sequences of tokens.  *)
(* "*" stands for exactly one token and ">" for one or more, at the end.   *)
(* The empty token is the one strings.Split yields between two dots.       *)
(***************************************************************************)
EXTENDS Integers, Sequences

Empty == ""
Any == "*"
Rest == ">"

\* parsePattern accepts the pattern.
WellFormed(pattern) ==
  /\ pattern # <<>>
  /\ \A i \in DOMAIN pattern :
       pattern[i] # Empty /\ (pattern[i] = Rest => i = Len(pattern))

\* What a well-formed pattern means.
Matches(pattern, subject) ==
  LET Fits(i) == pattern[i] \in {Any, subject[i]}
      n == Len(pattern)
  IN IF pattern # <<>> /\ pattern[n] = Rest
     THEN Len(subject) >= n /\ \A i \in 1..(n - 1) : Fits(i)
     ELSE Len(subject) = n /\ \A i \in 1..n : Fits(i)
==========================================================================

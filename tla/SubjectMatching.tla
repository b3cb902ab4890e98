-------------------------- MODULE SubjectMatching --------------------------
(***************************************************************************)
(* The loop of bus.matches, one token at a time.  Its two indices always   *)
(* agree: i is the number of tokens compared so far.                       *)
(***************************************************************************)
EXTENDS SubjectPattern

CONSTANTS Patterns, Subjects   \* sequences of tokens

ASSUME MatchingAssumption == Patterns \subseteq Seq(STRING) /\ Subjects \subseteq Seq(STRING)

VARIABLES pattern, subject, i, verdict
matching == <<pattern, subject, i, verdict>>

MatchingInit ==
  /\ pattern \in Patterns
  /\ subject \in Subjects
  /\ i = 0
  /\ verdict = IF WellFormed(pattern) THEN "scanning" ELSE "malformed"

More == i < Len(pattern) /\ i < Len(subject)

Compare ==
  /\ verdict = "scanning" /\ More
  /\ LET tok == pattern[i + 1]
     IN IF tok = Rest THEN verdict' = "match" /\ UNCHANGED i
        ELSE IF tok # Any /\ tok # subject[i + 1]
        THEN verdict' = "nomatch" /\ UNCHANGED i
        ELSE i' = i + 1 /\ UNCHANGED verdict
  /\ UNCHANGED <<pattern, subject>>

\* Mutant: either sequence may run out first.
ExhaustedEither ==
  /\ verdict = "scanning" /\ ~More
  /\ verdict' = IF i = Len(pattern) \/ i = Len(subject) THEN "match" ELSE "nomatch"
  /\ UNCHANGED <<pattern, subject, i>>

Exhausted ==
  /\ verdict = "scanning" /\ ~More
  /\ verdict' = IF i = Len(pattern) /\ i = Len(subject) THEN "match" ELSE "nomatch"
  /\ UNCHANGED <<pattern, subject, i>>

Decided == verdict # "scanning" /\ UNCHANGED matching

MatchingNext == Compare \/ Exhausted \/ Decided
MatchingSpec == MatchingInit /\ [][MatchingNext]_matching
--------------------------------------------------------------------------
\* The loop decides the meaning of the pattern: an event is delivered to a
\* subscription exactly when its subject matches, for patterns shorter and
\* longer than the subject, and for wildcards at every position.
DecidesMatch ==
  /\ verdict = "match" => Matches(pattern, subject)
  /\ verdict = "nomatch" => ~Matches(pattern, subject)
==========================================================================

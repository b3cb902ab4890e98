----------------------------- MODULE DurableLog -----------------------------
(***************************************************************************)
(* What the journal promises to those who append to it: a log on stable    *)
(* storage that only grows at its end, and acknowledgements that follow it.*)
(* An event may be in the log and never be acknowledged (the process died  *)
(* in between); it is never acknowledged before it is in.                  *)
(***************************************************************************)
EXTENDS Integers, Sequences

CONSTANT Ids

VARIABLES log, acked

Occurs(id, s) == \E k \in DOMAIN s : s[k] = id

Init == log = <<>> /\ acked = <<>>

\* An event reaches stable storage: by its fsync, or because the process or
\* the power died after its bytes were written.
Commit == /\ UNCHANGED acked
          /\ Len(log') > Len(log)
          /\ LET id == log'[Len(log')]
             IN id \in Ids /\ log' = Append(log, id) /\ ~Occurs(id, log)

\* The last event of the log is acknowledged, once.
Acknowledge == /\ log # <<>> /\ ~Occurs(log[Len(log)], acked)
               /\ acked' = Append(acked, log[Len(log)])
               /\ UNCHANGED log

Next == Commit \/ Acknowledge
Spec == Init /\ [][Next]_<<log, acked>>
==========================================================================

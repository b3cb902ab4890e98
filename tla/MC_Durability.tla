--------------------------- MODULE MC_Durability ---------------------------
(* What outlives the process, one store per behaviour: the tickets of      *)
(* interrupted runs (RunTickets) and the journal (Journal).                *)
EXTENDS RunTickets, Journal

VARIABLE machine

Env(faults, left, appends, readers) ==
  [faults |-> faults, left |-> left, appends |-> appends, readers |-> readers]

\* Crashes, losses of power, damage with stops, with crashes and with losses
\* of power, failed writes, and a reader.  Two records fill a segment (SegSize
\* 3), and so does one record with a torn one behind it.
MCEnvironments ==
  {Env({"stop", "crash", "fsync", "rotate"}, 3, 4, {}),
   Env({"stop", "power", "fsync", "rotate"}, 3, 4, {}),
   Env({"corrupt", "stop"}, 4, 5, {}),
   Env({"corrupt", "crash", "fsync"}, 3, 4, {}),
   Env({"corrupt", "crash", "power"}, 3, 4, {}),
   Env({"write", "stop"}, 3, 4, {}),
   Env({"crash", "fsync", "rotate"}, 2, 4, Readers),
   Env({"fsync", "rotate", "power"}, 2, 4, Readers)}

all == <<machine, vars, journal>>

OfTickets(Action) == machine = "tickets" /\ Action /\ UNCHANGED <<machine, journal>>
OfJournal(Action) == machine = "journal" /\ Action /\ UNCHANGED <<machine, vars>>

DurabilityInit ==
  /\ machine \in {"tickets", "journal"}
  /\ Init /\ (machine = "journal" => retrying = {})
  /\ JournalInit /\ (machine = "tickets" => env = Env({"write", "stop"}, 3, 4, {}))

DurabilityNext == OfTickets(Next) \/ OfJournal(JournalNext)

DurabilitySpec ==
  /\ DurabilityInit /\ [][DurabilityNext]_all
  /\ WF_all(OfTickets(ReadTickets))
  /\ \A r \in Runs : WF_all(OfTickets(Resumes(r)))
  /\ \A f \in Frames : WF_all(OfTickets(Works(f)))
  /\ WF_all(OfJournal(Goes))
==========================================================================

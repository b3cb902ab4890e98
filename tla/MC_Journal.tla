----------------------------- MODULE MC_Journal -----------------------------
(* Journals that meet one kind of trouble each: a write that fails, an     *)
(* fsync that fails beside a reader, damage and a loss of power.           *)
EXTENDS Journal

Env(faults, left, readers) ==
  {[faults |-> faults, left |-> left, appends |-> 4, readers |-> readers]}

WriteErrors == Env({"write"}, 1, {})
FsyncErrors == Env({"fsync"}, 1, Readers)
DamageAndPower == Env({"corrupt", "power"}, 3, {})
==========================================================================

----------------------------- MODULE StateStore -----------------------------
(***************************************************************************)
(* kernel/state, one namespace: a map in memory and the file that every    *)
(* change rewrites (internal/atomicfile: temporary file, fsync, rename).   *)
(* The store's lock is held from the change to the end of the write, so    *)
(* only a crash falls between two steps.  A killed process leaves the file *)
(* it had.  A loss of power also undoes renames and removals the file      *)
(* system has not written yet: the store never syncs the directory, so     *)
(* answered changes go with them (PersistedSynchronously).                 *)
(***************************************************************************)
EXTENDS Functions

CONSTANTS StoreKeys, Values

Absent == "absent"
None == "none"

ASSUME StoreAssumption == None \notin StoreKeys

Lookup(bucket, k) == IF k \in DOMAIN bucket THEN bucket[k] ELSE Absent

VARIABLES
  up,
  memory,    \* the bucket, empty when there is none
  file,      \* [data, form]: its bucket (empty: no file), "synced", "unsynced" or "garbled"
  durable,   \* the file a power loss brings back
  temp,      \* the temporary file of memory: None, "unsynced" or "synced"
  changing,  \* the key of the operation under way, or None
  promised,  \* key -> what its last answered operation left (history)
  doubtful,  \* keys whose last change failed or was cut short (history)
  settled    \* the two as of the last directory write (history)

store == <<up, memory, file, durable, temp, changing, promised, doubtful, settled>>

NoFile == [data |-> <<>>, form |-> "synced"]

StoreInit ==
  /\ up = TRUE /\ memory = <<>>
  /\ file = NoFile /\ durable = NoFile /\ temp = None
  /\ changing = None
  /\ promised = [k \in StoreKeys |-> Absent] /\ doubtful = {}
  /\ settled = [promised |-> promised, doubtful |-> doubtful]

Ready == up /\ changing = None
--------------------------------------------------------------------------
\* Set and Delete change memory, then write it.

Change(k, bucket) ==
  /\ Ready
  /\ memory' = bucket /\ changing' = k
  /\ UNCHANGED <<up, file, durable, temp, promised, doubtful, settled>>

Set(k, v) == Change(k, [x \in DOMAIN memory \cup {k} |-> IF x = k THEN v ELSE memory[x]])

Delete(k) == Ready /\ k \in DOMAIN memory /\ Change(k, Restrict(memory, DOMAIN memory \ {k}))

\* A key that is not in memory is deleted without a look at the file: one
\* whose removal failed on disk before stays doubtful.
DeleteMissing(k) ==
  /\ Ready /\ k \notin DOMAIN memory
  /\ promised' = [promised EXCEPT ![k] = Absent]
  /\ UNCHANGED <<up, memory, file, durable, temp, changing, doubtful, settled>>

WriteTemp ==
  /\ up /\ changing # None /\ memory # <<>> /\ temp = None
  /\ temp' = "unsynced"
  /\ UNCHANGED <<up, memory, file, durable, changing, promised, doubtful, settled>>

SyncTemp ==
  /\ temp = "unsynced"
  /\ temp' = "synced"
  /\ UNCHANGED <<up, memory, file, durable, changing, promised, doubtful, settled>>

\* The operation returns nil.
Answer ==
  /\ promised' = [promised EXCEPT ![changing] = Lookup(memory, changing)]
  /\ doubtful' = doubtful \ {changing}
  /\ changing' = None /\ temp' = None
  /\ UNCHANGED <<up, memory, durable, settled>>

\* Mutant: the temporary file is renamed without being synced.
RenameUnsynced == temp = "unsynced" /\ file' = [data |-> memory, form |-> temp] /\ Answer

Rename == temp = "synced" /\ file' = [data |-> memory, form |-> temp] /\ Answer

\* snapshotLocked of an empty bucket.
RemoveFile == up /\ changing # None /\ memory = <<>> /\ file' = NoFile /\ Answer

\* Any step of the write fails: the file is untouched, memory stays changed.
Fail ==
  /\ up /\ changing # None
  /\ doubtful' = doubtful \cup {changing}
  /\ changing' = None /\ temp' = None
  /\ UNCHANGED <<up, memory, file, durable, promised, settled>>
--------------------------------------------------------------------------
\* The machine.

\* The file system writes the directory, in its own time.
Flush ==
  /\ durable' = file
  /\ settled' = [promised |-> promised, doubtful |-> doubtful]
  /\ UNCHANGED <<up, memory, file, temp, changing, promised, doubtful>>

Down ==
  /\ up
  /\ up' = FALSE /\ memory' = <<>> /\ temp' = None /\ changing' = None
  /\ UNCHANGED <<durable, settled>>

Kill ==
  /\ Down
  /\ doubtful' = doubtful \cup (StoreKeys \cap {changing})
  /\ UNCHANGED <<file, promised>>

\* What a loss of power would leave on disk.
AfterPowerLoss == [durable EXCEPT !.form = IF @ = "synced" THEN @ ELSE "garbled"]

\* Every answer since the last directory write is void with the change it
\* confirmed: the histories go back with the file, as a whole.
PowerLoss ==
  /\ Down
  /\ file' = AfterPowerLoss
  /\ promised' = settled.promised /\ doubtful' = settled.doubtful

\* Open: a file that cannot be parsed is an error.
Open ==
  /\ ~up /\ file.form # "garbled"
  /\ up' = TRUE /\ memory' = file.data
  /\ UNCHANGED <<file, durable, temp, changing, promised, doubtful, settled>>
--------------------------------------------------------------------------
StoreNext ==
  \/ \E k \in StoreKeys : Delete(k) \/ DeleteMissing(k) \/ \E v \in Values : Set(k, v)
  \/ WriteTemp \/ SyncTemp \/ Rename \/ RemoveFile \/ Fail
  \/ Flush \/ Kill \/ PowerLoss \/ Open

StoreSpec == StoreInit /\ [][StoreNext]_store
--------------------------------------------------------------------------
\* Through failed writes and killed processes, a key whose last change was
\* answered with nil is on disk, and in memory until it changes again, as that
\* change left it: also after changes of other keys that failed half-way and
\* share its file.  A loss of power takes the store back to the answers of
\* the last directory write, never to part of them, and never to a file that
\* cannot be read (state.go:117-153, 197-210, atomicfile.go:26-60).
PromisesKept ==
  /\ file.form # "garbled"
  /\ \A k \in StoreKeys \ doubtful :
       /\ Lookup(file.data, k) = promised[k]
       /\ up /\ k # changing => Lookup(memory, k) = promised[k]

\* Close's claim: "the on-disk representation is up to date already (Set and
\* Delete persist synchronously)".  With no operation under way, what a loss
\* of power would leave holds every answered change (state.go:192-193).
PersistedSynchronously ==
  up /\ changing = None =>
    \A k \in StoreKeys \ doubtful : Lookup(AfterPowerLoss.data, k) = promised[k]
==========================================================================

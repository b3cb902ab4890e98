------------------------------ MODULE Journal ------------------------------
(***************************************************************************)
(* kernel/journal: the append-only, hash-chained, segmented event log.     *)
(*                                                                         *)
(* A segment file is a sequence of cells.  A "line" cell is a record with  *)
(* its newline (two units of size), a "frag" cell is an unterminated piece *)
(* of one (one unit).  A record written behind a fragment shares a line    *)
(* with it and cannot be decoded: its cell is not ok, as is the cell of a  *)
(* record damaged on disk.  `synced` counts the cells of a segment that    *)
(* are on stable storage; the rest is in the page cache, which survives    *)
(* the death of the process and not the loss of power.                     *)
(*                                                                         *)
(* Append, Open and the quarantine run file operation by file operation,   *)
(* so that a crash falls between any two of them.  The names the quarantine *)
(* gives are on stable storage once the directory is synced.  Readers      *)
(* (Range, Verify) take no lock: they read chunk by chunk, and a chunk may *)
(* end within a line.                                                      *)
(***************************************************************************)
EXTENDS Integers, Sequences, FiniteSets, Functions

CONSTANTS
  SegSize,     \* rotation threshold (segBytes), in size units
  Readers,     \* goroutines that call Range
  Environments \* what may happen around the journal: the kinds of stop and
               \* fault and the readers that occur together, with the bounds
               \* on faults and on appends

FaultKinds == {"write", "fsync", "rotate", "stop", "crash", "power", "corrupt"}

ASSUME JournalAssumption ==
  /\ SegSize \in Nat \ {0}
  /\ \A e \in Environments :
       e \in [faults : SUBSET FaultKinds, left : Nat, appends : Nat,
              readers : SUBSET Readers]

VARIABLES
  disk,      \* segment index -> [cells, synced]
  aside,     \* records whose bytes are in *.quarantined-* files
  copied,    \* copied tails (sets of records) in files with no durable name yet
  renamed,   \* index -> cells of a segment renamed whole, its new name not
             \* durable yet
  unnamed,   \* ids moved aside by an Open that did not return (history)
  vanished,  \* records of copied tails that a loss of power took (history)
  pc,        \* what the process is doing
  nextSeq, head, curIndex, curBytes,  \* the Journal struct
  at,        \* segment under scan, or being quarantined
  good,      \* cells of segment `at` that verified
  gap,       \* records this Open moved aside (Recovery)
  ev,        \* the event Append is writing
  acked,     \* events whose Append returned nil, in order (history)
  made,      \* events created so far
  env,       \* the environment: the faults still to come, and who reads
  reader     \* reader -> its call: segments to read, cells read of the first,
             \* id of a line read in part, chain so far; whether a failed fsync
             \* cut off bytes it had read (history)

mem == <<nextSeq, head, curIndex, curBytes>>
open == <<at, good, gap>>
quarantine == <<aside, copied, renamed, vanished>>
moved == <<quarantine, unnamed>>
journal == <<disk, moved, pc, mem, open, ev, acked, made, env, reader>>

Genesis == 0    \* the id standing for event.GenesisHash
NoRecord == [kind |-> "line", id |-> Genesis, seq |-> 0, prev |-> Genesis,
         ok |-> FALSE, names |-> {}]
Frag == [NoRecord EXCEPT !.kind = "frag"]
EmptySegment == [cells |-> <<>>, synced |-> 0]

IsLine(c) == c.kind = "line"
Units(c) == IF IsLine(c) THEN 2 ELSE 1
Lines(cells) == SelectSeq(cells, IsLine)
Records(cells) == {c \in Range(cells) : IsLine(c)}
\* The bytes of a file.
Size(cells) == Len(cells) + Cardinality({p \in DOMAIN cells : IsLine(cells[p])})
EndsTorn(cells) == cells # <<>> /\ ~IsLine(cells[Len(cells)])
\* Behind its first k cells a file has a torn tail at most.
WholeUpTo(cells, k) == \A p \in k + 1..Len(cells) : ~IsLine(cells[p])

\* A file cut to n units: a line cut in the middle leaves a fragment.
Cut(cells, n) ==
  LET k == CHOOSE k \in 0..Len(cells) :
             /\ Size(SubSeq(cells, 1, k)) <= n
             /\ k < Len(cells) => Size(SubSeq(cells, 1, k + 1)) > n
      kept == SubSeq(cells, 1, k)
  IN IF Size(kept) < n /\ k < Len(cells) THEN Append(kept, Frag) ELSE kept

\* lastCompleteOffset: the newline-terminated prefix.
Complete(cells) ==
  LET n == CHOOSE n \in 0..Len(cells) :
             (n = 0 \/ IsLine(cells[n])) /\ WholeUpTo(cells, n)
  IN SubSeq(cells, 1, n)

\* Cell p of a segment continues the chain that reached (seq, prev) before it.
Continues(cells, p, seq, prev) ==
  /\ IsLine(cells[p]) /\ cells[p].ok
  /\ cells[p].seq = seq + p - 1
  /\ cells[p].prev = IF p = 1 THEN prev ELSE cells[p - 1].id

\* How many cells do, from the first on: scanSegment.
ChainLength(cells, seq, prev) ==
  CHOOSE k \in 0..Len(cells) :
    /\ \A p \in 1..k : Continues(cells, p, seq, prev)
    /\ k < Len(cells) => ~Continues(cells, k + 1, seq, prev)

HeadAfter(cells, k, prev) == IF k = 0 THEN prev ELSE cells[k].id

Segments == DOMAIN disk
LastSegment == CHOOSE i \in Segments : \A k \in Segments : k <= i
After(i) == {k \in Segments : k > i}
FirstOf(S) == CHOOSE i \in S : \A k \in S : i <= k
WithSegment(i, s) == [k \in Segments \cup {i} |-> IF k = i THEN s ELSE disk[k]]
Without(i) == [k \in Segments \ {i} |-> disk[k]]
Resized(s, cells) ==
  [cells |-> cells,
   synced |-> IF Len(cells) < s.synced THEN Len(cells) ELSE s.synced]
NoLine == -1    \* a reader stands between two lines
IdleReader == [pc |-> "idle", todo |-> {}, read |-> 0, part |-> NoLine,
               seq |-> 0, head |-> Genesis, cut |-> FALSE]

\* A running daemon on a fresh directory.
JournalInit ==
  /\ disk = [i \in {1} |-> EmptySegment]
  /\ aside = {} /\ copied = {} /\ renamed = <<>>
  /\ unnamed = {} /\ vanished = {}
  /\ pc = "up"
  /\ nextSeq = 0 /\ head = Genesis /\ curIndex = 1 /\ curBytes = 0
  /\ at = 0 /\ good = 0 /\ gap = {}
  /\ ev = NoRecord
  /\ acked = <<>>
  /\ made = 0
  /\ env \in Environments
  /\ reader = [r \in Readers |-> IdleReader]

Fault(kind) == /\ kind \in env.faults /\ env.left > 0
               /\ env' = [env EXCEPT !.left = @ - 1]

\* Open has returned: the journal appends, or is at rest.
Serving == pc = "up" \/ (pc \in {"written", "synced"} /\ ev.names = {})

\* Open or the append fails, or the process ends: a gap that no durable
\* record names yet will never be named.
Unrecorded == unnamed' = unnamed \cup (IF Serving \/ pc = "synced" THEN {} ELSE gap)
--------------------------------------------------------------------------
\* Append, under the journal's mutex.

\* The bytes of a record land in the current segment, behind what is there.
Written(e) ==
  LET s == disk[curIndex]
      cell == [e EXCEPT !.ok = ~EndsTorn(s.cells)]
  IN [s EXCEPT !.cells = Append(s.cells, cell)]

NewEvent(names) ==
  [kind |-> "line", id |-> made + 1, seq |-> nextSeq, prev |-> head,
   ok |-> TRUE, names |-> names]

\* Write(2) succeeds.  `recording` is Open's own append of journal.recovered.
WriteEvent(names) ==
  /\ made' = made + 1
  /\ ev' = NewEvent(names)
  /\ disk' = [disk EXCEPT ![curIndex] = Written(ev')]
  /\ UNCHANGED <<moved, mem, open, acked, env, reader>>

AppendWrite == pc = "up" /\ made < env.appends /\ pc' = "written" /\ WriteEvent({})
RecordRecovery == pc = "record" /\ pc' = "written" /\ WriteEvent(gap)

\* Write(2) fails after some or none of the bytes: Append returns the error
\* and leaves the file as it is.  Open fails with its append.
WriteFails ==
  /\ (pc = "up" /\ made < env.appends) \/ pc = "record"
  /\ Fault("write")
  /\ \/ UNCHANGED disk
     \/ disk' = [disk EXCEPT ![curIndex].cells = Append(@, Frag)]
  /\ made' = made + 1
  /\ pc' = IF Serving THEN "up" ELSE "down"
  /\ Unrecorded
  /\ UNCHANGED <<quarantine, mem, open, ev, acked, reader>>

Fsync ==
  /\ pc = "written"
  /\ disk' = [disk EXCEPT ![curIndex].synced = Len(disk[curIndex].cells)]
  /\ curBytes' = curBytes + Units(ev)
  /\ pc' = "synced"
  /\ UNCHANGED <<moved, nextSeq, head, curIndex, open, ev, acked, made, env, reader>>

\* Reader r has read more of the current segment than its first n cells.
HasReadBeyond(r, n) ==
  /\ reader[r].todo # {} /\ FirstOf(reader[r].todo) = curIndex
  /\ reader[r].read > n \/ (reader[r].read = n /\ reader[r].part # NoLine)

\* Mutant: the failed append leaves its bytes behind.
FsyncFailsUntruncated ==
  /\ pc = "written"
  /\ Fault("fsync")
  /\ pc' = IF Serving THEN "up" ELSE "down"
  /\ Unrecorded
  /\ UNCHANGED <<disk, quarantine, mem, open, ev, acked, made, reader>>

\* fsync fails: truncate to the committed size; the append (or the Open
\* that records a recovery) fails.  A reader may have read what is cut off.
FsyncFails ==
  /\ pc = "written"
  /\ Fault("fsync")
  /\ LET left == Cut(disk[curIndex].cells, curBytes)
     IN /\ disk' = [disk EXCEPT ![curIndex] = Resized(@, left)]
        /\ reader' = [r \in Readers |->
             [reader[r] EXCEPT !.cut = @ \/ HasReadBeyond(r, Len(left))]]
  /\ pc' = IF Serving THEN "up" ELSE "down"
  /\ Unrecorded
  /\ UNCHANGED <<quarantine, mem, open, ev, acked, made>>

\* syncDir: the names the directory gives are those a loss of power leaves.
RecordsOf(files) == UNION {Records(files[i]) : i \in DOMAIN files}
SetAside == aside \cup (UNION copied) \cup RecordsOf(renamed)
SyncDirectory ==
  /\ aside' = SetAside
  /\ copied' = {} /\ renamed' = <<>>
  /\ UNCHANGED <<unnamed, vanished>>

\* The event is durable: rotate if the segment is full, advance the chain,
\* return.  A failed rotation leaves everything in place.
Return(rotates) ==
  /\ pc = "synced"
  /\ nextSeq' = nextSeq + 1
  /\ head' = ev.id
  /\ acked' = Append(acked, ev)
  /\ pc' = "up"
  /\ IF rotates
       THEN /\ curBytes >= SegSize /\ curIndex + 1 \notin Segments
            /\ disk' = WithSegment(curIndex + 1, EmptySegment)
            /\ curIndex' = curIndex + 1
            /\ curBytes' = 0
            /\ SyncDirectory
       ELSE UNCHANGED <<disk, curIndex, curBytes, moved>>
  /\ UNCHANGED <<open, ev, made, reader>>

ReturnRotating == Return(TRUE) /\ UNCHANGED env
ReturnFull == curBytes >= SegSize /\ Return(FALSE) /\ Fault("rotate")
ReturnRoom == curBytes < SegSize /\ Return(FALSE) /\ UNCHANGED env
--------------------------------------------------------------------------
\* Faults of the environment.

NoMemory ==
  /\ pc' = "down"
  /\ nextSeq' = 0 /\ head' = Genesis /\ curIndex' = 0 /\ curBytes' = 0
  /\ at' = 0 /\ good' = 0 /\ gap' = {}
  /\ ev' = NoRecord
  /\ reader' = [r \in Readers |-> IdleReader]
  /\ Unrecorded

\* Close, between two appends.
Close ==
  /\ pc = "up"
  /\ Fault("stop")
  /\ NoMemory
  /\ UNCHANGED <<disk, quarantine, acked, made>>

\* The process dies, possibly in the middle of a write: what it wrote stays
\* in the page cache.
Crash ==
  /\ pc # "down"
  /\ Fault("crash")
  /\ \/ UNCHANGED disk
     \/ pc \in {"up", "record"} /\ disk' = [disk EXCEPT ![curIndex].cells = Append(@, Frag)]
  /\ NoMemory
  /\ UNCHANGED <<quarantine, acked, made>>

\* What may be left of a file after a loss of power: its synced cells, any of
\* the next ones, and a piece of the one behind them.
Leftovers(s) ==
  LET n == Len(s.cells) IN
    {SubSeq(s.cells, 1, k) : k \in s.synced..n} \cup
    {Append(SubSeq(s.cells, 1, k), Frag) : k \in {k \in s.synced..n - 1 : IsLine(s.cells[k + 1])}}

\* A segment renamed since the directory was synced may be back under its old
\* name, and a file created since may have no name at all.
PowerLoss ==
  /\ Fault("power")
  /\ \E left \in [Segments -> UNION {Leftovers(disk[i]) : i \in Segments}],
        back \in SUBSET DOMAIN renamed, lost \in SUBSET copied :
       /\ \A i \in Segments : left[i] \in Leftovers(disk[i])
       /\ LET cells(i) == IF i \in Segments THEN left[i] ELSE renamed[i]
          IN disk' = [i \in Segments \cup back |-> [cells |-> cells(i), synced |-> Len(cells(i))]]
       /\ aside' = aside \cup (UNION (copied \ lost))
                         \cup RecordsOf(Restrict(renamed, DOMAIN renamed \ back))
       /\ vanished' = vanished \cup UNION lost
  /\ copied' = {} /\ renamed' = <<>>
  /\ NoMemory
  /\ UNCHANGED <<acked, made>>

\* A committed record is damaged on disk, at any time but during an Open.
Corrupt ==
  /\ pc \in {"up", "down"}
  /\ Fault("corrupt")
  /\ \E i \in Segments : \E p \in DOMAIN disk[i].cells :
       /\ disk[i].cells[p].ok
       /\ disk' = [disk EXCEPT ![i].cells[p].ok = FALSE]
  /\ UNCHANGED <<moved, pc, mem, open, ev, acked, made, reader>>
--------------------------------------------------------------------------
\* Open.

OpenStart ==
  /\ pc = "down"
  /\ pc' = "scan"
  /\ at' = FirstOf(Segments)
  /\ good' = 0 /\ gap' = {}
  /\ nextSeq' = 0 /\ head' = Genesis
  /\ UNCHANGED <<disk, moved, curIndex, curBytes, ev, acked, made, env, reader>>

\* Mutant: a corrupt record is fatal, as it was before quarantine.
ScanFatal ==
  /\ pc = "scan"
  /\ LET cells == disk[at].cells
         k == ChainLength(cells, nextSeq, head)
     IN /\ nextSeq' = nextSeq + k
        /\ head' = HeadAfter(cells, k, head)
        /\ IF ~WholeUpTo(cells, k) THEN pc' = "down" /\ UNCHANGED at
           ELSE IF After(at) = {} THEN pc' = "position" /\ UNCHANGED at
                                  ELSE pc' = "scan" /\ at' = FirstOf(After(at))
  /\ UNCHANGED <<disk, moved, curIndex, curBytes, good, gap, ev, acked, made, env, reader>>

\* Scan one segment; the first line that breaks the chain ends the scan.
ScanSegment ==
  /\ pc = "scan"
  /\ LET cells == disk[at].cells
         k == ChainLength(cells, nextSeq, head)
     IN /\ nextSeq' = nextSeq + k
        /\ head' = HeadAfter(cells, k, head)
        /\ IF ~WholeUpTo(cells, k)
             THEN /\ pc' = "quarantine"
                  /\ good' = k
                  /\ UNCHANGED at
             ELSE /\ UNCHANGED good
                  /\ IF After(at) = {} THEN pc' = "position" /\ UNCHANGED at
                                       ELSE pc' = "scan" /\ at' = FirstOf(After(at))
  /\ UNCHANGED <<disk, moved, curIndex, curBytes, gap, ev, acked, made, env, reader>>

\* The records from the first bad one on, and what they are called.
BadTail == Records(SubSeq(disk[at].cells, good + 1, Len(disk[at].cells)))
Names(records) == {c.id : c \in records}

\* Mutant: the tail is named in the recovery event and not copied.
CopyTailSkipped ==
  /\ pc = "quarantine"
  /\ gap' = gap \cup Names(BadTail)
  /\ pc' = "truncate"
  /\ UNCHANGED <<disk, moved, mem, at, good, ev, acked, made, env, reader>>

\* copyTail: the bytes from the first bad record on, into a file of their
\* own, fsynced; its name is not.
CopyTail ==
  /\ pc = "quarantine"
  /\ copied' = copied \cup {BadTail}
  /\ gap' = gap \cup Names(BadTail)
  /\ pc' = "truncate"
  /\ UNCHANGED <<disk, aside, renamed, unnamed, vanished, mem, at, good, ev, acked, made, env, reader>>

TruncateTail ==
  /\ pc = "truncate"
  /\ disk' = [disk EXCEPT ![at] = Resized(@, SubSeq(@.cells, 1, good))]
  /\ pc' = "rename"
  /\ UNCHANGED <<moved, mem, open, ev, acked, made, env, reader>>

\* Later segments are renamed whole, one by one.
RenameSegment ==
  /\ pc = "rename" /\ After(at) # {}
  /\ LET i == FirstOf(After(at))
     IN /\ renamed' = [k \in DOMAIN renamed \cup {i} |-> IF k = i THEN disk[i].cells ELSE renamed[k]]
        /\ gap' = gap \cup Names(Records(disk[i].cells))
        /\ disk' = Without(i)
  /\ UNCHANGED <<aside, copied, unnamed, vanished, pc, mem, at, good, ev, acked, made, env, reader>>

Quarantined ==
  /\ pc = "rename" /\ After(at) = {}
  /\ SyncDirectory
  /\ pc' = "position"
  /\ UNCHANGED <<disk, mem, open, ev, acked, made, env, reader>>

\* Mutant: the recovery is not recorded.
PositionUnrecorded ==
  /\ pc = "position"
  /\ LET s == disk[LastSegment] IN
       IF Size(s.cells) >= SegSize
       THEN /\ curIndex' = LastSegment + 1
            /\ curBytes' = 0
            /\ disk' = WithSegment(curIndex', EmptySegment)
            /\ SyncDirectory
       ELSE /\ curIndex' = LastSegment
            /\ disk' = [disk EXCEPT ![LastSegment] = Resized(s, Complete(s.cells))]
            /\ curBytes' = Size(Complete(s.cells))
            /\ UNCHANGED moved
  /\ pc' = "up"
  /\ UNCHANGED <<nextSeq, head, open, ev, acked, made, env, reader>>

\* Choose where to append: a new segment when the last is full, else the
\* last one, its torn tail cut off.
Position ==
  /\ pc = "position"
  /\ LET s == disk[LastSegment] IN
       IF Size(s.cells) >= SegSize
       THEN /\ curIndex' = LastSegment + 1
            /\ curBytes' = 0
            /\ disk' = WithSegment(curIndex', EmptySegment)
            /\ SyncDirectory
       ELSE /\ curIndex' = LastSegment
            /\ disk' = [disk EXCEPT ![LastSegment] = Resized(s, Complete(s.cells))]
            /\ curBytes' = Size(Complete(s.cells))
            /\ UNCHANGED moved
  /\ pc' = IF gap = {} THEN "up" ELSE "record"
  /\ UNCHANGED <<nextSeq, head, open, ev, acked, made, env, reader>>
--------------------------------------------------------------------------
\* Range and Verify: list the segments, then open and read one after the other.

RangeStart(r) ==
  /\ Serving
  /\ r \in env.readers /\ reader[r].pc = "idle"
  /\ reader' = [reader EXCEPT ![r] = [IdleReader EXCEPT !.pc = "reading", !.todo = Segments]]
  /\ UNCHANGED <<disk, moved, pc, mem, open, ev, acked, made, env>>

\* rangeCompleteLines.  A line comes in two parts when a chunk ends within it;
\* an unterminated piece is kept until the newline of what follows it.
Reading(r) == reader[r].pc = "reading" /\ reader[r].todo # {}
OpenFile(r) == disk[FirstOf(reader[r].todo)].cells
NextCell(r) == OpenFile(r)[reader[r].read + 1]
Unread(r) == Reading(r) /\ reader[r].read < Len(OpenFile(r))

ReadPart(r) ==
  /\ Unread(r) /\ IsLine(NextCell(r)) /\ reader[r].part = NoLine
  /\ reader' = [reader EXCEPT ![r].part = NextCell(r).id]
  /\ UNCHANGED <<disk, moved, pc, mem, open, ev, acked, made, env>>

ReadPiece(r) ==
  /\ Unread(r) /\ ~IsLine(NextCell(r))
  /\ reader' = [reader EXCEPT ![r].part = Genesis, ![r].read = @ + 1]
  /\ UNCHANGED <<disk, moved, pc, mem, open, ev, acked, made, env>>

\* The rest of the line: decode, and Verify's callback.
ReadLine(r) ==
  /\ Unread(r) /\ IsLine(NextCell(r)) /\ reader[r].part # NoLine
  /\ LET s == reader[r]
         c == NextCell(r)
         verified == s.part = c.id /\ c.ok /\ c.seq = s.seq /\ c.prev = s.head
     IN reader' = [reader EXCEPT ![r] =
          IF verified
            THEN [s EXCEPT !.read = s.read + 1, !.part = NoLine, !.seq = s.seq + 1, !.head = c.id]
            ELSE [s EXCEPT !.pc = "alarm"]]
  /\ UNCHANGED <<disk, moved, pc, mem, open, ev, acked, made, env>>

\* The end of the file as it is now, or as far as a write under way has come.
AtEnd(r) ==
  \/ reader[r].read >= Len(OpenFile(r))
  \/ /\ pc = "written" /\ FirstOf(reader[r].todo) = curIndex
     /\ reader[r].read = Len(OpenFile(r)) - 1

\* Mutant: the line buffer outlives its segment.
ReadEndKeepingPart(r) ==
  /\ Reading(r) /\ AtEnd(r)
  /\ reader' = [reader EXCEPT ![r].todo = @ \ {FirstOf(@)}, ![r].read = 0]
  /\ UNCHANGED <<disk, moved, pc, mem, open, ev, acked, made, env>>

ReadEnd(r) ==
  /\ Reading(r) /\ AtEnd(r)
  /\ reader' = [reader EXCEPT ![r].todo = @ \ {FirstOf(@)}, ![r].read = 0, ![r].part = NoLine]
  /\ UNCHANGED <<disk, moved, pc, mem, open, ev, acked, made, env>>

RangeEnd(r) ==
  /\ (reader[r].pc = "reading" /\ reader[r].todo = {}) \/ reader[r].pc = "alarm"
  /\ reader' = [reader EXCEPT ![r] = IdleReader]
  /\ UNCHANGED <<disk, moved, pc, mem, open, ev, acked, made, env>>
--------------------------------------------------------------------------
AppendStep == \/ AppendWrite \/ WriteFails \/ Fsync \/ FsyncFails
              \/ ReturnRotating \/ ReturnFull \/ ReturnRoom
OpenStep == \/ OpenStart \/ ScanSegment \/ CopyTail \/ TruncateTail
            \/ RenameSegment \/ Quarantined \/ Position \/ RecordRecovery
Environment == Close \/ Crash \/ PowerLoss \/ Corrupt
ReaderStep(r) == \/ RangeStart(r) \/ ReadPart(r) \/ ReadPiece(r) \/ ReadLine(r)
                 \/ ReadEnd(r) \/ RangeEnd(r)

JournalNext == \/ AppendStep \/ OpenStep \/ Environment
               \/ \E r \in Readers : ReaderStep(r)

JournalSpec == JournalInit /\ [][JournalNext]_journal

\* The process goes on with what it has begun.
Goes == OpenStep \/ Fsync \/ ReturnRotating \/ ReturnRoom
FairJournal == JournalSpec /\ WF_journal(Goes)
--------------------------------------------------------------------------
\* The records of the live segments, in the order they are read; those of
\* them a scan from the start accepts.
OnDisk ==
  LET upTo[n \in 0..LastSegment] ==
        IF n = 0 THEN <<>>
        ELSE upTo[n - 1] \o IF n \in Segments THEN Lines(disk[n].cells) ELSE <<>>
  IN upTo[LastSegment]
Log == SubSeq(OnDisk, 1, ChainLength(OnDisk, 0, Genesis))

\* "The write is durable before the function returns": an event whose Append
\* returned is in the verifiable log.
AckedDurable == Range(acked) \subseteq Range(Log)

\* It is, whatever the failures the journal is built for do between any two
\* of its steps: a failed fsync, a failed rotation, a stop, and the death of
\* the process or a loss of power.  (A write(2) that fails half way breaks
\* it: see AckedDurable.  So does a loss of power after a crash left unsynced
\* records in the page cache, which the next Open takes for committed.)
Anticipated == \E death \in {"crash", "power"} :
                 env.faults \subseteq {"fsync", "rotate", "stop", death}

\* A write(2) that fails leaves bytes that curBytes does not count; an fsync
\* that fails behind it then truncates the last committed record too.
Miscounts == {"write", "fsync"} \subseteq env.faults

Stored == SetAside \cup UNION {Records(disk[i].cells) : i \in Segments}

\* Quarantine moves bytes and deletes none: an event that was ever
\* acknowledged is in a live segment or in a quarantined file, wherever a
\* crash or a loss of power interrupted the quarantine, also when it brings
\* renamed segments back.  Only a tail whose file had no durable name can be
\* gone (recover.go:72-92).
NothingDeleted ==
  ~Miscounts => \A e \in Range(acked) : \E c \in Stored \cup vanished : c.id = e.id

\* The gap is part of the audit trail: once Open has returned, every record
\* in a quarantined file is named by a journal.recovered event that is still
\* in the log or was itself quarantined later.  (Unless the Open that moved
\* it did not return: then nothing ever names the gap.)
GapRecorded ==
  ~Miscounts /\ pc = "up" =>
    \A c \in SetAside : c.id \in unnamed \/ \E d \in Stored \cup vanished : c.id \in d.names

\* "Nothing is deleted: the tail is copied out and fsynced before the segment
\* is truncated" (recover.go:58-59).
NothingLost == \A e \in Range(acked) : \E c \in Stored : c.id = e.id

\* Range sees a gapless chain although it takes no lock while lines are
\* written, torn lines are left at the end of segments and segments rotate:
\* on records that no failed write and no damage has touched, Verify raises an
\* alarm only where a failed fsync cut off bytes it had already read.
RangeContiguous ==
  env.faults \cap {"write", "corrupt"} = {} =>
    \A r \in Readers : reader[r].pc = "alarm" => reader[r].cut

\* Verify "returns nil iff the entire chain is intact" (journal_io.go:166-168).
AlarmMeansBreak ==
  \A r \in Readers : reader[r].pc = "alarm" => ChainLength(OnDisk, 0, Genesis) < Len(OnDisk)

\* Under the failures it is built for the journal implements DurableLog: its
\* log is what a scan would accept, without the record whose Append has not
\* passed its fsync yet.
Settled == LET passed(e) == pc # "written" \/ e.id # ev.id IN SelectSeq(Log, passed)
Promised(s) == IF Anticipated THEN [k \in DOMAIN s |-> s[k].id] ELSE <<>>
EventIds == UNION {1..(e.appends + e.left) : e \in Environments}

Durable == INSTANCE DurableLog WITH log <- Promised(Settled), acked <- Promised(acked),
                                    Ids <- EventIds
ImplementsDurableLog == Durable!Spec

\* A daemon that went down comes back, whatever is on its disk (a corrupt
\* record is "quarantined, not fatal").
ComesBack == pc = "down" ~> pc = "up"
==========================================================================

------------------------------- MODULE Journal -------------------------------
(***************************************************************************)
(* The write-ahead journal of internal/storage: a directory of append-only *)
(* files, replayed in the lexicographic order of their names, together     *)
(* with checkpoint.json, which names the files a compaction has made       *)
(* obsolete.                                                               *)
(*                                                                         *)
(* A file name is a clock reading (journalName), so names are natural      *)
(* numbers.  A journal record gives new contents to one message or, for a  *)
(* batch ("transaction"), to several: it is a function from message IDs to *)
(* entries in which the entry None marks the IDs it does not mention.      *)
(***************************************************************************)
EXTENDS Naturals, Sequences, FiniteSets

CONSTANTS
    Ids,            \* message IDs
    Rcpts,          \* envelope recipients
    MaxAttempts,    \* bound on the attempt counter of an entry
    MaxFile,        \* bound on journal file names
    MaxRecords,     \* bound on the records in the directory before a write
    ClockMonotone   \* TRUE: the wall clock never steps back between two openings

ASSUME JournalAssumption ==
    /\ MaxAttempts \in Nat
    /\ MaxFile \in Nat
    /\ MaxRecords \in Nat
    /\ ClockMonotone \in BOOLEAN

VARIABLES
    names,          \* the journal-*.log files in the directory
    files,          \* contents of each file, in file order
    covered,        \* checkpoint.json as the running system sees it
    coveredDisk,    \* checkpoint.json that is certain to survive a crash
    cur,            \* the file j.file is open on; 0 when there is none
    failed          \* the latch j.failed

journalVars == <<names, files, covered, coveredDisk, cur, failed>>

FileName == 1 .. MaxFile

-----------------------------------------------------------------------------
(* Entries and records.                                                    *)

Gone == {"delivered", "deleted"}
Claimed == {"queued", "processing"}
Resting == {"pending", "held", "failed", "stored"}
Status == {"none"} \cup Resting \cup Claimed \cup Gone

Entry == [status : Status, to : SUBSET Rcpts, attempts : 0 .. MaxAttempts]

None == [status |-> "none", to |-> {}, attempts |-> 0]

Record == [Ids -> Entry]

Mentions(rec, m) == rec[m].status # "none"

\* The record of a single-entry Write.
Single(m, e) == [i \in Ids |-> IF i = m THEN e ELSE None]

-----------------------------------------------------------------------------
(* Replay, as functions of the file contents fs and the files ns it reads. *)

\* The places of the records Replay returns.
Places(fs, ns) == UNION {{f} \X DOMAIN fs[f] : f \in ns}

EntryAt(fs, p, m) == fs[p[1]][p[2]][m]

\* Replay order: file name first, position in the file second.
Before(p, q) == p[1] < q[1] \/ (p[1] = q[1] /\ p[2] < q[2])

History(fs, ns, m) == {p \in Places(fs, ns) : Mentions(fs[p[1]][p[2]], m)}

IsLast(fs, ns, m, p) ==
    /\ p \in History(fs, ns, m)
    /\ \A q \in History(fs, ns, m) : q = p \/ Before(q, p)

\* What recover makes of one record: tombstones remove, claims are undone.
Restored(e) ==
    IF e.status \in Gone THEN None
    ELSE IF e.status \in Claimed THEN [e EXCEPT !.status = "pending"]
    ELSE e

\* recover applies the records in replay order, so the last one wins.
Replayed(fs, ns, m) ==
    IF History(fs, ns, m) = {} THEN None
    ELSE Restored(EntryAt(fs, CHOOSE p \in History(fs, ns, m) : IsLast(fs, ns, m, p), m))

\* Replaying fs over ns makes e of message m.
Says(fs, ns, m, e) ==
    \/ History(fs, ns, m) = {} /\ e = None
    \/ \E p \in History(fs, ns, m) :
          IsLast(fs, ns, m, p) /\ e = Restored(EntryAt(fs, p, m))

\* recover adds a message to the dead letter queue at a failed record and
\* removes it only at a tombstone.
ReplayedDLQ(fs, ns) ==
    {m \in Ids : \E p \in History(fs, ns, m) :
        /\ EntryAt(fs, p, m).status = "failed"
        /\ \A q \in History(fs, ns, m) :
              Before(p, q) => EntryAt(fs, q, m).status \notin Gone}

\* Replay skips the files the checkpoint covers.
Recovered(cov, m) == Replayed(files, names \ cov, m)

\* Mutant: recover leaves the dead letter queue empty.
RecoveredDLQEmpty(cov) == {}

RecoveredDLQ(cov) == ReplayedDLQ(files, names \ cov)

-----------------------------------------------------------------------------
(* Steps on the files.                                                     *)

\* A name journalName may return now.
FreshName(n) ==
    /\ n \in FileName \ (names \cup covered \cup coveredDisk)
    /\ ClockMonotone => \A k \in names : k < n

Appended(f, rec) == [files EXCEPT ![f] = Append(@, rec)]

HasRoom == Cardinality(Places(files, names)) < MaxRecords

\* writeLocked: encoded and synced.
WriteOk(rec) ==
    /\ ~failed /\ HasRoom
    /\ files' = Appended(cur, rec)
    /\ UNCHANGED <<names, covered, coveredDisk, cur, failed>>

\* writeLocked: the write failed and so did the rollback.  The record may be
\* complete in the file, or cut off and ignored by replayFile; nothing is
\* written after it.  (A write that is rolled back changes nothing.)
WriteLatched(rec) ==
    /\ ~failed /\ HasRoom
    /\ files' \in {files, Appended(cur, rec)}
    /\ failed' = TRUE
    /\ UNCHANGED <<names, covered, coveredDisk, cur>>

\* NewJournal: a new file is created and the directory synced.
Open(n) ==
    /\ FreshName(n)
    /\ names' = names \cup {n}
    /\ files' = [files EXCEPT ![n] = <<>>]
    /\ cur' = n
    /\ failed' = FALSE
    /\ coveredDisk' = covered
    /\ UNCHANGED covered

\* The process is gone; a checkpoint renamed but not yet synced into the
\* directory may be lost.
Lose ==
    /\ covered' \in {covered, coveredDisk}
    /\ coveredDisk' = covered'
    /\ cur' = 0
    /\ failed' = FALSE
    /\ UNCHANGED <<names, files>>

JournalInit ==
    /\ names = {}
    /\ files = [n \in FileName |-> <<>>]
    /\ covered = {}
    /\ coveredDisk = {}
    /\ cur = 0
    /\ failed = FALSE

JournalTypeOK ==
    /\ names \subseteq FileName
    /\ files \in [FileName -> Seq(Record)]
    /\ covered \subseteq FileName
    /\ coveredDisk \subseteq FileName
    /\ cur \in FileName \cup {0}
    /\ failed \in BOOLEAN
=============================================================================

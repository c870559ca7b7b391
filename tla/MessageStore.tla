----------------------------- MODULE MessageStore -----------------------------
(***************************************************************************)
(* MessageStore (internal/storage): the in-memory index and dead letter    *)
(* queue over the journal, the operations that change them, compaction     *)
(* step by step, and crash and recovery.                                   *)
(*                                                                         *)
(* Every operation holds indexMu from its first read to its last write, so *)
(* it is one action; Compact holds indexMu and the journal's mutex for its *)
(* whole run, so its steps interleave only with a crash.                   *)
(***************************************************************************)
EXTENDS Journal

CONSTANTS
    Counted,        \* IDs whose tier counts against the spool limits
    Emergency,      \* counted IDs of tier "emergency", accepted past the limit
    MaxMessages,    \* Limits.MaxMessages; 0 means unlimited
    CleanRemoval    \* TRUE: an abandoned snapshot is removed, and stays removed

ASSUME StoreAssumption ==
    /\ Counted \subseteq Ids
    /\ Emergency \subseteq Counted
    /\ MaxMessages \in Nat
    /\ CleanRemoval \in BOOLEAN

VARIABLES
    up,             \* the process runs and owns the directory (owner lock)
    index,          \* s.index; None stands for an absent key
    dlq,            \* keys of s.dlq
    compact,        \* where Compact is, and its local variables
    doubt           \* history: per message, entries the journal may hold
                    \* although their operation was reported as failed

vars == <<names, files, covered, coveredDisk, cur, failed,
          up, index, dlq, compact, doubt>>

Idle == [pc |-> "idle", todo |-> {}, done |-> {}, old |-> {}, snap |-> 0]

Present(m) == index[m].status # "none"

\* The lock indexMu is free and the store runs.
Ready == up /\ compact.pc = "idle"

-----------------------------------------------------------------------------
(* Journalling an operation.                                               *)

\* The index after a record is applied by an operation, not by recovery.
Applied(rec) == [m \in Ids |-> IF ~Mentions(rec, m) THEN index[m]
                               ELSE IF rec[m].status \in Gone THEN None
                               ELSE rec[m]]

\* Journal first, index second; on a latched failure the index stays.
Commit(rec, newDlq) ==
    /\ Ready
    /\ \/ /\ WriteOk(rec)
          /\ index' = Applied(rec)
          /\ dlq' = newDlq
          /\ doubt' = [m \in Ids |-> IF Mentions(rec, m) THEN {} ELSE doubt[m]]
       \/ /\ WriteLatched(rec)
          /\ doubt' = [m \in Ids |-> IF Mentions(rec, m) THEN doubt[m] \cup {rec[m]}
                                    ELSE doubt[m]]
          /\ UNCHANGED <<index, dlq>>
    /\ UNCHANGED <<up, compact>>

-----------------------------------------------------------------------------
(* The operations.                                                         *)

Occupied == {m \in Counted : Present(m)}

\* capacity
WithinLimits == MaxMessages = 0 \/ Cardinality(Occupied) < MaxMessages

\* The record of a new message and its receipts.
NewRecord(m, st, to, receipts) ==
    LET entry(s) == [status |-> s, to |-> to, attempts |-> 0]
    IN  [i \in Ids |-> IF i = m THEN entry(st)
                       ELSE IF i \in receipts THEN entry("stored")
                       ELSE None]

\* Mutants: a receipt in use is stored again; the limit is not applied.
StoreOverReceipt(m, st, to, receipts) ==
    /\ ~Present(m)
    /\ m \in Counted \ Emergency => WithinLimits
    /\ m \notin receipts /\ \A r \in receipts : r \notin Counted
    /\ Commit(NewRecord(m, st, to, receipts), dlq)

StoreOverLimit(m, st, to, receipts) ==
    /\ ~Present(m)
    /\ m \notin receipts /\ \A r \in receipts : r \notin Counted /\ ~Present(r)
    /\ Commit(NewRecord(m, st, to, receipts), dlq)

\* StoreWithReceipt: the message and its receipts in one record.
StoreWithReceipt(m, st, to, receipts) ==
    /\ ~Present(m)
    /\ m \in Counted \ Emergency => WithinLimits
    /\ m \notin receipts
    /\ \A r \in receipts : r \notin Counted /\ ~Present(r)
    /\ Commit(NewRecord(m, st, to, receipts), dlq)

\* UpdateStatus: no comparison with the current status.
UpdateStatus(m, st) ==
    /\ Present(m)
    /\ Commit(Single(m, [index[m] EXCEPT !.status = st]),
              IF st = "failed" THEN dlq \cup {m} ELSE dlq \ {m})

UpdateRecipients(m, to) ==
    /\ Present(m)
    /\ Commit(Single(m, [index[m] EXCEPT !.to = to]), dlq)

\* Mutant: undoing a claim also gives back an attempt.
TransitionRefunds(m, from, st) ==
    /\ Present(m) /\ index[m].status = from
    /\ st = "processing" => index[m].attempts < MaxAttempts
    /\ Commit(Single(m, [index[m] EXCEPT
                           !.status = st,
                           !.attempts = IF st = "processing" THEN @ + 1 ELSE @ - 1]),
              dlq)

\* Transition: compare-and-set on the status.
Transition(m, from, st) ==
    /\ Present(m) /\ index[m].status = from
    /\ st = "processing" => index[m].attempts < MaxAttempts
    /\ Commit(Single(m, [index[m] EXCEPT
                           !.status = st,
                           !.attempts = IF st = "processing" THEN @ + 1 ELSE @]),
              dlq)

RetryFromDLQ(m) ==
    /\ index[m].status = "failed"
    /\ Commit(Single(m, [index[m] EXCEPT !.status = "pending", !.attempts = 0]),
              dlq \ {m})

ReleaseHeld(m) ==
    /\ index[m].status = "held"
    /\ Commit(Single(m, [index[m] EXCEPT !.status = "pending"]), dlq)

-----------------------------------------------------------------------------
(* Compact.                                                                *)

\* Return with an error: the locks are released, nothing else is undone.
CompactAbort ==
    /\ compact' = Idle
    /\ UNCHANGED <<up, index, dlq>>

\* The held messages past retention are chosen.
CompactBegin(expired) ==
    /\ Ready /\ ~failed
    /\ \A m \in expired : index[m].status = "held"
    /\ compact' = [Idle EXCEPT !.pc = "expire", !.todo = expired]
    /\ UNCHANGED <<names, files, covered, coveredDisk, cur, failed,
                   up, index, dlq, doubt>>

\* One "deleted" record; the index is not touched before all are written.
CompactExpire(m) ==
    LET rec == Single(m, [index[m] EXCEPT !.status = "deleted"]) IN
    /\ compact.pc = "expire" /\ m \in compact.todo
    /\ doubt' = [doubt EXCEPT ![m] = @ \cup {rec[m]}]
    /\ \/ /\ WriteOk(rec)
          /\ compact' = [compact EXCEPT !.todo = @ \ {m}, !.done = @ \cup {m}]
          /\ UNCHANGED <<up, index, dlq>>
       \/ /\ WriteLatched(rec)
          /\ CompactAbort

\* Any call of Compact before the rename of the checkpoint fails; a snapshot
\* file already created is removed by the deferred function, which looks at no
\* error and does not sync the directory, so the file may stay or come back.
CompactFail ==
    /\ compact.pc \in {"expire", "snapshot", "synced"}
    /\ names' \in {names \ {compact.snap}} \cup (IF CleanRemoval THEN {} ELSE {names})
    /\ files' = [n \in FileName |-> IF n = compact.snap /\ n \notin names' THEN <<>>
                                    ELSE files[n]]
    /\ CompactAbort
    /\ UNCHANGED <<covered, coveredDisk, cur, failed, doubt>>

\* Expired messages leave the index and the snapshot file is created.
CompactCreate(n) ==
    /\ compact.pc = "expire" /\ compact.todo = {}
    /\ FreshName(n)
    /\ index' = [m \in Ids |-> IF m \in compact.done THEN None ELSE index[m]]
    /\ doubt' = [m \in Ids |-> IF m \in compact.done THEN {} ELSE doubt[m]]
    /\ names' = names \cup {n}
    /\ files' = [files EXCEPT ![n] = <<>>]
    /\ compact' = [compact EXCEPT
                     !.pc = "snapshot", !.old = names, !.snap = n,
                     !.todo = {m \in Ids : index'[m].status # "none"}]
    /\ UNCHANGED <<covered, coveredDisk, cur, failed, up, dlq>>

CompactWrite(m) ==
    /\ compact.pc = "snapshot" /\ m \in compact.todo
    /\ files' = Appended(compact.snap, Single(m, index[m]))
    /\ compact' = [compact EXCEPT !.todo = @ \ {m}]
    /\ UNCHANGED <<names, covered, coveredDisk, cur, failed,
                   up, index, dlq, doubt>>

\* Mutant: the snapshot is used before every message is in it.
CompactSyncEarly ==
    /\ compact.pc = "snapshot"
    /\ coveredDisk' = covered
    /\ compact' = [compact EXCEPT !.pc = "synced", !.todo = {}]
    /\ UNCHANGED <<names, files, covered, cur, failed, up, index, dlq, doubt>>

\* The snapshot and then the directory are synced, which also makes an
\* earlier rename of checkpoint.json durable.
CompactSync ==
    /\ compact.pc = "snapshot" /\ compact.todo = {}
    /\ coveredDisk' = covered
    /\ compact' = [compact EXCEPT !.pc = "synced"]
    /\ UNCHANGED <<names, files, covered, cur, failed, up, index, dlq, doubt>>

\* checkpoint.json is renamed into place and the journal moves to the snapshot.
CompactCommit ==
    /\ compact.pc = "synced"
    /\ covered' = compact.old
    /\ cur' = compact.snap
    /\ doubt' = [m \in Ids |-> {}]
    /\ compact' = [compact EXCEPT !.pc = "renamed"]
    /\ UNCHANGED <<names, files, coveredDisk, failed, up, index, dlq>>

\* Mutant: the old files are removed without the sync.
CompactRemoveUnsynced ==
    /\ compact.pc = "renamed"
    /\ compact' = [compact EXCEPT !.pc = "remove"]
    /\ UNCHANGED <<names, files, covered, coveredDisk, cur, failed, doubt, up, index, dlq>>

\* The directory is synced, or the sync fails and Compact returns.
CompactSyncRename ==
    /\ compact.pc = "renamed"
    /\ \/ /\ coveredDisk' = covered
          /\ compact' = [compact EXCEPT !.pc = "remove"]
          /\ UNCHANGED <<up, index, dlq>>
       \/ /\ CompactAbort
          /\ UNCHANGED coveredDisk
    /\ UNCHANGED <<names, files, covered, cur, failed, doubt>>

\* A covered file is removed, or its removal fails and Compact returns.
CompactRemove(n) ==
    /\ compact.pc = "remove" /\ n \in compact.old
    /\ \/ /\ names' = names \ {n}
          /\ files' = [files EXCEPT ![n] = <<>>]
          /\ compact' = [compact EXCEPT !.old = @ \ {n}]
          /\ UNCHANGED <<up, index, dlq>>
       \/ /\ CompactAbort
          /\ UNCHANGED <<names, files>>
    /\ UNCHANGED <<covered, coveredDisk, cur, failed, doubt>>

CompactEnd ==
    /\ compact.pc = "remove" /\ compact.old = {}
    /\ CompactAbort
    /\ UNCHANGED <<names, files, covered, coveredDisk, cur, failed, doubt>>

-----------------------------------------------------------------------------
(* The process.                                                            *)

Reset ==
    /\ up' = FALSE
    /\ index' = [m \in Ids |-> None]
    /\ dlq' = {}
    /\ compact' = Idle
    /\ doubt' = [m \in Ids |-> {}]

\* The process or the machine dies, at any point, also after Close.
Crash == Lose /\ Reset

\* Close waits for indexMu; it does not sync the directory.
Close == Ready /\ Reset /\ cur' = 0 /\ failed' = FALSE
         /\ UNCHANGED <<names, files, covered, coveredDisk>>

\* NewMessageStore: open a new journal file, then recover.
Start(n) ==
    /\ ~up
    /\ Open(n)
    /\ up' = TRUE
    /\ index' = [m \in Ids |-> Recovered(covered, m)]
    /\ dlq' = RecoveredDLQ(covered)
    /\ UNCHANGED <<compact, doubt>>

Init ==
    /\ JournalInit
    /\ up = FALSE
    /\ index = [m \in Ids |-> None]
    /\ dlq = {}
    /\ compact = Idle
    /\ doubt = [m \in Ids |-> {}]

\* The statuses with which the callers create, move and finish messages.
CreatedAs == {"pending", "held", "stored"}
Finished == {"pending", "failed", "delivered", "deleted"}
Moves == {<<"pending", "queued">>, <<"queued", "processing">>,
          <<"queued", "pending">>, <<"held", "deleted">>, <<"stored", "deleted">>}

Operation ==
    \/ \E m \in Ids, st \in CreatedAs, to \in SUBSET Rcpts, rs \in SUBSET Ids :
          Cardinality(rs) <= 1 /\ StoreWithReceipt(m, st, to, rs)
    \/ \E m \in Ids, st \in Finished : UpdateStatus(m, st)
    \/ \E m \in Ids, to \in SUBSET Rcpts : UpdateRecipients(m, to)
    \/ \E m \in Ids, mv \in Moves : Transition(m, mv[1], mv[2])
    \/ \E m \in Ids : RetryFromDLQ(m)
    \/ \E m \in Ids : ReleaseHeld(m)

Compaction ==
    \/ \E expired \in SUBSET Ids : CompactBegin(expired)
    \/ \E m \in Ids : CompactExpire(m)
    \/ CompactFail
    \/ \E n \in FileName : CompactCreate(n)
    \/ \E m \in Ids : CompactWrite(m)
    \/ CompactSync
    \/ CompactCommit
    \/ CompactSyncRename
    \/ \E n \in FileName : CompactRemove(n)
    \/ CompactEnd

Next ==
    \/ Operation
    \/ Compaction
    \/ Crash
    \/ Close
    \/ \E n \in FileName : Start(n)

Spec == Init /\ [][Next]_vars

-----------------------------------------------------------------------------
(* Properties.                                                             *)

\* Type invariant of the store's state.
TypeOK ==
    /\ JournalTypeOK
    /\ up \in BOOLEAN
    /\ index \in [Ids -> Entry]
    /\ dlq \subseteq Ids
    /\ compact \in [pc : {"idle", "expire", "snapshot", "synced", "renamed", "remove"},
                    todo : SUBSET Ids, done : SUBSET Ids,
                    old : SUBSET FileName, snap : FileName \cup {0}]
    /\ doubt \in [Ids -> SUBSET Entry]

\* The contents of a message a restart would find, according to the index.
Outcomes(m) == {Restored(e) : e \in {index[m]} \cup doubt[m]}

\* Whatever instant the process dies at, each step of Compact included, and
\* whichever checkpoint survives, recover rebuilds for every message what the
\* index says, or what an operation reported as failed would have made of it.
Recoverable ==
    up => \A m \in Ids, cov \in {covered, coveredDisk} : Recovered(cov, m) \in Outcomes(m)

\* Every permanently failed message is listed by GetDLQ, also after recovery.
FailedInDLQ == up => \A m \in Ids : index[m].status = "failed" => m \in dlq

\* Limits.MaxMessages bounds the ordinary mail in the spool (emergency mail
\* is accepted past it), also after a restart that finds a doubtful record.
SpoolBounded ==
    MaxMessages > 0 =>
        Cardinality({m \in Occupied : m \notin Emergency}) <= MaxMessages

-----------------------------------------------------------------------------
(* The inductive invariant behind Recoverable.                             *)

Snapshotting == compact.pc \in {"snapshot", "synced"}

\* The files with the history of the store, without an unfinished snapshot.
Base == IF Snapshotting THEN names \ {compact.snap} ELSE names

\* Replaying the history under either checkpoint is defined for every message
\* and, while the store runs, gives one of the allowed outcomes.
BaseReplay ==
    \A m \in Ids, cov \in {covered, coveredDisk} :
        \E e \in Entry : /\ Says(files, Base \ cov, m, e)
                         /\ up => e \in Outcomes(m)

\* The open file is the newest one of the history and no checkpoint covers it.
Newest ==
    up => /\ cur \in Base \ (covered \cup coveredDisk)
          /\ \A n \in Base : n <= cur

\* A store that does not run has no volatile state.
Down ==
    ~up => /\ index = [m \in Ids |-> None] /\ doubt = [m \in Ids |-> {}]
           /\ compact = Idle

\* An absent message has no recipients and no attempts.
AbsentIsNone == \A m \in Ids : index[m].status = "none" => index[m] = None

\* As long as nothing is latched, only an interrupted Compact leaves doubts.
DoubtDeleted == ~failed => \A m \in Ids : \A e \in doubt[m] : e.status = "deleted"

\* Compact, phase by phase.
Phases ==
    /\ compact.pc # "idle" => ~failed
    /\ compact.pc \in {"idle", "expire"} => compact.snap = 0
    /\ compact.pc = "expire" =>
          \A m \in compact.done, cov \in {covered, coveredDisk} :
              Says(files, names \ cov, m, None)
    /\ Snapshotting =>
          /\ compact.old = names \ {compact.snap}
          /\ compact.snap \in names \ (covered \cup coveredDisk)
          /\ cur < compact.snap
          /\ \A m \in compact.todo : Present(m)
          /\ \A m \in Ids :
                IF Present(m) /\ m \notin compact.todo
                THEN \E p \in History(files, {compact.snap}, m) :
                        /\ IsLast(files, {compact.snap}, m, p)
                        /\ EntryAt(files, p, m) = index[m]
                ELSE History(files, {compact.snap}, m) = {}
    /\ compact.pc = "synced" => compact.todo = {}
    /\ compact.pc \in {"renamed", "remove"} => compact.old \subseteq covered
    /\ compact.pc = "remove" => coveredDisk = covered

\* What every step of the store preserves, if the clock does not step back and
\* abandoned snapshots stay removed.
IInv == TypeOK /\ BaseReplay /\ Newest /\ Down /\ AbsentIsNone /\ DoubtDeleted /\ Phases

-----------------------------------------------------------------------------
\* The store implements Spool: compaction, crash and recovery are invisible.
Contents == [m \in Ids |-> IF up THEN Restored(index[m]) ELSE Recovered(covered, m)]
Doubts == [m \in Ids |-> {Restored(e) : e \in doubt[m]}]
Abstract == INSTANCE Spool WITH spool <- Contents, inDoubt <- Doubts
ImplementsSpool == Abstract!SpoolSpec

\* Either checkpoint tells the same history.
Alike ==
    \A m \in Ids : Replayed(files, Base \ covered, m) = Replayed(files, Base \ coveredDisk, m)

\* The index holds no tombstone, and Compact expires held messages only.
Listed ==
    /\ \A m \in Ids : index[m].status \notin Gone
    /\ compact.pc = "expire" =>
          \A m \in compact.todo \cup compact.done : index[m].status = "held"

\* Counted messages that are in the spool, or that a restart may find there.
Kept == {m \in Counted : \E e \in {Contents[m]} \cup Doubts[m] : e.status # "none"}

\* The limit holds with the doubtful messages counted in.
KeptBounded ==
    MaxMessages > 0 => IsFiniteSet(Kept) /\ Cardinality(Kept \ Emergency) <= MaxMessages

\* What the refinement and the limit need of every state.
SInv == IInv /\ Alike /\ Listed /\ KeptBounded
=============================================================================

-------------------------- MODULE MessageStoreProofs --------------------------
(***************************************************************************)
(* The invariants of MessageStore hold for any messages, recipients and    *)
(* bounds: what replay reads from the journal, the operations that append  *)
(* to it, compaction, crash and restart.  The store implements Spool, and its*)
(* spool stays within the limit.                                           *)
(***************************************************************************)
EXTENDS MessageStore, FiniteSetTheorems, TLAPS

-----------------------------------------------------------------------------
(* Replay, as a function of the files.                                     *)

\* What the directory holds.
Files == [FileName -> Seq(Record)]

\* The contents gs come from fs by appending to, or by emptying, the file f.
IsAppend(gs, fs, f, rec) == gs = [fs EXCEPT ![f] = Append(@, rec)]
IsEmptied(gs, fs, f) == gs = [fs EXCEPT ![f] = <<>>]

\* A place is a file and a position in it.
LEMMA PlaceParts ==
  ASSUME NEW fs \in Files, NEW ns \in SUBSET FileName
  PROVE  \A p : p \in Places(fs, ns) <=>
                  /\ p = <<p[1], p[2]>>
                  /\ p[1] \in ns
                  /\ p[2] \in 1 .. Len(fs[p[1]])
<1>1. ASSUME NEW p
      PROVE  p \in Places(fs, ns) <=> \E f \in ns : p \in {f} \X DOMAIN fs[f]
  BY Zenon DEF Places
<1>2. \A f \in ns : DOMAIN fs[f] = 1 .. Len(fs[f])
  BY DEF Files
<1> QED
  BY <1>1, <1>2

\* The places of the records on one message.
LEMMA HistoryParts ==
  ASSUME NEW fs \in Files, NEW ns \in SUBSET FileName, NEW m \in Ids
  PROVE  \A p : p \in History(fs, ns, m) <=>
                  /\ p = <<p[1], p[2]>>
                  /\ p[1] \in ns
                  /\ p[2] \in 1 .. Len(fs[p[1]])
                  /\ fs[p[1]][p[2]][m].status # "none"
BY Zenon, PlaceParts DEF History, Mentions

\* Replay order is a strict order on places.
LEMMA LastUnique ==
  ASSUME NEW fs \in Files, NEW ns \in SUBSET FileName, NEW m \in Ids,
         NEW p, NEW q, IsLast(fs, ns, m, p), IsLast(fs, ns, m, q)
  PROVE  p = q
<1>1. /\ p \in History(fs, ns, m) /\ q \in History(fs, ns, m)
      /\ q = p \/ Before(q, p)
      /\ p = q \/ Before(p, q)
  BY Zenon DEF IsLast
<1>2. /\ p[1] \in Nat /\ p[2] \in Nat /\ q[1] \in Nat /\ q[2] \in Nat
  BY <1>1, HistoryParts DEF FileName
<1> QED
  BY <1>1, <1>2 DEF Before

\* Says determines what Replayed returns.
LEMMA SaysReplayed ==
  ASSUME NEW fs \in Files, NEW ns \in SUBSET FileName, NEW m \in Ids,
         NEW e, Says(fs, ns, m, e)
  PROVE  Replayed(fs, ns, m) = e
<1>1. CASE History(fs, ns, m) = {}
  BY Zenon, <1>1 DEF Says, Replayed
<1>2. CASE History(fs, ns, m) # {}
  <2>1. PICK p \in History(fs, ns, m) :
           IsLast(fs, ns, m, p) /\ e = Restored(EntryAt(fs, p, m))
    BY Zenon, <1>2 DEF Says
  <2> DEFINE c == CHOOSE x \in History(fs, ns, m) : IsLast(fs, ns, m, x)
  <2>2. IsLast(fs, ns, m, c)
    BY Zenon, <2>1
  <2>3. c = p
    BY Zenon, <2>1, <2>2, LastUnique
  <2> QED
    BY <1>2, <2>1, <2>3, ZenonT(30) DEF Replayed
<1> QED
  BY Zenon, <1>1, <1>2

\* Equal histories with equal entries say the same.
LEMMA SameHistory ==
  ASSUME NEW fs, NEW ns, NEW gs, NEW ks, NEW m, NEW e,
         Says(fs, ns, m, e),
         History(gs, ks, m) = History(fs, ns, m),
         \A p \in History(fs, ns, m) : EntryAt(gs, p, m) = EntryAt(fs, p, m)
  PROVE  Says(gs, ks, m, e)
<1>1. CASE History(fs, ns, m) = {}
  BY Zenon, <1>1 DEF Says
<1>2. CASE History(fs, ns, m) # {}
  <2>1. PICK p \in History(fs, ns, m) :
           IsLast(fs, ns, m, p) /\ e = Restored(EntryAt(fs, p, m))
    BY Zenon, <1>2 DEF Says
  <2>2. IsLast(gs, ks, m, p)
    BY Zenon, <2>1 DEF IsLast
  <2> QED
    BY Zenon, <2>1, <2>2 DEF Says
<1> QED
  BY Zenon, <1>1, <1>2

\* Appending a record that mentions the message to the newest file.
LEMMA AppendMentioned ==
  ASSUME NEW fs \in Files, NEW ns \in SUBSET FileName, NEW m \in Ids,
         NEW f \in ns, \A k \in ns : k <= f,
         NEW rec \in Record, Mentions(rec, m),
         NEW gs, IsAppend(gs, fs, f, rec)
  PROVE  /\ gs \in Files
         /\ \E p \in History(gs, ns, m) :
               IsLast(gs, ns, m, p) /\ EntryAt(gs, p, m) = rec[m]
<1> DEFINE p == <<f, Len(fs[f]) + 1>>
<1>1. gs \in Files
  BY DEF Files, IsAppend
<1>2. /\ gs[f] = Append(fs[f], rec)
      /\ Len(gs[f]) = Len(fs[f]) + 1 /\ Len(fs[f]) \in Nat
      /\ gs[f][Len(fs[f]) + 1] = rec
  BY DEF Files, IsAppend
<1>3. p \in History(gs, ns, m) /\ EntryAt(gs, p, m) = rec[m]
  BY <1>1, <1>2, HistoryParts DEF EntryAt, Mentions
<1>4. ASSUME NEW q \in History(gs, ns, m), q # p
      PROVE  Before(q, p)
  <2>1. /\ q = <<q[1], q[2]>> /\ q[1] \in ns /\ q[2] \in 1 .. Len(gs[q[1]])
    BY Zenon, <1>1, HistoryParts
  <2>2. CASE q[1] = f
    BY <2>1, <2>2, <1>2, <1>4 DEF Before
  <2>3. CASE q[1] # f
    BY <2>1, <2>3 DEF Before, FileName
  <2> QED
    BY Zenon, <2>2, <2>3
<1> QED
  BY Zenon, <1>1, <1>3, <1>4 DEF IsLast

\* Appending a record that does not mention it, anywhere.
LEMMA AppendOther ==
  ASSUME NEW fs \in Files, NEW ns \in SUBSET FileName, NEW m \in Ids,
         NEW f \in FileName, NEW rec \in Record, ~Mentions(rec, m),
         NEW gs, IsAppend(gs, fs, f, rec)
  PROVE  /\ gs \in Files
         /\ History(gs, ns, m) = History(fs, ns, m)
         /\ \A p \in History(fs, ns, m) : EntryAt(gs, p, m) = EntryAt(fs, p, m)
<1>1. gs \in Files
  BY DEF Files, IsAppend
<1>2. /\ gs[f] = Append(fs[f], rec)
      /\ Len(gs[f]) = Len(fs[f]) + 1 /\ Len(fs[f]) \in Nat
      /\ gs[f][Len(fs[f]) + 1] = rec
      /\ \A i \in 1 .. Len(fs[f]) : gs[f][i] = fs[f][i]
      /\ \A k \in FileName : k # f => gs[k] = fs[k]
  BY DEF Files, IsAppend
<1>3. ASSUME NEW p
      PROVE  p \in History(gs, ns, m) <=> p \in History(fs, ns, m)
  <2>1. p \in History(gs, ns, m) <=>
          /\ p = <<p[1], p[2]>> /\ p[1] \in ns /\ p[2] \in 1 .. Len(gs[p[1]])
          /\ gs[p[1]][p[2]][m].status # "none"
    BY Zenon, <1>1, HistoryParts
  <2>2. p \in History(fs, ns, m) <=>
          /\ p = <<p[1], p[2]>> /\ p[1] \in ns /\ p[2] \in 1 .. Len(fs[p[1]])
          /\ fs[p[1]][p[2]][m].status # "none"
    BY Zenon, HistoryParts
  <2>3. CASE p[1] = f
    BY <2>1, <2>2, <2>3, <1>2 DEF Mentions
  <2>4. CASE p[1] # f
    BY Zenon, <2>1, <2>2, <2>4, <1>2
  <2> QED
    BY Zenon, <2>3, <2>4
<1>4. ASSUME NEW p \in History(fs, ns, m)
      PROVE  EntryAt(gs, p, m) = EntryAt(fs, p, m)
  BY <1>2, HistoryParts DEF EntryAt
<1> QED
  BY Zenon, <1>1, <1>3, <1>4

\* An empty file has no history.
LEMMA EmptyFile ==
  ASSUME NEW fs \in Files, NEW m \in Ids, NEW f \in FileName, fs[f] = <<>>
  PROVE  History(fs, {f}, m) = {}
<1>1. Len(fs[f]) = 0
  OBVIOUS
<1> QED
  BY <1>1, HistoryParts

\* A file newer than the others decides for the messages it mentions and
\* leaves the rest to the others.
LEMMA Overlay ==
  ASSUME NEW fs \in Files, NEW ns \in SUBSET FileName, NEW m \in Ids,
         NEW s \in FileName, \A k \in ns : k < s
  PROVE  /\ \A p \in History(fs, {s}, m) :
               IsLast(fs, {s}, m, p) =>
                  p \in History(fs, ns \cup {s}, m) /\ IsLast(fs, ns \cup {s}, m, p)
         /\ History(fs, {s}, m) = {} =>
               History(fs, ns \cup {s}, m) = History(fs, ns, m)
<1>1. ASSUME NEW p \in History(fs, {s}, m), IsLast(fs, {s}, m, p)
      PROVE  p \in History(fs, ns \cup {s}, m) /\ IsLast(fs, ns \cup {s}, m, p)
  <2>1. p[1] = s /\ p \in History(fs, ns \cup {s}, m)
    BY HistoryParts
  <2>2. ASSUME NEW q \in History(fs, ns \cup {s}, m), q # p
        PROVE  Before(q, p)
    <3>1. CASE q[1] = s
      <4>1. q \in History(fs, {s}, m)
        BY <3>1, HistoryParts
      <4> QED
        BY Zenon, <4>1, <1>1, <2>2 DEF IsLast
    <3>2. CASE q[1] # s
      <4>1. q[1] \in ns
        BY <3>2, HistoryParts
      <4> QED
        BY Zenon, <4>1, <2>1 DEF Before
    <3> QED
      BY Zenon, <3>1, <3>2
  <2> QED
    BY Zenon, <2>1, <2>2 DEF IsLast
<1>2. ASSUME History(fs, {s}, m) = {}, NEW p
      PROVE  p \in History(fs, ns \cup {s}, m) <=> p \in History(fs, ns, m)
  BY <1>2, HistoryParts
<1> QED
  BY Zenon, <1>1, <1>2

\* A write at the end of the newest replayed file.
LEMMA Written ==
  ASSUME NEW fs \in Files, NEW ns \in SUBSET FileName, NEW m \in Ids,
         NEW f \in ns, \A k \in ns : k <= f,
         NEW rec \in Record, NEW gs, NEW e
  PROVE  /\ IsAppend(gs, fs, f, rec) =>
              /\ gs \in Files
              /\ Mentions(rec, m) => Says(gs, ns, m, Restored(rec[m]))
              /\ ~Mentions(rec, m) /\ Says(fs, ns, m, e) => Says(gs, ns, m, e)
         /\ gs = fs => gs \in Files /\ (Says(fs, ns, m, e) => Says(gs, ns, m, e))
<1>1. ASSUME IsAppend(gs, fs, f, rec), Mentions(rec, m)
      PROVE  gs \in Files /\ Says(gs, ns, m, Restored(rec[m]))
  <2>1. gs \in Files
    BY <1>1, AppendMentioned, ZenonT(30)
  <2>2. \E p \in History(gs, ns, m) : IsLast(gs, ns, m, p) /\ EntryAt(gs, p, m) = rec[m]
    BY <1>1, AppendMentioned
  <2> QED
    BY Zenon, <2>1, <2>2 DEF Says
<1>2. ASSUME IsAppend(gs, fs, f, rec), ~Mentions(rec, m)
      PROVE  gs \in Files /\ (Says(fs, ns, m, e) => Says(gs, ns, m, e))
  <2>1. gs \in Files
    BY <1>2, AppendOther, ZenonT(30)
  <2>2. History(gs, ns, m) = History(fs, ns, m)
    BY <1>2, AppendOther, ZenonT(30)
  <2>3. \A p \in History(fs, ns, m) : EntryAt(gs, p, m) = EntryAt(fs, p, m)
    BY <1>2, AppendOther
  <2> QED
    BY Zenon, <2>1, <2>2, <2>3, SameHistory
<1> QED
  BY Zenon, <1>1, <1>2

\* Replay only depends on the files it reads.
LEMMA SameFiles ==
  ASSUME NEW fs \in Files, NEW gs \in Files, NEW ns \in SUBSET FileName, NEW m \in Ids,
         \A k \in ns : gs[k] = fs[k]
  PROVE  /\ History(gs, ns, m) = History(fs, ns, m)
         /\ \A p \in History(fs, ns, m) : EntryAt(gs, p, m) = EntryAt(fs, p, m)
         /\ \A e : Says(fs, ns, m, e) => Says(gs, ns, m, e)
<1>1. ASSUME NEW p
      PROVE  p \in History(gs, ns, m) <=> p \in History(fs, ns, m)
  BY HistoryParts
<1>2. ASSUME NEW p \in History(fs, ns, m)
      PROVE  EntryAt(gs, p, m) = EntryAt(fs, p, m)
  BY Zenon, HistoryParts DEF EntryAt
<1>3. History(gs, ns, m) = History(fs, ns, m)
  BY Zenon, <1>1
<1>4. ASSUME NEW e, Says(fs, ns, m, e)
      PROVE  Says(gs, ns, m, e)
  BY Zenon, <1>2, <1>3, <1>4, SameHistory
<1> QED
  BY Zenon, <1>2, <1>3, <1>4

-----------------------------------------------------------------------------
(* Entries, records and outcomes.                                          *)

\* recover keeps entries well formed and is idempotent.
LEMMA RestoredFacts ==
  /\ None \in Entry /\ Restored(None) = None
  /\ \A e \in Entry : Restored(e) \in Entry /\ Restored(Restored(e)) = Restored(e)
BY JournalAssumption DEF None, Entry, Restored, Status, Gone, Claimed, Resting

\* What replay says is a resting entry, and None if it is absent.
LEMMA SaysResting ==
  ASSUME NEW fs \in Files, NEW ns \in SUBSET FileName, NEW m \in Ids, NEW e,
         Says(fs, ns, m, e)
  PROVE  e \in Entry /\ Restored(e) = e /\ (e.status = "none" => e = None)
<1>1. CASE e = None
  BY Zenon, <1>1, RestoredFacts
<1>2. CASE e # None
  <2>1. PICK p \in History(fs, ns, m) : e = Restored(EntryAt(fs, p, m))
    BY Zenon, <1>2 DEF Says
  <2>2. EntryAt(fs, p, m) \in Entry /\ EntryAt(fs, p, m).status # "none"
    BY HistoryParts DEF EntryAt, Files, Record
  <2>3. e.status # "none"
    BY Zenon, <1>2, <2>1, <2>2 DEF Restored, Entry
  <2> QED
    BY Zenon, <2>1, <2>2, <2>3, RestoredFacts
<1> QED
  BY Zenon, <1>1, <1>2

\* Changing the status and the attempts of an entry.
LEMMA EntryUpdate ==
  ASSUME NEW e \in Entry, NEW st \in Status, NEW n \in 0 .. MaxAttempts
  PROVE  [e EXCEPT !.status = st, !.attempts = n] \in Entry
BY Zenon DEF Entry

\* A record on one message.
LEMMA SingleFacts ==
  ASSUME NEW m \in Ids, NEW e \in Entry
  PROVE  /\ Single(m, e) \in Record
         /\ Single(m, e)[m] = e
         /\ \A i \in Ids : i # m => ~Mentions(Single(m, e), i)
         /\ e.status # "none" => Mentions(Single(m, e), m)
BY Zenon, RestoredFacts DEF Single, Record, Mentions, None

\* Every operation of the store writes one record.
LEMMA OperationCommits ==
  ASSUME TypeOK, Operation
  PROVE  \E rec \in Record, nd \in SUBSET Ids : Commit(rec, nd)
<1> USE JournalAssumption
<1>0. /\ index \in [Ids -> Entry] /\ dlq \in SUBSET Ids
  BY Zenon DEF TypeOK
<1>1. ASSUME NEW m \in Ids, NEW st \in CreatedAs, NEW to \in SUBSET Rcpts,
             NEW rs \in SUBSET Ids, StoreWithReceipt(m, st, to, rs)
      PROVE  \E rec \in Record, nd \in SUBSET Ids : Commit(rec, nd)
  <2> DEFINE entry(x) == [status |-> x, to |-> to, attempts |-> 0]
             rec == NewRecord(m, st, to, rs)
  <2>1. entry(st) \in Entry /\ entry("stored") \in Entry /\ None \in Entry
    BY RestoredFacts DEF Entry, CreatedAs, Status, Resting
  <2>2. rec \in Record
    BY Zenon, <2>1 DEF Record, NewRecord
  <2>3. Commit(rec, dlq)
    BY Zenon, <1>1 DEF StoreWithReceipt
  <2> QED
    BY Zenon, <2>2, <2>3, <1>0
<1>2. ASSUME NEW m \in Ids, NEW st \in Finished, UpdateStatus(m, st)
      PROVE  \E rec \in Record, nd \in SUBSET Ids : Commit(rec, nd)
  <2>1. [index[m] EXCEPT !.status = st] \in Entry
    BY Zenon, <1>0 DEF Entry, Finished, Status, Resting, Gone
  <2>2. (IF st = "failed" THEN dlq \cup {m} ELSE dlq \ {m}) \in SUBSET Ids
    BY Zenon, <1>0
  <2> QED
    BY Zenon, <1>2, <2>1, <2>2, SingleFacts DEF UpdateStatus
<1>3. ASSUME NEW m \in Ids, NEW to \in SUBSET Rcpts, UpdateRecipients(m, to)
      PROVE  \E rec \in Record, nd \in SUBSET Ids : Commit(rec, nd)
  <2>1. [index[m] EXCEPT !.to = to] \in Entry
    BY Zenon, <1>0 DEF Entry
  <2> QED
    BY Zenon, <1>0, <1>3, <2>1, SingleFacts DEF UpdateRecipients
<1>4. ASSUME NEW m \in Ids, NEW mv \in Moves, Transition(m, mv[1], mv[2])
      PROVE  \E rec \in Record, nd \in SUBSET Ids : Commit(rec, nd)
  <2> DEFINE e == [index[m] EXCEPT !.status = mv[2],
                     !.attempts = IF mv[2] = "processing" THEN @ + 1 ELSE @]
  <2>1. mv[2] \in Status /\ (mv[2] = "processing" => index[m].attempts < MaxAttempts)
    BY <1>4 DEF Moves, Status, Resting, Gone, Claimed, Transition
  <2>2. e \in Entry
    <3>1. (IF mv[2] = "processing" THEN index[m].attempts + 1 ELSE index[m].attempts)
             \in 0 .. MaxAttempts
      BY <1>0, <2>1 DEF Entry
    <3> QED
      BY Zenon, <1>0, <2>1, <3>1, EntryUpdate
  <2>3. Commit(Single(m, e), dlq)
    BY Zenon, <1>4 DEF Transition
  <2> QED
    BY Zenon, <1>0, <2>2, <2>3, SingleFacts
<1>5. ASSUME NEW m \in Ids, RetryFromDLQ(m)
      PROVE  \E rec \in Record, nd \in SUBSET Ids : Commit(rec, nd)
  <2>1. [index[m] EXCEPT !.status = "pending", !.attempts = 0] \in Entry
    <3>1. "pending" \in Status /\ 0 \in 0 .. MaxAttempts /\ index[m] \in Entry
      BY <1>0 DEF Status, Resting
    <3> QED
      BY <3>1, EntryUpdate, Zenon
  <2>2. dlq \ {m} \in SUBSET Ids
    BY Zenon, <1>0
  <2> QED
    BY Zenon, <1>5, <2>1, <2>2, SingleFacts DEF RetryFromDLQ
<1>6. ASSUME NEW m \in Ids, ReleaseHeld(m)
      PROVE  \E rec \in Record, nd \in SUBSET Ids : Commit(rec, nd)
  <2>1. [index[m] EXCEPT !.status = "pending"] \in Entry
    BY Zenon, <1>0 DEF Entry, Status, Resting
  <2> QED
    BY Zenon, <1>0, <1>6, <2>1, SingleFacts DEF ReleaseHeld
<1> QED
  BY Zenon, <1>1, <1>2, <1>3, <1>4, <1>5, <1>6 DEF Operation

-----------------------------------------------------------------------------
(* The inductive invariant.                                                *)

\* The parts of the type invariant the steps use.
LEMMA Types ==
  ASSUME TypeOK
  PROVE  /\ files \in Files /\ names \in SUBSET FileName
         /\ covered \in SUBSET FileName /\ coveredDisk \in SUBSET FileName
         /\ index \in [Ids -> Entry] /\ doubt \in [Ids -> SUBSET Entry]
         /\ compact.snap \in FileName \cup {0}
         /\ compact.pc \in {"idle", "expire", "snapshot", "synced", "renamed", "remove"}
BY Zenon DEF TypeOK, JournalTypeOK, Files

\* What a record written to the open file changes in the replay.
LEMMA WriteStep ==
  ASSUME IInv, up, ~Snapshotting, NEW rec \in Record,
         files' = files \/ files' = Appended(cur, rec)
  PROVE  /\ files' \in Files
         /\ \A m \in Ids, cov \in {covered, coveredDisk} :
               /\ files' = Appended(cur, rec) /\ Mentions(rec, m) =>
                     Says(files', names \ cov, m, Restored(rec[m]))
               /\ files' = files \/ ~Mentions(rec, m) =>
                     \A e : Says(files, names \ cov, m, e) =>
                            Says(files', names \ cov, m, e)
<1>1. /\ files \in Files /\ names \in SUBSET FileName
      /\ cur \in names \ (covered \cup coveredDisk) /\ \A n \in names : n <= cur
  BY Zenon, Types DEF IInv, Newest, Base
<1>2. files' = Appended(cur, rec) => IsAppend(files', files, cur, rec)
  BY Zenon DEF Appended, IsAppend
<1>3. files' \in Files
  <2>1. ASSUME files' = Appended(cur, rec)
        PROVE  files' \in Files
    <3>1. cur \in FileName /\ files[cur] \in Seq(Record)
      BY Zenon, <1>1 DEF Files
    <3>2. Append(files[cur], rec) \in Seq(Record)
      BY <3>1
    <3> QED
      BY Zenon, <1>1, <2>1, <3>1, <3>2 DEF Files, Appended
  <2> QED
    BY Zenon, <1>1, <2>1
<1>4. ASSUME NEW m \in Ids, NEW cov \in {covered, coveredDisk}
      PROVE  /\ files' = Appended(cur, rec) /\ Mentions(rec, m) =>
                   Says(files', names \ cov, m, Restored(rec[m]))
             /\ files' = files \/ ~Mentions(rec, m) =>
                   \A e : Says(files, names \ cov, m, e) =>
                          Says(files', names \ cov, m, e)
  <2>1. /\ names \ cov \in SUBSET FileName /\ cur \in names \ cov
        /\ \A k \in names \ cov : k <= cur
    BY Zenon, <1>1
  <2>2. ASSUME IsAppend(files', files, cur, rec), Mentions(rec, m)
        PROVE  Says(files', names \ cov, m, Restored(rec[m]))
    BY Zenon, <1>1, <2>1, <2>2, Written
  <2>3. ASSUME IsAppend(files', files, cur, rec), ~Mentions(rec, m), NEW e,
               Says(files, names \ cov, m, e)
        PROVE  Says(files', names \ cov, m, e)
    BY Zenon, <1>1, <2>1, <2>3, Written
  <2> QED
    BY Zenon, <1>2, <2>2, <2>3
<1> QED
  BY Zenon, <1>3, <1>4

\* An operation, successful or latched, preserves the invariant.
LEMMA CommitStep ==
  ASSUME IInv, NEW rec \in Record, NEW nd \in SUBSET Ids, Commit(rec, nd)
  PROVE  IInv'
<1>1. /\ up /\ compact.pc = "idle" /\ ~Snapshotting /\ ~failed
      /\ UNCHANGED <<names, covered, coveredDisk, cur, up, compact>>
      /\ files' = files \/ files' = Appended(cur, rec)
  BY Zenon DEF Commit, Ready, WriteOk, WriteLatched, Snapshotting
<1>2. /\ files' \in Files
      /\ \A m \in Ids, cov \in {covered, coveredDisk} :
            /\ files' = Appended(cur, rec) /\ Mentions(rec, m) =>
                  Says(files', names \ cov, m, Restored(rec[m]))
            /\ files' = files \/ ~Mentions(rec, m) =>
                  \A e : Says(files, names \ cov, m, e) => Says(files', names \ cov, m, e)
  BY Zenon, <1>1, WriteStep
<1>3. TypeOK
  BY Zenon DEF IInv
<1>4. /\ rec \in [Ids -> Entry] /\ index \in [Ids -> Entry] /\ doubt \in [Ids -> SUBSET Entry]
  BY Zenon, <1>3, Types DEF Record
<1>5. CASE /\ WriteOk(rec) /\ index' = Applied(rec) /\ dlq' = nd
           /\ doubt' = [m \in Ids |-> IF Mentions(rec, m) THEN {} ELSE doubt[m]]
  <2>1. files' = Appended(cur, rec) /\ failed' = failed
    BY Zenon, <1>5 DEF WriteOk
  <2>2. /\ index' \in [Ids -> Entry] /\ doubt' \in [Ids -> SUBSET Entry]
    BY Zenon, <1>4, <1>5, RestoredFacts DEF Applied
  <2>3. TypeOK'
    BY Zenon, <1>1, <1>2, <1>3, <1>5, <2>1, <2>2 DEF TypeOK, JournalTypeOK, Files
  <2>4. ASSUME NEW m \in Ids, NEW cov \in {covered, coveredDisk}
        PROVE  \E e \in Entry : Says(files', names \ cov, m, e) /\ e \in Outcomes(m)'
    <3>1. CASE Mentions(rec, m)
      <4>1. Restored(index'[m]) = Restored(rec[m])
        BY Zenon, <1>5, <3>1, RestoredFacts DEF Applied, Restored
      <4>2. Restored(rec[m]) \in Outcomes(m)'
        BY Zenon, <4>1 DEF Outcomes
      <4> QED
        BY <1>2, <1>4, <2>1, <3>1, <4>2, RestoredFacts, ZenonT(30)
    <3>2. CASE ~Mentions(rec, m)
      <4>1. PICK e \in Entry : Says(files, names \ cov, m, e) /\ e \in Outcomes(m)
        BY <1>1, ZenonT(30) DEF IInv, BaseReplay, Base
      <4>2. index'[m] = index[m] /\ doubt'[m] = doubt[m]
        BY Zenon, <1>5, <3>2 DEF Applied
      <4>3. e \in Outcomes(m)'
        BY Zenon, <4>1, <4>2 DEF Outcomes
      <4> QED
        BY Zenon, <1>2, <3>2, <4>1, <4>3
    <3> QED
      BY Zenon, <3>1, <3>2
  <2>5. DoubtDeleted'
    BY Zenon, <1>1, <1>5 DEF IInv, DoubtDeleted
  <2>6. AbsentIsNone'
    BY Zenon, <1>4, <1>5 DEF IInv, AbsentIsNone, Applied, Mentions
  <2> QED
    BY <1>1, <2>1, <2>3, <2>4, <2>5, <2>6, ZenonT(30)
    DEF IInv, BaseReplay, Base, Snapshotting, Newest, Down, Phases
<1>6. CASE /\ WriteLatched(rec) /\ UNCHANGED <<index, dlq>>
           /\ doubt' = [m \in Ids |-> IF Mentions(rec, m) THEN doubt[m] \cup {rec[m]}
                                      ELSE doubt[m]]
  <2>1. failed' = TRUE
    BY Zenon, <1>6 DEF WriteLatched
  <2>2. doubt' \in [Ids -> SUBSET Entry]
    BY Zenon, <1>4, <1>6
  <2>3. TypeOK'
    BY Zenon, <1>1, <1>2, <1>3, <1>6, <2>1, <2>2 DEF TypeOK, JournalTypeOK, Files
  <2>4. ASSUME NEW m \in Ids, NEW cov \in {covered, coveredDisk}
        PROVE  \E e \in Entry : Says(files', names \ cov, m, e) /\ e \in Outcomes(m)'
    <3>1. CASE files' = Appended(cur, rec) /\ Mentions(rec, m)
      <4>1. Restored(rec[m]) \in Outcomes(m)'
        BY Zenon, <1>6, <3>1 DEF Outcomes
      <4> QED
        BY <1>2, <1>4, <3>1, <4>1, RestoredFacts, ZenonT(30)
    <3>2. CASE files' = files \/ ~Mentions(rec, m)
      <4>1. PICK e \in Entry : Says(files, names \ cov, m, e) /\ e \in Outcomes(m)
        BY <1>1, ZenonT(30) DEF IInv, BaseReplay, Base
      <4>2. index'[m] = index[m] /\ doubt[m] \subseteq doubt'[m]
        BY Zenon, <1>6
      <4>3. e \in Outcomes(m)'
        BY Zenon, <4>1, <4>2 DEF Outcomes
      <4> QED
        BY Zenon, <1>2, <3>2, <4>1, <4>3
    <3> QED
      BY Zenon, <1>1, <3>1, <3>2
  <2> QED
    BY <1>1, <1>6, <2>1, <2>3, <2>4, ZenonT(30)
    DEF IInv, BaseReplay, Base, Snapshotting, Newest, Down, AbsentIsNone, DoubtDeleted, Phases
<1> QED
  BY Zenon, <1>5, <1>6 DEF Commit
\* A snapshot in the making replays to the same contents as the history.
LEMMA FullReplay ==
  ASSUME IInv, NEW m \in Ids, NEW cov \in {covered, coveredDisk}
  PROVE  \E e \in Entry : Says(files, names \ cov, m, e) /\ (up => e \in Outcomes(m))
<1>1. PICK e \in Entry : Says(files, Base \ cov, m, e) /\ (up => e \in Outcomes(m))
  BY Zenon DEF IInv, BaseReplay
<1>2. CASE ~Snapshotting
  BY Zenon, <1>1, <1>2 DEF Base
<1>3. CASE Snapshotting
  <2>1. /\ files \in Files /\ names \in SUBSET FileName /\ cov \in SUBSET FileName
        /\ index \in [Ids -> Entry] /\ TypeOK
    BY Zenon, Types DEF IInv
  <2>2. up
    BY <1>3 DEF IInv, Down, Snapshotting, Idle
  <2>3. /\ compact.snap \in names \ cov /\ compact.snap \in FileName
        /\ Base = names \ {compact.snap}
        /\ Base \ cov \in SUBSET FileName
        /\ names \ cov = (Base \ cov) \cup {compact.snap}
    BY Zenon, <1>3, <2>1 DEF IInv, Phases, Base
  <2>4. \A k \in Base \ cov : k < compact.snap
    <3>1. cur < compact.snap /\ cur \in FileName /\ \A k \in Base : k <= cur
      BY Zenon, <1>3, <2>1, <2>2, <2>3 DEF IInv, Phases, Newest
    <3> QED
      BY <2>3, <3>1 DEF FileName
  <2> DEFINE ns == Base \ cov
             s == compact.snap
  <2>0. /\ files \in Files /\ ns \in SUBSET FileName /\ s \in FileName
        /\ \A k \in ns : k < s
        /\ names \ cov = ns \cup {s}
    BY Zenon, <2>1, <2>3, <2>4
  <2> HIDE DEF ns, s
  <2>7. /\ \A p \in History(files, {s}, m) :
              IsLast(files, {s}, m, p) =>
                 p \in History(files, names \ cov, m) /\ IsLast(files, names \ cov, m, p)
        /\ History(files, {s}, m) = {} =>
              History(files, names \ cov, m) = History(files, ns, m)
    <3>1. ASSUME NEW p \in History(files, {s}, m), IsLast(files, {s}, m, p)
          PROVE  p \in History(files, ns \cup {s}, m) /\ IsLast(files, ns \cup {s}, m, p)
      BY <2>0, <3>1, Overlay, ZenonT(30)
    <3>2. ASSUME History(files, {s}, m) = {}
          PROVE  History(files, ns \cup {s}, m) = History(files, ns, m)
      BY <2>0, <3>2, Overlay, ZenonT(30)
    <3> QED
      BY <2>0, <3>1, <3>2, Zenon
  <2>5. CASE Present(m) /\ m \notin compact.todo
    <3>1. PICK p \in History(files, {compact.snap}, m) :
             IsLast(files, {compact.snap}, m, p) /\ EntryAt(files, p, m) = index[m]
      BY <1>3, <2>5, ZenonT(30) DEF IInv, Phases
    <3>2. /\ p \in History(files, names \ cov, m) /\ IsLast(files, names \ cov, m, p)
      BY Zenon, <2>7, <3>1 DEF s
    <3>3. Says(files, names \ cov, m, Restored(index[m]))
      BY Zenon, <3>1, <3>2 DEF Says
    <3>4. Restored(index[m]) \in Entry /\ Restored(index[m]) \in Outcomes(m)
      BY Zenon, <2>1, RestoredFacts DEF Outcomes
    <3> QED
      BY Zenon, <3>3, <3>4
  <2>6. CASE ~(Present(m) /\ m \notin compact.todo)
    <3>1. History(files, {compact.snap}, m) = {}
      BY Zenon, <1>3, <2>6 DEF IInv, Phases
    <3>2. History(files, names \ cov, m) = History(files, Base \ cov, m)
      BY Zenon, <2>7, <3>1 DEF s, ns
    <3>3. Says(files, names \ cov, m, e)
      BY Zenon, <1>1, <3>2, SameHistory
    <3> QED
      BY Zenon, <1>1, <3>3
  <2> QED
    BY Zenon, <2>5, <2>6
<1> QED
  BY Zenon, <1>2, <1>3

-----------------------------------------------------------------------------
(* Compaction.                                                             *)

\* Choosing what has expired changes nothing durable.
LEMMA BeginStep ==
  ASSUME IInv, NEW expired \in SUBSET Ids, CompactBegin(expired)
  PROVE  IInv'
<1>1. /\ compact' = [pc |-> "expire", todo |-> expired, done |-> {}, old |-> {}, snap |-> 0]
      /\ UNCHANGED <<names, files, covered, coveredDisk, cur, failed, up, index, dlq, doubt>>
      /\ up /\ compact.pc = "idle" /\ ~failed
  BY ZenonT(30) DEF CompactBegin, Idle, Ready
<1>2. TypeOK'
  BY Zenon, <1>1 DEF IInv, TypeOK, JournalTypeOK
<1>3. /\ Base' = Base /\ ~Snapshotting /\ ~Snapshotting'
      /\ \A m \in Ids : Outcomes(m)' = Outcomes(m)
  BY Zenon, <1>1 DEF Base, Snapshotting, Outcomes
<1>4. BaseReplay' /\ Newest'
  BY <1>1, <1>3, ZenonT(30) DEF IInv, BaseReplay, Newest
<1>5. Down' /\ AbsentIsNone' /\ DoubtDeleted'
  BY Zenon, <1>1 DEF IInv, Down, AbsentIsNone, DoubtDeleted
<1>6. Phases'
  BY Zenon, <1>1, <1>3 DEF Phases
<1> QED
  BY Zenon, <1>2, <1>4, <1>5, <1>6 DEF IInv

\* A "deleted" record of Compact.
LEMMA ExpireStep ==
  ASSUME IInv, NEW m0 \in Ids, CompactExpire(m0)
  PROVE  IInv'
<1> DEFINE rec == Single(m0, [index[m0] EXCEPT !.status = "deleted"])
<1>0. /\ index \in [Ids -> Entry] /\ doubt \in [Ids -> SUBSET Entry] /\ TypeOK
      /\ files \in Files
  BY Zenon, Types DEF IInv
<1>1. /\ compact.pc = "expire" /\ m0 \in compact.todo /\ ~Snapshotting /\ up /\ ~failed
      /\ doubt' = [doubt EXCEPT ![m0] = @ \cup {rec[m0]}]
      /\ UNCHANGED <<names, covered, coveredDisk, cur, up, index, dlq>>
      /\ \/ /\ files' = Appended(cur, rec) /\ failed' = failed
            /\ compact' = [compact EXCEPT !.todo = @ \ {m0}, !.done = @ \cup {m0}]
         \/ /\ files' = files \/ files' = Appended(cur, rec)
            /\ failed' = TRUE /\ compact' = Idle
  BY DEF CompactExpire, Snapshotting, IInv, Down, Idle, WriteOk, WriteLatched, CompactAbort
<1>2. /\ rec \in Record /\ rec[m0].status = "deleted" /\ rec[m0] \in Entry
      /\ \A i \in Ids : Mentions(rec, i) <=> i = m0
      /\ Restored(rec[m0]) = None
  <2>1. [index[m0] EXCEPT !.status = "deleted"] \in Entry
    BY Zenon, <1>0 DEF Entry, Status, Gone
  <2>2. [index[m0] EXCEPT !.status = "deleted"].status = "deleted"
    BY Zenon, <1>0 DEF Entry
  <2> QED
    BY <2>1, <2>2, SingleFacts, ZenonT(30) DEF Restored, Gone
<1>3. /\ files' \in Files
      /\ \A m \in Ids, cov \in {covered, coveredDisk} :
            /\ files' = Appended(cur, rec) /\ Mentions(rec, m) =>
                  Says(files', names \ cov, m, Restored(rec[m]))
            /\ files' = files \/ ~Mentions(rec, m) =>
                  \A e : Says(files, names \ cov, m, e) => Says(files', names \ cov, m, e)
  <2>1. files' = files \/ files' = Appended(cur, rec)
    BY Zenon, <1>1
  <2> HIDE DEF rec
  <2> QED
    BY Zenon, <1>1, <1>2, <2>1, WriteStep
<1> HIDE DEF rec
<1>4. /\ doubt' \in [Ids -> SUBSET Entry] /\ rec[m0] \in doubt'[m0]
      /\ \A m \in Ids : doubt[m] \subseteq doubt'[m]
      /\ \A m \in Ids : \A e \in doubt'[m] : e \in doubt[m] \/ e = rec[m0]
  BY Zenon, <1>0, <1>1, <1>2
<1>5. TypeOK'
  <2>1. compact' \in [pc : {"idle", "expire", "snapshot", "synced", "renamed", "remove"},
                      todo : SUBSET Ids, done : SUBSET Ids,
                      old : SUBSET FileName, snap : FileName \cup {0}]
    <3>1. CASE compact' = Idle
      BY Zenon, <3>1 DEF Idle
    <3>2. CASE compact' = [compact EXCEPT !.todo = @ \ {m0}, !.done = @ \cup {m0}]
      BY <1>0, <3>2, Zenon DEF TypeOK
    <3> QED
      BY Zenon, <1>1, <3>1, <3>2
  <2> QED
    BY <1>0, <1>1, <1>3, <1>4, <2>1, ZenonT(30) DEF TypeOK, JournalTypeOK, Files
<1>6. /\ ~Snapshotting' /\ Base = names /\ Base' = names
      /\ \A m \in Ids : Outcomes(m) \subseteq Outcomes(m)'
  <2>1. ~Snapshotting'
    <3>1. compact' = Idle \/ compact'.pc = compact.pc
      BY <1>0, <1>1, Zenon DEF TypeOK
    <3> QED
      BY <1>1, <3>1 DEF Snapshotting, Idle
  <2> QED
    BY Zenon, <1>1, <1>4, <2>1 DEF Base, Outcomes
<1>7. BaseReplay'
  <2> SUFFICES ASSUME NEW m \in Ids, NEW cov \in {covered, coveredDisk}
               PROVE  \E e \in Entry : Says(files', names \ cov, m, e) /\ e \in Outcomes(m)'
    BY Zenon, <1>1, <1>6 DEF BaseReplay
  <2>1. PICK e \in Entry : Says(files, names \ cov, m, e) /\ e \in Outcomes(m)
    BY <1>1, <1>6, ZenonT(30) DEF IInv, BaseReplay
  <2>2. CASE files' = files \/ m # m0
    BY Zenon, <1>2, <1>3, <1>6, <2>1, <2>2
  <2>3. CASE files' = Appended(cur, rec) /\ m = m0
    <3>1. Says(files', names \ cov, m, None)
      BY Zenon, <1>2, <1>3, <2>3
    <3>2. None \in Outcomes(m)'
      BY Zenon, <1>2, <1>4, <2>3 DEF Outcomes
    <3> QED
      BY Zenon, <3>1, <3>2, RestoredFacts
  <2> QED
    BY Zenon, <1>1, <2>2, <2>3
<1>8. Newest' /\ Down' /\ AbsentIsNone'
  BY Zenon, <1>1, <1>6 DEF IInv, Newest, Down, AbsentIsNone
<1>9. DoubtDeleted'
  BY Zenon, <1>1, <1>2, <1>4 DEF IInv, DoubtDeleted
<1>10. Phases'
  <2>1. CASE compact' = Idle
    BY Zenon, <2>1, <1>6 DEF Phases, Idle
  <2>2. CASE /\ files' = Appended(cur, rec) /\ failed' = failed
             /\ compact' = [compact EXCEPT !.todo = @ \ {m0}, !.done = @ \cup {m0}]
    <3>1. /\ compact'.pc = "expire" /\ compact'.snap = 0
          /\ compact'.done = compact.done \cup {m0} /\ compact.done \subseteq Ids
      BY Zenon, <1>0, <1>1, <2>2 DEF TypeOK, IInv, Phases
    <3>2. ASSUME NEW m \in compact'.done, NEW cov \in {covered, coveredDisk}
          PROVE  Says(files', names \ cov, m, None)
      <4>1. CASE m = m0
        BY Zenon, <1>2, <1>3, <2>2, <4>1
      <4>2. CASE m # m0
        <5>1. Says(files, names \ cov, m, None)
          BY Zenon, <1>1, <3>1, <4>2 DEF IInv, Phases
        <5> QED
          BY Zenon, <1>2, <1>3, <3>1, <4>2, <5>1
      <4> QED
        BY Zenon, <4>1, <4>2
    <3> QED
      BY <1>1, <1>6, <2>2, <3>1, <3>2, ZenonT(30) DEF Phases
  <2> QED
    BY Zenon, <1>1, <2>1, <2>2
<1> QED
  BY Zenon, <1>5, <1>7, <1>8, <1>9, <1>10 DEF IInv

\* A step of Compact that only drops files replay does not read.
LEMMA TidyStep ==
  ASSUME IInv, up, TypeOK', Phases', ~Snapshotting',
         UNCHANGED <<covered, cur, failed, up, index, doubt>>,
         coveredDisk' \in {covered, coveredDisk},
         names' \subseteq Base, cur \in names',
         \A cov \in {covered, coveredDisk'} : names' \ cov = Base \ cov,
         \A cov \in {covered, coveredDisk'} :
            \A k \in Base \ cov : files'[k] = files[k]
  PROVE  IInv'
<1>1. /\ Base' = names' /\ \A m \in Ids : Outcomes(m)' = Outcomes(m)
  BY Zenon DEF Base, Outcomes
<1>2. /\ files \in Files /\ files' \in Files /\ Base \in SUBSET FileName
  <2>1. TypeOK /\ files \in Files
    BY Zenon, Types DEF IInv
  <2> QED
    BY Zenon, <2>1 DEF TypeOK, JournalTypeOK, Files, Base
<1>3. BaseReplay'
  <2> SUFFICES ASSUME NEW m \in Ids, NEW cov \in {covered, coveredDisk'}
               PROVE  \E e \in Entry : Says(files', names' \ cov, m, e) /\ e \in Outcomes(m)
    BY <1>1, ZenonT(30) DEF BaseReplay
  <2>1. PICK e \in Entry : Says(files, Base \ cov, m, e) /\ e \in Outcomes(m)
    BY ZenonT(30) DEF IInv, BaseReplay
  <2>2. /\ Base \ cov \in SUBSET FileName /\ \A k \in Base \ cov : files'[k] = files[k]
    BY Zenon, <1>2
  <2>3. Says(files', Base \ cov, m, e)
    BY Zenon, <1>2, <2>1, <2>2, SameFiles
  <2>4. names' \ cov = Base \ cov
    BY Zenon
  <2> QED
    BY Zenon, <2>1, <2>3, <2>4
<1>4. Newest'
  BY Zenon, <1>1 DEF IInv, Newest
<1>5. Down' /\ AbsentIsNone' /\ DoubtDeleted'
  BY Zenon DEF IInv, Down, AbsentIsNone, DoubtDeleted
<1> QED
  BY Zenon, <1>3, <1>4, <1>5 DEF IInv

\* Compact runs only in a running store, on an open file of the history.
LEMMA Running ==
  ASSUME IInv, compact.pc # "idle"
  PROVE  /\ up /\ TypeOK /\ cur \in Base /\ cur \in FileName
         /\ cur \notin covered /\ cur \notin coveredDisk
         /\ \A n \in Base : n <= cur
BY DEF IInv, Down, Idle, Newest, Base, TypeOK, JournalTypeOK

\* A failure before the rename of the checkpoint.
LEMMA FailStep ==
  ASSUME IInv, CleanRemoval, CompactFail
  PROVE  IInv'
<1>1. /\ compact.pc \in {"expire", "snapshot", "synced"}
      /\ names' = names \ {compact.snap}
      /\ files' = [n \in FileName |-> IF n = compact.snap THEN <<>> ELSE files[n]]
      /\ compact' = Idle
      /\ UNCHANGED <<covered, coveredDisk, cur, failed, up, index, dlq, doubt>>
  <2>1. names' = names \ {compact.snap}
    BY Zenon DEF CompactFail
  <2>2. compact.snap \notin names'
    BY Zenon, <2>1
  <2> QED
    BY Zenon, <2>1, <2>2 DEF CompactFail, CompactAbort
<1>2. /\ up /\ TypeOK /\ cur \in Base
  BY Zenon, <1>1, Running
<1>3. names' = Base
  <2>1. CASE compact.pc = "expire"
    <3>1. compact.snap = 0 /\ names \in SUBSET FileName
      BY Zenon, <2>1, <1>2, Types DEF IInv, Phases
    <3>2. 0 \notin names
      BY <3>1, JournalAssumption DEF FileName
    <3> QED
      BY Zenon, <1>1, <2>1, <3>1, <3>2 DEF Base, Snapshotting
  <2>2. CASE compact.pc \in {"snapshot", "synced"}
    BY Zenon, <1>1, <2>2 DEF Base, Snapshotting
  <2> QED
    BY Zenon, <1>1, <2>1, <2>2
<1>4. /\ TypeOK'
  BY <1>1, <1>2 DEF TypeOK, JournalTypeOK, Idle
<1>5. Phases' /\ ~Snapshotting'
  BY Zenon, <1>1 DEF Phases, Snapshotting, Idle
<1>6. /\ \A k \in Base : files'[k] = files[k]
  BY Zenon, <1>1, <1>2, <1>3 DEF TypeOK, JournalTypeOK
<1> QED
  BY Zenon, <1>1, <1>2, <1>3, <1>4, <1>5, <1>6, TidyStep

\* The sync after the rename, and its failure.
LEMMA SyncRenameStep ==
  ASSUME IInv, CompactSyncRename
  PROVE  IInv'
<1>1. /\ compact.pc = "renamed" /\ UNCHANGED <<names, files, covered, cur, failed, doubt>>
      /\ UNCHANGED <<up, index, dlq>>
      /\ \/ coveredDisk' = covered /\ compact' = [compact EXCEPT !.pc = "remove"]
         \/ coveredDisk' = coveredDisk /\ compact' = Idle
  BY Zenon DEF CompactSyncRename, CompactAbort
<1>2. /\ up /\ TypeOK /\ cur \in Base /\ Base = names
  BY Zenon, <1>1, Running DEF Base, Snapshotting
<1>3. TypeOK'
  BY <1>1, <1>2 DEF TypeOK, JournalTypeOK, Idle
<1>4. Phases' /\ ~Snapshotting'
  <2>1. CASE coveredDisk' = covered /\ compact' = [compact EXCEPT !.pc = "remove"]
    <3>1. /\ compact'.pc = "remove" /\ compact'.old = compact.old
      BY Zenon, <1>2, <2>1 DEF TypeOK
    <3>2. compact.old \subseteq covered /\ ~failed
      BY Zenon, <1>1 DEF IInv, Phases
    <3> QED
      BY Zenon, <1>1, <2>1, <3>1, <3>2 DEF Phases, Snapshotting
  <2>2. CASE compact' = Idle
    BY Zenon, <2>2 DEF Phases, Snapshotting, Idle
  <2> QED
    BY Zenon, <1>1, <2>1, <2>2
<1> QED
  BY Zenon, <1>1, <1>2, <1>3, <1>4, TidyStep

\* The removal of a covered file, and its failure.
LEMMA RemoveStep ==
  ASSUME IInv, NEW n \in FileName, CompactRemove(n)
  PROVE  IInv'
<1>1. /\ compact.pc = "remove" /\ n \in compact.old
      /\ UNCHANGED <<covered, coveredDisk, cur, failed, doubt, up, index, dlq>>
      /\ \/ /\ names' = names \ {n} /\ files' = [files EXCEPT ![n] = <<>>]
            /\ compact' = [compact EXCEPT !.old = @ \ {n}]
         \/ UNCHANGED <<names, files>> /\ compact' = Idle
  BY Zenon DEF CompactRemove, CompactAbort
<1>2. /\ up /\ TypeOK /\ cur \in Base /\ Base = names
      /\ cur \notin covered
  BY Zenon, <1>1, Running DEF Base, Snapshotting
<1>3. n \in covered /\ coveredDisk = covered /\ ~failed /\ compact.old \subseteq covered
  BY Zenon, <1>1 DEF IInv, Phases
<1>4. /\ \A k \in names \ covered : files'[k] = files[k]
      /\ files' \in Files
  <2>1. files \in Files /\ names \in SUBSET FileName
    BY Zenon, <1>2, Types
  <2>2. CASE files' = [files EXCEPT ![n] = <<>>]
    <3>1. files' \in Files
      BY <2>1, <2>2 DEF Files
    <3>2. \A k \in names \ covered : k # n /\ k \in FileName
      BY Zenon, <1>3, <2>1
    <3> QED
      BY Zenon, <2>1, <2>2, <3>1, <3>2 DEF Files
  <2> QED
    BY Zenon, <1>1, <2>1, <2>2
<1>5. TypeOK'
  <2>1. compact' \in [pc : {"idle", "expire", "snapshot", "synced", "renamed", "remove"},
                      todo : SUBSET Ids, done : SUBSET Ids,
                      old : SUBSET FileName, snap : FileName \cup {0}]
    BY <1>1, <1>2 DEF TypeOK, Idle
  <2>2. names' \subseteq FileName
    BY Zenon, <1>1, <1>2 DEF TypeOK, JournalTypeOK
  <2> QED
    BY Zenon, <1>1, <1>2, <1>4, <2>1, <2>2 DEF TypeOK, JournalTypeOK, Files
<1>6. Phases' /\ ~Snapshotting'
  <2>1. CASE compact' = [compact EXCEPT !.old = @ \ {n}]
    <3>1. /\ compact'.pc = "remove" /\ compact'.old = compact.old \ {n}
      BY Zenon, <1>1, <1>2, <2>1 DEF TypeOK
    <3> QED
      BY Zenon, <1>1, <1>3, <3>1 DEF Phases, Snapshotting
  <2>2. CASE compact' = Idle
    BY Zenon, <2>2 DEF Phases, Snapshotting, Idle
  <2> QED
    BY Zenon, <1>1, <2>1, <2>2
<1>7. /\ names' \subseteq Base /\ cur \in names' /\ names' \ covered = Base \ covered
  BY Zenon, <1>1, <1>2, <1>3
<1> QED
  BY Zenon, <1>1, <1>2, <1>3, <1>4, <1>5, <1>6, <1>7, TidyStep

\* Compact returns.
LEMMA EndStep ==
  ASSUME IInv, CompactEnd
  PROVE  IInv'
<1>1. /\ compact.pc = "remove" /\ compact' = Idle
      /\ UNCHANGED <<names, files, covered, coveredDisk, cur, failed, doubt, up, index, dlq>>
  BY Zenon DEF CompactEnd, CompactAbort
<1>2. /\ up /\ TypeOK /\ cur \in Base /\ Base = names
  BY Zenon, <1>1, Running DEF Base, Snapshotting
<1>3. TypeOK'
  BY Zenon, <1>1, <1>2 DEF TypeOK, JournalTypeOK, Idle
<1>4. Phases' /\ ~Snapshotting'
  BY Zenon, <1>1 DEF Phases, Snapshotting, Idle
<1> QED
  BY Zenon, <1>1, <1>2, <1>3, <1>4, TidyStep

\* A fresh, empty file at the end of the directory.
LEMMA NewFile ==
  ASSUME TypeOK, ClockMonotone, NEW n \in FileName, FreshName(n),
         IsEmptied(files', files, n)
  PROVE  /\ files' \in Files
         /\ n \notin names /\ n \notin covered /\ n \notin coveredDisk
         /\ \A k \in names : k < n
         /\ \A m \in Ids : History(files', {n}, m) = {}
         /\ \A m \in Ids, cov \in SUBSET FileName, e \in Entry :
               Says(files, names \ cov, m, e) =>
                  /\ Says(files', names \ cov, m, e)
                  /\ Says(files', (names \ cov) \cup {n}, m, e)
<1>1. /\ files \in Files /\ names \in SUBSET FileName
  BY Zenon, Types
<1>2. /\ n \notin names /\ n \notin covered /\ n \notin coveredDisk
      /\ \A k \in names : k < n
  BY Zenon DEF FreshName
<1>3. /\ files' \in Files /\ files'[n] = <<>>
      /\ \A k \in names : files'[k] = files[k]
  BY <1>1, <1>2 DEF Files, IsEmptied
<1>4. ASSUME NEW m \in Ids
      PROVE  History(files', {n}, m) = {}
  BY Zenon, <1>3, EmptyFile
<1>5. ASSUME NEW m \in Ids, NEW cov \in SUBSET FileName, NEW e \in Entry,
             Says(files, names \ cov, m, e)
      PROVE  Says(files', names \ cov, m, e) /\ Says(files', (names \ cov) \cup {n}, m, e)
  <2> DEFINE ns == names \ cov
  <2>1. /\ ns \in SUBSET FileName /\ \A k \in ns : k < n
        /\ \A k \in ns : files'[k] = files[k] /\ Says(files, ns, m, e)
    BY Zenon, <1>1, <1>2, <1>3, <1>5
  <2> HIDE DEF ns
  <2>2. Says(files', ns, m, e)
    BY Zenon, <1>1, <1>3, <1>5, <2>1, SameFiles DEF ns
  <2>3. History(files', ns \cup {n}, m) = History(files', ns, m)
    BY <1>3, <1>4, <2>1, Overlay, ZenonT(30)
  <2>4. Says(files', ns \cup {n}, m, e)
    BY Zenon, <2>2, <2>3, SameHistory
  <2> QED
    BY Zenon, <2>2, <2>4 DEF ns
<1> QED
  BY <1>2, <1>3, <1>4, <1>5, ZenonT(30)


\* Expired messages leave the index and an empty snapshot appears.
LEMMA CreateStep ==
  ASSUME IInv, ClockMonotone, NEW n \in FileName, CompactCreate(n)
  PROVE  IInv'
<1>1. /\ compact.pc = "expire" /\ ~Snapshotting /\ ~failed /\ FreshName(n)
      /\ index' = [m \in Ids |-> IF m \in compact.done THEN None ELSE index[m]]
      /\ doubt' = [m \in Ids |-> IF m \in compact.done THEN {} ELSE doubt[m]]
      /\ names' = names \cup {n}
      /\ files' = [files EXCEPT ![n] = <<>>]
      /\ UNCHANGED <<covered, coveredDisk, cur, failed, up, dlq>>
  BY Zenon DEF CompactCreate, Snapshotting, IInv, Phases
<1>2. /\ up /\ TypeOK /\ cur \in names /\ cur \in FileName
      /\ cur \notin covered /\ cur \notin coveredDisk /\ \A k \in names : k <= cur
  BY Zenon, <1>1, Running DEF Base
<1>3. /\ files \in Files /\ names \in SUBSET FileName
      /\ covered \in SUBSET FileName /\ coveredDisk \in SUBSET FileName
      /\ index \in [Ids -> Entry] /\ doubt \in [Ids -> SUBSET Entry]
      /\ compact \in [pc : {"idle", "expire", "snapshot", "synced", "renamed", "remove"},
                      todo : SUBSET Ids, done : SUBSET Ids,
                      old : SUBSET FileName, snap : FileName \cup {0}]
  BY Zenon, <1>2, Types DEF TypeOK
<1>4. /\ files' \in Files
      /\ n \notin names /\ n \notin covered /\ n \notin coveredDisk
      /\ \A k \in names : k < n
      /\ \A m \in Ids : History(files', {n}, m) = {}
      /\ \A m \in Ids, cov \in SUBSET FileName, e \in Entry :
            Says(files, names \ cov, m, e) => Says(files', names \ cov, m, e)
  <2>1. IsEmptied(files', files, n)
    BY Zenon, <1>1 DEF IsEmptied
  <2> QED
    BY <1>1, <1>2, <2>1, NewFile, ZenonT(30)
<1>5. /\ index' \in [Ids -> Entry] /\ doubt' \in [Ids -> SUBSET Entry]
  BY Zenon, <1>1, <1>3, RestoredFacts
<1>6. compact' = [pc |-> "snapshot", todo |-> {m \in Ids : index'[m].status # "none"},
                  done |-> compact.done, old |-> names, snap |-> n]
  BY <1>3, Zenon DEF CompactCreate
<1>7. TypeOK'
  <2>1. compact' \in [pc : {"idle", "expire", "snapshot", "synced", "renamed", "remove"},
                      todo : SUBSET Ids, done : SUBSET Ids,
                      old : SUBSET FileName, snap : FileName \cup {0}]
    BY Zenon, <1>3, <1>6
  <2>2. names' \subseteq FileName
    BY Zenon, <1>1, <1>3
  <2> QED
    BY Zenon, <1>1, <1>2, <1>4, <1>5, <2>1, <2>2 DEF TypeOK, JournalTypeOK, Files
<1>8. Snapshotting' /\ Base = names /\ Base' = names
  BY Zenon, <1>1, <1>4, <1>6 DEF Base, Snapshotting
<1>9. BaseReplay'
  <2> SUFFICES ASSUME NEW m \in Ids, NEW cov \in {covered, coveredDisk}
               PROVE  \E e \in Entry : Says(files', names \ cov, m, e) /\ e \in Outcomes(m)'
    BY <1>1, <1>8, ZenonT(30) DEF BaseReplay
  <2>1. CASE m \in compact.done
    <3>1. Says(files, names \ cov, m, None) /\ cov \in SUBSET FileName
      BY <1>1, <1>3, <2>1, ZenonT(30) DEF IInv, Phases
    <3>2. None \in Outcomes(m)'
      BY Zenon, <1>1, <2>1, RestoredFacts DEF Outcomes
    <3>3. Says(files', names \ cov, m, None)
      BY <1>4, <3>1, RestoredFacts, ZenonT(30)
    <3> QED
      BY Zenon, <3>2, <3>3, RestoredFacts
  <2>2. CASE m \notin compact.done
    <3>1. PICK e \in Entry : Says(files, names \ cov, m, e) /\ e \in Outcomes(m)
      BY Zenon, <1>2, <1>8 DEF IInv, BaseReplay
    <3>2. Outcomes(m)' = Outcomes(m)
      BY Zenon, <1>1, <2>2 DEF Outcomes
    <3>3. Says(files', names \ cov, m, e)
      BY Zenon, <1>3, <1>4, <3>1
    <3> QED
      BY Zenon, <3>1, <3>2, <3>3
  <2> QED
    BY Zenon, <2>1, <2>2
<1>10. Newest' /\ Down'
  BY Zenon, <1>1, <1>2, <1>8 DEF Newest, Down
<1>11. AbsentIsNone' /\ DoubtDeleted'
  BY Zenon, <1>1 DEF IInv, AbsentIsNone, DoubtDeleted
<1>12. Phases'
  <2>1. \A m \in compact'.todo : Present(m)'
    BY Zenon, <1>6 DEF Present
  <2>2. \A m \in Ids : ~(Present(m)' /\ m \notin compact'.todo)
    BY Zenon, <1>6 DEF Present
  <2>3. /\ compact'.old = names' \ {compact'.snap} /\ compact'.snap = n
        /\ compact'.pc = "snapshot" /\ n \in names' \ (covered' \cup coveredDisk')
        /\ cur' < compact'.snap
    BY Zenon, <1>1, <1>2, <1>4, <1>6
  <2> QED
    BY <1>1, <1>4, <2>1, <2>2, <2>3, ZenonT(30) DEF Phases
<1> QED
  BY Zenon, <1>7, <1>9, <1>10, <1>11, <1>12 DEF IInv

\* A record of the snapshot.
LEMMA SnapshotStep ==
  ASSUME IInv, NEW m0 \in Ids, CompactWrite(m0)
  PROVE  IInv'
<1> DEFINE rec == Single(m0, index[m0])
           s == compact.snap
<1>1. /\ compact.pc = "snapshot" /\ Snapshotting /\ m0 \in compact.todo
      /\ IsAppend(files', files, s, rec)
      /\ compact' = [compact EXCEPT !.todo = @ \ {m0}]
      /\ UNCHANGED <<names, covered, coveredDisk, cur, failed, up, index, dlq, doubt>>
  BY Zenon DEF CompactWrite, Snapshotting, Appended, IsAppend
<1>2. /\ up /\ TypeOK
  BY Zenon, <1>1, Running
<1>3. /\ files \in Files /\ names \in SUBSET FileName /\ index \in [Ids -> Entry]
      /\ compact \in [pc : {"idle", "expire", "snapshot", "synced", "renamed", "remove"},
                      todo : SUBSET Ids, done : SUBSET Ids,
                      old : SUBSET FileName, snap : FileName \cup {0}]
  BY Zenon, <1>2, Types DEF TypeOK
<1>4. /\ s \in names \ (covered \cup coveredDisk) /\ s \in FileName
      /\ compact.old = names \ {s} /\ cur < s /\ ~failed
      /\ \A m \in compact.todo : Present(m)
      /\ \A m \in Ids :
            IF Present(m) /\ m \notin compact.todo
            THEN \E p \in History(files, {s}, m) :
                    IsLast(files, {s}, m, p) /\ EntryAt(files, p, m) = index[m]
            ELSE History(files, {s}, m) = {}
  BY <1>1, <1>3, ZenonT(30) DEF IInv, Phases
<1>5. /\ compact'.pc = "snapshot" /\ compact'.todo = compact.todo \ {m0}
      /\ compact'.old = compact.old /\ compact'.snap = s
  BY Zenon, <1>1, <1>3
<1>6. /\ rec \in Record /\ rec[m0] = index[m0] /\ Mentions(rec, m0)
      /\ \A i \in Ids : i # m0 => ~Mentions(rec, i)
  BY Zenon, <1>1, <1>3, <1>4, SingleFacts DEF Present
<1>7. /\ files' \in Files /\ \A k \in FileName \ {s} : files'[k] = files[k]
  <2> HIDE DEF rec, s
  <2>1. files[s] \in Seq(Record)
    BY Zenon, <1>3, <1>4 DEF Files
  <2>2. Append(files[s], rec) \in Seq(Record)
    BY <1>6, <2>1
  <2> QED
    BY Zenon, <1>1, <1>3, <1>4, <2>2 DEF Files, IsAppend
<1> HIDE DEF rec, s
<1>8. TypeOK'
  BY <1>1, <1>2, <1>3, <1>7, ZenonT(30) DEF TypeOK, JournalTypeOK, Files
<1>9. /\ Snapshotting' /\ Base = names \ {s} /\ Base' = names \ {s}
      /\ \A m \in Ids : Outcomes(m)' = Outcomes(m)
  BY Zenon, <1>1, <1>5 DEF Snapshotting, Base, Outcomes, s
<1>10. BaseReplay'
  <2> SUFFICES ASSUME NEW m \in Ids, NEW cov \in {covered, coveredDisk}
               PROVE  \E e \in Entry : Says(files', Base \ cov, m, e) /\ e \in Outcomes(m)
    BY Zenon, <1>1, <1>9 DEF BaseReplay
  <2>1. PICK e \in Entry : Says(files, Base \ cov, m, e) /\ e \in Outcomes(m)
    BY Zenon, <1>2 DEF IInv, BaseReplay
  <2>2. /\ Base \ cov \in SUBSET FileName /\ \A k \in Base \ cov : files'[k] = files[k]
    BY Zenon, <1>3, <1>7, <1>9
  <2>3. Says(files', Base \ cov, m, e)
    BY Zenon, <1>3, <1>7, <2>1, <2>2, SameFiles
  <2> QED
    BY Zenon, <2>1, <2>3
<1>11. Newest' /\ Down' /\ AbsentIsNone' /\ DoubtDeleted'
  BY Zenon, <1>1, <1>2, <1>9 DEF IInv, Newest, Down, AbsentIsNone, DoubtDeleted
<1>12. ASSUME NEW m \in Ids
       PROVE  IF Present(m) /\ m \notin compact'.todo
              THEN \E p \in History(files', {s}, m) :
                      IsLast(files', {s}, m, p) /\ EntryAt(files', p, m) = index[m]
              ELSE History(files', {s}, m) = {}
  <2>0. {s} \in SUBSET FileName /\ \A k \in {s} : k <= s
    BY <1>4 DEF FileName
  <2>1. CASE m = m0
    <3>1. \E p \in History(files', {s}, m0) :
             IsLast(files', {s}, m0, p) /\ EntryAt(files', p, m0) = rec[m0]
      <4>1. files \in Files /\ s \in {s} /\ IsAppend(files', files, s, rec)
        BY Zenon, <1>1, <1>3
      <4>2. rec \in Record /\ Mentions(rec, m0)
        BY Zenon, <1>6
      <4> QED
        BY <2>0, <4>1, <4>2, AppendMentioned, ZenonT(30)
    <3>2. Present(m) /\ m \notin compact'.todo
      BY Zenon, <1>1, <1>4, <1>5, <2>1
    <3> QED
      BY Zenon, <1>6, <2>1, <3>1, <3>2
  <2>2. CASE m # m0
    <3>1. History(files', {s}, m) = History(files, {s}, m)
      BY <1>1, <1>3, <1>4, <1>6, <2>0, <2>2, AppendOther
    <3>2. \A p \in History(files, {s}, m) : EntryAt(files', p, m) = EntryAt(files, p, m)
      BY <1>1, <1>3, <1>4, <1>6, <2>0, <2>2, AppendOther
    <3>3. m \in compact'.todo <=> m \in compact.todo
      BY Zenon, <1>5, <2>2
    <3>4. CASE Present(m) /\ m \notin compact.todo
      <4>1. PICK p \in History(files, {s}, m) :
               IsLast(files, {s}, m, p) /\ EntryAt(files, p, m) = index[m]
        BY Zenon, <1>4, <3>4
      <4>2. IsLast(files', {s}, m, p) /\ EntryAt(files', p, m) = index[m]
        BY Zenon, <3>1, <3>2, <4>1 DEF IsLast
      <4> QED
        BY Zenon, <3>1, <3>3, <3>4, <4>2
    <3>5. CASE ~(Present(m) /\ m \notin compact.todo)
      BY <1>4, <3>1, <3>3, <3>5, ZenonT(30)
    <3> QED
      BY Zenon, <3>4, <3>5
  <2> QED
    BY Zenon, <2>1, <2>2
<1>13. Phases'
  <2>1. /\ \A m \in Ids : Present(m)' <=> Present(m)
        /\ compact'.todo \subseteq Ids
    BY Zenon, <1>1, <1>3, <1>5 DEF Present
  <2> QED
    BY <1>1, <1>3, <1>4, <1>5, <1>12, <2>1, ZenonT(30) DEF Phases
<1> QED
  BY Zenon, <1>8, <1>10, <1>11, <1>13 DEF IInv

\* The snapshot is complete and synced.
LEMMA SyncStep ==
  ASSUME IInv, CompactSync
  PROVE  IInv'
<1>1. /\ compact.pc = "snapshot" /\ Snapshotting /\ compact.todo = {}
      /\ coveredDisk' = covered /\ compact' = [compact EXCEPT !.pc = "synced"]
      /\ UNCHANGED <<names, files, covered, cur, failed, up, index, dlq, doubt>>
  BY Zenon DEF CompactSync, Snapshotting
<1>2. up /\ TypeOK
  BY Zenon, <1>1, Running
<1>3. /\ compact'.pc = "synced" /\ compact'.todo = {}
      /\ compact'.old = compact.old /\ compact'.snap = compact.snap
  BY Zenon, <1>1, <1>2 DEF TypeOK
<1>4. TypeOK'
  BY <1>1, <1>2, ZenonT(30) DEF TypeOK, JournalTypeOK
<1>5. /\ Snapshotting' /\ Base' = Base /\ \A m \in Ids : Outcomes(m)' = Outcomes(m)
  BY Zenon, <1>1, <1>3 DEF Snapshotting, Base, Outcomes
<1>6. BaseReplay' /\ Newest'
  BY Zenon, <1>1, <1>5 DEF IInv, BaseReplay, Newest
<1>7. Down' /\ AbsentIsNone' /\ DoubtDeleted'
  BY Zenon, <1>1, <1>2 DEF IInv, Down, AbsentIsNone, DoubtDeleted
<1>8. Phases'
  <2>1. \A m \in Ids : Present(m)' <=> Present(m)
    BY Zenon, <1>1 DEF Present
  <2>2. /\ ~failed'
        /\ compact'.old = names' \ {compact'.snap}
        /\ compact'.snap \in names' \ (covered' \cup coveredDisk')
        /\ cur' < compact'.snap
    BY <1>1, <1>3 DEF IInv, Phases
  <2>3. \A m \in Ids :
           IF Present(m)' /\ m \notin compact'.todo
           THEN \E p \in History(files', {compact'.snap}, m) :
                   /\ IsLast(files', {compact'.snap}, m, p)
                   /\ EntryAt(files', p, m) = index'[m]
           ELSE History(files', {compact'.snap}, m) = {}
    BY <1>1, <1>3, <2>1, ZenonT(30) DEF IInv, Phases
  <2> QED
    BY Zenon, <1>3, <2>2, <2>3 DEF Phases
<1> QED
  BY Zenon, <1>4, <1>6, <1>7, <1>8 DEF IInv

\* The checkpoint takes effect: replay now reads the snapshot alone or, if
\* the rename is lost, the snapshot after the files it was made from.
LEMMA CheckpointStep ==
  ASSUME IInv, CompactCommit
  PROVE  IInv'
<1> DEFINE s == compact.snap
<1>1. /\ compact.pc = "synced" /\ Snapshotting
      /\ covered' = compact.old /\ cur' = s /\ doubt' = [m \in Ids |-> {}]
      /\ compact' = [compact EXCEPT !.pc = "renamed"]
      /\ UNCHANGED <<names, files, coveredDisk, failed, up, index, dlq>>
  BY Zenon DEF CompactCommit, Snapshotting
<1>2. /\ up /\ TypeOK /\ cur \in FileName /\ \A n \in Base : n <= cur
  BY Zenon, <1>1, Running
<1>3. /\ files \in Files /\ names \in SUBSET FileName /\ index \in [Ids -> Entry]
      /\ coveredDisk \in SUBSET FileName
      /\ compact \in [pc : {"idle", "expire", "snapshot", "synced", "renamed", "remove"},
                      todo : SUBSET Ids, done : SUBSET Ids,
                      old : SUBSET FileName, snap : FileName \cup {0}]
  BY Zenon, <1>2, Types DEF TypeOK
<1>4. /\ s \in names /\ s \notin coveredDisk /\ s \in FileName /\ ~failed
      /\ compact.old = names \ {s} /\ Base = names \ {s} /\ cur < s
      /\ compact.todo = {}
      /\ \A m \in Ids :
            IF Present(m)
            THEN \E p \in History(files, {s}, m) :
                    IsLast(files, {s}, m, p) /\ EntryAt(files, p, m) = index[m]
            ELSE History(files, {s}, m) = {}
  BY <1>1, <1>3, ZenonT(30) DEF IInv, Phases, Base
<1>5. /\ compact'.pc = "renamed" /\ compact'.old = compact.old /\ ~Snapshotting'
      /\ Base' = names
  BY Zenon, <1>1, <1>3 DEF Snapshotting, Base
<1>6. TypeOK'
  BY <1>1, <1>2, <1>3, <1>4, ZenonT(30) DEF TypeOK, JournalTypeOK
<1>7. \A m \in Ids : Outcomes(m)' = {Restored(index[m])}
  BY Zenon, <1>1 DEF Outcomes
<1> HIDE DEF s
<1>8. ASSUME NEW m \in Ids
      PROVE  Says(files, {s}, m, Restored(index[m]))
  <2>1. CASE Present(m)
    BY <1>4, <2>1, ZenonT(30) DEF Says
  <2>2. CASE ~Present(m)
    <3>1. index[m] = None /\ Restored(index[m]) = None
      BY Zenon, <2>2, RestoredFacts DEF IInv, AbsentIsNone, Present
    <3> QED
      BY Zenon, <1>4, <2>2, <3>1 DEF Says
  <2> QED
    BY Zenon, <2>1, <2>2
<1>9. ASSUME NEW m \in Ids
      PROVE  Says(files, names \ coveredDisk, m, Restored(index[m]))
  <2> DEFINE ns == Base \ coveredDisk
  <2>1. /\ ns \in SUBSET FileName /\ names \ coveredDisk = ns \cup {s}
    BY Zenon, <1>3, <1>4
  <2>2. \A k \in ns : k < s
    BY <1>2, <1>3, <1>4 DEF FileName
  <2>3. PICK e \in Entry : Says(files, ns, m, e) /\ e \in Outcomes(m)
    BY Zenon, <1>2 DEF IInv, BaseReplay
  <2> HIDE DEF ns
  <2>4. CASE Present(m)
    <3>1. PICK p \in History(files, {s}, m) :
             IsLast(files, {s}, m, p) /\ EntryAt(files, p, m) = index[m]
      BY <1>4, <2>4, ZenonT(30)
    <3>2. p \in History(files, ns \cup {s}, m) /\ IsLast(files, ns \cup {s}, m, p)
      <4>1. s \in FileName /\ ns \in SUBSET FileName
        BY Zenon, <1>4, <2>1
      <4> QED
        BY <1>3, <2>2, <3>1, <4>1, Overlay, ZenonT(30)
    <3>3. Says(files, ns \cup {s}, m, Restored(index[m]))
      BY Zenon, <3>1, <3>2 DEF Says
    <3> QED
      BY <2>1, <3>3, Zenon
  <2>5. CASE ~Present(m)
    <3>1. /\ index[m] = None /\ Restored(None) = None
          /\ \A d \in doubt[m] : d.status = "deleted"
      BY Zenon, <1>4, <2>5, RestoredFacts DEF IInv, AbsentIsNone, DoubtDeleted, Present
    <3>2. e = None
      BY Zenon, <2>3, <3>1 DEF Outcomes, Restored, Gone
    <3>3. History(files, ns \cup {s}, m) = History(files, ns, m)
      <4>1. /\ s \in FileName /\ ns \in SUBSET FileName /\ files \in Files
            /\ History(files, {s}, m) = {}
        BY Zenon, <1>3, <1>4, <2>1, <2>5
      <4> QED
        BY <2>2, <4>1, Overlay, ZenonT(30)
    <3>4. Says(files, ns \cup {s}, m, e)
      BY Zenon, <2>3, <3>3, SameHistory
    <3> QED
      BY <2>1, <3>1, <3>2, <3>4, Zenon
  <2> QED
    BY Zenon, <2>4, <2>5
<1>10. BaseReplay'
  <2>1. names \ covered' = {s}
    BY Zenon, <1>1, <1>4
  <2>2. ASSUME NEW m \in Ids, NEW cov \in {covered', coveredDisk}
        PROVE  /\ Says(files, names \ cov, m, Restored(index[m]))
               /\ Restored(index[m]) \in Outcomes(m)' /\ Restored(index[m]) \in Entry
    BY <1>3, <1>7, <1>8, <1>9, <2>1, RestoredFacts, ZenonT(30)
  <2> QED
    BY <1>1, <1>5, <2>2, ZenonT(30) DEF BaseReplay
<1>11. Newest'
  <2>1. \A k \in names : k <= s
    BY <1>2, <1>3, <1>4 DEF FileName
  <2> QED
    BY Zenon, <1>1, <1>4, <1>5, <2>1 DEF Newest, s
<1>12. Down' /\ AbsentIsNone' /\ DoubtDeleted'
  BY Zenon, <1>1, <1>2 DEF IInv, Down, AbsentIsNone, DoubtDeleted
<1>13. Phases'
  BY Zenon, <1>1, <1>4, <1>5 DEF Phases
<1> QED
  BY Zenon, <1>6, <1>10, <1>11, <1>12, <1>13 DEF IInv

\* The process dies or the store is closed: what replay says is kept.
LEMMA StopStep ==
  ASSUME IInv, Reset, UNCHANGED <<names, files>>, cur' = 0, failed' = FALSE,
         covered' \in {covered, coveredDisk}, coveredDisk' \in {covered, coveredDisk}
  PROVE  IInv'
<1>1. /\ up' = FALSE /\ index' = [m \in Ids |-> None] /\ dlq' = {} /\ compact' = Idle
      /\ doubt' = [m \in Ids |-> {}]
  BY Zenon DEF Reset
<1>2. TypeOK'
  <2>1. JournalTypeOK'
    BY ZenonT(30) DEF IInv, TypeOK, JournalTypeOK
  <2>2. /\ up' \in BOOLEAN /\ index' \in [Ids -> Entry] /\ dlq' \subseteq Ids
        /\ doubt' \in [Ids -> SUBSET Entry]
    BY <1>1, RestoredFacts, ZenonT(30)
  <2> QED
    BY Zenon, <1>1, <2>1, <2>2 DEF TypeOK, Idle
<1>3. /\ ~Snapshotting' /\ Base' = names
  BY Zenon, <1>1 DEF Snapshotting, Base, Idle
<1>4. ASSUME NEW m \in Ids, NEW cov \in {covered', coveredDisk'}
      PROVE  \E e \in Entry : Says(files, names \ cov, m, e)
  <2>1. cov \in {covered, coveredDisk}
    BY Zenon
  <2> QED
    BY Zenon, <2>1, FullReplay
<1>5. BaseReplay' /\ Newest'
  BY Zenon, <1>1, <1>3, <1>4 DEF BaseReplay, Newest
<1>6. Down' /\ AbsentIsNone' /\ DoubtDeleted' /\ Phases'
  BY Zenon, <1>1, <1>3 DEF Down, AbsentIsNone, DoubtDeleted, Phases, Idle
<1> QED
  BY Zenon, <1>2, <1>5, <1>6 DEF IInv

\* NewMessageStore rebuilds the index from the journal.
LEMMA StartStep ==
  ASSUME IInv, ClockMonotone, NEW n \in FileName, Start(n)
  PROVE  IInv'
<1>1. /\ ~up /\ up' = TRUE /\ FreshName(n) /\ IsEmptied(files', files, n)
      /\ names' = names \cup {n} /\ cur' = n /\ failed' = FALSE
      /\ coveredDisk' = covered /\ covered' = covered
      /\ index' = [m \in Ids |-> Recovered(covered, m)]
      /\ UNCHANGED <<compact, doubt>>
  BY Zenon DEF Start, Open, IsEmptied
<1>2. /\ TypeOK /\ files \in Files /\ names \in SUBSET FileName
      /\ covered \in SUBSET FileName
      /\ compact = Idle /\ doubt = [m \in Ids |-> {}]
  BY Zenon, <1>1, Types DEF IInv, Down
<1>3. /\ files' \in Files
      /\ n \notin names /\ n \notin covered /\ n \notin coveredDisk
      /\ \A k \in names : k < n
      /\ \A m \in Ids, cov \in SUBSET FileName, e \in Entry :
            Says(files, names \ cov, m, e) => Says(files', (names \ cov) \cup {n}, m, e)
  BY <1>1, <1>2, NewFile, ZenonT(30)
<1>4. ASSUME NEW m \in Ids
      PROVE  /\ index'[m] \in Entry /\ Restored(index'[m]) = index'[m]
             /\ index'[m].status = "none" => index'[m] = None
             /\ Says(files', names' \ covered, m, index'[m])
  <2>1. Base = names
    BY Zenon, <1>2 DEF Base, Snapshotting, Idle
  <2>2. PICK e \in Entry : Says(files, names \ covered, m, e)
    BY Zenon, <2>1 DEF IInv, BaseReplay
  <2>3. names \ covered \in SUBSET FileName /\ names' \ covered = (names \ covered) \cup {n}
    BY Zenon, <1>1, <1>2, <1>3
  <2>4. Replayed(files, names \ covered, m) = e
    BY Zenon, <1>2, <2>2, <2>3, SaysReplayed
  <2>5. index'[m] = e
    BY Zenon, <1>1, <2>4 DEF Recovered
  <2>6. e \in Entry /\ Restored(e) = e /\ (e.status = "none" => e = None)
    BY Zenon, <1>2, <2>2, <2>3, SaysResting
  <2>7. Says(files', (names \ covered) \cup {n}, m, e)
    BY <1>2, <1>3, <2>2, ZenonT(30)
  <2> QED
    BY Zenon, <2>3, <2>5, <2>6, <2>7
<1>5. TypeOK'
  <2>1. index' \in [Ids -> Entry]
    BY Zenon, <1>1, <1>4
  <2>2. dlq' \subseteq Ids
    BY Zenon DEF Start, RecoveredDLQ, ReplayedDLQ
  <2>3. names' \subseteq FileName
    BY Zenon, <1>1, <1>2
  <2> QED
    BY <1>1, <1>2, <1>3, <2>1, <2>2, <2>3, ZenonT(30) DEF TypeOK, JournalTypeOK, Files
<1>6. /\ ~Snapshotting' /\ Base' = names'
  BY Zenon, <1>1, <1>2 DEF Snapshotting, Base, Idle
<1>7. BaseReplay'
  <2>1. \A m \in Ids : index'[m] \in Outcomes(m)'
    BY Zenon, <1>4 DEF Outcomes
  <2> QED
    BY <1>1, <1>4, <1>6, <2>1, ZenonT(30) DEF BaseReplay
<1>8. Newest'
  <2>1. \A k \in names' : k <= n
    BY <1>1, <1>2, <1>3 DEF FileName
  <2> QED
    BY Zenon, <1>1, <1>3, <1>6, <2>1 DEF Newest
<1>9. Down' /\ AbsentIsNone' /\ DoubtDeleted'
  BY Zenon, <1>1, <1>2, <1>4 DEF Down, AbsentIsNone, DoubtDeleted
<1>10. Phases'
  BY Zenon, <1>1, <1>2, <1>6 DEF Phases, Idle
<1> QED
  BY Zenon, <1>5, <1>7, <1>8, <1>9, <1>10 DEF IInv

\* The empty directory before the first start.
LEMMA InitIInv == Init => IInv
<1> SUFFICES ASSUME Init PROVE IInv
  BY Zenon
<1>1. /\ names = {} /\ files = [n \in FileName |-> <<>>] /\ covered = {} /\ coveredDisk = {}
      /\ cur = 0 /\ failed = FALSE /\ up = FALSE /\ index = [m \in Ids |-> None]
      /\ dlq = {} /\ compact = Idle /\ doubt = [m \in Ids |-> {}]
  BY Zenon DEF Init, JournalInit
<1>2. TypeOK
  <2>1. files \in [FileName -> Seq(Record)]
    BY <1>1
  <2>2. index \in [Ids -> Entry] /\ doubt \in [Ids -> SUBSET Entry]
    BY Zenon, <1>1, RestoredFacts
  <2> QED
    BY <1>1, <2>1, <2>2, ZenonT(30) DEF TypeOK, JournalTypeOK, Idle
<1>3. ~Snapshotting /\ Base = {} /\ files \in Files
  BY Zenon, <1>1, <1>2, Types DEF Snapshotting, Base, Idle
<1>4. ASSUME NEW m \in Ids
      PROVE  Says(files, {}, m, None)
  BY <1>3, HistoryParts DEF Says
<1>5. BaseReplay
  BY Zenon, <1>1, <1>3, <1>4, RestoredFacts DEF BaseReplay
<1> QED
  BY Zenon, <1>1, <1>2, <1>3, <1>5
  DEF IInv, Newest, Down, AbsentIsNone, DoubtDeleted, Phases, Idle

\* Every step of the store preserves the inductive invariant.
LEMMA NextIInv ==
  ASSUME ClockMonotone, CleanRemoval, IInv, [Next]_vars
  PROVE  IInv'
<1>1. CASE Operation
  <2>1. TypeOK
    BY Zenon DEF IInv
  <2>2. PICK rec \in Record, nd \in SUBSET Ids : Commit(rec, nd)
    BY Zenon, <1>1, <2>1, OperationCommits
  <2> QED
    BY Zenon, <2>2, CommitStep
<1>2. CASE Compaction
  <2>1. ASSUME NEW expired \in SUBSET Ids, CompactBegin(expired) PROVE IInv'
    BY Zenon, <2>1, BeginStep
  <2>2. ASSUME NEW m \in Ids, CompactExpire(m) PROVE IInv'
    BY Zenon, <2>2, ExpireStep
  <2>3. CASE CompactFail
    BY Zenon, <2>3, FailStep
  <2>4. ASSUME NEW n \in FileName, CompactCreate(n) PROVE IInv'
    BY Zenon, <2>4, CreateStep
  <2>5. ASSUME NEW m \in Ids, CompactWrite(m) PROVE IInv'
    BY <2>5, SnapshotStep
  <2>6. CASE CompactSync
    BY <2>6, SyncStep
  <2>7. CASE CompactCommit
    BY <2>7, CheckpointStep
  <2>8. CASE CompactSyncRename
    BY <2>8, SyncRenameStep
  <2>9. ASSUME NEW n \in FileName, CompactRemove(n) PROVE IInv'
    BY Zenon, <2>9, RemoveStep
  <2>10. CASE CompactEnd
    BY <2>10, EndStep
  <2> QED
    BY Zenon, <1>2, <2>1, <2>2, <2>3, <2>4, <2>5, <2>6, <2>7, <2>8, <2>9, <2>10 DEF Compaction
<1>3. CASE Crash
  <2>1. /\ Reset /\ UNCHANGED <<names, files>> /\ cur' = 0 /\ failed' = FALSE
        /\ covered' \in {covered, coveredDisk} /\ coveredDisk' \in {covered, coveredDisk}
    BY Zenon, <1>3 DEF Crash, Lose
  <2> QED
    BY <2>1, StopStep, ZenonT(30)
<1>4. CASE Close
  <2>1. /\ Reset /\ UNCHANGED <<names, files>> /\ cur' = 0 /\ failed' = FALSE
        /\ covered' \in {covered, coveredDisk} /\ coveredDisk' \in {covered, coveredDisk}
    BY Zenon, <1>4 DEF Close
  <2> QED
    BY <2>1, StopStep, ZenonT(30)
<1>5. ASSUME NEW n \in FileName, Start(n) PROVE IInv'
  BY <1>5, StartStep
<1>6. CASE UNCHANGED vars
  <2>1. /\ Base' = Base /\ (Snapshotting' <=> Snapshotting)
        /\ \A m \in Ids : Outcomes(m)' = Outcomes(m) /\ (Present(m)' <=> Present(m))
    BY Zenon, <1>6 DEF vars, Base, Snapshotting, Outcomes, Present
  <2>2. TypeOK'
    BY Zenon, <1>6 DEF IInv, vars, TypeOK, JournalTypeOK
  <2>3. BaseReplay' /\ Newest' /\ Down' /\ AbsentIsNone' /\ DoubtDeleted'
    <3>1. BaseReplay'
      BY Zenon, <1>6, <2>1 DEF IInv, vars, BaseReplay
    <3>2. Newest' /\ Down'
      BY Zenon, <1>6, <2>1 DEF IInv, vars, Newest, Down
    <3>3. AbsentIsNone' /\ DoubtDeleted'
      BY Zenon, <1>6 DEF IInv, vars, AbsentIsNone, DoubtDeleted
    <3> QED
      BY Zenon, <3>1, <3>2, <3>3
  <2>4. Phases'
    <3>1. Phases /\ UNCHANGED <<names, files, covered, coveredDisk, cur, failed, compact, index>>
      BY Zenon, <1>6 DEF IInv, vars
    <3> QED
      BY Zenon, <3>1 DEF Phases, Snapshotting, Present
  <2> QED
    BY Zenon, <2>2, <2>3, <2>4 DEF IInv
<1> QED
  BY Zenon, <1>1, <1>2, <1>3, <1>4, <1>5, <1>6 DEF Next

-----------------------------------------------------------------------------
(* The theorems.                                                           *)

\* With a wall clock that does not step back between two openings of the
\* directory (journalName orders the files by it), and if a snapshot Compact
\* abandons stays removed, the inductive invariant holds of every behaviour.
THEOREM StoreInvariant ==
  ASSUME ClockMonotone, CleanRemoval
  PROVE  Spec => []IInv
<1>1. Init => IInv
  BY Zenon, InitIInv
<1>2. IInv /\ [Next]_vars => IInv'
  BY Zenon, NextIInv
<1> QED
  BY <1>1, <1>2, PTL DEF Spec

\* The store's variables keep their types.
THEOREM StoreTypes ==
  ASSUME ClockMonotone, CleanRemoval
  PROVE  Spec => []TypeOK
<1>1. IInv => TypeOK
  BY Zenon DEF IInv
<1> QED
  BY <1>1, StoreInvariant, PTL

\* A crash at any instant, with either version of checkpoint.json surviving,
\* loses no message and revives none: recover finds what the index says or
\* what an operation reported as failed left in the journal.
THEOREM CrashSafety ==
  ASSUME ClockMonotone, CleanRemoval
  PROVE  Spec => []Recoverable
<1>1. IInv => Recoverable
  <2> SUFFICES ASSUME IInv, up, NEW m \in Ids, NEW cov \in {covered, coveredDisk}
               PROVE  Recovered(cov, m) \in Outcomes(m)
    BY Zenon DEF Recoverable
  <2>1. PICK e \in Entry : Says(files, names \ cov, m, e) /\ e \in Outcomes(m)
    BY Zenon, FullReplay
  <2>2. files \in Files /\ names \ cov \in SUBSET FileName
    BY Zenon, Types DEF IInv
  <2>3. Replayed(files, names \ cov, m) = e
    BY Zenon, <2>1, <2>2, SaysReplayed
  <2> QED
    BY Zenon, <2>1, <2>3 DEF Recovered
<1> QED
  BY <1>1, StoreInvariant, PTL

\* Every permanently failed message is listed by GetDLQ, also right after a
\* restart: UpdateStatus adds it, and recover finds its last record.
THEOREM FailedListed ==
  ASSUME ClockMonotone, CleanRemoval
  PROVE  Spec => []FailedInDLQ
<1>1. Init => FailedInDLQ
  BY Zenon DEF Init, FailedInDLQ
<1>2. ASSUME IInv, FailedInDLQ, [Next]_vars
      PROVE  FailedInDLQ'
  <2>0. TypeOK /\ index \in [Ids -> Entry]
    BY Zenon, <1>2, Types DEF IInv
  <2>1. CASE Operation
    <3>1. ASSUME NEW rec \in Record, NEW nd \in SUBSET Ids, Commit(rec, nd),
                 \A i \in Ids : rec[i].status = "failed" => i \in nd,
                 \A i \in dlq : i \in nd \/ Mentions(rec, i)
          PROVE  FailedInDLQ'
      BY <1>2, <2>0, <3>1 DEF FailedInDLQ, Commit, Applied, Mentions, Record, None
    <3>2. ASSUME NEW m \in Ids, NEW e \in Entry, NEW nd \in SUBSET Ids,
                 Commit(Single(m, e), nd), e.status # "none",
                 e.status = "failed" => m \in nd, dlq \ {m} \subseteq nd
          PROVE  FailedInDLQ'
      <4>1. Single(m, e) \in Record
        BY Zenon, SingleFacts
      <4>2. ASSUME NEW i \in Ids, Single(m, e)[i].status = "failed"
            PROVE  i \in nd
        BY Zenon, <3>2, <4>2 DEF Single, None
      <4>3. ASSUME NEW i \in dlq
            PROVE  i \in nd \/ Mentions(Single(m, e), i)
        BY Zenon, <2>0, <3>2, SingleFacts
      <4> QED
        BY Zenon, <3>1, <3>2, <4>1, <4>2, <4>3
    <3>3. dlq \subseteq Ids
      BY Zenon, <2>0, JournalAssumption DEF TypeOK
    <3>4. ASSUME NEW m \in Ids, NEW st \in CreatedAs, NEW to \in SUBSET Rcpts,
                 NEW rs \in SUBSET Ids, StoreWithReceipt(m, st, to, rs)
          PROVE  FailedInDLQ'
      <4> DEFINE entry(x) == [status |-> x, to |-> to, attempts |-> 0]
                 rec == NewRecord(m, st, to, rs)
      <4>1. entry(st) \in Entry /\ entry("stored") \in Entry /\ None \in Entry
        BY RestoredFacts, JournalAssumption DEF Entry, CreatedAs, Status, Resting
      <4>2. rec \in Record /\ \A i \in Ids : rec[i].status # "failed"
        BY Zenon, <4>1 DEF Record, NewRecord, CreatedAs, None
      <4>3. Commit(rec, dlq)
        BY Zenon, <3>4 DEF StoreWithReceipt
      <4> HIDE DEF rec
      <4> QED
        BY Zenon, <3>1, <3>3, <4>2, <4>3
    <3>5. ASSUME NEW m \in Ids, NEW st \in Finished, UpdateStatus(m, st)
          PROVE  FailedInDLQ'
      <4> DEFINE e == [index[m] EXCEPT !.status = st]
                 nd == IF st = "failed" THEN dlq \cup {m} ELSE dlq \ {m}
      <4>1. e \in Entry /\ e.status = st /\ st # "none"
        BY Zenon, <2>0 DEF Entry, Finished, Status, Resting, Gone
      <4>2. nd \in SUBSET Ids /\ (st = "failed" => m \in nd) /\ dlq \ {m} \subseteq nd
        BY Zenon, <3>3
      <4>3. Commit(Single(m, e), nd)
        BY Zenon, <3>5 DEF UpdateStatus
      <4> HIDE DEF e, nd
      <4> QED
        BY Zenon, <3>2, <4>1, <4>2, <4>3
    <3>6. ASSUME NEW m \in Ids, NEW to \in SUBSET Rcpts, UpdateRecipients(m, to)
          PROVE  FailedInDLQ'
      <4> DEFINE e == [index[m] EXCEPT !.to = to]
      <4>1. /\ e \in Entry /\ e.status = index[m].status
            /\ Present(m) /\ Commit(Single(m, e), dlq) /\ up
        BY Zenon, <2>0, <3>6 DEF Entry, UpdateRecipients, Commit, Ready
      <4>2. e.status # "none" /\ (e.status = "failed" => m \in dlq)
        BY Zenon, <1>2, <4>1 DEF Present, FailedInDLQ
      <4> HIDE DEF e
      <4> QED
        BY Zenon, <3>2, <3>3, <4>1, <4>2
    <3>7. ASSUME NEW m \in Ids, NEW mv \in Moves, Transition(m, mv[1], mv[2])
          PROVE  FailedInDLQ'
      <4> DEFINE n == IF mv[2] = "processing" THEN index[m].attempts + 1
                      ELSE index[m].attempts
                 e == [index[m] EXCEPT !.status = mv[2], !.attempts = n]
      <4>1. /\ mv[2] \in Status /\ mv[2] # "none" /\ mv[2] # "failed"
            /\ mv[2] = "processing" => index[m].attempts < MaxAttempts
        BY <3>7 DEF Moves, Status, Resting, Gone, Claimed, Transition
      <4>2. n \in 0 .. MaxAttempts
        BY <2>0, <4>1, JournalAssumption DEF Entry
      <4>3. e \in Entry
        BY Zenon, <2>0, <4>1, <4>2, EntryUpdate
      <4>4. e.status = mv[2]
        BY <2>0, Zenon DEF Entry
      <4>5. Commit(Single(m, e), dlq)
        BY Zenon, <3>7 DEF Transition
      <4> HIDE DEF e
      <4> QED
        BY Zenon, <3>2, <3>3, <4>1, <4>3, <4>4, <4>5
    <3>8. ASSUME NEW m \in Ids, RetryFromDLQ(m)
          PROVE  FailedInDLQ'
      <4> DEFINE e == [index[m] EXCEPT !.status = "pending", !.attempts = 0]
      <4>1. "pending" \in Status /\ 0 \in 0 .. MaxAttempts /\ index[m] \in Entry
        BY <2>0, JournalAssumption DEF Status, Resting
      <4>2. e \in Entry
        BY <4>1, EntryUpdate, Zenon
      <4>3. e.status = "pending"
        BY <4>1, Zenon DEF Entry
      <4>4. Commit(Single(m, e), dlq \ {m}) /\ dlq \ {m} \in SUBSET Ids
        BY Zenon, <3>3, <3>8 DEF RetryFromDLQ
      <4> HIDE DEF e
      <4> QED
        BY Zenon, <3>2, <4>2, <4>3, <4>4
    <3>9. ASSUME NEW m \in Ids, ReleaseHeld(m)
          PROVE  FailedInDLQ'
      <4> DEFINE e == [index[m] EXCEPT !.status = "pending"]
      <4>1. e \in Entry /\ e.status = "pending"
        BY Zenon, <2>0 DEF Entry, Status, Resting
      <4>2. Commit(Single(m, e), dlq)
        BY Zenon, <3>9 DEF ReleaseHeld
      <4> HIDE DEF e
      <4> QED
        BY Zenon, <3>2, <3>3, <4>1, <4>2
    <3> QED
      BY Zenon, <2>1, <3>4, <3>5, <3>6, <3>7, <3>8, <3>9 DEF Operation
  <2>2. CASE Compaction
    <3>1. ASSUME NEW n \in FileName, CompactCreate(n)
          PROVE  FailedInDLQ'
      BY Zenon, <1>2, <3>1 DEF CompactCreate, FailedInDLQ, None
    <3>2. CASE UNCHANGED <<up, index, dlq>>
      BY Zenon, <1>2, <3>2 DEF FailedInDLQ
    <3>3. ASSUME NEW expired \in SUBSET Ids, CompactBegin(expired)
          PROVE  UNCHANGED <<up, index, dlq>>
      BY Zenon, <3>3 DEF CompactBegin
    <3>4. ASSUME NEW m \in Ids, CompactExpire(m)
          PROVE  UNCHANGED <<up, index, dlq>>
      BY Zenon, <3>4 DEF CompactExpire, CompactAbort
    <3>5. ASSUME NEW m \in Ids, CompactWrite(m)
          PROVE  UNCHANGED <<up, index, dlq>>
      BY Zenon, <3>5 DEF CompactWrite
    <3>6. ASSUME CompactFail \/ CompactSync \/ CompactCommit
          PROVE  UNCHANGED <<up, index, dlq>>
      BY Zenon, <3>6 DEF CompactFail, CompactSync, CompactCommit, CompactAbort
    <3>7. ASSUME CompactSyncRename \/ CompactEnd
          PROVE  UNCHANGED <<up, index, dlq>>
      BY Zenon, <3>7 DEF CompactSyncRename, CompactEnd, CompactAbort
    <3>8. ASSUME NEW n \in FileName, CompactRemove(n)
          PROVE  UNCHANGED <<up, index, dlq>>
      BY Zenon, <3>8 DEF CompactRemove, CompactAbort
    <3> QED
      BY Zenon, <2>2, <3>1, <3>2, <3>3, <3>4, <3>5, <3>6, <3>7, <3>8 DEF Compaction
  <2>3. CASE Crash \/ Close
    BY Zenon, <2>3 DEF Crash, Close, Reset, FailedInDLQ
  <2>4. ASSUME NEW n \in FileName, Start(n)
        PROVE  FailedInDLQ'
    <3> SUFFICES ASSUME NEW m \in Ids, index'[m].status = "failed"
                 PROVE  m \in dlq'
      BY Zenon DEF FailedInDLQ
    <3> DEFINE ns == names \ covered
    <3>1. /\ index'[m] = Replayed(files, ns, m) /\ dlq' = ReplayedDLQ(files, ns)
          /\ files \in Files /\ ns \in SUBSET FileName /\ Base = names
      <4>1. index'[m] = Replayed(files, ns, m) /\ dlq' = ReplayedDLQ(files, ns)
        BY Zenon, <2>4 DEF Start, Recovered, RecoveredDLQ
      <4>2. files \in Files /\ ns \in SUBSET FileName
        BY Zenon, <2>0, Types
      <4>3. compact = Idle
        BY Zenon, <1>2, <2>4 DEF Start, IInv, Down
      <4>4. Base = names
        BY Zenon, <4>3 DEF Base, Snapshotting, Idle
      <4> QED
        BY Zenon, <4>1, <4>2, <4>4
    <3>2. PICK e \in Entry : Says(files, ns, m, e)
      BY Zenon, <1>2, <3>1 DEF IInv, BaseReplay
    <3> HIDE DEF ns
    <3>3. e = index'[m]
      BY Zenon, <3>1, <3>2, SaysReplayed
    <3>4. PICK p \in History(files, ns, m) :
             IsLast(files, ns, m, p) /\ e = Restored(EntryAt(files, p, m))
      <4>1. e # None
        BY <3>3 DEF None
      <4> QED
        BY <3>2, <4>1, Zenon DEF Says
    <3>5. EntryAt(files, p, m) \in Entry
      BY <3>1, HistoryParts DEF EntryAt, Files, Record
    <3>6. EntryAt(files, p, m).status = "failed"
      BY <3>3, <3>4, <3>5 DEF Restored, None, Entry
    <3>7. ASSUME NEW q \in History(files, ns, m), Before(p, q)
          PROVE  FALSE
      <4>1. /\ p[1] \in Nat /\ p[2] \in Nat /\ q[1] \in Nat /\ q[2] \in Nat
        BY <3>1, HistoryParts DEF FileName
      <4>2. q = p \/ Before(q, p)
        BY Zenon, <3>4 DEF IsLast
      <4> QED
        BY <3>7, <4>1, <4>2 DEF Before
    <3> QED
      BY Zenon, <3>1, <3>6, <3>7 DEF ReplayedDLQ
  <2>5. CASE UNCHANGED vars
    BY Zenon, <1>2, <2>5 DEF vars, FailedInDLQ
  <2> QED
    BY Zenon, <1>2, <2>1, <2>2, <2>3, <2>4, <2>5 DEF Next
<1> QED
  BY <1>1, <1>2, StoreInvariant, PTL DEF Spec

-----------------------------------------------------------------------------
(* The store implements Spool: the refinement mapping step by step.        *)

\* The abstract store's entries.
Rest == Abstract!RestingEntry

\* What recovery makes of an entry is an entry of the abstract store.
LEMMA RestoredRests ==
  ASSUME NEW e \in Entry
  PROVE  /\ Restored(e) \in Rest
         /\ e.status \in Gone => Restored(e) = None
         /\ e.status \in Claimed => /\ Restored(e).status = "pending"
                                    /\ Restored(e).to = e.to /\ Restored(e).attempts = e.attempts
         /\ e.status \notin Gone \cup Claimed => Restored(e) = e
         /\ (Restored(e).status = "none" <=> e.status \in Gone \cup {"none"})
         /\ Restored(e) = [status |-> Restored(e).status, to |-> Restored(e).to,
                           attempts |-> Restored(e).attempts]
<1>1. CASE e.status \in Gone
  <2>1. Restored(e) = None
    BY Zenon, <1>1 DEF Restored
  <2> QED
    BY <1>1, <2>1, JournalAssumption DEF None, Rest, Abstract!RestingEntry, Gone, Claimed
<1>2. CASE e.status \in Claimed
  <2>1. Restored(e) = [status |-> "pending", to |-> e.to, attempts |-> e.attempts]
    BY Zenon, <1>2 DEF Restored, Gone, Claimed, Entry
  <2> QED
    BY <1>2, <2>1 DEF Entry, Rest, Abstract!RestingEntry, Gone, Claimed
<1>3. CASE e.status \notin Gone \cup Claimed
  <2>1. Restored(e) = e
    BY Zenon, <1>3 DEF Restored
  <2> QED
    BY Zenon, <1>3, <2>1 DEF Entry, Status, Resting, Rest, Abstract!RestingEntry, Gone, Claimed
<1> QED
  BY Zenon, <1>1, <1>2, <1>3

\* The mapped state has the abstract store's types.
Mapped ==
  /\ Contents \in [Ids -> Rest] /\ Doubts \in [Ids -> SUBSET Rest]
  /\ \A m \in Ids : up => Contents[m] = Restored(index[m])
  /\ \A m \in Ids : ~up => Contents[m] = Recovered(covered, m)

LEMMA MappedTypes == IInv => Mapped
<1> SUFFICES ASSUME IInv PROVE Mapped
  BY Zenon
<1>1. index \in [Ids -> Entry] /\ doubt \in [Ids -> SUBSET Entry]
  BY Zenon, Types DEF IInv
<1>2. ASSUME NEW m \in Ids PROVE Recovered(covered, m) \in Rest
  <2>1. PICK e \in Entry : Says(files, names \ covered, m, e)
    BY Zenon, FullReplay
  <2>2. files \in Files /\ names \ covered \in SUBSET FileName
    BY Zenon, Types DEF IInv
  <2>3. Recovered(covered, m) = e /\ Restored(e) = e
    BY Zenon, <2>1, <2>2, SaysReplayed, SaysResting DEF Recovered
  <2> QED
    BY Zenon, <2>3, RestoredRests
<1>3. ASSUME NEW m \in Ids PROVE Restored(index[m]) \in Rest
  BY Zenon, <1>1, RestoredRests
<1>4. ASSUME NEW m \in Ids PROVE {Restored(e) : e \in doubt[m]} \subseteq Rest
  BY Zenon, <1>1, RestoredRests
<1> QED
  BY Zenon, <1>2, <1>3, <1>4 DEF Contents, Doubts, Mapped

\* The same of the next state.
LEMMA MappedNext == IInv' => Mapped'
  BY MappedTypes, PTL

\* The state of Compact is a record of its five variables.
LEMMA CompactRecord ==
  ASSUME IInv
  PROVE  compact \in [pc : {"idle", "expire", "snapshot", "synced", "renamed", "remove"},
                      todo : SUBSET Ids, done : SUBSET Ids,
                      old : SUBSET FileName, snap : FileName \cup {0}]
BY Zenon DEF IInv, TypeOK

\* Compact's variables after a message is expired, and around the rename.
LEMMA ExpireRecord ==
  ASSUME IInv, NEW m,
         \/ compact' = Idle
         \/ compact' = [compact EXCEPT !.todo = @ \ {m}, !.done = @ \cup {m}]
  PROVE  \/ compact'.pc = "idle"
         \/ /\ compact'.pc = compact.pc /\ compact'.todo = compact.todo \ {m}
            /\ compact'.done = compact.done \cup {m}
<1>1. CASE compact' = Idle
  BY Zenon, <1>1 DEF Idle
<1>2. CASE compact' = [compact EXCEPT !.todo = @ \ {m}, !.done = @ \cup {m}]
  BY Zenon, <1>2, CompactRecord
<1> QED
  BY Zenon, <1>1, <1>2

LEMMA RenameRecord ==
  ASSUME IInv,
         \/ compact' = Idle \/ compact' = [compact EXCEPT !.pc = "remove"]
         \/ compact'.pc = "expire"
  PROVE  compact'.pc \in {"idle", "expire", "remove"}
<1>1. CASE compact' = Idle
  BY Zenon, <1>1 DEF Idle
<1>2. CASE compact' = [compact EXCEPT !.pc = "remove"]
  BY Zenon, <1>2, CompactRecord
<1> QED
  BY Zenon, <1>1, <1>2

-----------------------------------------------------------------------------
(* Either checkpoint tells the same history.                               *)

\* Both checkpoints lead to one entry.
LEMMA OneHistory ==
  ASSUME IInv, Alike, NEW m \in Ids
  PROVE  \E e \in Entry : Says(files, Base \ covered, m, e) /\ Says(files, Base \ coveredDisk, m, e)
<1>1. PICK e \in Entry : Says(files, Base \ covered, m, e)
  BY Zenon DEF IInv, BaseReplay
<1>2. PICK f \in Entry : Says(files, Base \ coveredDisk, m, f)
  BY Zenon DEF IInv, BaseReplay
<1>3. files \in Files /\ Base \ covered \in SUBSET FileName /\ Base \ coveredDisk \in SUBSET FileName
  BY Zenon, Types DEF IInv, Base
<1>4. e = f
  BY Zenon, <1>1, <1>2, <1>3, SaysReplayed DEF Alike
<1> QED
  BY Zenon, <1>1, <1>2, <1>4

\* One entry for each message makes the checkpoints alike.
LEMMA AlikeNext ==
  ASSUME IInv',
         \A m \in Ids : \E e : Says(files', Base' \ covered', m, e) /\ Says(files', Base' \ coveredDisk', m, e)
  PROVE  Alike'
<1>1. files' \in Files /\ Base' \ covered' \in SUBSET FileName /\ Base' \ coveredDisk' \in SUBSET FileName
  BY Zenon DEF IInv, Base, TypeOK, JournalTypeOK, Files
<1>2. ASSUME NEW m \in Ids
      PROVE  Replayed(files', Base' \ covered', m) = Replayed(files', Base' \ coveredDisk', m)
  <2>1. PICK e : Says(files', Base' \ covered', m, e) /\ Says(files', Base' \ coveredDisk', m, e)
    BY Zenon
  <2> QED
    BY Zenon, <1>1, <2>1, SaysReplayed
<1> QED
  BY Zenon, <1>2 DEF Alike

\* A step that leaves the checkpoints and the history alone.
LEMMA AlikeSame ==
  ASSUME IInv, Alike, IInv', UNCHANGED <<covered, coveredDisk>>, Base' = Base,
         \A k \in Base : files'[k] = files[k]
  PROVE  Alike'
<1>1. /\ files \in Files /\ files' \in Files
      /\ Base \ covered \in SUBSET FileName /\ Base \ coveredDisk \in SUBSET FileName
  BY Zenon DEF IInv, Base, TypeOK, JournalTypeOK, Files
<1>2. ASSUME NEW m \in Ids
      PROVE  \E e : Says(files', Base' \ covered', m, e) /\ Says(files', Base' \ coveredDisk', m, e)
  <2>1. PICK e \in Entry : Says(files, Base \ covered, m, e) /\ Says(files, Base \ coveredDisk, m, e)
    BY Zenon, OneHistory
  <2>2. Says(files', Base \ covered, m, e)
    BY Zenon, <1>1, <2>1, SameFiles
  <2>3. Says(files', Base \ coveredDisk, m, e)
    BY Zenon, <1>1, <2>1, SameFiles
  <2> QED
    BY Zenon, <2>2, <2>3
<1> QED
  BY Zenon, <1>2, AlikeNext

\* A record appended to the open file is the last word under both.
LEMMA AlikeWrite ==
  ASSUME IInv, Alike, IInv', up, ~Snapshotting, ~Snapshotting', NEW rec \in Record,
         files' = files \/ files' = Appended(cur, rec),
         UNCHANGED <<names, covered, coveredDisk>>
  PROVE  Alike'
<1>1. Base = names /\ Base' = names
  BY Zenon DEF Base
<1>2. ASSUME NEW m \in Ids
      PROVE  \E e : Says(files', Base' \ covered', m, e) /\ Says(files', Base' \ coveredDisk', m, e)
  <2>1. PICK e \in Entry : Says(files, names \ covered, m, e) /\ Says(files, names \ coveredDisk, m, e)
    BY Zenon, <1>1, OneHistory
  <2>2. CASE files' = Appended(cur, rec) /\ Mentions(rec, m)
    <3>1. \A cov \in {covered, coveredDisk} : Says(files', names \ cov, m, Restored(rec[m]))
      BY <2>2, WriteStep, Zenon
    <3> QED
      BY <1>1, <3>1, Zenon
  <2>3. CASE files' = files \/ ~Mentions(rec, m)
    <3>1. \A cov \in {covered, coveredDisk} :
             Says(files, names \ cov, m, e) => Says(files', names \ cov, m, e)
      BY <2>3, WriteStep, Zenon
    <3> QED
      BY <1>1, <2>1, <3>1, Zenon
  <2> QED
    BY Zenon, <2>2, <2>3
<1> QED
  BY Zenon, <1>2, AlikeNext

\* The renamed checkpoint leaves the snapshot, which says what all the files
\* before it said.
LEMMA AlikeCheckpoint ==
  ASSUME IInv, Alike, IInv', CompactCommit
  PROVE  Alike'
<1> DEFINE s == compact.snap
<1>1. /\ compact.pc = "synced" /\ Snapshotting /\ ~failed /\ up
      /\ covered' = compact.old /\ coveredDisk' = coveredDisk /\ names' = names /\ files' = files
      /\ compact' = [compact EXCEPT !.pc = "renamed"]
  BY Zenon, Running DEF CompactCommit, Snapshotting, IInv, Phases
<1>2. /\ Base' = names /\ Base = names \ {s} /\ compact.old = names \ {s}
      /\ s \in names \ (covered \cup coveredDisk) /\ cur < s /\ s \in FileName
      /\ \A k \in Base : k <= cur
  <2>1. compact'.pc = "renamed"
    BY Zenon, <1>1 DEF IInv, TypeOK
  <2> QED
    BY Zenon, <1>1, <2>1, Running DEF Base, Snapshotting, IInv, Phases, TypeOK, JournalTypeOK
<1>3. /\ files \in Files /\ names \in SUBSET FileName /\ coveredDisk \in SUBSET FileName
      /\ index \in [Ids -> Entry] /\ doubt \in [Ids -> SUBSET Entry]
  BY Zenon, Types DEF IInv
<1>4. /\ Base' \ covered' = {s} /\ Base' \ coveredDisk' = (Base \ coveredDisk) \cup {s}
      /\ \A k \in Base \ coveredDisk : k < s
  <2>1. \A k \in Base : k \in Nat
    BY <1>2, <1>3 DEF FileName
  <2>2. cur \in Nat /\ s \in Nat
    BY <1>1, <1>2, Running DEF FileName
  <2> QED
    BY <1>1, <1>2, <2>1, <2>2
<1> HIDE DEF s
<1>5. ASSUME NEW m \in Ids
      PROVE  \E e : Says(files', Base' \ covered', m, e) /\ Says(files', Base' \ coveredDisk', m, e)
  <2>0. Base \ coveredDisk \in SUBSET FileName
    BY Zenon, <1>2, <1>3
  <2>1. CASE Present(m)
    <3>1. PICK p \in History(files, {s}, m) :
             IsLast(files, {s}, m, p) /\ EntryAt(files, p, m) = index[m]
      BY Zenon, <1>1, <2>1 DEF IInv, Phases, s
    <3>2. /\ p \in History(files, (Base \ coveredDisk) \cup {s}, m)
          /\ IsLast(files, (Base \ coveredDisk) \cup {s}, m, p)
      BY Zenon, <1>2, <1>3, <1>4, <2>0, <3>1, Overlay
    <3>3. Says(files, {s}, m, Restored(index[m]))
      BY <3>1, Zenon DEF Says
    <3>4. Says(files, (Base \ coveredDisk) \cup {s}, m, Restored(index[m]))
      BY <3>1, <3>2, Zenon DEF Says
    <3> QED
      BY Zenon, <1>1, <1>4, <3>3, <3>4
  <2>2. CASE ~Present(m)
    <3>1. History(files, {s}, m) = {}
      BY Zenon, <1>1, <2>2 DEF IInv, Phases, s
    <3>2. PICK e \in Entry : Says(files, Base \ coveredDisk, m, e) /\ e \in Outcomes(m)
      BY Zenon, <1>1 DEF IInv, BaseReplay
    <3>3. e = None
      <4>1. \A f \in doubt[m] : f.status = "deleted" /\ Restored(f) = None
        BY Zenon, <1>1, <1>3 DEF IInv, DoubtDeleted, Restored, Gone
      <4>2. index[m] = None
        BY Zenon, <2>2 DEF IInv, AbsentIsNone, Present
      <4> QED
        BY Zenon, <3>2, <4>1, <4>2, RestoredFacts DEF Outcomes
    <3>4. History(files, (Base \ coveredDisk) \cup {s}, m) = History(files, Base \ coveredDisk, m)
      BY Zenon, <1>2, <1>3, <1>4, <2>0, <3>1, Overlay
    <3>5. Says(files, (Base \ coveredDisk) \cup {s}, m, None)
      BY Zenon, <3>2, <3>3, <3>4, SameHistory
    <3>6. Says(files, {s}, m, None)
      BY Zenon, <3>1 DEF Says
    <3> QED
      BY Zenon, <1>1, <1>4, <3>5, <3>6
  <2> QED
    BY Zenon, <2>1, <2>2
<1> QED
  BY Zenon, <1>5, AlikeNext

\* A checkpoint read again after a sync, or a history nobody touched.
LEMMA AlikeStep ==
  ASSUME ClockMonotone, CleanRemoval, IInv, Alike, [Next]_vars
  PROVE  Alike'
<1>0. IInv'
  BY Zenon, NextIInv
<1>1. CASE coveredDisk' = covered'
  BY Zenon, <1>1 DEF Alike
<1>2. CASE UNCHANGED <<names, files, covered, coveredDisk, compact>>
  <2>1. Base' = Base
    BY Zenon, <1>2 DEF Base, Snapshotting
  <2> QED
    BY Zenon, <1>0, <1>2, <2>1, AlikeSame
<1>3. CASE Operation
  <2>1. PICK rec \in Record, nd \in SUBSET Ids : Commit(rec, nd)
    BY Zenon, <1>3, OperationCommits DEF IInv
  <2>2. /\ up /\ ~Snapshotting /\ ~Snapshotting'
        /\ files' = files \/ files' = Appended(cur, rec)
        /\ UNCHANGED <<names, covered, coveredDisk>>
    BY Zenon, <2>1 DEF Commit, Ready, Snapshotting, WriteOk, WriteLatched
  <2> QED
    BY Zenon, <1>0, <2>2, AlikeWrite
<1>4. ASSUME NEW m \in Ids, CompactExpire(m) PROVE Alike'
  <2> DEFINE rec == Single(m, [index[m] EXCEPT !.status = "deleted"])
  <2>1. rec \in Record
    <3>1. index[m] \in Entry
      BY Zenon, Types DEF IInv
    <3>2. [index[m] EXCEPT !.status = "deleted"] \in Entry
      BY Zenon, <3>1 DEF Entry, Status, Gone
    <3> QED
      BY Zenon, <3>2, SingleFacts
  <2>2. /\ compact.pc = "expire" /\ compact'.pc \in {"expire", "idle"}
        /\ files' = files \/ files' = Appended(cur, rec)
        /\ UNCHANGED <<names, covered, coveredDisk>>
    <3>1. /\ compact.pc = "expire"
          /\ \/ compact' = Idle
             \/ compact' = [compact EXCEPT !.todo = @ \ {m}, !.done = @ \cup {m}]
      BY <1>4, Zenon DEF CompactExpire, CompactAbort
    <3>2. compact'.pc \in {"expire", "idle"}
      BY Zenon, <3>1, ExpireRecord
    <3>3. /\ files' = files \/ files' = Appended(cur, rec)
          /\ UNCHANGED <<names, covered, coveredDisk>>
      BY Zenon, <1>4 DEF CompactExpire, WriteOk, WriteLatched
    <3> QED
      BY Zenon, <3>1, <3>2, <3>3
  <2>3. up /\ ~Snapshotting /\ ~Snapshotting'
    BY Zenon, <2>2, Running DEF Snapshotting
  <2> HIDE DEF rec
  <2> QED
    BY Zenon, <1>0, <2>1, <2>2, <2>3, AlikeWrite
<1>5. CASE CompactFail
  <2>1. /\ compact.pc \in {"expire", "snapshot", "synced"} /\ compact'.pc = "idle"
        /\ names' = names \ {compact.snap} /\ UNCHANGED <<covered, coveredDisk>>
        /\ files' = [n \in FileName |-> IF n = compact.snap THEN <<>> ELSE files[n]]
    BY Zenon, <1>5 DEF CompactFail, CompactAbort, Idle
  <2>2. Base' = Base /\ compact.snap \notin Base /\ names \subseteq FileName
    BY <2>1, <1>0 DEF Base, Snapshotting, IInv, Phases, TypeOK, JournalTypeOK, FileName
  <2>3. \A k \in Base : files'[k] = files[k]
    BY Zenon, <2>1, <2>2 DEF Base
  <2> QED
    BY Zenon, <1>0, <2>1, <2>2, <2>3, AlikeSame
<1>6. ASSUME NEW n \in FileName, CompactCreate(n) PROVE Alike'
  <2>1. /\ compact.pc = "expire" /\ n \notin names /\ names' = names \cup {n}
        /\ files' = [files EXCEPT ![n] = <<>>] /\ UNCHANGED <<covered, coveredDisk>>
        /\ compact'.pc = "snapshot" /\ compact'.snap = n
    BY Zenon, <1>6 DEF CompactCreate, FreshName, IInv, TypeOK
  <2>2. Base' = Base /\ n \notin Base /\ Base \subseteq FileName
    BY <2>1 DEF Base, Snapshotting, IInv, TypeOK, JournalTypeOK
  <2>3. \A k \in Base : files'[k] = files[k]
    BY Zenon, <2>1, <2>2 DEF IInv, TypeOK, JournalTypeOK
  <2> QED
    BY Zenon, <1>0, <2>1, <2>2, <2>3, AlikeSame
<1>7. ASSUME NEW m \in Ids, CompactWrite(m) PROVE Alike'
  <2>1. /\ compact.pc = "snapshot" /\ files' = Appended(compact.snap, Single(m, index[m]))
        /\ UNCHANGED <<names, covered, coveredDisk>>
        /\ compact'.pc = compact.pc /\ compact'.snap = compact.snap
    BY Zenon, <1>7 DEF CompactWrite, IInv, TypeOK
  <2>2. Base' = Base /\ compact.snap \notin Base /\ Base \subseteq FileName
    BY Zenon, <2>1 DEF Base, Snapshotting, IInv, TypeOK, JournalTypeOK
  <2>3. \A k \in Base : files'[k] = files[k]
    BY Zenon, <2>1, <2>2 DEF Appended, IInv, TypeOK, JournalTypeOK
  <2> QED
    BY Zenon, <1>0, <2>1, <2>2, <2>3, AlikeSame
<1>8. CASE CompactCommit
  BY Zenon, <1>0, <1>8, AlikeCheckpoint
<1>9. CASE CompactSyncRename \/ CompactEnd \/ \E e \in SUBSET Ids : CompactBegin(e)
  <2>1. CASE UNCHANGED <<names, files, covered, coveredDisk>>
    <3>1. compact.pc \in {"idle", "renamed", "remove"} /\ compact'.pc \in {"idle", "expire", "remove"}
      <4>1. compact.pc \in {"idle", "renamed", "remove"}
        BY Zenon, <1>9 DEF CompactSyncRename, CompactEnd, CompactBegin, Ready
      <4>2. \/ compact' = Idle \/ compact' = [compact EXCEPT !.pc = "remove"]
            \/ compact'.pc = "expire"
        <5>1. ASSUME NEW e \in SUBSET Ids, CompactBegin(e) PROVE compact'.pc = "expire"
          BY Zenon, <5>1 DEF CompactBegin, Idle
        <5> QED
          BY <1>9, <5>1, Zenon DEF CompactSyncRename, CompactEnd, CompactAbort
      <4> QED
        BY Zenon, <4>1, <4>2, RenameRecord
    <3>2. Base' = Base
      BY Zenon, <2>1, <3>1 DEF Base, Snapshotting
    <3> QED
      BY Zenon, <1>0, <2>1, <3>2, AlikeSame
  <2>2. CASE coveredDisk' = covered /\ covered' = covered
    BY Zenon, <1>1, <2>2
  <2> QED
    BY Zenon, <1>9, <2>1, <2>2 DEF CompactSyncRename, CompactEnd, CompactBegin
<1>10. ASSUME NEW n \in FileName, CompactRemove(n) PROVE Alike'
  <2>1. covered' = covered /\ coveredDisk' = coveredDisk /\ coveredDisk = covered
    BY Zenon, <1>10 DEF CompactRemove, IInv, Phases
  <2> QED
    BY Zenon, <1>1, <2>1
<1>11. CASE CompactSync
  BY Zenon, <1>1, <1>11 DEF CompactSync
<1>12. CASE Crash
  BY Zenon, <1>1, <1>12 DEF Crash, Lose
<1>13. ASSUME NEW n \in FileName, Start(n) PROVE Alike'
  BY Zenon, <1>1, <1>13 DEF Start, Open
<1>14. CASE Close
  <2>1. UNCHANGED <<names, files, covered, coveredDisk>> /\ compact.pc = "idle" /\ compact'.pc = "idle"
    BY Zenon, <1>14 DEF Close, Reset, Ready, Idle
  <2>2. Base' = Base
    BY Zenon, <2>1 DEF Base, Snapshotting
  <2> QED
    BY Zenon, <1>0, <2>1, <2>2, AlikeSame
<1>15. CASE UNCHANGED vars
  BY Zenon, <1>2, <1>15 DEF vars
<1> QED
  BY Zenon, <1>3, <1>4, <1>5, <1>6, <1>7, <1>8, <1>9, <1>10, <1>11, <1>12, <1>13, <1>14, <1>15
  DEF Next, Compaction

-----------------------------------------------------------------------------
(* The index holds no tombstone, and Compact expires held messages only.   *)

LEMMA ListedStep ==
  ASSUME IInv, Listed, [Next]_vars
  PROVE  Listed'
<1>0. index \in [Ids -> Entry] /\ compact.todo \subseteq Ids /\ compact.done \subseteq Ids
  BY Zenon DEF IInv, TypeOK
<1>1. CASE UNCHANGED index /\ compact'.pc # "expire"
  BY Zenon, <1>1 DEF Listed
<1>2. CASE Operation
  <2>1. PICK rec \in Record, nd \in SUBSET Ids : Commit(rec, nd)
    BY Zenon, <1>2, OperationCommits DEF IInv
  <2>2. compact'.pc = "idle" /\ (index' = index \/ index' = Applied(rec))
    BY Zenon, <2>1 DEF Commit, Ready
  <2>3. \A m \in Ids : index'[m].status \notin Gone
    BY <2>2 DEF Applied, Listed, None, Gone
  <2> QED
    BY Zenon, <2>2, <2>3 DEF Listed
<1>3. ASSUME NEW expired \in SUBSET Ids, CompactBegin(expired) PROVE Listed'
  <2>1. /\ index' = index /\ compact'.todo = expired /\ compact'.done = {}
        /\ \A m \in expired : index[m].status = "held"
    BY Zenon, <1>3 DEF CompactBegin, Idle
  <2> QED
    BY Zenon, <2>1 DEF Listed
<1>4. ASSUME NEW m \in Ids, CompactExpire(m) PROVE Listed'
  <2>1. /\ index' = index /\ compact.pc = "expire" /\ m \in compact.todo
        /\ \/ compact' = Idle
           \/ compact' = [compact EXCEPT !.todo = @ \ {m}, !.done = @ \cup {m}]
    BY Zenon, <1>4 DEF CompactExpire, CompactAbort
  <2>2. compact'.pc = "expire" => compact'.todo \cup compact'.done \subseteq compact.todo \cup compact.done
    <3>1. \/ compact'.pc = "idle"
          \/ compact'.todo = compact.todo \ {m} /\ compact'.done = compact.done \cup {m}
      BY <2>1, ExpireRecord, Zenon
    <3> QED
      BY <2>1, <3>1, Zenon
  <2> QED
    BY Zenon, <2>1, <2>2 DEF Listed
<1>5. ASSUME NEW n \in FileName, CompactCreate(n) PROVE Listed'
  <2>1. /\ compact'.pc = "snapshot"
        /\ index' = [m \in Ids |-> IF m \in compact.done THEN None ELSE index[m]]
    BY Zenon, <1>5 DEF CompactCreate, IInv, TypeOK
  <2> QED
    BY Zenon, <2>1 DEF Listed, None, Gone
<1>6. CASE CompactFail \/ CompactSync \/ CompactCommit \/ CompactSyncRename \/ CompactEnd
  <2>1. UNCHANGED index /\ compact'.pc # "expire"
    BY <1>6 DEF CompactFail, CompactSync, CompactCommit, CompactSyncRename, CompactEnd,
                CompactAbort, Idle, IInv, TypeOK
  <2> QED
    BY Zenon, <1>1, <2>1
<1>7. ASSUME NEW m \in Ids, CompactWrite(m) PROVE Listed'
  BY Zenon, <1>1, <1>7 DEF CompactWrite, IInv, TypeOK
<1>8. ASSUME NEW n \in FileName, CompactRemove(n) PROVE Listed'
  BY <1>1, <1>8 DEF CompactRemove, CompactAbort, Idle, IInv, TypeOK
<1>9. CASE Crash \/ Close
  <2>1. index' = [m \in Ids |-> None] /\ compact'.pc = "idle"
    BY <1>9 DEF Crash, Close, Reset, Idle
  <2> QED
    BY Zenon, <2>1 DEF Listed, None, Gone
<1>10. ASSUME NEW n \in FileName, Start(n) PROVE Listed'
  <2>1. compact'.pc = "idle" /\ ~up /\ index' = [m \in Ids |-> Recovered(covered, m)]
    BY <1>10 DEF Start, IInv, Down, Idle
  <2>2. ASSUME NEW m \in Ids PROVE index'[m].status \notin Gone
    <3>1. index'[m] \in Rest
      BY Zenon, <2>1, MappedTypes DEF Mapped
    <3> QED
      BY Zenon, <3>1 DEF Rest, Abstract!RestingEntry, Gone
  <2> QED
    BY Zenon, <2>1, <2>2 DEF Listed
<1>11. CASE UNCHANGED vars
  BY Zenon, <1>11 DEF vars, Listed
<1> QED
  BY <1>2, <1>3, <1>4, <1>5, <1>6, <1>7, <1>8, <1>9, <1>10, <1>11 DEF Next, Compaction

-----------------------------------------------------------------------------
(* The refinement, step by step.                                           *)

\* The third case of Legal.
LEMMA LegalMove ==
  ASSUME NEW old, NEW new, old # Abstract!Absent,
         new.status \in {"pending", "failed"}, new.to = old.to,
         \/ new.attempts = old.attempts
         \/ new.attempts = old.attempts + 1 /\ old.status = "pending"
         \/ new.attempts = 0 /\ old.status = "failed" /\ new.status = "pending"
  PROVE  Abstract!Legal(old, new)
BY Zenon DEF Abstract!Legal

\* A change of status, recipients or attempts is one the abstract store allows.
LEMMA LegalChange ==
  ASSUME NEW old \in Entry, NEW new \in Entry,
         old.status \notin Gone \cup {"none"}, new.status # "none",
         \/ new.status \in Gone
         \/ /\ new.status \in {"pending", "failed"} /\ new.to = old.to
            /\ new.attempts = old.attempts
         \/ /\ new.status \in Claimed /\ new.to = old.to
            /\ \/ new.attempts = old.attempts
               \/ new.attempts = old.attempts + 1 /\ old.status \in Claimed
         \/ /\ new.status = "pending" /\ new.to = old.to
            /\ new.attempts = 0 /\ old.status = "failed"
         \/ new = [old EXCEPT !.to = new.to]
  PROVE  Abstract!Legal(Restored(old), Restored(new))
<1> DEFINE o == Restored(old)
           n == Restored(new)
<1>1. o # Abstract!Absent
  BY RestoredRests DEF Abstract!Absent
<1>2. CASE new.status \in Gone
  BY Zenon, <1>1, <1>2, RestoredRests DEF Abstract!Legal, Abstract!Absent, None
<1>3. o.to = old.to /\ o.attempts = old.attempts
  BY Zenon, RestoredRests
<1>4. ASSUME new.status \in {"pending", "failed"} \cup Claimed
      PROVE  /\ n.status \in {"pending", "failed"} /\ n.to = new.to /\ n.attempts = new.attempts
             /\ new.status \in {"pending"} \cup Claimed => n.status = "pending"
  BY Zenon, <1>4, RestoredRests DEF Gone, Claimed
<1>5. CASE new = [old EXCEPT !.to = new.to]
  <2>1. new.status = old.status /\ new.attempts = old.attempts
    BY Zenon, <1>5 DEF Entry
  <2>2. n.status = o.status /\ n.attempts = o.attempts
    <3>1. CASE old.status \in Claimed
      BY Zenon, <2>1, <3>1, RestoredRests
    <3>2. CASE old.status \notin Claimed
      BY Zenon, <2>1, <3>2, RestoredRests
    <3> QED
      BY Zenon, <3>1, <3>2
  <2>3. n = [o EXCEPT !.to = n.to]
    <3>1. o \in Rest /\ n \in Rest
      BY Zenon, RestoredRests
    <3> HIDE DEF o, n
    <3> QED
      BY Zenon, <2>2, <3>1 DEF Rest, Abstract!RestingEntry
  <2> QED
    BY Zenon, <1>1, <2>3 DEF Abstract!Legal
<1>6. /\ old.status \in Claimed => o.status = "pending"
      /\ old.status = "failed" => o.status = "failed"
  BY Zenon, RestoredRests DEF Gone, Claimed
<1>7. CASE new.status \in {"pending", "failed"} \cup Claimed /\ new.to = old.to
  <2>1. /\ n.status \in {"pending", "failed"} /\ n.to = o.to
        /\ n.attempts = new.attempts /\ o.attempts = old.attempts
    BY Zenon, <1>3, <1>4, <1>7
  <2>2. CASE new.attempts = old.attempts
    BY Zenon, <1>1, <2>1, <2>2, LegalMove
  <2>3. CASE new.attempts = old.attempts + 1 /\ old.status \in Claimed
    BY Zenon, <1>1, <1>6, <2>1, <2>3, LegalMove
  <2>4. CASE new.status = "pending" /\ new.attempts = 0 /\ old.status = "failed"
    BY Zenon, <1>1, <1>4, <1>6, <2>1, <2>4, LegalMove
  <2>5. CASE new.status \in Gone \/ new = [old EXCEPT !.to = new.to]
    BY Zenon, <1>2, <1>5, <2>5
  <2> QED
    BY Zenon, <2>2, <2>3, <2>4, <2>5
<1> QED
  BY Zenon, <1>2, <1>5, <1>7

\* Every operation journals a record with legal changes, of messages that are
\* present or of one new message within the limit and its receipts.
LEMMA OperationLegal ==
  ASSUME IInv, Listed, Operation
  PROVE  \E rec \in Record, nd \in SUBSET Ids :
            /\ Commit(rec, nd)
            /\ \A i \in Ids : Mentions(rec, i) => Abstract!Legal(Restored(index[i]), Restored(rec[i]))
            /\ \/ \A i \in Ids : Mentions(rec, i) => Present(i)
               \/ \E m \in Ids : /\ m \in Counted \ Emergency => WithinLimits
                                 /\ \A i \in Counted \ {m} : ~Mentions(rec, i)
<1>0. TypeOK /\ index \in [Ids -> Entry] /\ dlq \subseteq Ids
  BY Zenon DEF IInv, TypeOK
<1> DEFINE Goal == \E rec \in Record, nd \in SUBSET Ids :
            /\ Commit(rec, nd)
            /\ \A i \in Ids : Mentions(rec, i) => Abstract!Legal(Restored(index[i]), Restored(rec[i]))
            /\ \/ \A i \in Ids : Mentions(rec, i) => Present(i)
               \/ \E m \in Ids : /\ m \in Counted \ Emergency => WithinLimits
                                 /\ \A i \in Counted \ {m} : ~Mentions(rec, i)
<1>1. ASSUME NEW m \in Ids, NEW e \in Entry, NEW nd \in SUBSET Ids, Present(m),
             Commit(Single(m, e), nd), Abstract!Legal(Restored(index[m]), Restored(e))
      PROVE  Goal
  <2>1. Single(m, e) \in Record /\ Single(m, e)[m] = e
    BY Zenon, SingleFacts
  <2>2. \A i \in Ids : Mentions(Single(m, e), i) => i = m
    BY Zenon, SingleFacts
  <2>3. \A i \in Ids : Mentions(Single(m, e), i) =>
           Abstract!Legal(Restored(index[i]), Restored(Single(m, e)[i])) /\ Present(i)
    BY Zenon, <1>1, <2>1, <2>2
  <2> QED
    BY Zenon, <1>1, <2>1, <2>3
<1>2. ASSUME NEW m \in Ids, NEW e \in Entry, NEW nd \in SUBSET Ids, Present(m),
             Commit(Single(m, e), nd), e.status # "none",
             \/ e.status \in Gone
             \/ /\ e.status \in {"pending", "failed"} /\ e.to = index[m].to
                /\ e.attempts = index[m].attempts
             \/ /\ e.status \in Claimed /\ e.to = index[m].to
                /\ \/ e.attempts = index[m].attempts
                   \/ e.attempts = index[m].attempts + 1 /\ index[m].status \in Claimed
             \/ /\ e.status = "pending" /\ e.to = index[m].to
                /\ e.attempts = 0 /\ index[m].status = "failed"
             \/ e = [index[m] EXCEPT !.to = e.to]
      PROVE  Goal
  <2>1. index[m] \in Entry /\ index[m].status \notin Gone \cup {"none"}
    BY Zenon, <1>0, <1>2 DEF Listed, Present
  <2>2. Abstract!Legal(Restored(index[m]), Restored(e))
    BY Zenon, <1>2, <2>1, LegalChange
  <2> QED
    BY Zenon, <1>1, <1>2, <2>2
<1>3. ASSUME NEW m \in Ids, NEW st \in CreatedAs, NEW to \in SUBSET Rcpts,
             NEW rs \in SUBSET Ids, StoreWithReceipt(m, st, to, rs)
      PROVE  Goal
  <2> DEFINE entry(x) == [status |-> x, to |-> to, attempts |-> 0]
             rec == NewRecord(m, st, to, rs)
  <2>1. /\ ~Present(m) /\ (m \in Counted \ Emergency => WithinLimits) /\ m \notin rs
        /\ (\A r \in rs : r \notin Counted /\ ~Present(r)) /\ Commit(rec, dlq)
    BY Zenon, <1>3 DEF StoreWithReceipt
  <2>2. \A x \in CreatedAs : entry(x) \in Entry /\ Restored(entry(x)) = entry(x)
    BY JournalAssumption DEF Entry, Restored, CreatedAs, Status, Resting, Gone, Claimed
  <2>3. /\ rec \in Record /\ rec[m] = entry(st)
        /\ \A i \in rs : rec[i] = entry("stored")
        /\ \A i \in Ids : i # m /\ i \notin rs => rec[i] = None
    BY Zenon, <2>1, <2>2, RestoredFacts DEF Record, NewRecord, CreatedAs
  <2>4. ASSUME NEW i \in Ids, Mentions(rec, i)
        PROVE  /\ Abstract!Legal(Restored(index[i]), Restored(rec[i]))
               /\ i = m \/ i \in rs
    <3>1. i = m \/ i \in rs
      BY <2>3, <2>4 DEF Mentions, None
    <3>2. \E x \in CreatedAs : rec[i] = entry(x)
      BY Zenon, <2>3, <3>1 DEF CreatedAs
    <3>3. Restored(index[i]) = Abstract!Absent
      BY Zenon, <2>1, <3>1, RestoredFacts DEF IInv, AbsentIsNone, Present, None, Abstract!Absent
    <3> HIDE DEF rec
    <3> QED
      BY <2>2, <3>1, <3>2, <3>3 DEF Abstract!Legal, CreatedAs
  <2>5. \A i \in Counted \ {m} : ~Mentions(rec, i)
    <3>1. Counted \subseteq Ids
      BY Zenon, StoreAssumption
    <3> HIDE DEF rec
    <3> QED
      BY Zenon, <2>1, <2>4, <3>1
  <2> HIDE DEF rec
  <2>6. dlq \in SUBSET Ids
    BY Zenon, <1>0
  <2> QED
    BY Zenon, <2>1, <2>3, <2>4, <2>5, <2>6
<1>4. ASSUME NEW m \in Ids, NEW st \in Finished, UpdateStatus(m, st)
      PROVE  Goal
  <2> DEFINE e == [index[m] EXCEPT !.status = st]
             nd == IF st = "failed" THEN dlq \cup {m} ELSE dlq \ {m}
  <2>1. /\ e \in Entry /\ e.status = st /\ e.to = index[m].to /\ e.attempts = index[m].attempts
        /\ st # "none" /\ (st \in Gone \/ st \in {"pending", "failed"})
    BY Zenon, <1>0 DEF Entry, Finished, Status, Resting, Gone
  <2>2. Present(m) /\ Commit(Single(m, e), nd) /\ nd \in SUBSET Ids
    BY Zenon, <1>0, <1>4 DEF UpdateStatus
  <2> HIDE DEF e, nd
  <2> QED
    BY Zenon, <1>2, <2>1, <2>2
<1>5. ASSUME NEW m \in Ids, NEW to \in SUBSET Rcpts, UpdateRecipients(m, to)
      PROVE  Goal
  <2> DEFINE e == [index[m] EXCEPT !.to = to]
  <2>1. /\ e \in Entry /\ e.status = index[m].status /\ e.to = to
    BY Zenon, <1>0 DEF Entry
  <2>2. Present(m) /\ Commit(Single(m, e), dlq) /\ dlq \in SUBSET Ids
    BY Zenon, <1>0, <1>5 DEF UpdateRecipients
  <2>3. e = [index[m] EXCEPT !.to = e.to] /\ e.status # "none"
    BY Zenon, <2>1, <2>2 DEF Present
  <2> HIDE DEF e
  <2> QED
    BY Zenon, <1>2, <2>1, <2>2, <2>3
<1>6. ASSUME NEW m \in Ids, NEW mv \in Moves, Transition(m, mv[1], mv[2])
      PROVE  Goal
  <2> DEFINE n == IF mv[2] = "processing" THEN index[m].attempts + 1
                  ELSE index[m].attempts
             e == [index[m] EXCEPT !.status = mv[2], !.attempts = n]
  <2>1. /\ mv[2] \in Status /\ mv[2] # "none"
        /\ mv[2] = "processing" => index[m].attempts < MaxAttempts
        /\ Present(m) /\ index[m].status = mv[1]
    BY <1>6 DEF Moves, Status, Resting, Gone, Claimed, Transition
  <2>2. n \in 0 .. MaxAttempts
    BY <1>0, <2>1, JournalAssumption DEF Entry
  <2>3. e \in Entry
    BY Zenon, <1>0, <2>1, <2>2, EntryUpdate
  <2>4. e.status = mv[2] /\ e.to = index[m].to /\ e.attempts = n
    BY <1>0, Zenon DEF Entry
  <2>5. Commit(Single(m, e), dlq) /\ dlq \in SUBSET Ids
    BY Zenon, <1>0, <1>6 DEF Transition
  <2>6. \/ mv[2] \in Gone
        \/ mv[2] = "pending" /\ n = index[m].attempts
        \/ mv[2] = "queued" /\ n = index[m].attempts
        \/ mv[2] = "processing" /\ n = index[m].attempts + 1 /\ mv[1] = "queued"
    BY DEF Moves, Gone
  <2> HIDE DEF e, n
  <2>7. "queued" \in Claimed /\ "processing" \in Claimed
    BY Zenon DEF Claimed
  <2> QED
    BY Zenon, <1>2, <2>1, <2>3, <2>4, <2>5, <2>6, <2>7
<1>7. ASSUME NEW m \in Ids, RetryFromDLQ(m)
      PROVE  Goal
  <2> DEFINE e == [index[m] EXCEPT !.status = "pending", !.attempts = 0]
  <2>1. "pending" \in Status /\ 0 \in 0 .. MaxAttempts /\ index[m] \in Entry
    BY <1>0, JournalAssumption DEF Status, Resting
  <2>2. e \in Entry
    BY <2>1, EntryUpdate, Zenon
  <2>3. e.status = "pending" /\ e.to = index[m].to /\ e.attempts = 0
    BY <2>1, Zenon DEF Entry
  <2>4. /\ Commit(Single(m, e), dlq \ {m}) /\ dlq \ {m} \in SUBSET Ids
        /\ index[m].status = "failed" /\ Present(m)
    BY Zenon, <1>0, <1>7 DEF RetryFromDLQ, Present
  <2> HIDE DEF e
  <2> QED
    BY Zenon, <1>2, <2>2, <2>3, <2>4
<1>8. ASSUME NEW m \in Ids, ReleaseHeld(m)
      PROVE  Goal
  <2> DEFINE e == [index[m] EXCEPT !.status = "pending"]
  <2>1. /\ e \in Entry /\ e.status = "pending" /\ e.to = index[m].to
        /\ e.attempts = index[m].attempts
    BY Zenon, <1>0 DEF Entry, Status, Resting
  <2>2. Commit(Single(m, e), dlq) /\ dlq \in SUBSET Ids /\ Present(m)
    BY Zenon, <1>0, <1>8 DEF ReleaseHeld, Present
  <2> HIDE DEF e
  <2> QED
    BY Zenon, <1>2, <2>1, <2>2
<1> QED
  BY Zenon, <1>3, <1>4, <1>5, <1>6, <1>7, <1>8 DEF Operation

\* A step touches the messages S only.
Moved(S) == \A i \in Ids \ S : Contents'[i] = Contents[i] /\ Doubts'[i] = Doubts[i]

\* They are in the spool, or one of them is new and within the limit and the
\* others are not counted.
Fits(S) ==
  \/ \A i \in S : Contents[i].status # "none"
  \/ /\ up /\ ~failed
     /\ \E m \in Ids : /\ m \in Counted \ Emergency => WithinLimits
                       /\ S \cap Counted \subseteq {m}

\* What a step of the store is to the abstract one.
Shape ==
  \/ UNCHANGED Abstract!spoolVars
  \/ Abstract!Settle
  \/ Abstract!Restart
  \/ \E S \in SUBSET Ids : (Abstract!Operate(S) \/ Abstract!Attempt) /\ Moved(S) /\ Fits(S)

\* A journalled operation is one abstract operation, or an attempt at it.
LEMMA OperationMaps ==
  ASSUME IInv, Listed, IInv', Operation
  PROVE  Shape
<1>1. PICK rec \in Record, nd \in SUBSET Ids :
            /\ Commit(rec, nd)
            /\ \A i \in Ids : Mentions(rec, i) => Abstract!Legal(Restored(index[i]), Restored(rec[i]))
            /\ \/ \A i \in Ids : Mentions(rec, i) => Present(i)
               \/ \E m \in Ids : /\ m \in Counted \ Emergency => WithinLimits
                                 /\ \A i \in Counted \ {m} : ~Mentions(rec, i)
  BY OperationLegal, Zenon
<1> DEFINE S == {i \in Ids : Mentions(rec, i)}
<1>2. index \in [Ids -> Entry] /\ doubt \in [Ids -> SUBSET Entry] /\ \A i \in Ids : rec[i] \in Entry
  BY Zenon, Types DEF IInv, Record
<1>3. up /\ up' /\ ~failed
  BY Zenon, <1>1 DEF Commit, Ready, WriteOk, WriteLatched
<1>4. /\ Mapped /\ Mapped'
      /\ \A i \in Ids : Contents[i] = Restored(index[i]) /\ Contents'[i] = Restored(index'[i])
  <2>1. Mapped /\ Mapped'
    BY Zenon, MappedTypes, MappedNext
  <2> QED
    BY Zenon, <1>3, <2>1 DEF Mapped
<1>5. Fits(S)
  <2>1. CASE \A i \in Ids : Mentions(rec, i) => Present(i)
    <3>1. \A i \in S : Contents[i].status # "none"
      BY Zenon, <1>2, <1>4, <2>1, RestoredRests DEF Present, Listed
    <3> QED
      BY Zenon, <3>1 DEF Fits
  <2>2. CASE \E m \in Ids : /\ m \in Counted \ Emergency => WithinLimits
                            /\ \A i \in Counted \ {m} : ~Mentions(rec, i)
    BY Zenon, <1>3, <2>2 DEF Fits
  <2> QED
    BY Zenon, <1>1, <2>1, <2>2
<1>6. CASE /\ index' = Applied(rec)
           /\ doubt' = [m \in Ids |-> IF Mentions(rec, m) THEN {} ELSE doubt[m]]
  <2>1. \A i \in Ids : IF i \in S THEN Contents'[i] = Restored(rec[i]) ELSE Contents'[i] = Contents[i]
    <3>1. ASSUME NEW i \in Ids, i \in S PROVE Contents'[i] = Restored(rec[i])
      <4>1. CASE rec[i].status \in Gone
        BY Zenon, <1>2, <1>4, <1>6, <3>1, <4>1, RestoredRests, RestoredFacts DEF Applied
      <4>2. CASE rec[i].status \notin Gone
        BY Zenon, <1>4, <1>6, <3>1, <4>2 DEF Applied
      <4> QED
        BY Zenon, <4>1, <4>2
    <3>2. ASSUME NEW i \in Ids, i \notin S PROVE Contents'[i] = Contents[i]
      BY Zenon, <1>4, <1>6, <3>2 DEF Applied
    <3> QED
      BY Zenon, <3>1, <3>2
  <2>2. /\ Doubts' = [m \in Ids |-> IF m \in S THEN {} ELSE Doubts[m]]
        /\ \A i \in Ids \ S : Doubts'[i] = Doubts[i]
    BY Zenon, <1>6 DEF Doubts
  <2>3. Abstract!Operate(S)
    BY Zenon, <1>1, <1>4, <2>1, <2>2 DEF Abstract!Operate, Mapped, Rest
  <2>4. Moved(S)
    BY Zenon, <2>1, <2>2 DEF Moved
  <2> HIDE DEF S
  <2>5. S \in SUBSET Ids
    BY Zenon DEF S
  <2> QED
    BY <1>5, <2>3, <2>4, <2>5, Zenon DEF Shape
<1>7. CASE /\ index' = index
           /\ doubt' = [m \in Ids |-> IF Mentions(rec, m) THEN doubt[m] \cup {rec[m]} ELSE doubt[m]]
  <2>1. Contents' = Contents
    BY Zenon, <1>3, <1>7 DEF Contents
  <2>2. ASSUME NEW i \in Ids
        PROVE  Doubts'[i] = IF i \in S THEN Doubts[i] \cup {Restored(rec[i])} ELSE Doubts[i]
    <3>1. Doubts'[i] = {Restored(e) : e \in doubt'[i]} /\ Doubts[i] = {Restored(e) : e \in doubt[i]}
      BY Zenon DEF Doubts
    <3>2. doubt'[i] = IF i \in S THEN doubt[i] \cup {rec[i]} ELSE doubt[i]
      BY Zenon, <1>7
    <3> QED
      BY Zenon, <3>1, <3>2
  <2>3. Abstract!Attempt
    <3>1. Doubts' \in [Ids -> SUBSET Rest]
      BY Zenon, <1>4 DEF Mapped
    <3>2. ASSUME NEW i \in Ids
          PROVE  /\ Doubts[i] \subseteq Doubts'[i]
                 /\ \A e \in Doubts'[i] \ Doubts[i] : Abstract!Legal(Contents[i], e)
      BY Zenon, <1>1, <1>4, <2>2
    <3> QED
      BY Zenon, <2>1, <3>1, <3>2 DEF Abstract!Attempt, Rest
  <2>4. Moved(S)
    BY Zenon, <2>1, <2>2 DEF Moved
  <2> HIDE DEF S
  <2>5. S \in SUBSET Ids
    BY DEF S
  <2> QED
    BY <1>5, <2>3, <2>4, <2>5, Zenon DEF Shape
<1> QED
  BY Zenon, <1>1, <1>6, <1>7 DEF Commit

\* Expiring a held message is an attempt at deleting it, carried out when the
\* index forgets it; the checkpoint settles all doubts.
LEMMA CompactionMaps ==
  ASSUME IInv, Listed, IInv', Compaction
  PROVE  Shape
<1>0. /\ index \in [Ids -> Entry] /\ doubt \in [Ids -> SUBSET Entry]
      /\ Mapped /\ Mapped' /\ compact.todo \subseteq Ids /\ compact.done \subseteq Ids
  BY Zenon, Types, MappedTypes, MappedNext DEF IInv, TypeOK
<1>1. up /\ up'
  <2>1. (\E e \in SUBSET Ids : CompactBegin(e)) => up
    BY Zenon DEF CompactBegin, Ready
  <2>2. up
    BY Zenon, <2>1, Running DEF Compaction, CompactExpire, CompactFail, CompactCreate, CompactWrite,
       CompactSync, CompactCommit, CompactSyncRename, CompactRemove, CompactEnd
  <2>3. up' = up
    BY Zenon DEF Compaction, CompactBegin, CompactExpire, CompactFail, CompactCreate, CompactWrite,
       CompactSync, CompactCommit, CompactSyncRename, CompactRemove, CompactEnd, CompactAbort
  <2> QED
    BY Zenon, <2>2, <2>3
<1>2. \A i \in Ids : Contents[i] = Restored(index[i]) /\ Contents'[i] = Restored(index'[i])
  BY Zenon, <1>0, <1>1 DEF Mapped
<1>3. CASE UNCHANGED <<index, doubt>>
  <2>1. Contents' = Contents /\ Doubts' = Doubts
    BY Zenon, <1>1, <1>3 DEF Contents, Doubts
  <2> QED
    BY Zenon, <2>1 DEF Shape, Abstract!spoolVars
<1>4. ASSUME NEW m \in Ids, CompactExpire(m) PROVE Shape
  <2> DEFINE rec == Single(m, [index[m] EXCEPT !.status = "deleted"])
  <2>1. /\ index[m].status = "held" /\ index' = index
        /\ doubt' = [doubt EXCEPT ![m] = @ \cup {rec[m]}]
    BY Zenon, <1>4 DEF CompactExpire, CompactAbort, Listed
  <2>2. rec[m] \in Entry /\ Restored(rec[m]) = None
    <3>1. [index[m] EXCEPT !.status = "deleted"] \in Entry
      BY Zenon, <1>0 DEF Entry, Status, Gone
    <3>2. rec[m] = [index[m] EXCEPT !.status = "deleted"]
      BY Zenon, <3>1, SingleFacts
    <3>3. rec[m].status = "deleted"
      BY Zenon, <1>0, <3>2 DEF Entry
    <3> QED
      BY Zenon, <3>1, <3>2, <3>3 DEF Restored, Gone
  <2> HIDE DEF rec
  <2>3. Contents' = Contents
    BY Zenon, <1>1, <2>1 DEF Contents
  <2>4. Contents[m].status = "held"
    BY <1>0, <1>2, <2>1, RestoredRests DEF Gone, Claimed
  <2>5. ASSUME NEW i \in Ids
        PROVE  Doubts'[i] = IF i = m THEN Doubts[i] \cup {None} ELSE Doubts[i]
    <3>1. Doubts'[i] = {Restored(e) : e \in doubt'[i]} /\ Doubts[i] = {Restored(e) : e \in doubt[i]}
      BY Zenon DEF Doubts
    <3>2. doubt'[i] = IF i = m THEN doubt[i] \cup {rec[m]} ELSE doubt[i]
      BY Zenon, <1>0, <2>1
    <3> QED
      BY Zenon, <2>2, <3>1, <3>2
  <2>6. Abstract!Legal(Contents[m], None)
    BY Zenon, <2>4 DEF Abstract!Legal, Abstract!Absent, None
  <2>7. Abstract!Attempt
    <3>1. Doubts' \in [Ids -> SUBSET Rest]
      BY Zenon, <1>0 DEF Mapped
    <3>2. ASSUME NEW i \in Ids
          PROVE  /\ Doubts[i] \subseteq Doubts'[i]
                 /\ \A e \in Doubts'[i] \ Doubts[i] : Abstract!Legal(Contents[i], e)
      BY Zenon, <2>5, <2>6
    <3> QED
      BY Zenon, <2>3, <3>1, <3>2 DEF Abstract!Attempt, Rest
  <2>8. Moved({m}) /\ Fits({m}) /\ {m} \in SUBSET Ids
    BY Zenon, <2>3, <2>4, <2>5 DEF Moved, Fits
  <2> QED
    BY <2>7, <2>8, Zenon DEF Shape
<1>5. ASSUME NEW n \in FileName, CompactCreate(n) PROVE Shape
  <2> DEFINE S == compact.done
  <2>1. /\ index' = [m \in Ids |-> IF m \in S THEN None ELSE index[m]]
        /\ doubt' = [m \in Ids |-> IF m \in S THEN {} ELSE doubt[m]]
        /\ \A m \in S : index[m].status = "held"
    BY Zenon, <1>5 DEF CompactCreate, Listed
  <2>2. S \in SUBSET Ids
    BY Zenon, <1>0
  <2> HIDE DEF S
  <2>3. \A i \in Ids : Contents'[i] = IF i \in S THEN None ELSE Contents[i]
    BY Zenon, <1>2, <2>1, RestoredFacts
  <2>4. Doubts' = [m \in Ids |-> IF m \in S THEN {} ELSE Doubts[m]]
    BY Zenon, <2>1 DEF Doubts
  <2>5. \A i \in S : Contents[i].status = "held"
    BY <1>0, <1>2, <2>1, <2>2, RestoredRests DEF Gone, Claimed
  <2>6. \A i \in S : Abstract!Legal(Contents[i], None)
    BY Zenon, <2>5 DEF Abstract!Legal, Abstract!Absent, None
  <2>7. Abstract!Operate(S)
    BY Zenon, <1>0, <2>3, <2>4, <2>6 DEF Abstract!Operate, Mapped, Rest
  <2>8. Moved(S) /\ Fits(S)
    BY Zenon, <2>3, <2>4, <2>5 DEF Moved, Fits
  <2> QED
    BY <2>2, <2>7, <2>8, Zenon DEF Shape
<1>6. CASE CompactCommit
  <2>1. Contents' = Contents
    BY Zenon, <1>1, <1>6 DEF CompactCommit, Contents
  <2>2. Doubts' = [m \in Ids |-> {}]
    BY Zenon, <1>6 DEF CompactCommit, Doubts
  <2> QED
    BY Zenon, <2>1, <2>2 DEF Shape, Abstract!Settle
<1>7. CASE \E e \in SUBSET Ids : CompactBegin(e)
  BY Zenon, <1>3, <1>7 DEF CompactBegin
<1>8. CASE CompactFail \/ CompactSync \/ CompactSyncRename \/ CompactEnd
  BY Zenon, <1>3, <1>8 DEF CompactFail, CompactSync, CompactSyncRename, CompactEnd, CompactAbort
<1>9. CASE (\E m \in Ids : CompactWrite(m)) \/ \E n \in FileName : CompactRemove(n)
  BY Zenon, <1>3, <1>9 DEF CompactWrite, CompactRemove, CompactAbort
<1> QED
  BY Zenon, <1>4, <1>5, <1>6, <1>7, <1>8, <1>9 DEF Compaction

\* After a stop recover finds an outcome of every message, and the next start
\* publishes what it found.
LEMMA ProcessMaps ==
  ASSUME IInv, Alike, IInv', Crash \/ Close \/ \E n \in FileName : Start(n)
  PROVE  Shape
<1>0. Mapped /\ Mapped' /\ files \in Files /\ names \in SUBSET FileName
  BY Zenon, MappedTypes, MappedNext, Types DEF IInv
<1>1. CASE Crash \/ Close
  <2>1. /\ ~up' /\ covered' \in {covered, coveredDisk} /\ UNCHANGED <<names, files>>
        /\ doubt' = [m \in Ids |-> {}]
    BY Zenon, <1>1 DEF Crash, Close, Lose, Reset
  <2>2. Doubts' = [m \in Ids |-> {}]
    BY Zenon, <2>1 DEF Doubts
  <2>3. ASSUME NEW m \in Ids
        PROVE  Contents'[m] \in {Contents[m]} \cup Doubts[m]
    <3>1. Contents'[m] = Replayed(files, names \ covered', m)
      BY Zenon, <1>0, <2>1 DEF Mapped, Recovered
    <3>2. CASE up
      <4>1. PICK e \in Entry : Says(files, names \ covered', m, e) /\ e \in Outcomes(m)
        BY Zenon, <2>1, <3>2, FullReplay
      <4>2. Contents'[m] = e
        BY Zenon, <1>0, <3>1, <4>1, SaysReplayed
      <4>3. Contents[m] = Restored(index[m]) /\ Doubts[m] = {Restored(f) : f \in doubt[m]}
        BY Zenon, <1>0, <3>2 DEF Mapped, Doubts
      <4> QED
        BY Zenon, <4>1, <4>2, <4>3 DEF Outcomes
    <3>3. CASE ~up
      <4>1. Base = names
        BY <3>3 DEF IInv, Down, Base, Snapshotting, Idle
      <4>2. Contents[m] = Replayed(files, names \ covered, m)
        BY Zenon, <1>0, <3>3 DEF Mapped, Recovered
      <4> QED
        BY Zenon, <2>1, <3>1, <4>1, <4>2 DEF Alike
    <3> QED
      BY Zenon, <3>2, <3>3
  <2>4. Abstract!Restart
    BY Zenon, <1>0, <2>2, <2>3 DEF Abstract!Restart, Mapped, Rest
  <2> QED
    BY Zenon, <2>4 DEF Shape
<1>2. ASSUME NEW n \in FileName, Start(n) PROVE Shape
  <2>1. /\ ~up /\ up' /\ index' = [m \in Ids |-> Recovered(covered, m)] /\ doubt' = doubt
    BY Zenon, <1>2 DEF Start
  <2>2. ASSUME NEW m \in Ids PROVE Contents'[m] = Contents[m]
    <3>1. PICK e \in Entry : Says(files, names \ covered, m, e)
      BY Zenon, FullReplay
    <3>2. names \ covered \in SUBSET FileName
      BY Zenon, <1>0
    <3>3. Recovered(covered, m) = e /\ Restored(e) = e
      BY Zenon, <1>0, <3>1, <3>2, SaysReplayed, SaysResting DEF Recovered
    <3>4. Contents[m] = e /\ Contents'[m] = Restored(index'[m]) /\ index'[m] = e
      BY Zenon, <1>0, <2>1, <3>3 DEF Mapped
    <3> QED
      BY Zenon, <3>3, <3>4
  <2>3. Contents' = Contents
    BY <1>0, <2>2 DEF Mapped
  <2>4. Doubts' = Doubts
    BY Zenon, <2>1 DEF Doubts
  <2> QED
    BY Zenon, <2>3, <2>4 DEF Shape, Abstract!spoolVars
<1> QED
  BY Zenon, <1>1, <1>2

\* Every step is a step of the abstract store or a stutter.
LEMMA StepMaps ==
  ASSUME ClockMonotone, CleanRemoval, IInv, Alike, Listed, [Next]_vars
  PROVE  Shape
<1>1. IInv'
  BY Zenon, NextIInv
<1>2. CASE UNCHANGED vars
  <2>1. Contents' = Contents /\ Doubts' = Doubts
    BY Zenon, <1>2 DEF vars, Contents, Doubts, Recovered
  <2> QED
    BY Zenon, <2>1 DEF Shape, Abstract!spoolVars
<1> QED
  BY Zenon, <1>1, <1>2, OperationMaps, CompactionMaps, ProcessMaps DEF Next

-----------------------------------------------------------------------------
(* The limit.                                                              *)

\* While nothing is latched the counted messages are those of the index.
LEMMA KeptOccupied ==
  ASSUME IInv, Listed, up
  PROVE  /\ Occupied \subseteq Kept
         /\ ~failed => Kept \subseteq Occupied
<1>1. /\ index \in [Ids -> Entry] /\ doubt \in [Ids -> SUBSET Entry] /\ Counted \subseteq Ids
      /\ Mapped
  BY Zenon, Types, MappedTypes, StoreAssumption DEF IInv
<1>2. \A m \in Counted : Contents[m] = Restored(index[m]) /\ Doubts[m] = {Restored(e) : e \in doubt[m]}
  BY Zenon, <1>1 DEF Mapped, Doubts
<1>3. ASSUME NEW m \in Occupied PROVE m \in Kept
  <2>1. m \in Counted /\ index[m].status \notin Gone \cup {"none"}
    BY Zenon, <1>1, <1>3 DEF Occupied, Present, Listed
  <2>2. Contents[m].status # "none"
    BY Zenon, <1>1, <1>2, <2>1, RestoredRests
  <2> QED
    BY Zenon, <2>1, <2>2 DEF Kept
<1>4. ASSUME ~failed, NEW m \in Kept PROVE m \in Occupied
  <2>1. PICK e \in {Contents[m]} \cup Doubts[m] : m \in Counted /\ e.status # "none"
    BY Zenon, <1>4 DEF Kept
  <2>2. ASSUME NEW f \in doubt[m] PROVE Restored(f) = None
    BY Zenon, <1>1, <1>4, <2>1, <2>2, RestoredRests DEF IInv, DoubtDeleted, Gone
  <2>3. e = Restored(index[m])
    BY <1>2, <2>1, <2>2 DEF None
  <2>4. index[m].status # "none"
    BY Zenon, <1>1, <2>1, <2>3, RestoredRests
  <2> QED
    BY Zenon, <2>1, <2>4 DEF Occupied, Present
<1> QED
  BY Zenon, <1>3, <1>4

\* Fewer messages keep the limit.
LEMMA KeptShrinks ==
  ASSUME KeptBounded, Kept' \subseteq Kept
  PROVE  KeptBounded'
<1> SUFFICES ASSUME MaxMessages > 0
             PROVE  IsFiniteSet(Kept') /\ Cardinality(Kept' \ Emergency) <= MaxMessages
  BY Zenon DEF KeptBounded
<1>1. IsFiniteSet(Kept) /\ Cardinality(Kept \ Emergency) <= MaxMessages
  BY Zenon DEF KeptBounded
<1>2. IsFiniteSet(Kept') /\ IsFiniteSet(Kept \ Emergency)
  BY Zenon, <1>1, FS_Subset
<1>3. Kept' \ Emergency \subseteq Kept \ Emergency
  BY Zenon
<1>4. /\ IsFiniteSet(Kept' \ Emergency)
      /\ Cardinality(Kept' \ Emergency) <= Cardinality(Kept \ Emergency)
  BY Zenon, <1>2, <1>3, FS_Subset
<1>5. /\ Cardinality(Kept' \ Emergency) \in Nat /\ Cardinality(Kept \ Emergency) \in Nat
      /\ MaxMessages \in Nat
  BY Zenon, <1>2, <1>4, FS_CardinalityType, StoreAssumption
<1> QED
  BY <1>1, <1>2, <1>4, <1>5

\* Every step keeps the limit: a restart finds only what was counted.
LEMMA KeptStep ==
  ASSUME IInv, Listed, KeptBounded, Shape
  PROVE  KeptBounded'
<1>0. Counted \subseteq Ids /\ Emergency \subseteq Counted /\ MaxMessages \in Nat
  BY Zenon, StoreAssumption
<1>1. CASE UNCHANGED Abstract!spoolVars
  <2>1. Kept' = Kept
    BY Zenon, <1>1 DEF Kept, Abstract!spoolVars
  <2> QED
    BY Zenon, <2>1, KeptShrinks
<1>2. CASE Abstract!Settle
  <2>1. Contents' = Contents /\ \A m \in Ids : Doubts'[m] = {}
    BY Zenon, <1>2 DEF Abstract!Settle
  <2>2. Kept' \subseteq Kept
    BY Zenon, <1>0, <2>1 DEF Kept
  <2> QED
    BY Zenon, <2>2, KeptShrinks
<1>3. CASE Abstract!Restart
  <2>1. \A m \in Ids : Contents'[m] \in {Contents[m]} \cup Doubts[m] /\ Doubts'[m] = {}
    BY Zenon, <1>3 DEF Abstract!Restart
  <2>2. Kept' \subseteq Kept
    BY Zenon, <1>0, <2>1 DEF Kept
  <2> QED
    BY <2>2, KeptShrinks
<1>4. ASSUME NEW S \in SUBSET Ids, Moved(S), Fits(S) PROVE KeptBounded'
  <2>1. Kept' \subseteq Kept \cup (S \cap Counted)
    BY Zenon, <1>0, <1>4 DEF Kept, Moved
  <2>2. CASE \A i \in S : Contents[i].status # "none"
    <3>1. S \cap Counted \subseteq Kept
      BY Zenon, <2>2 DEF Kept
    <3> QED
      BY Zenon, <2>1, <3>1, KeptShrinks
  <2>3. ASSUME up, ~failed, NEW m \in Ids, m \in Counted \ Emergency => WithinLimits,
               S \cap Counted \subseteq {m}
        PROVE  KeptBounded'
    <3>1. CASE m \notin Counted
      <4>1. Kept' \subseteq Kept
        BY Zenon, <2>1, <2>3, <3>1
      <4> QED
        BY Zenon, <4>1, KeptShrinks
    <3>2. CASE m \in Counted
      <4> SUFFICES ASSUME MaxMessages > 0
                   PROVE  IsFiniteSet(Kept') /\ Cardinality(Kept' \ Emergency) <= MaxMessages
        BY Zenon DEF KeptBounded
      <4>1. IsFiniteSet(Kept) /\ Cardinality(Kept \ Emergency) <= MaxMessages
        BY Zenon DEF KeptBounded
      <4>2. Kept' \subseteq Kept \cup {m}
        BY Zenon, <2>1, <2>3
      <4>3. /\ IsFiniteSet(Kept \cup {m})
            /\ Cardinality(Kept \cup {m}) <= Cardinality(Kept) + 1
        <5>1. CASE m \in Kept
          <6>1. Kept \cup {m} = Kept
            BY Zenon, <5>1
          <6>2. Cardinality(Kept) \in Nat /\ \A k \in Nat : k <= k + 1
            BY <4>1, FS_CardinalityType
          <6> QED
            BY <4>1, <6>1, <6>2, Zenon
        <5>2. CASE m \notin Kept
          <6>1. IsFiniteSet(Kept \cup {m}) /\ Cardinality(Kept \cup {m}) = Cardinality(Kept) + 1
            BY Zenon, <4>1, <5>2, FS_AddElement
          <6>2. Cardinality(Kept) \in Nat
            BY Zenon, <4>1, FS_CardinalityType
          <6> QED
            BY <6>1, <6>2
        <5> QED
          BY Zenon, <5>1, <5>2
      <4>4. IsFiniteSet(Kept') /\ IsFiniteSet(Kept \ Emergency)
        BY Zenon, <4>1, <4>2, <4>3, FS_Subset
      <4>5. CASE m \in Emergency
        <5>1. Kept' \ Emergency \subseteq Kept \ Emergency
          BY Zenon, <4>2, <4>5
        <5>2. /\ IsFiniteSet(Kept' \ Emergency)
              /\ Cardinality(Kept' \ Emergency) <= Cardinality(Kept \ Emergency)
          BY Zenon, <4>4, <5>1, FS_Subset
        <5>3. Cardinality(Kept' \ Emergency) \in Nat /\ Cardinality(Kept \ Emergency) \in Nat
          BY Zenon, <4>4, <5>2, FS_CardinalityType
        <5> QED
          BY <1>0, <4>1, <4>4, <5>2, <5>3
      <4>6. CASE m \notin Emergency
        <5>1. Kept = Occupied
          BY Zenon, <2>3, KeptOccupied
        <5>2. Cardinality(Kept) < MaxMessages
          BY <1>0, <2>3, <3>2, <4>6, <5>1 DEF WithinLimits
        <5>3. Kept' \ Emergency \subseteq Kept \cup {m}
          BY Zenon, <4>2
        <5>4. /\ IsFiniteSet(Kept' \ Emergency)
              /\ Cardinality(Kept' \ Emergency) <= Cardinality(Kept \cup {m})
          BY Zenon, <4>3, <5>3, FS_Subset
        <5>5. /\ Cardinality(Kept' \ Emergency) \in Nat /\ Cardinality(Kept \cup {m}) \in Nat
              /\ Cardinality(Kept) \in Nat
          BY Zenon, <4>1, <4>3, <5>4, FS_CardinalityType
        <5> QED
          BY <1>0, <4>3, <4>4, <5>2, <5>4, <5>5
      <4> QED
        BY Zenon, <4>5, <4>6
    <3> QED
      BY Zenon, <3>1, <3>2
  <2> QED
    BY Zenon, <1>4, <2>2, <2>3 DEF Fits
<1> QED
  BY Zenon, <1>1, <1>2, <1>3, <1>4 DEF Shape

-----------------------------------------------------------------------------
(* The theorems.                                                           *)

\* The empty directory.
LEMMA InitSInv == Init => SInv /\ Abstract!SpoolInit
<1> SUFFICES ASSUME Init PROVE SInv /\ Abstract!SpoolInit
  BY Zenon
<1>1. /\ names = {} /\ covered = {} /\ coveredDisk = {} /\ up = FALSE
      /\ index = [m \in Ids |-> None] /\ compact = Idle /\ doubt = [m \in Ids |-> {}]
      /\ files \in Files
  <2>1. files \in Files
    BY Zenon, InitIInv, Types DEF IInv
  <2> QED
    BY Zenon, <2>1 DEF Init, JournalInit
<1>2. IInv
  BY Zenon, InitIInv
<1>3. ASSUME NEW m \in Ids PROVE Contents[m] = None /\ Doubts[m] = {}
  <2>1. History(files, {}, m) = {}
    BY <1>1, HistoryParts
  <2>2. names \ covered = {}
    BY Zenon, <1>1
  <2>3. Recovered(covered, m) = None
    BY Zenon, <2>1, <2>2 DEF Recovered, Replayed
  <2> QED
    BY Zenon, <1>1, <2>3 DEF Contents, Doubts
<1>4. Alike /\ Listed
  BY Zenon, <1>1 DEF Alike, Listed, None, Gone, Idle
<1>5. Kept = {}
  BY <1>3, StoreAssumption DEF Kept, None
<1>6. KeptBounded
  <2>1. Kept \ Emergency = {} /\ MaxMessages \in Nat
    BY Zenon, <1>5, StoreAssumption
  <2> QED
    BY <1>5, <2>1, FS_EmptySet DEF KeptBounded
<1>7. Abstract!SpoolInit
  <2>1. Contents = [m \in Ids |-> Abstract!Absent] /\ Doubts = [m \in Ids |-> {}]
    BY Zenon, <1>3 DEF Contents, Doubts, Abstract!Absent, None
  <2> QED
    BY Zenon, <2>1 DEF Abstract!SpoolInit
<1> QED
  BY Zenon, <1>2, <1>4, <1>6, <1>7 DEF SInv

\* Every step of the store preserves the invariant of the refinement.
LEMMA NextSInv ==
  ASSUME ClockMonotone, CleanRemoval, SInv, [Next]_vars
  PROVE  SInv' /\ Shape
<1>1. IInv' /\ Alike' /\ Listed' /\ Shape
  BY Zenon, NextIInv, AlikeStep, ListedStep, StepMaps DEF SInv
<1>2. KeptBounded'
  BY Zenon, <1>1, KeptStep DEF SInv
<1> QED
  BY Zenon, <1>1, <1>2 DEF SInv

\* Under the same two assumptions either checkpoint tells the same history, the index holds no tombstone, and the limit counts what a restart
\* may find (StoreWithReceipt, Compact, recover).
THEOREM SpoolInvariant ==
  ASSUME ClockMonotone, CleanRemoval
  PROVE  Spec => []SInv
<1>1. Init => SInv
  BY Zenon, InitSInv
<1>2. SInv /\ [Next]_vars => SInv'
  BY Zenon, NextSInv
<1> QED
  BY <1>1, <1>2, PTL DEF Spec

\* Limits.MaxMessages bounds the ordinary mail in the spool, whatever failed
\* writes a restart turns into messages (capacity, StoreWithReceipt).
THEOREM SpoolLimit ==
  ASSUME ClockMonotone, CleanRemoval
  PROVE  Spec => []SpoolBounded
<1>1. SInv => SpoolBounded
  <2> SUFFICES ASSUME SInv, MaxMessages > 0
               PROVE  Cardinality({m \in Occupied : m \notin Emergency}) <= MaxMessages
    BY Zenon DEF SpoolBounded
  <2> DEFINE O == {m \in Occupied : m \notin Emergency}
  <2>0. IInv /\ Listed /\ KeptBounded /\ MaxMessages \in Nat
    BY Zenon, StoreAssumption DEF SInv
  <2>1. O \subseteq Kept \ Emergency
    <3>1. CASE up
      BY Zenon, <2>0, <3>1, KeptOccupied
    <3>2. CASE ~up
      BY <2>0, <3>2, StoreAssumption DEF IInv, Down, Occupied, Present, None
    <3> QED
      BY Zenon, <3>1, <3>2
  <2>2. IsFiniteSet(Kept \ Emergency) /\ Cardinality(Kept \ Emergency) <= MaxMessages
    BY Zenon, <2>0, FS_Subset DEF KeptBounded
  <2> HIDE DEF O
  <2>3. IsFiniteSet(O) /\ Cardinality(O) <= Cardinality(Kept \ Emergency)
    BY Zenon, <2>1, <2>2, FS_Subset
  <2>4. Cardinality(O) \in Nat /\ Cardinality(Kept \ Emergency) \in Nat
    BY Zenon, <2>2, <2>3, FS_CardinalityType
  <2>5. Cardinality(O) <= MaxMessages
    BY <2>0, <2>2, <2>3, <2>4
  <2> QED
    BY Zenon, <2>5 DEF O
<1> QED
  BY <1>1, SpoolInvariant, PTL

\* The store implements Spool: its callers see a table changed by one whole
\* operation at a time; journal, compaction, crash and recovery show only in
\* that a restart may carry out an operation reported as failed.
THEOREM Refinement ==
  ASSUME ClockMonotone, CleanRemoval
  PROVE  Spec => ImplementsSpool
<1>1. Init => Abstract!SpoolInit
  BY Zenon, InitSInv
<1>2. SInv /\ [Next]_vars => [Abstract!SpoolNext]_(Abstract!spoolVars)
  <2> SUFFICES ASSUME SInv, [Next]_vars PROVE [Abstract!SpoolNext]_(Abstract!spoolVars)
    BY Zenon
  <2>1. Shape
    BY Zenon, NextSInv
  <2> QED
    BY <2>1, Zenon DEF Shape, Abstract!SpoolNext
<1> QED
  BY <1>1, <1>2, SpoolInvariant, PTL DEF Spec, ImplementsSpool, Abstract!SpoolSpec
=============================================================================

------------------------------ MODULE Mailbox ------------------------------
(***************************************************************************)
(* The mailbox store of one account (internal/storage/mailbox_*.go,        *)
(* email_*.go, imap_adapter.go).  Membership lives in SQLite: the catalog  *)
(* of folders, one UIDVALIDITY/UIDNEXT row per folder name and one row per *)
(* message.  The bytes of a message live in the message store, a separate  *)
(* journal, so an operation that touches both is not atomic: a crash or an *)
(* I/O error may fall between the two, and recoverMailboxData repairs what *)
(* is left when the store is opened again.                                 *)
(*                                                                         *)
(* Every writer holds deliveryMu, so at most one operation is in progress  *)
(* (op).  Each SQLite transaction and each journal write is one step.      *)
(***************************************************************************)
EXTENDS Naturals, Sequences, FiniteSets

LOCAL INSTANCE FiniteSetsExt

CONSTANTS
    Paths,          \* folder names, each the sequence of its parts (split at "/")
    Inbox,          \* the name that can be neither deleted nor a rename target
    Standard,       \* folders ensureUser creates for a new account
    Ids,            \* message identifiers
    Keys,           \* the identifiers derived from a delivery key (DeliverOnce)
    Size,           \* bytes of each message
    Quota,          \* quotaBytes (0: no quota)
    Clock,          \* values time.Now().Unix() may give a new UIDVALIDITY
    MaxUid,         \* 2^32 - 1 in the code: UIDs stay below it
    MaxValidity,    \* bound on the sum of all UIDVALIDITYs: no folder appears beyond it
    MaxBatch        \* bound on the messages of one COPY, MOVE or import

\* The parts folder names are made of.
Part == UNION {{p[i] : i \in DOMAIN p} : p \in Paths}

ASSUME MailboxAssumption ==
    /\ Paths \subseteq Seq(Part) /\ \A p \in Paths : Len(p) > 0
    /\ Inbox \in Standard /\ Standard \subseteq Paths /\ \A p \in Standard : Len(p) = 1
    /\ Keys \subseteq Ids /\ IsFiniteSet(Ids)
    /\ Size \in [Ids -> Nat] /\ Quota \in Nat
    /\ Clock \subseteq Nat \ {0}
    /\ MaxUid \in Nat \ {0} /\ MaxValidity \in Nat /\ MaxBatch \in Nat

VARIABLES
    catalog,    \* mailbox_catalog: the folders that exist
    state,      \* mailbox_state: UIDVALIDITY and UIDNEXT of each folder name
    rows,       \* message_flags: membership of messages in folders
    blob,       \* identifiers whose payload the message store holds as "stored"
    op,         \* the operation that holds deliveryMu between two of its steps
    up,         \* the process runs with the store open
    reported,   \* delivery keys whose caller was told of success
    dirty,      \* a payload cleanup failed since the store was opened
    shown       \* history: the highest UIDVALIDITY and UID each folder has shown

vars == <<catalog, state, rows, blob, op, up, reported, dirty, shown>>

-----------------------------------------------------------------------------
(* Tables.                                                                 *)

Row == [id : Ids, folder : Paths, uid : 1..(MaxUid - 1), deleted : BOOLEAN, expunged : BOOLEAN]

\* A mailbox_state row; validity 0 stands for no row.
UidState == [validity : Nat, next : 0..MaxUid]

NoUidState == [validity |-> 0, next |-> 0]

\* A delivery in progress: its row, without its UID.
New == [id : Ids, folder : Paths, deleted : BOOLEAN]

Idle == [stage |-> "idle"]

\* "copy" and "jmap" are open transactions: rows and state are the tables as
\* the transaction sees them, new the messages whose payload it has stored.
Ops == {Idle}
    \cup [stage : {"store", "uid", "insert"}, msg : New, uid : 0..(MaxUid - 1)]
    \cup [stage : {"cleanup"}, todo : SUBSET Ids]
    \cup [stage : {"copy"}, rows : SUBSET Row, state : [Paths -> UidState],
          new : SUBSET Ids, todo : SUBSET Row, dest : Paths]
    \cup [stage : {"jmap"}, rows : SUBSET Row, state : [Paths -> UidState],
          new : SUBSET Ids, set : SUBSET Ids]

LiveOf(rs) == {r \in rs : ~r.expunged}

Live == LiveOf(rows)

LiveIds == {r.id : r \in Live}

In(f) == {r \in Live : r.folder = f}

RowsOf(id) == {r \in rows : r.id = id}

UsedBy(rs) == MapThenSumSet(LAMBDA r : Size[r.id], LiveOf(rs))

\* The quota check made before a payload of n bytes is stored.
WithinQuota(rs, n) == Quota = 0 \/ UsedBy(rs) + n <= Quota

\* generateMessageID: an identifier never used before.
Fresh(id) == id \notin Keys \cup blob /\ RowsOf(id) = {}

-----------------------------------------------------------------------------
(* Folder names and their UIDVALIDITY/UIDNEXT.                             *)

Under(f, g) == Len(f) > Len(g) /\ SubSeq(f, 1, Len(g)) = g

Parent(f) == SubSeq(f, 1, Len(f) - 1)

\* The folder and the ancestors createFolder walks.
Chain(f) == {SubSeq(f, 1, n) : n \in 1..Len(f)}

Rebase(f, old, new) == new \o SubSeq(f, Len(old) + 1, Len(f))

\* INSERT OR IGNORE INTO mailbox_state ... VALUES (now, 1).
Ensured(s, now) == IF s.validity = 0 THEN [validity |-> now, next |-> 1] ELSE s

\* INSERT ... ON CONFLICT DO UPDATE SET uidvalidity=uidvalidity+1, uidnext=1.
Recreated(s, now) ==
    IF s.validity = 0 THEN [validity |-> now, next |-> 1]
                      ELSE [validity |-> s.validity + 1, next |-> 1]


\* Mutant: the new name takes the row of the old one as it is.
InheritedPlain(s, from) == from

\* The row a renamed folder gets: that of its old name, under a UIDVALIDITY
\* its new name has never had.
Inherited(s, from) ==
    IF s.validity = 0 THEN from
    ELSE [validity |-> IF s.validity + 1 > from.validity THEN s.validity + 1
                                                         ELSE from.validity,
          next |-> from.next]

\* Names may get a new UIDVALIDITY (a bound of the model).
Bounded(names) ==
    MapThenSumSet(LAMBDA f : state[f].validity, Paths) + Cardinality(names) <= MaxValidity

Missing(f) == Chain(f) \ catalog

\* createFolder: the folder and its missing parents, in one transaction.
Created(f, now) ==
    /\ Missing(f) \subseteq Paths
    /\ Bounded(Missing(f))
    /\ catalog' = catalog \cup Missing(f)
    /\ state' = [p \in Paths |-> IF p \in Missing(f) THEN Recreated(state[p], now)
                                                     ELSE state[p]]

\* What clients can see: the messages of a folder under its UIDVALIDITY.
Visible(f, rs, st) == {<<st[f].validity, r.uid, r.id>> : r \in {q \in LiveOf(rs) : q.folder = f}}

Above(a, b) == a[1] > b[1] \/ (a[1] = b[1] /\ a[2] > b[2])

\* The step may show messages its folders have not shown before.
Announce ==
    shown' = [f \in Paths |->
        LET seen == {<<v[1], v[2]>> : v \in Visible(f, rows', state')} \cup {shown[f]}
        IN  CHOOSE a \in seen : \A b \in seen : ~Above(b, a)]

-----------------------------------------------------------------------------
(* Folders.                                                                *)

Free == up /\ op = Idle

CreateFolder(f, now) ==
    /\ Free /\ f \notin catalog
    /\ Created(f, now)
    /\ UNCHANGED <<rows, blob, op, up, reported, dirty, shown>>

\* One creation of Mailbox/set: the parent must exist already.
CreateJMAPMailbox(f, now) ==
    /\ Len(f) > 1 => Parent(f) \in catalog
    /\ CreateFolder(f, now)

\* The payload cleanup that follows an expunge, one Transition per payload.
CleanupOf(ids) == IF ids = {} THEN Idle ELSE [stage |-> "cleanup", todo |-> ids]

\* cleanupExpunged: payloads of messages that no folder shows any more.
Expunged(rs) == {r.id : r \in rs} \ {r.id : r \in LiveOf(rs)}


\* Mutant: children are not looked for.
DeleteFolderDeep(f) ==
    /\ Free /\ f # Inbox /\ f \in catalog
    /\ rows' = {IF r.folder = f THEN [r EXCEPT !.expunged = TRUE] ELSE r : r \in rows}
    /\ catalog' = catalog \ {f}
    /\ op' = CleanupOf(Expunged(rows') \cap blob)
    /\ UNCHANGED <<state, blob, up, reported, dirty, shown>>

\* Messages are marked expunged and the folder dropped in one transaction; the
\* payloads are removed afterwards.
DeleteFolder(f) ==
    /\ Free /\ f # Inbox /\ f \in catalog
    /\ ~ \E g \in catalog : Under(g, f)
    /\ rows' = {IF r.folder = f THEN [r EXCEPT !.expunged = TRUE] ELSE r : r \in rows}
    /\ catalog' = catalog \ {f}
    /\ op' = CleanupOf(Expunged(rows') \cap blob)
    /\ UNCHANGED <<state, blob, up, reported, dirty, shown>>

\* One destruction of Mailbox/set: only an empty leaf, and no payload cleanup.
DestroyJMAPMailbox(f) ==
    /\ Free /\ f # Inbox /\ f \in catalog
    /\ ~ \E g \in catalog : Under(g, f)
    /\ In(f) = {}
    /\ catalog' = catalog \ {f}
    /\ UNCHANGED <<state, rows, blob, op, up, reported, dirty, shown>>

\* The folders that move: INBOX leaves its children behind.
Moving(old) == {old} \cup {g \in catalog : old # Inbox /\ Under(g, old)}

\* The new name may not exist; its parent must.  INBOX itself stays, empty.
RenameFolder(old, new, now) ==
    /\ Free
    /\ old \in catalog /\ new \notin catalog \cup {Inbox} /\ ~Under(new, old)
    /\ Len(new) > 1 => Parent(new) \in catalog
    /\ LET To(f) == Rebase(f, old, new)
           from(f) == Ensured(state[f], now)
           targets == {To(f) : f \in Moving(old)}
       IN  /\ targets \subseteq Paths
           /\ targets \cap catalog = {}
           /\ Bounded(targets)
           /\ catalog' = (IF old = Inbox THEN catalog ELSE catalog \ Moving(old)) \cup targets
           /\ state' = [f \in Paths |->
                 IF f \in targets
                 THEN Inherited(state[f], from(CHOOSE g \in Moving(old) : To(g) = f))
                 ELSE IF f \in Moving(old) THEN from(f) ELSE state[f]]
           /\ rows' = {IF r \in Live /\ r.folder \in Moving(old)
                       THEN [r EXCEPT !.folder = To(r.folder)] ELSE r : r \in rows}
    /\ Announce
    /\ UNCHANGED <<blob, op, up, reported, dirty>>

\* One update of Mailbox/set: a new name or parent; INBOX keeps its own.
UpdateJMAPMailbox(old, new, now) ==
    /\ old # Inbox
    /\ RenameFolder(old, new, now)

\* Asking for UIDVALIDITY or UIDNEXT, or an operation that is then refused, makes
\* sure that the folder name has its row.  It takes no lock, and a session may
\* still have the name of a folder selected that is gone; but it waits for the
\* one SQLite connection while a transaction is open.
EnsureMailboxState(f, now) ==
    /\ up /\ op.stage \notin {"copy", "jmap"}
    /\ state[f].validity = 0
    /\ state' = [state EXCEPT ![f] = Ensured(@, now)]
    /\ UNCHANGED <<catalog, rows, blob, op, up, reported, dirty, shown>>

-----------------------------------------------------------------------------
(* Delivery and APPEND: deliverMetadata.                                   *)


\* Mutant: only visible rows count as delivered.
CheckedVisible(m) ==
    \/ /\ m.id \in LiveIds
       /\ reported' = reported \cup {m.id}
       /\ op' = op
    \/ /\ m.id \notin LiveIds /\ WithinQuota(rows, Size[m.id])
       /\ op' = [stage |-> "store", msg |-> m, uid |-> 0]
       /\ reported' = reported
    \/ /\ m.id \notin LiveIds /\ ~WithinQuota(rows, Size[m.id])
       /\ UNCHANGED <<op, reported>>

\* The checks made before the payload is stored.  A message that has a row,
\* visible or expunged, was delivered before.
Checked(m) ==
    \/ /\ RowsOf(m.id) # {}
       /\ reported' = reported \cup {m.id}
       /\ op' = op
    \/ /\ RowsOf(m.id) = {} /\ WithinQuota(rows, Size[m.id])
       /\ op' = [stage |-> "store", msg |-> m, uid |-> 0]
       /\ reported' = reported
    \/ /\ RowsOf(m.id) = {} /\ ~WithinQuota(rows, Size[m.id])
       /\ UNCHANGED <<op, reported>>

\* A delivery makes its folder.
DeliverOnce(id, f, now) ==
    /\ Free
    /\ id \in Keys \/ Fresh(id)
    /\ Created(f, now)
    /\ Checked([id |-> id, folder |-> f, deleted |-> FALSE])
    /\ UNCHANGED <<rows, blob, up, dirty, shown>>

AppendMessage(id, f, deleted) ==
    /\ Free
    /\ Fresh(id)
    /\ f \in catalog
    /\ Checked([id |-> id, folder |-> f, deleted |-> deleted])
    /\ UNCHANGED <<catalog, state, rows, blob, up, dirty, shown>>

\* storeMessageID: a payload an earlier attempt left behind is used again.
DeliverStore ==
    /\ up /\ op.stage = "store"
    /\ \/ blob' = blob \cup {op.msg.id} /\ op' = [op EXCEPT !.stage = "uid"]
       \/ op.msg.id \notin blob /\ blob' = blob /\ op' = Idle
    /\ UNCHANGED <<catalog, state, rows, up, reported, dirty, shown>>

\* discardMessage, which may itself fail and leave the payload behind.
Discard(ids) ==
    \E kept \in SUBSET ids :
        /\ blob' = blob \ (ids \ kept)
        /\ dirty' = (dirty \/ kept # {})

\* AllocateUID: the UID is taken in a transaction of its own.
DeliverUID(now) ==
    /\ up /\ op.stage = "uid"
    /\ LET f == op.msg.folder
           s == Ensured(state[f], now)
       IN  \/ /\ s.next < MaxUid
              /\ state' = [state EXCEPT ![f] = [s EXCEPT !.next = @ + 1]]
              /\ op' = [op EXCEPT !.stage = "insert", !.uid = s.next]
              /\ UNCHANGED <<blob, dirty>>
           \/ /\ state' = [state EXCEPT ![f] = s]
              /\ op' = Idle
              /\ Discard({op.msg.id})
    /\ UNCHANGED <<catalog, rows, up, reported, shown>>

\* INSERT OR IGNORE: the primary key is the message and its folder.
DeliverInsert ==
    /\ up /\ op.stage = "insert"
    /\ UNCHANGED <<catalog, state, up>>
    /\ LET m == op.msg
       IN  \/ /\ rows' = IF \E r \in rows : r.id = m.id /\ r.folder = m.folder THEN rows
                         ELSE rows \cup {[id |-> m.id, folder |-> m.folder, uid |-> op.uid,
                                          deleted |-> m.deleted, expunged |-> FALSE]}
              /\ reported' = reported \cup ({m.id} \cap Keys)
              /\ Announce
              /\ UNCHANGED <<blob, dirty>>
           \/ /\ Discard({m.id})
              /\ UNCHANGED <<rows, reported, shown>>
    /\ op' = Idle

-----------------------------------------------------------------------------
(* COPY: the payloads are stored while the transaction is open.            *)

\* The row a message gets in a folder of an open transaction.
Placed(tx, id, f, deleted, now) ==
    LET s == Ensured(tx.state[f], now)
    IN  [tx EXCEPT !.rows = @ \cup {[id |-> id, folder |-> f, uid |-> s.next,
                                     deleted |-> deleted, expunged |-> FALSE]},
                   !.state[f] = [s EXCEPT !.next = @ + 1]]

CopyBegin(ms, dest, now) ==
    /\ Free /\ dest \in catalog
    /\ LET s == Ensured(state[dest], now)
       IN  /\ s.next + Cardinality(ms) <= MaxUid
           /\ state' = [state EXCEPT ![dest] = s]
    /\ op' = [stage |-> "copy", rows |-> rows, state |-> state', new |-> {},
              todo |-> ms, dest |-> dest]
    /\ UNCHANGED <<catalog, rows, blob, up, reported, dirty, shown>>


\* Mutant: the quota is checked against the committed messages only.
CopyStepAlone(r, id) ==
    /\ up /\ op.stage = "copy" /\ r \in op.todo
    /\ Fresh(id) /\ Size[id] = Size[r.id]
    /\ WithinQuota(rows, Size[id])
    /\ r.id \in blob
    /\ blob' = blob \cup {id}
    /\ op' = [Placed(op, id, op.dest, r.deleted, 1) EXCEPT !.new = @ \cup {id},
                                                           !.todo = @ \ {r}]
    /\ UNCHANGED <<catalog, state, rows, up, reported, dirty, shown>>

CopyStep(r, id) ==
    /\ up /\ op.stage = "copy" /\ r \in op.todo
    /\ Fresh(id) /\ Size[id] = Size[r.id]
    /\ WithinQuota(op.rows, Size[id])
    /\ r.id \in blob
    /\ blob' = blob \cup {id}
    /\ op' = [Placed(op, id, op.dest, r.deleted, 1) EXCEPT !.new = @ \cup {id},
                                                           !.todo = @ \ {r}]
    /\ UNCHANGED <<catalog, state, rows, up, reported, dirty, shown>>

\* The tables of the transaction become the tables of the store.
Commit(tx) ==
    /\ rows' = tx.rows
    /\ state' = tx.state
    /\ Announce

CopyCommit ==
    /\ up /\ op.stage = "copy" /\ op.todo = {}
    /\ Commit(op)
    /\ op' = Idle
    /\ UNCHANGED <<catalog, blob, up, reported, dirty>>


\* Mutant: the payloads of a transaction that is rolled back stay.
AbortKeeps ==
    /\ up /\ op.stage \in {"copy", "jmap"}
    /\ op' = Idle
    /\ UNCHANGED <<catalog, state, rows, blob, up, reported, dirty, shown>>

\* A refused item or an error: SQLite rolls back and the payloads are discarded.
Abort ==
    /\ up /\ op.stage \in {"copy", "jmap"}
    /\ Discard(op.new \cap blob)
    /\ op' = Idle
    /\ UNCHANGED <<catalog, state, rows, up, reported, shown>>

-----------------------------------------------------------------------------
(* Email/import and Email/set: objects one by one under savepoints, then one
   commit; the creations come first.                                       *)

JMAPBegin ==
    /\ Free
    /\ op' = [stage |-> "jmap", rows |-> rows, state |-> state, new |-> {}, set |-> {}]
    /\ UNCHANGED <<catalog, state, rows, blob, up, reported, dirty, shown>>

JMAPOpen == up /\ op.stage = "jmap" /\ Cardinality(op.new \cup op.set) < MaxBatch

\* importData.  When the row cannot be inserted the savepoint is rolled back and
\* the payload discarded, if that succeeds.
ImportData(id, f, deleted, now) ==
    /\ JMAPOpen /\ op.set = {}
    /\ Fresh(id) /\ id \notin op.new /\ f \in catalog
    /\ WithinQuota(op.rows, Size[id])
    /\ Ensured(op.state[f], now).next < MaxUid
    /\ \/ /\ blob' = blob \cup {id}
          /\ op' = [Placed(op, id, f, deleted, now) EXCEPT !.new = @ \cup {id}]
          /\ dirty' = dirty
       \/ /\ blob' = blob \cup {id}
          /\ op' = [op EXCEPT !.new = @ \cup {id}]
          /\ dirty' = TRUE
    /\ UNCHANGED <<catalog, state, rows, up, reported, shown>>

\* setEmail: a message leaves its folder for another one, or is destroyed.
SetEmail(r, now) ==
    /\ JMAPOpen
    /\ r \in LiveOf(op.rows) /\ r.id \notin op.new \cup op.set /\ r.folder \in catalog
    /\ LET tx == [op EXCEPT !.rows = @ \ {r}, !.set = @ \cup {r.id}]
       IN  \/ op' = [tx EXCEPT !.rows = @ \cup {[r EXCEPT !.expunged = TRUE]}]
           \/ \E f \in catalog \ {r.folder} :
                 /\ Ensured(op.state[f], now).next < MaxUid
                 /\ op' = Placed(tx, r.id, f, r.deleted, now)
    /\ UNCHANGED <<catalog, state, rows, blob, up, reported, dirty, shown>>

\* A destruction is followed by the payload cleanup.
JMAPCommit ==
    /\ up /\ op.stage = "jmap"
    /\ Commit(op)
    /\ op' = IF \E r \in op.rows : r.id \in op.set /\ r.expunged
             THEN CleanupOf(Expunged(op.rows) \cap blob) ELSE Idle
    /\ UNCHANGED <<catalog, blob, up, reported, dirty>>

-----------------------------------------------------------------------------
(* MOVE, STORE and EXPUNGE.                                                *)

\* One commit: membership and UIDs, in the order of the UIDs of the source.
MoveMessages(ms, dest, now) ==
    /\ Free /\ dest \in catalog
    /\ LET s == Ensured(state[dest], now)
           rank(r) == Cardinality({q \in ms : q.uid < r.uid})
       IN  /\ s.next + Cardinality(ms) <= MaxUid
           /\ state' = [state EXCEPT ![dest] = [s EXCEPT !.next = @ + Cardinality(ms)]]
           /\ rows' = (rows \ ms) \cup
                      {[r EXCEPT !.folder = dest, !.uid = s.next + rank(r)] : r \in ms}
    /\ Announce
    /\ UNCHANGED <<catalog, blob, op, up, reported, dirty>>

UpdateMessageFlags(r) ==
    /\ Free /\ r \in Live
    /\ rows' = (rows \ {r}) \cup {[r EXCEPT !.deleted = ~@]}
    /\ UNCHANGED <<catalog, state, blob, op, up, reported, dirty, shown>>


\* Mutant: the payloads go before the rows are marked.
ExpungeDeletedLate(f) ==
    /\ Free
    /\ op' = CleanupOf({r.id : r \in {q \in In(f) : q.deleted}} \cap blob)
    /\ op' # op
    /\ UNCHANGED <<catalog, state, rows, blob, up, reported, dirty, shown>>

\* The cleanup also takes up what an interrupted one left in this folder.
ExpungeDeleted(f) ==
    /\ Free
    /\ rows' = {IF r \in In(f) /\ r.deleted THEN [r EXCEPT !.expunged = TRUE] ELSE r :
                   r \in rows}
    /\ op' = CleanupOf({r.id : r \in {q \in rows' : q.folder = f /\ q.expunged}} \cap blob)
    /\ <<rows, op>>' # <<rows, op>>
    /\ UNCHANGED <<catalog, state, blob, up, reported, dirty, shown>>

\* Transition(id, "stored", "deleted"); an error leaves the rest to a restart.
Cleanup ==
    /\ up /\ op.stage = "cleanup"
    /\ \/ /\ \E id \in op.todo :
                /\ blob' = blob \ {id}
                /\ op' = CleanupOf(op.todo \ {id})
          /\ dirty' = dirty
       \/ /\ op' = Idle
          /\ dirty' = TRUE
          /\ blob' = blob
    /\ UNCHANGED <<catalog, state, rows, up, reported, shown>>

-----------------------------------------------------------------------------
(* Crash and restart.                                                      *)

Crash ==
    /\ up
    /\ up' = FALSE
    /\ op' = Idle
    /\ UNCHANGED <<catalog, state, rows, blob, reported, dirty, shown>>

\* recoverMailboxData: payloads nothing shows are removed, then every visible
\* message must have its payload.
RecoverMailboxData ==
    /\ ~up
    /\ blob' = blob \cap LiveIds
    /\ LiveIds \subseteq blob'
    /\ up' = TRUE
    /\ dirty' = FALSE
    /\ UNCHANGED <<catalog, state, rows, op, reported, shown>>

\* An error, or another crash, part of the way.
RecoverFails ==
    /\ ~up
    /\ \E ids \in SUBSET (blob \ LiveIds) : ids # {} /\ blob' = blob \ ids
    /\ UNCHANGED <<catalog, state, rows, op, up, reported, dirty, shown>>

-----------------------------------------------------------------------------
(* Specification.                                                          *)

\* A new account: ensureUser has created the standard folders, without rows in
\* mailbox_state.
Init ==
    /\ catalog = Standard
    /\ state = [f \in Paths |-> NoUidState]
    /\ rows = {} /\ blob = {} /\ op = Idle /\ up = TRUE
    /\ reported = {} /\ dirty = FALSE /\ shown = [f \in Paths |-> <<0, 0>>]

Batches(f) == {ms \in SUBSET In(f) : Cardinality(ms) \in 1..MaxBatch}

FolderStep ==
    \E now \in Clock, f \in Paths :
        \/ CreateFolder(f, now)
        \/ CreateJMAPMailbox(f, now)
        \/ DeleteFolder(f)
        \/ DestroyJMAPMailbox(f)
        \/ \E new \in Paths : RenameFolder(f, new, now) \/ UpdateJMAPMailbox(f, new, now)
        \/ EnsureMailboxState(f, now)

DeliverStep ==
    \/ \E id \in Ids, f \in Paths, now \in Clock : DeliverOnce(id, f, now)
    \/ \E id \in Ids, f \in Paths, deleted \in BOOLEAN : AppendMessage(id, f, deleted)
    \/ DeliverStore
    \/ \E now \in Clock : DeliverUID(now)
    \/ DeliverInsert

CopyOrMoveStep ==
    \/ \E f, dest \in Paths, now \in Clock : \E ms \in Batches(f) :
          CopyBegin(ms, dest, now) \/ MoveMessages(ms, dest, now)
    \/ op.stage = "copy" /\ \E r \in op.todo, id \in Ids : CopyStep(r, id)
    \/ CopyCommit
    \/ Abort

JMAPStep ==
    \/ JMAPBegin
    \/ \E id \in Ids, f \in Paths, deleted \in BOOLEAN, now \in Clock :
          ImportData(id, f, deleted, now)
    \/ op.stage = "jmap" /\ \E r \in op.rows, now \in Clock : SetEmail(r, now)
    \/ JMAPCommit

RemoveStep ==
    \/ \E r \in rows : UpdateMessageFlags(r)
    \/ \E f \in Paths : ExpungeDeleted(f)
    \/ Cleanup

RestartStep == Crash \/ RecoverMailboxData \/ RecoverFails

Next == FolderStep \/ DeliverStep \/ CopyOrMoveStep \/ JMAPStep \/ RemoveStep \/ RestartStep

Spec == Init /\ [][Next]_vars

-----------------------------------------------------------------------------
(* Properties.                                                             *)

\* Types; a UID handed out stays below the last value of 32 bits (AllocateUID).
TypeOK ==
    /\ catalog \subseteq Paths
    /\ state \in [Paths -> UidState]
    /\ rows \subseteq Row
    /\ blob \subseteq Ids
    /\ op \in Ops
    /\ up \in BOOLEAN /\ dirty \in BOOLEAN
    /\ reported \subseteq Keys
    /\ shown \in [Paths -> Nat \X Nat]

\* A client that caches messages by folder, UIDVALIDITY and UID is never shown
\* another message under the same three, and UIDs ascend: a message that appears
\* in a folder has a UIDVALIDITY and UID above all the folder has ever shown,
\* also when it was deleted and made again or another was renamed onto it.
UidsAscendStep ==
    \A f \in DOMAIN shown :
       \A v \in Visible(f, rows', state') \ Visible(f, rows, state) :
          Above(v, shown[f])

UidsAscend == [][UidsAscendStep]_vars

\* Every visible message has its payload, whatever crashed or failed between the
\* journal and SQLite; so recoverMailboxData never refuses to open the store.
PayloadBacked == LiveIds \subseteq blob

\* A payload nothing shows is left only where a cleanup failed, until a restart.
OrphanExplained == up /\ op = Idle /\ ~dirty => blob = LiveIds

\* No message is visible in a folder that does not exist, and no folder exists
\* without its parent.
FoldersWhole ==
    /\ \A r \in Live : r.folder \in catalog
    /\ \A f \in catalog : Len(f) > 1 => Parent(f) \in catalog
    /\ Inbox \in catalog

\* However messages arrive, the account stays within its quota.
QuotaHeld == Quota > 0 => UsedBy(rows) <= Quota

\* DeliverOnce: a delivery reported as done put the message in a folder, and a
\* retry of it never puts it there again, also when the message was moved or
\* expunged in between: a message has one row at most.
DeliveredOnce ==
    /\ \A k \in reported : RowsOf(k) # {}
    /\ \A r, q \in rows : r.id = q.id => r = q

-----------------------------------------------------------------------------
(* What holds in every state, between the steps of an operation too: the   *)
(* inductive invariant of MailboxProofs.                                   *)

IdsOf(rs) == {r.id : r \in rs}

\* Every visible message is in a folder that exists and below its UIDNEXT.
Numbered(rs, st) ==
    \A r \in LiveOf(rs) :
        r.folder \in catalog /\ st[r.folder].validity > 0 /\ r.uid < st[r.folder].next

\* What a folder has shown lies below what it can hand out next.
Ahead(st) ==
    \A f \in Paths :
        IF st[f].validity = 0 THEN shown[f] = <<0, 0>>
        ELSE st[f].next > 0 /\ Above(<<st[f].validity, st[f].next>>, shown[f])

\* deliverMetadata: the message has no row yet; from its second step on it has its
\* payload, and the UID it was given is above all its folder has shown.
Delivering ==
    op.stage \in {"store", "uid", "insert"} =>
        /\ op.msg.id \notin IdsOf(rows) /\ op.msg.folder \in catalog
        /\ op.stage # "store" => op.msg.id \in blob
        /\ op.stage = "insert" =>
              LET s == state[op.msg.folder]
              IN  /\ 0 < op.uid /\ op.uid < s.next /\ s.validity > 0
                  /\ Above(<<s.validity, op.uid>>, shown[op.msg.folder])

\* An open transaction: its tables are as sound as the committed ones, its new
\* messages have their payloads and no committed row, and what it will show is
\* shown already or above all its folder has shown.
Transaction ==
    op.stage \in {"copy", "jmap"} =>
        /\ \A r, q \in op.rows : r.id = q.id => r = q
        /\ Numbered(op.rows, op.state) /\ Ahead(op.state)
        /\ IdsOf(rows) \subseteq IdsOf(op.rows)
        /\ IdsOf(op.rows) \subseteq IdsOf(rows) \cup op.new
        /\ op.new \subseteq blob \ IdsOf(rows)
        /\ IdsOf(LiveOf(op.rows)) \subseteq blob
        /\ \A f \in Paths : state[f].validity \in {0, op.state[f].validity}
        /\ \A r \in LiveOf(op.rows) :
              \/ \E q \in Live : q.id = r.id /\ q.folder = r.folder /\ q.uid = r.uid
              \/ Above(<<op.state[r.folder].validity, r.uid>>, shown[r.folder])

\* COPY: the UIDs for the messages left were found free when it began.
Copying ==
    op.stage = "copy" =>
        /\ op.dest \in catalog /\ op.state[op.dest].validity > 0
        /\ IsFiniteSet(op.todo) /\ op.state[op.dest].next + Cardinality(op.todo) <= MaxUid

\* Payloads without a visible message that the operation in progress answers for.
Pending ==
    IF op.stage \in {"store", "uid", "insert"} THEN {op.msg.id}
    ELSE IF op.stage = "cleanup" THEN op.todo
    ELSE IF op.stage \in {"copy", "jmap"} THEN op.new
    ELSE {}

\* Unless a cleanup failed, every payload is shown or answered for, and a commit
\* shows or cleans up all that its transaction answers for.
Answered ==
    ~dirty =>
        /\ up => blob \subseteq LiveIds \cup Pending
        /\ op.stage \in {"copy", "jmap"} =>
              \A i \in LiveIds \cup op.new :
                 \/ i \in IdsOf(LiveOf(op.rows))
                 \/ /\ op.stage = "jmap" /\ i \in op.set
                    /\ \E r \in op.rows : r.id = i /\ r.expunged

MInv ==
    /\ TypeOK /\ FoldersWhole /\ PayloadBacked /\ DeliveredOnce
    /\ Numbered(rows, state) /\ Ahead(state)
    /\ Delivering /\ Transaction /\ Copying /\ Answered
    /\ op.stage = "cleanup" => op.todo \subseteq blob \ LiveIds
    /\ ~up => op = Idle
=============================================================================

---------------------------- MODULE MailboxProofs -----------------------------
(***************************************************************************)
(* The mailbox store keeps its inductive invariant, for any folder names,  *)
(* message identifiers and clock, and what follows from it.                *)
(***************************************************************************)
EXTENDS MailboxFolderProofs, MailboxMessageProofs

\* A new account: the standard folders, no message and no payload.
LEMMA InitMInv ==
  ASSUME Init
  PROVE  MInv
<1>1. /\ catalog = Standard /\ state = [f \in Paths |-> NoUidState] /\ rows = {} /\ blob = {} /\ op = Idle
      /\ up = TRUE /\ reported = {} /\ dirty = FALSE /\ shown = [f \in Paths |-> <<0, 0>>]
  BY DEF Init
<1>2. Live = {} /\ LiveIds = {} /\ \A k : RowsOf(k) = {}
  BY <1>1 DEF Live, LiveIds, RowsOf, LiveOf
<1>3. op.stage = "idle" /\ op \in Ops
  BY <1>1 DEF Idle, Ops
<1>4. state \in [Paths -> UidState] /\ shown \in [Paths -> Nat \X Nat]
  BY <1>1, MailboxAssumption DEF NoUidState, UidState
<1>5. TypeOK
  BY Zenon, <1>1, <1>3, <1>4, MailboxAssumption DEF TypeOK
<1>6. FoldersWhole
  <2>1. ASSUME NEW f \in Standard PROVE ~(Len(f) > 1)
    <3>1. Len(f) = 1
      BY Zenon, MailboxAssumption
    <3> QED
      BY <3>1
  <2> QED
    BY Zenon, <1>1, <1>2, <2>1, MailboxAssumption DEF FoldersWhole
<1>7. PayloadBacked /\ DeliveredOnce
  BY <1>1, <1>2 DEF PayloadBacked, DeliveredOnce
<1>8. Numbered(rows, state) /\ Ahead(state)
  BY <1>1 DEF Numbered, Ahead, LiveOf, NoUidState
<1>9. Delivering /\ Transaction /\ Copying /\ Answered
  BY <1>1, <1>3 DEF Delivering, Transaction, Copying, Answered
<1> QED
  BY <1>1, <1>3, <1>5, <1>6, <1>7, <1>8, <1>9 DEF MInv

\* Nothing changes.
LEMMA StutterStep ==
  ASSUME MInv, UNCHANGED vars
  PROVE  MInv' /\ UidsAscendStep
<1>1. /\ catalog' = catalog /\ state' = state /\ rows' = rows /\ blob' = blob /\ op' = op /\ up' = up
      /\ reported' = reported /\ dirty' = dirty /\ shown' = shown
  BY Zenon DEF vars
<1>2. UidsAscendStep
  <2>1. TypeOK /\ rows' = rows /\ \A r \in Live : state'[r.folder].validity = state[r.folder].validity
    BY ZenonT(30), <1>1, Facts
  <2> QED
    BY Zenon, <2>1, SameVisible
<1>3. MInv'
  BY Zenon, <1>1 DEF MInv, TypeOK, FoldersWhole, PayloadBacked, DeliveredOnce, Numbered, Ahead, Delivering,
     Transaction, Copying, Answered, Pending, Live, LiveIds, RowsOf
<1> QED
  BY <1>2, <1>3

\* Every step of the store, one case per operation.
LEMMA NextStep ==
  ASSUME MInv, [Next]_vars
  PROVE  MInv' /\ UidsAscendStep
<1>1. CASE FolderStep
  <2> PICK now \in Clock, f \in Paths :
        \/ CreateFolder(f, now) \/ CreateJMAPMailbox(f, now) \/ DeleteFolder(f) \/ DestroyJMAPMailbox(f)
        \/ \E new \in Paths : RenameFolder(f, new, now) \/ UpdateJMAPMailbox(f, new, now)
        \/ EnsureMailboxState(f, now)
    BY Zenon, <1>1 DEF FolderStep
  <2>1. CASE CreateFolder(f, now)
    BY Zenon, <2>1, CreateFolderStep
  <2>2. CASE CreateJMAPMailbox(f, now)
    BY Zenon, <2>2, CreateFolderStep DEF CreateJMAPMailbox
  <2>3. CASE DeleteFolder(f)
    BY Zenon, <2>3, DeleteFolderStep
  <2>4. CASE DestroyJMAPMailbox(f)
    BY Zenon, <2>4, DestroyJMAPMailboxStep
  <2>5. ASSUME NEW new \in Paths, RenameFolder(f, new, now) \/ UpdateJMAPMailbox(f, new, now)
        PROVE  MInv' /\ UidsAscendStep
    BY Zenon, <2>5, RenameFolderStep DEF UpdateJMAPMailbox
  <2>6. CASE EnsureMailboxState(f, now)
    BY Zenon, <2>6, EnsureMailboxStateStep
  <2> QED
    BY Zenon, <2>1, <2>2, <2>3, <2>4, <2>5, <2>6
<1>2. CASE DeliverStep
  <2>1. ASSUME NEW id \in Ids, NEW f \in Paths, NEW now \in Clock, DeliverOnce(id, f, now)
        PROVE  MInv' /\ UidsAscendStep
    BY Zenon, <2>1, DeliverOnceStep
  <2>2. ASSUME NEW id \in Ids, NEW f \in Paths, NEW d \in BOOLEAN, AppendMessage(id, f, d)
        PROVE  MInv' /\ UidsAscendStep
    BY Zenon, <2>2, AppendMessageStep
  <2>3. CASE DeliverStore
    BY Zenon, <2>3, DeliverStoreStep
  <2>4. ASSUME NEW now \in Clock, DeliverUID(now) PROVE MInv' /\ UidsAscendStep
    BY Zenon, <2>4, DeliverUIDStep
  <2>5. CASE DeliverInsert
    BY Zenon, <2>5, DeliverInsertStep
  <2> QED
    BY Zenon, <1>2, <2>1, <2>2, <2>3, <2>4, <2>5 DEF DeliverStep
<1>3. CASE CopyOrMoveStep
  <2>1. ASSUME NEW f \in Paths, NEW dest \in Paths, NEW now \in Clock, NEW ms \in Batches(f),
               CopyBegin(ms, dest, now)
        PROVE  MInv' /\ UidsAscendStep
    BY Zenon, <2>1, CopyBeginStep
  <2>2. ASSUME NEW f \in Paths, NEW dest \in Paths, NEW now \in Clock, NEW ms \in Batches(f),
               MoveMessages(ms, dest, now)
        PROVE  MInv' /\ UidsAscendStep
    BY Zenon, <2>2, MoveMessagesStep
  <2>3. ASSUME NEW r \in op.todo, NEW id \in Ids, CopyStep(r, id)
        PROVE  MInv' /\ UidsAscendStep
    BY Zenon, <2>3, CopyStepStep
  <2>4. CASE CopyCommit
    BY Zenon, <2>4, CopyCommitStep
  <2>5. CASE Abort
    BY Zenon, <2>5, AbortStep
  <2> QED
    BY Zenon, <1>3, <2>1, <2>2, <2>3, <2>4, <2>5 DEF CopyOrMoveStep
<1>4. CASE JMAPStep
  <2>1. CASE JMAPBegin
    BY Zenon, <2>1, JMAPBeginStep
  <2>2. ASSUME NEW id \in Ids, NEW f \in Paths, NEW d \in BOOLEAN, NEW now \in Clock, ImportData(id, f, d, now)
        PROVE  MInv' /\ UidsAscendStep
    BY Zenon, <2>2, ImportDataStep
  <2>3. ASSUME NEW r \in op.rows, NEW now \in Clock, SetEmail(r, now)
        PROVE  MInv' /\ UidsAscendStep
    BY Zenon, <2>3, SetEmailStep
  <2>4. CASE JMAPCommit
    BY Zenon, <2>4, JMAPCommitStep
  <2> QED
    BY Zenon, <1>4, <2>1, <2>2, <2>3, <2>4 DEF JMAPStep
<1>5. CASE RemoveStep
  BY Zenon, <1>5, UpdateMessageFlagsStep, ExpungeDeletedStep, CleanupStep DEF RemoveStep
<1>6. CASE RestartStep
  BY Zenon, <1>6, CrashStep, RecoverStep, RecoverFailsStep DEF RestartStep
<1>7. CASE UNCHANGED vars
  BY Zenon, <1>7, StutterStep
<1> QED
  BY Zenon, <1>1, <1>2, <1>3, <1>4, <1>5, <1>6, <1>7 DEF Next

\* MInv holds in every state of the mailbox store, between the steps of a
\* delivery, a COPY and a JMAP transaction too.
THEOREM MailboxInvariant == Spec => []MInv
<1>1. Init => MInv
  BY Zenon, InitMInv
<1>2. MInv /\ [Next]_vars => MInv'
  BY Zenon, NextStep
<1> QED
  BY <1>1, <1>2, PTL DEF Spec

\* No message is visible in a folder that does not exist and no folder loses its
\* parent (mailbox_folders.go), for any folder tree.
THEOREM FoldersSafe == Spec => []FoldersWhole
<1>1. MInv => FoldersWhole
  BY Zenon DEF MInv
<1> QED
  BY <1>1, MailboxInvariant, PTL

\* Every visible message has its payload, whatever crashed or failed between the
\* message journal and SQLite (mailbox_store.go).
THEOREM PayloadsSafe == Spec => []PayloadBacked
<1>1. MInv => PayloadBacked
  BY Zenon DEF MInv
<1> QED
  BY <1>1, MailboxInvariant, PTL

\* Between two operations the payloads are exactly those of the visible messages,
\* unless a cleanup failed since the last restart.
THEOREM OrphansSafe == Spec => []OrphanExplained
<1>1. MInv => OrphanExplained
  <2> SUFFICES ASSUME MInv, up, op = Idle, ~dirty
               PROVE  blob = LiveIds
    BY Zenon DEF OrphanExplained
  <2>1. LiveIds \subseteq blob /\ blob \subseteq LiveIds
    BY Zenon, Facts, IdleFacts
  <2> QED
    BY Zenon, <2>1
<1> QED
  BY <1>1, MailboxInvariant, PTL

\* A message reported delivered has its row and no message has two: a repeated
\* DeliverOnce adds none.
THEOREM DeliveriesSafe == Spec => []DeliveredOnce
<1>1. MInv => DeliveredOnce
  BY Zenon DEF MInv
<1> QED
  BY <1>1, MailboxInvariant, PTL

\* A message that appears in a folder has a UIDVALIDITY and UID above all that
\* the folder has ever shown, across DELETE, CREATE, RENAME, COPY, MOVE and JMAP.
THEOREM UidsSafe == Spec => UidsAscend
<1>1. MInv /\ [Next]_vars => [UidsAscendStep]_vars
  BY Zenon, NextStep
<1> QED
  BY <1>1, MailboxInvariant, PTL DEF Spec, UidsAscend
=============================================================================

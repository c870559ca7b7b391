------------------------- MODULE MailboxMessageProofs -------------------------
(***************************************************************************)
(* The operations of the mailbox store that take several steps keep the    *)
(* inductive invariant between any two of them: delivery, COPY, and the JMAP*)
(* requests Email/set and Email/import.                                    *)
(***************************************************************************)
EXTENDS MailboxTablesProofs

-----------------------------------------------------------------------------
(* A row is put in a folder.                                               *)

\* The row Placed adds.
Placing(i, f, d, s) == [id |-> i, folder |-> f, uid |-> s.next, deleted |-> d, expunged |-> FALSE]

\* The mailbox_state row after one UID was taken.
Next1(s) == [s EXCEPT !.next = @ + 1]

\* Row w is put in folder f of the tables rs and st, which gives st2.
Grown(cat, h, rs, st, f, s, w, st2) ==
    /\ Sound(cat, h, rs \cup {w}, st2)
    /\ Above(<<st2[w.folder].validity, w.uid>>, h[w.folder])
    /\ \A g \in Paths : st[g].validity \in {0, st2[g].validity}
    /\ st2[f].next = s.next + 1 /\ st2[f].validity = s.validity
    /\ w \in Row

\* A message is put in a folder under the folder's next UID.
LEMMA GrowSound ==
  ASSUME NEW cat, NEW h, NEW rs, NEW st, Sound(cat, h, rs, st),
         NEW i \in Ids, \A r \in rs : r.id # i, NEW f \in Paths, f \in cat,
         NEW d \in BOOLEAN, NEW s \in UidState, s.validity > 0, s.next < MaxUid,
         Advances(st[f], s), st[f].validity = 0 \/ s = st[f]
  PROVE  Grown(cat, h, rs, st, f, s, Placing(i, f, d, s), Put(st, f, Next1(s)))
<1> DEFINE w == Placing(i, f, d, s)
           st2 == Put(st, f, Next1(s))
           s2 == Next1(s)
<1>1. /\ rs \in SUBSET Row /\ st \in [Paths -> UidState] /\ h \in [Paths -> Nat \X Nat]
      /\ \A r, q \in rs : r.id = q.id => r = q
      /\ \A r \in LiveOf(rs) :
          r.folder \in cat /\ st[r.folder].validity > 0 /\ r.uid < st[r.folder].next
      /\ \A g \in Paths : Beyond(st[g], h[g])
  BY Zenon DEF Sound
<1>2. s.next \in Nat /\ s.validity \in Nat /\ MaxUid \in Nat
  BY MailboxAssumption DEF UidState
<1>3. s2 \in UidState /\ s2.validity = s.validity /\ s2.next = s.next + 1 /\ Advances(s, s2)
  <2>1. 1 \in Nat /\ s.next + 1 <= MaxUid
    BY <1>2
  <2> QED
    BY Zenon, <2>1, TakenFacts DEF Next1
<1> HIDE DEF s2
<1>5. /\ st2 \in [Paths -> UidState] /\ st2[f] = s2
      /\ \A g \in Paths : g # f => st2[g] = st[g]
  <2>1. st2 = [st EXCEPT ![f] = s2]
    BY Zenon DEF s2, st2, Put
  <2> QED
    BY Zenon, <1>1, <1>3, <2>1
<1>6. st[f] \in UidState /\ h[f] \in Nat \X Nat
  BY Zenon, <1>1
<1>7. Beyond(s, h[f])
  BY Zenon, <1>1, <1>6, AdvancesBeyond
<1>71. s.next > 0
  BY <1>2, <1>7 DEF Beyond
<1>4. w \in Row /\ w.id = i /\ w.folder = f /\ w.uid = s.next
  <2>1. s.next \in 1 .. (MaxUid - 1)
    BY <1>2, <1>71
  <2> QED
    BY Zenon, <2>1 DEF Row, Placing, w
<1> HIDE DEF w, st2
<1>8. Beyond(s2, h[f])
  BY Zenon, <1>3, <1>6, <1>7, AdvancesBeyond
<1>9. \A g \in Paths : Beyond(st2[g], h[g])
  BY Zenon, <1>1, <1>5, <1>8
<1>10. Above(<<s.validity, s.next>>, h[f])
  BY <1>2, <1>6, <1>7 DEF Beyond
<1>11. ASSUME NEW r \in LiveOf(rs \cup {w})
       PROVE  r.folder \in cat /\ st2[r.folder].validity > 0 /\ r.uid < st2[r.folder].next
  <2>1. CASE r = w
    <3>1. s.next < s2.next /\ s2.validity > 0
      BY <1>2, <1>3
    <3> QED
      BY Zenon, <1>4, <1>5, <2>1, <3>1
  <2>2. CASE r # w
    <3>1. r \in LiveOf(rs)
      BY Zenon, <2>2 DEF LiveOf
    <3>2. r.folder \in cat /\ st[r.folder].validity > 0 /\ r.uid < st[r.folder].next
      BY Zenon, <1>1, <3>1
    <3>3. r.folder \in Paths /\ r.uid \in Nat
      BY <1>1, <1>2, <3>1 DEF LiveOf, Row
    <3>4. CASE r.folder = f
      <4>1. st[f].validity # 0 /\ r.uid < st[f].next
        BY <3>2, <3>4
      <4>2. s = st[f]
        BY Zenon, <4>1
      <4>3. r.uid < s2.next /\ s2.validity > 0
        BY <1>2, <1>3, <3>3, <4>1, <4>2
      <4> QED
        BY Zenon, <1>5, <3>2, <3>4, <4>3
    <3>5. CASE r.folder # f
      BY Zenon, <1>5, <3>2, <3>3, <3>5
    <3> QED
      BY Zenon, <3>4, <3>5
  <2> QED
    BY Zenon, <2>1, <2>2
<1>12. \A r, q \in rs \cup {w} : r.id = q.id => r = q
  BY Zenon, <1>1, <1>4
<1>13. rs \cup {w} \in SUBSET Row
  BY Zenon, <1>1, <1>4
<1>14. Sound(cat, h, rs \cup {w}, st2)
  BY Zenon, <1>1, <1>5, <1>9, <1>11, <1>12, <1>13 DEF Sound
<1>15. \A g \in Paths : st[g].validity \in {0, st2[g].validity}
  BY Zenon, <1>3, <1>5
<1> QED
  BY Zenon, <1>3, <1>4, <1>5, <1>10, <1>14, <1>15 DEF Grown, w, st2

\* UIDVALIDITY is made sure of and one UID taken.
LEMMA EnsuredTaken ==
  ASSUME NEW s \in UidState, NEW now \in Clock, Ensured(s, now).next < MaxUid
  PROVE  LET e == Ensured(s, now)
             t == [e EXCEPT !.next = @ + 1]
         IN  /\ t \in UidState /\ Advances(s, t)
             /\ t.validity = e.validity /\ t.validity > 0 /\ t.next = e.next + 1
             /\ s.validity = 0 \/ (t.validity = s.validity /\ t.next >= s.next)
<1> DEFINE e == Ensured(s, now)
           t == [e EXCEPT !.next = @ + 1]
<1>1. e \in UidState /\ e.validity > 0 /\ (s.validity > 0 => e = s)
  BY Zenon, EnsuredFacts
<1> HIDE DEF e
<1>2. e.next \in Nat /\ e.validity \in Nat /\ MaxUid \in Nat /\ s.validity \in Nat /\ s.next \in Nat
  BY <1>1, MailboxAssumption DEF UidState
<1>3. e.next + 1 <= MaxUid
  BY <1>2 DEF e
<1>4. t \in UidState /\ t.validity = e.validity /\ t.next = e.next + 1
  BY Zenon, <1>1, <1>3, TakenFacts
<1> HIDE DEF t
<1>5. Advances(s, t) /\ (s.validity = 0 \/ (t.validity = s.validity /\ t.next >= s.next))
  <2>1. CASE s.validity = 0
    BY <1>1, <1>2, <1>4, <2>1 DEF Advances
  <2>2. CASE s.validity # 0
    BY <1>1, <1>2, <1>4, <2>2 DEF Advances
  <2> QED
    BY Zenon, <2>1, <2>2
<1> QED
  BY Zenon, <1>1, <1>4, <1>5 DEF e, t

\* The visible identifiers with one more visible row.
LEMMA LiveAdd ==
  ASSUME NEW rs, NEW w, ~w.expunged
  PROVE  IdsOf(LiveOf(rs \cup {w})) = IdsOf(LiveOf(rs)) \cup {w.id}
<1>1. LiveOf(rs \cup {w}) = LiveOf(rs) \cup {w}
  BY Zenon, IdsAdd
<1>2. IdsOf(LiveOf(rs) \cup {w}) = IdsOf(LiveOf(rs)) \cup {w.id}
  BY Zenon, IdsAdd
<1> QED
  BY Zenon, <1>1, <1>2

\* discardMessage: payloads that nothing shows go, or a failure is noted.
LEMMA DiscardFacts ==
  ASSUME NEW ids, Discard(ids), ids \cap LiveIds = {}, LiveIds \subseteq blob, blob \in SUBSET Ids,
         dirty \in BOOLEAN, dirty = FALSE => blob \subseteq LiveIds \cup ids
  PROVE  /\ blob' \in SUBSET Ids /\ LiveIds \subseteq blob' /\ dirty' \in BOOLEAN
         /\ dirty' = FALSE => blob' \subseteq LiveIds
<1>1. PICK kept \in SUBSET ids : blob' = blob \ (ids \ kept) /\ dirty' = (dirty \/ kept # {})
  BY Zenon DEF Discard
<1>2. CASE kept = {}
  <2>1. blob' = blob \ ids /\ dirty' = dirty
    BY <1>1, <1>2
  <2> QED
    BY Zenon, <2>1
<1>3. CASE kept # {}
  <2>1. dirty' = TRUE
    BY Zenon, <1>1, <1>3
  <2> QED
    BY Zenon, <1>1, <2>1
<1> QED
  BY Zenon, <1>2, <1>3

\* A visible identifier has its row.
LEMMA LiveIdsIn == LiveIds \subseteq IdsOf(rows)
BY Zenon DEF LiveIds, Live, LiveOf, IdsOf

-----------------------------------------------------------------------------
(* Delivery in three steps.                                                *)

\* deliverMetadata has made its checks.
LEMMA OpStore ==
  ASSUME NEW m \in New, op' = [stage |-> "store", msg |-> m, uid |-> 0], up' = TRUE,
         m.id \notin IdsOf(rows'), m.folder \in catalog'
  PROVE  OpInv' /\ Pending' = {m.id} /\ op'.stage \notin {"copy", "jmap"}
<1>1. op'.stage = "store" /\ op'.msg = m
  BY Zenon
<1>2. 0 \in 0 .. (MaxUid - 1)
  BY MailboxAssumption
<1>3. op' \in DeliverOp
  BY Zenon, <1>2 DEF DeliverOp
<1>4. op' \in Ops
  BY Zenon, <1>3, OpKinds
<1>5. op'.stage \notin {"copy", "jmap"} /\ op'.stage # "cleanup" /\ op'.stage # "insert"
  BY Zenon, <1>1
<1>6. Delivering'
  BY Zenon, <1>1, <1>5 DEF Delivering
<1>7. Transaction' /\ Copying'
  BY Zenon, <1>5 DEF Transaction, Copying
<1>8. Pending' = {m.id}
  BY Zenon, <1>1 DEF Pending
<1> QED
  BY Zenon, <1>4, <1>5, <1>6, <1>7, <1>8 DEF OpInv

\* What the checks of a delivery leave.
LEMMA CheckedFacts ==
  ASSUME MInv, op = Idle, up = TRUE, NEW m \in New, Checked(m), m.id \in Keys \/ RowsOf(m.id) = {},
         m.folder \in catalog', UNCHANGED <<rows, blob, up, dirty>>
  PROVE  /\ OpInv' /\ Answered' /\ reported' \subseteq Keys /\ reported' \subseteq IdsOf(rows')
<1>1. LiveIds' = LiveIds
  BY Zenon, SameRows
<1>2. /\ reported \subseteq Keys /\ reported \subseteq IdsOf(rows) /\ dirty \in BOOLEAN
      /\ dirty = FALSE /\ up = TRUE => blob \subseteq LiveIds
  BY Zenon, Facts, IdleFacts
<1>3. m.id \notin IdsOf(rows) <=> RowsOf(m.id) = {}
  BY DEF IdsOf, RowsOf
<1>4. CASE op' = op /\ reported' \subseteq reported \cup {m.id} /\ (RowsOf(m.id) # {} \/ reported' = reported)
  <2>1. OpInv' /\ Pending' = {} /\ op'.stage \notin {"copy", "jmap"}
    BY Zenon, <1>4, OpIdleInv
  <2>2. Answered'
    BY Zenon, <1>1, <1>2, <2>1, AnsweredPlain
  <2> QED
    BY Zenon, <1>2, <1>3, <1>4, <2>1, <2>2
<1>5. CASE RowsOf(m.id) = {} /\ op' = [stage |-> "store", msg |-> m, uid |-> 0] /\ reported' = reported
  <2>1. OpInv' /\ Pending' = {m.id} /\ op'.stage \notin {"copy", "jmap"}
    BY Zenon, <1>3, <1>5, OpStore
  <2>2. dirty' = FALSE /\ up' = TRUE => blob' \subseteq LiveIds' \cup Pending'
    BY Zenon, <1>1, <1>2
  <2>3. Answered'
    BY Zenon, <1>2, <2>1, <2>2, AnsweredPlain
  <2> QED
    BY Zenon, <1>2, <1>5, <2>1, <2>3
<1> QED
  BY Zenon, <1>4, <1>5 DEF Checked

\* DeliverOnce: an idempotency key that has a row is only reported.
LEMMA DeliverOnceStep ==
  ASSUME MInv, NEW id \in Ids, NEW f \in Paths, NEW now \in Clock, DeliverOnce(id, f, now)
  PROVE  MInv' /\ UidsAscendStep
<1> DEFINE m == [id |-> id, folder |-> f, deleted |-> FALSE]
<1>0. /\ up = TRUE /\ op = Idle /\ (id \in Keys \/ RowsOf(id) = {}) /\ Created(f, now) /\ Checked(m)
      /\ UNCHANGED <<rows, blob, up, dirty, shown>>
  BY Zenon, Facts DEF DeliverOnce, Free, Fresh
<1>1. m \in New /\ m.id = id /\ m.folder = f
  BY Zenon DEF New
<1> HIDE DEF m
<1>2. /\ Tree(catalog') /\ f \in catalog' /\ Sound(catalog', shown', rows', state')
      /\ \A r \in Live : state'[r.folder] = state[r.folder]
  BY Zenon, <1>0, CreatedFacts
<1>3. /\ OpInv' /\ Answered' /\ reported' \subseteq Keys /\ reported' \subseteq IdsOf(rows')
  BY Zenon, <1>0, <1>1, <1>2, CheckedFacts
<1>4. LiveIds' = LiveIds
  BY Zenon, <1>0, SameRows
<1>5. MInv'
  BY Zenon, <1>0, <1>2, <1>3, <1>4, Facts, Assemble
<1>6. UidsAscendStep
  BY Zenon, <1>0, <1>2, SameVisible, Facts
<1> QED
  BY Zenon, <1>5, <1>6

\* AppendMessage begins a delivery under a fresh identifier.
LEMMA AppendMessageStep ==
  ASSUME MInv, NEW id \in Ids, NEW f \in Paths, NEW d \in BOOLEAN, AppendMessage(id, f, d)
  PROVE  MInv' /\ UidsAscendStep
<1> DEFINE m == [id |-> id, folder |-> f, deleted |-> d]
<1>0. /\ up = TRUE /\ op = Idle /\ RowsOf(id) = {} /\ f \in catalog /\ Checked(m)
      /\ UNCHANGED <<catalog, state, rows, blob, up, dirty, shown>>
  BY Zenon, Facts DEF AppendMessage, Free, Fresh
<1>1. m \in New /\ m.id = id /\ m.folder = f
  BY Zenon DEF New
<1> HIDE DEF m
<1>2. Sound(catalog', shown', rows', state') /\ Tree(catalog')
  BY Zenon, <1>0, Facts
<1>3. /\ OpInv' /\ Answered' /\ reported' \subseteq Keys /\ reported' \subseteq IdsOf(rows')
  BY Zenon, <1>0, <1>1, CheckedFacts
<1>4. LiveIds' = LiveIds
  BY Zenon, <1>0, SameRows
<1>5. MInv'
  BY Zenon, <1>0, <1>2, <1>3, <1>4, Facts, Assemble
<1>6. UidsAscendStep
  BY Zenon, <1>0, SameVisible, Facts
<1> QED
  BY Zenon, <1>5, <1>6

\* A delivery in progress.
LEMMA DeliverFacts ==
  ASSUME MInv, op.stage \in {"store", "uid", "insert"}
  PROVE  /\ op \in DeliverOp /\ op.msg \in New /\ op.msg.id \in Ids /\ op.msg.folder \in Paths
         /\ op.msg.deleted \in BOOLEAN /\ op.uid \in 0 .. (MaxUid - 1)
         /\ op.msg.id \notin IdsOf(rows) /\ op.msg.id \notin LiveIds /\ op.msg.folder \in catalog
         /\ op.stage # "store" => op.msg.id \in blob
         /\ dirty = FALSE /\ up = TRUE => blob \subseteq LiveIds \cup {op.msg.id}
<1>1. OpInv /\ Answered /\ Delivering
  BY Zenon, Facts DEF OpInv
<1>2. op \in DeliverOp
  BY Zenon, <1>1, OpShape DEF OpInv
<1>3. /\ op.msg \in New /\ op.msg.id \in Ids /\ op.msg.folder \in Paths
      /\ op.msg.deleted \in BOOLEAN /\ op.uid \in 0 .. (MaxUid - 1)
  BY Zenon, <1>2 DEF DeliverOp, New
<1>4. /\ op.msg.id \notin IdsOf(rows) /\ op.msg.folder \in catalog
      /\ op.stage # "store" => op.msg.id \in blob
  BY Zenon, <1>1 DEF Delivering
<1>5. Pending = {op.msg.id}
  BY Zenon DEF Pending
<1>6. dirty = FALSE /\ up = TRUE => blob \subseteq LiveIds \cup {op.msg.id}
  BY Zenon, <1>1, <1>5 DEF Answered
<1> QED
  BY Zenon, <1>2, <1>3, <1>4, <1>6, LiveIdsIn

\* deliverMetadata, first step: the payload is stored or the delivery fails.
LEMMA DeliverStoreStep ==
  ASSUME MInv, DeliverStore
  PROVE  MInv' /\ UidsAscendStep
<1>0. /\ up = TRUE /\ op.stage = "store"
      /\ UNCHANGED <<catalog, state, rows, up, reported, dirty, shown>>
  BY Zenon, Facts DEF DeliverStore
<1>1. LiveIds' = LiveIds /\ Sound(catalog', shown', rows', state')
  BY Zenon, <1>0, SameRows, Facts
<1>2. /\ op \in DeliverOp /\ op.msg.id \in Ids
      /\ op.msg.id \notin IdsOf(rows) /\ op.msg.folder \in catalog
      /\ dirty = FALSE /\ up = TRUE => blob \subseteq LiveIds \cup {op.msg.id}
  BY Zenon, <1>0, DeliverFacts
<1>3. /\ blob' \in SUBSET Ids /\ LiveIds' \subseteq blob' /\ OpInv' /\ op'.stage \notin {"copy", "jmap"}
      /\ dirty' = FALSE /\ up' = TRUE => blob' \subseteq LiveIds' \cup Pending'
  <2>1. CASE blob' = blob \cup {op.msg.id} /\ op' = [op EXCEPT !.stage = "uid"]
    <3>1. op' \in DeliverOp /\ op'.stage = "uid" /\ op'.msg = op.msg
      BY Zenon, <1>2, <2>1 DEF DeliverOp
    <3>2. op' \in Ops
      BY Zenon, <3>1, OpKinds
    <3>3. /\ op'.stage \notin {"copy", "jmap"} /\ op'.stage # "cleanup" /\ op'.stage # "insert"
          /\ op'.stage \in {"store", "uid", "insert"}
      BY Zenon, <3>1
    <3>31. op'.msg.id \in blob' /\ op'.msg.id \notin IdsOf(rows') /\ op'.msg.folder \in catalog'
      BY <1>0, <1>2, <2>1, <3>1
    <3>4. Delivering'
      BY Zenon, <3>3, <3>31 DEF Delivering
    <3>5. Transaction' /\ Copying' /\ Pending' = {op.msg.id}
      BY Zenon, <3>1, <3>3 DEF Transaction, Copying, Pending
    <3>6. OpInv'
      BY Zenon, <1>0, <3>2, <3>3, <3>4, <3>5 DEF OpInv
    <3> QED
      BY Zenon, <1>0, <1>1, <1>2, <2>1, <3>3, <3>5, <3>6, Facts
  <2>2. CASE op.msg.id \notin blob /\ blob' = blob /\ op' = Idle
    <3>1. OpInv' /\ Pending' = {} /\ op'.stage \notin {"copy", "jmap"}
      BY Zenon, <2>2, OpIdleInv
    <3> QED
      BY Zenon, <1>0, <1>1, <1>2, <2>2, <3>1, Facts
  <2> QED
    BY Zenon, <2>1, <2>2 DEF DeliverStore
<1>4. Answered'
  BY Zenon, <1>0, <1>3, AnsweredPlain, Facts
<1>5. MInv'
  BY Zenon, <1>0, <1>1, <1>3, <1>4, Facts, Assemble
<1>6. UidsAscendStep
  BY Zenon, <1>0, SameVisible, Facts
<1> QED
  BY Zenon, <1>5, <1>6

\* deliverMetadata, second step: AllocateUID, or the payload is cleaned up.
LEMMA DeliverUIDStep ==
  ASSUME MInv, NEW now \in Clock, DeliverUID(now)
  PROVE  MInv' /\ UidsAscendStep
<1> DEFINE f == op.msg.folder
           s == Ensured(state[f], now)
           t == [s EXCEPT !.next = @ + 1]
<1>0. /\ up = TRUE /\ op.stage = "uid"
      /\ UNCHANGED <<catalog, rows, up, reported, shown>>
      /\ \/ /\ s.next < MaxUid
            /\ state' = [state EXCEPT ![f] = t]
            /\ op' = [op EXCEPT !.stage = "insert", !.uid = s.next]
            /\ UNCHANGED <<blob, dirty>>
         \/ /\ state' = [state EXCEPT ![f] = s]
            /\ op' = Idle
            /\ Discard({op.msg.id})
  BY Zenon, Facts DEF DeliverUID
<1>1. LiveIds' = LiveIds
  BY Zenon, <1>0, SameRows
<1>2. /\ op \in DeliverOp /\ op.msg.id \in Ids /\ f \in Paths
      /\ op.msg.id \notin IdsOf(rows) /\ op.msg.id \notin LiveIds /\ f \in catalog
      /\ op.msg.id \in blob
      /\ dirty = FALSE /\ up = TRUE => blob \subseteq LiveIds \cup {op.msg.id}
  <2>1. op.stage \in {"store", "uid", "insert"} /\ op.stage # "store"
    BY Zenon, <1>0
  <2> QED
    BY Zenon, <2>1, DeliverFacts
<1>3. Sound(catalog, shown, rows, state)
  BY Zenon, Facts
<1>4. state[f] \in UidState /\ shown[f] \in Nat \X Nat /\ Beyond(state[f], shown[f])
  BY Zenon, <1>2, <1>3 DEF Sound
<1>5. /\ s \in UidState /\ s.validity > 0 /\ Advances(state[f], s)
      /\ (state[f].validity > 0 => s = state[f])
  BY Zenon, <1>4, EnsuredFacts
<1>6. Beyond(s, shown[f])
  BY Zenon, <1>4, <1>5, AdvancesBeyond
<1>7. s.next > 0 /\ Above(<<s.validity, s.next>>, shown[f]) /\ s.next \in Nat /\ s.validity \in Nat
  BY <1>5, <1>6 DEF Beyond, UidState
<1>8. state[f].validity = 0 \/ s = state[f]
  BY <1>4, <1>5 DEF UidState
<1>9. s.next < MaxUid =>
        /\ t \in UidState /\ Advances(state[f], t)
        /\ t.validity = s.validity /\ t.validity > 0 /\ t.next = s.next + 1
        /\ state[f].validity = 0 \/ (t.validity = state[f].validity /\ t.next >= state[f].next)
  BY Zenon, <1>4, EnsuredTaken
<1> HIDE DEF s, t, f
<1>10. CASE s.next < MaxUid /\ state' = [state EXCEPT ![f] = t]
            /\ op' = [op EXCEPT !.stage = "insert", !.uid = s.next] /\ UNCHANGED <<blob, dirty>>
  <2>1. state' = Put(state, f, t)
    BY Zenon, <1>10 DEF Put
  <2>11. /\ t \in UidState /\ Advances(state[f], t) /\ t.validity = s.validity /\ t.validity > 0
         /\ t.next = s.next + 1
         /\ state[f].validity = 0 \/ (t.validity = state[f].validity /\ t.next >= state[f].next)
    BY Zenon, <1>9, <1>10
  <2>2. /\ Sound(catalog, shown, rows, state') /\ state'[f] = t
        /\ \A r \in LiveOf(rows) : state'[r.folder].validity = state[r.folder].validity
    BY <1>2, <1>3, <2>1, <2>11, OneSound
  <2>3. s.next \in 0 .. (MaxUid - 1)
    BY <1>7, <1>10, MailboxAssumption
  <2>4. op' \in DeliverOp /\ op'.stage = "insert" /\ op'.msg = op.msg /\ op'.uid = s.next
    BY Zenon, <1>2, <1>10, <2>3 DEF DeliverOp
  <2>5. op' \in Ops
    BY Zenon, <2>4, OpKinds
  <2>6. /\ op'.stage \notin {"copy", "jmap"} /\ op'.stage # "cleanup"
        /\ op'.stage \in {"store", "uid", "insert"}
    BY Zenon, <2>4
  <2>7. /\ 0 < op'.uid /\ op'.uid < state'[f].next /\ state'[f].validity > 0
        /\ Above(<<state'[f].validity, op'.uid>>, shown[f])
    <3>1. 0 < s.next /\ s.next < t.next
      BY <1>7, <2>11
    <3> QED
      BY Zenon, <1>7, <2>2, <2>4, <2>11, <3>1
  <2>71. op'.msg.id \in blob' /\ op'.msg.id \notin IdsOf(rows') /\ op'.msg.folder = f /\ f \in catalog'
    <3>1. UNCHANGED <<catalog, rows, blob>>
      BY Zenon, <1>0, <1>10
    <3> QED
      BY Zenon, <1>2, <2>4, <3>1 DEF f
  <2>72. shown' = shown
    BY Zenon, <1>0
  <2>8. Delivering'
    BY Zenon, <2>7, <2>71, <2>72 DEF Delivering
  <2>9. Transaction' /\ Copying' /\ Pending' = {op.msg.id}
    BY Zenon, <2>4, <2>6 DEF Transaction, Copying, Pending
  <2>10. OpInv'
    BY Zenon, <1>0, <2>5, <2>6, <2>8, <2>9 DEF OpInv
  <2>111. dirty' = FALSE /\ up' = TRUE => blob' \subseteq LiveIds' \cup Pending'
    BY Zenon, <1>0, <1>1, <1>2, <1>10, <2>9
  <2>12. Answered'
    BY Zenon, <1>0, <1>10, <2>6, <2>111, AnsweredPlain, Facts
  <2>13. MInv'
    BY Zenon, <1>0, <1>1, <1>10, <2>2, <2>10, <2>12, Facts, Assemble
  <2>14. UidsAscendStep
    BY Zenon, <1>0, <2>2, SameVisible, Facts DEF Live
  <2> QED
    BY Zenon, <2>13, <2>14
<1>11. CASE state' = [state EXCEPT ![f] = s] /\ op' = Idle /\ Discard({op.msg.id})
  <2>1. state' = Put(state, f, s)
    BY Zenon, <1>11 DEF Put
  <2>2. state[f].validity = 0 \/ (s.validity = state[f].validity /\ s.next >= state[f].next)
    BY <1>7, <1>8
  <2>3. /\ Sound(catalog, shown, rows, state')
        /\ \A r \in LiveOf(rows) : state'[r.folder].validity = state[r.folder].validity
    BY <1>2, <1>3, <1>5, <2>1, <2>2, OneSound
  <2>4. OpInv' /\ Pending' = {} /\ op'.stage \notin {"copy", "jmap"}
    BY Zenon, <1>11, OpIdleInv
  <2>5. /\ blob' \in SUBSET Ids /\ LiveIds \subseteq blob' /\ dirty' \in BOOLEAN
        /\ dirty' = FALSE => blob' \subseteq LiveIds
    BY Zenon, <1>0, <1>2, <1>11, DiscardFacts, Facts
  <2>6. Answered'
    BY Zenon, <1>0, <1>1, <2>4, <2>5, AnsweredPlain, Facts
  <2>7. MInv'
    BY Zenon, <1>0, <1>1, <2>3, <2>4, <2>5, <2>6, Facts, Assemble
  <2>8. UidsAscendStep
    BY Zenon, <1>0, <2>3, SameVisible, Facts DEF Live
  <2> QED
    BY Zenon, <2>7, <2>8
<1> QED
  BY Zenon, <1>0, <1>10, <1>11

\* deliverMetadata, last step: the row appears above all its folder has shown.
LEMMA DeliverInsertStep ==
  ASSUME MInv, DeliverInsert
  PROVE  MInv' /\ UidsAscendStep
<1> DEFINE m == op.msg
           w == [id |-> m.id, folder |-> m.folder, uid |-> op.uid, deleted |-> m.deleted, expunged |-> FALSE]
<1>0. /\ up = TRUE /\ op.stage = "insert" /\ op' = Idle
      /\ UNCHANGED <<catalog, state, up>>
      /\ \/ /\ rows' = IF \E r \in rows : r.id = m.id /\ r.folder = m.folder THEN rows ELSE rows \cup {w}
            /\ reported' = reported \cup ({m.id} \cap Keys)
            /\ Announce
            /\ UNCHANGED <<blob, dirty>>
         \/ /\ Discard({m.id})
            /\ UNCHANGED <<rows, reported, shown>>
  BY Zenon, Facts DEF DeliverInsert
<1>1. /\ m.id \in Ids /\ m.folder \in Paths /\ m.deleted \in BOOLEAN /\ op.uid \in 0 .. (MaxUid - 1)
      /\ m.id \notin IdsOf(rows) /\ m.id \notin LiveIds /\ m.folder \in catalog /\ m.id \in blob
      /\ dirty = FALSE /\ up = TRUE => blob \subseteq LiveIds \cup {m.id}
  <2>1. op.stage \in {"store", "uid", "insert"} /\ op.stage # "store"
    BY Zenon, <1>0
  <2> QED
    BY Zenon, <2>1, DeliverFacts
<1>2. LET v == state[m.folder].validity
      IN  /\ 0 < op.uid /\ op.uid < state[m.folder].next /\ v > 0
          /\ Above(<<v, op.uid>>, shown[m.folder])
  BY Zenon, <1>0, Facts DEF OpInv, Delivering
<1>3. w \in Row /\ w.id = m.id /\ w.folder = m.folder /\ w.uid = op.uid /\ w.expunged = FALSE
  <2>1. op.uid \in 1 .. (MaxUid - 1)
    BY <1>1, <1>2, MailboxAssumption
  <2> QED
    BY <1>1, <2>1 DEF Row
<1>31. ~w.expunged
  BY Zenon, <1>3
<1> HIDE DEF w, m
<1>4. Sound(catalog, shown, rows, state)
  BY Zenon, Facts
<1>5. OpInv' /\ Pending' = {} /\ op'.stage \notin {"copy", "jmap"}
  BY Zenon, <1>0, OpIdleInv
<1>6. CASE /\ rows' = IF \E r \in rows : r.id = m.id /\ r.folder = m.folder THEN rows ELSE rows \cup {w}
           /\ reported' = reported \cup ({m.id} \cap Keys) /\ Announce /\ UNCHANGED <<blob, dirty>>
  <2>1. \A r \in rows : r.id # w.id
    BY Zenon, <1>1, <1>3 DEF IdsOf
  <2>2. rows' = rows \cup {w}
    BY Zenon, <1>3, <1>6, <2>1
  <2>3. Sound(catalog, shown, rows \cup {w}, state)
    BY Zenon, <1>1, <1>2, <1>3, <1>4, <2>1, AddSound
  <2>4. Sound(catalog', shown', rows', state')
    BY Zenon, <1>0, <1>6, <2>2, <2>3, AnnounceSound
  <2>5. /\ IdsOf(rows') = IdsOf(rows) \cup {m.id}
        /\ LiveOf(rows') = LiveOf(rows) \cup {w}
    BY <1>3, <1>31, <2>2, IdsAdd
  <2>6. LiveIds' = LiveIds \cup {m.id}
    BY <1>3, <2>5, IdsAdd, LiveIdsOf
  <2>7. Answered'
    BY Zenon, <1>0, <1>1, <1>5, <1>6, <2>6, AnsweredPlain, Facts
  <2>8. MInv'
    BY Zenon, <1>0, <1>1, <1>5, <1>6, <2>4, <2>5, <2>6, <2>7, Facts, Assemble
  <2>9. \A r \in LiveOf(rows') : r \in Live \/ r = w
    BY Zenon, <2>5 DEF Live
  <2>10. UidsAscendStep
    BY Zenon, <1>0, <1>2, <1>3, <2>9, Ascends, Facts
  <2> QED
    BY Zenon, <2>8, <2>10
<1>7. CASE Discard({m.id}) /\ UNCHANGED <<rows, reported, shown>>
  <2>1. LiveIds' = LiveIds
    BY Zenon, <1>7, SameRows
  <2>2. /\ blob' \in SUBSET Ids /\ LiveIds \subseteq blob' /\ dirty' \in BOOLEAN
        /\ dirty' = FALSE => blob' \subseteq LiveIds
    BY Zenon, <1>0, <1>1, <1>7, DiscardFacts, Facts
  <2>3. Answered'
    BY Zenon, <1>0, <1>5, <2>1, <2>2, AnsweredPlain, Facts
  <2>4. MInv'
    BY Zenon, <1>0, <1>4, <1>5, <1>7, <2>1, <2>2, <2>3, Facts, Assemble
  <2>5. UidsAscendStep
    BY Zenon, <1>0, <1>7, SameVisible, Facts
  <2> QED
    BY Zenon, <2>4, <2>5
<1> QED
  BY Zenon, <1>0, <1>6, <1>7

-----------------------------------------------------------------------------
(* Transactions.                                                           *)

\* The tables rs and st of a transaction with new messages new, over the committed
\* tables base and st0 and the payloads bl.
TxSound(cat, h, base, st0, bl, rs, st, new) ==
    /\ Sound(cat, h, rs, st)
    /\ IdsOf(base) \subseteq IdsOf(rs) /\ IdsOf(rs) \subseteq IdsOf(base) \cup new
    /\ new \subseteq bl \ IdsOf(base) /\ IdsOf(LiveOf(rs)) \subseteq bl
    /\ \A f \in Paths : st0[f].validity \in {0, st[f].validity}
    /\ \A r \in LiveOf(rs) :
          \/ \E q \in LiveOf(base) : q.id = r.id /\ q.folder = r.folder /\ q.uid = r.uid
          \/ Above(<<st[r.folder].validity, r.uid>>, h[r.folder])

\* The tables of an open transaction are sound.
LEMMA TxNow ==
  ASSUME MInv, op.stage \in {"copy", "jmap"}
  PROVE  /\ TxSound(catalog, shown, rows, state, blob, op.rows, op.state, op.new)
         /\ op.new \in SUBSET Ids /\ up = TRUE
         /\ dirty = FALSE => blob \subseteq LiveIds \cup op.new
<1>1. OpInv /\ Transaction /\ op \in Ops /\ Answered /\ Sound(catalog, shown, rows, state)
  BY Zenon, Facts DEF OpInv
<1>2. /\ op.rows \in SUBSET Row /\ op.state \in [Paths -> UidState] /\ op.new \in SUBSET Ids
  <2>1. op \in CopyOp \/ op \in JMAPOp
    BY Zenon, <1>1, OpShape
  <2> QED
    BY Zenon, <2>1 DEF CopyOp, JMAPOp
<1>3. shown \in [Paths -> Nat \X Nat]
  BY Zenon, <1>1 DEF Sound
<1>4. Sound(catalog, shown, op.rows, op.state)
  BY Zenon, <1>1, <1>2, <1>3 DEF Transaction, Numbered, Ahead, Beyond, Sound
<1>5. TxSound(catalog, shown, rows, state, blob, op.rows, op.state, op.new)
  BY Zenon, <1>1, <1>4 DEF Transaction, TxSound, Live
<1>6. up = TRUE
  <2>1. op # Idle
    BY DEF Idle
  <2> QED
    BY Zenon, <1>1, <2>1, Facts DEF OpInv
<1>7. Pending = op.new
  BY Zenon DEF Pending
<1> QED
  BY Zenon, <1>1, <1>2, <1>5, <1>6, <1>7 DEF Answered

\* Sound tables after a step of a transaction are what MInv says of it.
LEMMA TxNext ==
  ASSUME op' \in Ops, op'.stage \in {"copy", "jmap"}, up' = TRUE,
         TxSound(catalog', shown', rows', state', blob', op'.rows, op'.state, op'.new), Copying'
  PROVE  OpInv' /\ Pending' = op'.new
<1>1. Sound(catalog', shown', op'.rows, op'.state)
  BY Zenon DEF TxSound
<1>2. /\ \A r, q \in op'.rows : r.id = q.id => r = q
      /\ Numbered(op.rows, op.state)' /\ Ahead(op.state)'
  BY Zenon, <1>1 DEF Sound, Numbered, Ahead, Beyond
<1>3. Transaction'
  BY Zenon, <1>2 DEF Transaction, TxSound, Live
<1>4. op'.stage \notin {"store", "uid", "insert"} /\ op'.stage # "cleanup"
  BY Zenon
<1>5. Delivering'
  BY Zenon, <1>4 DEF Delivering
<1>6. Pending' = op'.new
  BY Zenon, <1>4 DEF Pending
<1> QED
  BY Zenon, <1>3, <1>4, <1>5, <1>6 DEF OpInv

\* UIDVALIDITY of the folders that show messages is as before.
LEMMA TxLive ==
  ASSUME NEW cat, NEW h, NEW base, NEW st0, NEW bl, NEW rs, NEW st, NEW new,
         TxSound(cat, h, base, st0, bl, rs, st, new), NEW st2,
         \A g \in Paths : st[g].validity \in {0, st2[g].validity}
  PROVE  /\ \A r \in LiveOf(rs) : st2[r.folder].validity = st[r.folder].validity
         /\ \A g \in Paths : st0[g].validity \in {0, st2[g].validity}
<1>1. Sound(cat, h, rs, st)
  BY Zenon DEF TxSound
<1>2. rs \in SUBSET Row /\ \A r \in LiveOf(rs) : st[r.folder].validity > 0
  BY Zenon, <1>1 DEF Sound
<1>3. \A r \in LiveOf(rs) : r.folder \in Paths /\ st[r.folder].validity # 0
  BY <1>2 DEF LiveOf, Row
<1>4. \A r \in LiveOf(rs) : st2[r.folder].validity = st[r.folder].validity
  BY Zenon, <1>3
<1>5. \A g \in Paths : st0[g].validity \in {0, st2[g].validity}
  BY Zenon DEF TxSound
<1> QED
  BY Zenon, <1>4, <1>5

\* A message that is new to the transaction, row or no row.
LEMMA TxAdd ==
  ASSUME NEW cat, NEW h, NEW base, NEW st0, NEW bl, NEW rs, NEW st, NEW new,
         TxSound(cat, h, base, st0, bl, rs, st, new),
         NEW w, w.id \notin bl, w.id \notin IdsOf(base), ~w.expunged,
         NEW st2, Sound(cat, h, rs \cup {w}, st2), Above(<<st2[w.folder].validity, w.uid>>, h[w.folder]),
         \A g \in Paths : st[g].validity \in {0, st2[g].validity}
  PROVE  /\ TxSound(cat, h, base, st0, bl \cup {w.id}, rs \cup {w}, st2, new \cup {w.id})
<1>1. /\ \A r \in LiveOf(rs) : st2[r.folder].validity = st[r.folder].validity
      /\ \A g \in Paths : st0[g].validity \in {0, st2[g].validity}
  BY TxLive
<1>2. /\ IdsOf(rs \cup {w}) = IdsOf(rs) \cup {w.id} /\ LiveOf(rs \cup {w}) = LiveOf(rs) \cup {w}
      /\ IdsOf(LiveOf(rs) \cup {w}) = IdsOf(LiveOf(rs)) \cup {w.id}
  BY Zenon, IdsAdd
<1>3. /\ IdsOf(base) \subseteq IdsOf(rs) /\ IdsOf(rs) \subseteq IdsOf(base) \cup new
      /\ new \subseteq bl \ IdsOf(base) /\ IdsOf(LiveOf(rs)) \subseteq bl
      /\ \A r \in LiveOf(rs) :
          \/ \E q \in LiveOf(base) : q.id = r.id /\ q.folder = r.folder /\ q.uid = r.uid
          \/ Above(<<st[r.folder].validity, r.uid>>, h[r.folder])
  BY Zenon DEF TxSound
<1>4. \A r \in LiveOf(rs \cup {w}) :
          \/ \E q \in LiveOf(base) : q.id = r.id /\ q.folder = r.folder /\ q.uid = r.uid
          \/ Above(<<st2[r.folder].validity, r.uid>>, h[r.folder])
  BY Zenon, <1>1, <1>2, <1>3
<1>5. /\ IdsOf(base) \subseteq IdsOf(rs \cup {w})
      /\ IdsOf(rs \cup {w}) \subseteq IdsOf(base) \cup (new \cup {w.id})
      /\ new \cup {w.id} \subseteq (bl \cup {w.id}) \ IdsOf(base)
      /\ IdsOf(LiveOf(rs \cup {w})) \subseteq bl \cup {w.id}
  BY Zenon, <1>2, <1>3
<1> QED
  BY Zenon, <1>1, <1>4, <1>5 DEF TxSound

\* Storing a payload for a transaction keeps its tables sound.
LEMMA TxStored ==
  ASSUME NEW cat, NEW h, NEW base, NEW st0, NEW bl, NEW rs, NEW st, NEW new,
         TxSound(cat, h, base, st0, bl, rs, st, new), NEW i, i \notin IdsOf(base)
  PROVE  TxSound(cat, h, base, st0, bl \cup {i}, rs, st, new \cup {i})
BY Zenon DEF TxSound

\* A message of the transaction gets another row.
LEMMA TxReplace ==
  ASSUME NEW cat, NEW h, NEW base, NEW st0, NEW bl, NEW rs, NEW st, NEW new,
         TxSound(cat, h, base, st0, bl, rs, st, new),
         NEW r \in LiveOf(rs), NEW w, w.id = r.id,
         NEW st2, Sound(cat, h, (rs \ {r}) \cup {w}, st2),
         w.expunged \in BOOLEAN, w.expunged \/ Above(<<st2[w.folder].validity, w.uid>>, h[w.folder]),
         \A g \in Paths : st[g].validity \in {0, st2[g].validity}
  PROVE  /\ TxSound(cat, h, base, st0, bl, (rs \ {r}) \cup {w}, st2, new)
         /\ LiveOf(rs) \ {r} \subseteq LiveOf((rs \ {r}) \cup {w})
<1> DEFINE rs2 == (rs \ {r}) \cup {w}
<1>1. /\ \A q \in LiveOf(rs) : st2[q.folder].validity = st[q.folder].validity
      /\ \A g \in Paths : st0[g].validity \in {0, st2[g].validity}
  BY TxLive
<1>2. /\ IdsOf(base) \subseteq IdsOf(rs) /\ IdsOf(rs) \subseteq IdsOf(base) \cup new
      /\ new \subseteq bl \ IdsOf(base) /\ IdsOf(LiveOf(rs)) \subseteq bl
      /\ \A q \in LiveOf(rs) :
          \/ \E p \in LiveOf(base) : p.id = q.id /\ p.folder = q.folder /\ p.uid = q.uid
          \/ Above(<<st[q.folder].validity, q.uid>>, h[q.folder])
  BY Zenon DEF TxSound
<1>3. r \in rs /\ r.id \in IdsOf(LiveOf(rs)) /\ r.id \in IdsOf(rs)
  BY Zenon DEF LiveOf, IdsOf
<1>4. \A p, q \in rs : p.id = q.id => p = q
  BY Zenon DEF TxSound, Sound
<1>5. /\ IdsOf(rs \ {r}) = IdsOf(rs) \ {r.id} /\ LiveOf(rs \ {r}) = LiveOf(rs) \ {r}
      /\ IdsOf(LiveOf(rs \ {r})) = IdsOf(LiveOf(rs)) \ {r.id}
  BY Zenon, <1>3, <1>4, IdsRemove
<1>6. /\ IdsOf(rs2) = IdsOf(rs \ {r}) \cup {w.id}
      /\ (~w.expunged => LiveOf(rs2) = LiveOf(rs \ {r}) \cup {w})
      /\ (w.expunged => LiveOf(rs2) = LiveOf(rs \ {r}))
      /\ IdsOf(LiveOf(rs \ {r}) \cup {w}) = IdsOf(LiveOf(rs \ {r})) \cup {w.id}
  BY Zenon, IdsAdd
<1> HIDE DEF rs2
<1>7. IdsOf(rs2) = IdsOf(rs)
  <2>1. IdsOf(rs2) = (IdsOf(rs) \ {r.id}) \cup {r.id}
    BY Zenon, <1>5, <1>6
  <2> QED
    BY Zenon, <1>3, <2>1
<1>8. IdsOf(LiveOf(rs2)) \subseteq bl
  <2>1. CASE w.expunged
    BY Zenon, <1>2, <1>5, <1>6, <2>1
  <2>2. CASE ~w.expunged
    BY Zenon, <1>2, <1>3, <1>5, <1>6, <2>2
  <2> QED
    BY Zenon, <2>1, <2>2
<1>9. \A q \in LiveOf(rs2) : q \in LiveOf(rs) \/ (q = w /\ ~w.expunged)
  BY Zenon, <1>5, <1>6
<1>10. \A q \in LiveOf(rs2) :
          \/ \E p \in LiveOf(base) : p.id = q.id /\ p.folder = q.folder /\ p.uid = q.uid
          \/ Above(<<st2[q.folder].validity, q.uid>>, h[q.folder])
  BY Zenon, <1>1, <1>2, <1>9
<1>11. LiveOf(rs) \ {r} \subseteq LiveOf(rs2)
  BY Zenon, <1>5, <1>6
<1>12. Sound(cat, h, rs2, st2)
  BY Zenon DEF rs2
<1>13. TxSound(cat, h, base, st0, bl, rs2, st2, new)
  BY Zenon, <1>1, <1>2, <1>7, <1>8, <1>10, <1>12 DEF TxSound
<1> QED
  BY Zenon, <1>11, <1>13 DEF rs2

\* The tables of the transaction are committed.
LEMMA CommitFacts ==
  ASSUME MInv, op.stage \in {"copy", "jmap"}, Commit(op), catalog' = catalog, blob' = blob
  PROVE  /\ Sound(catalog', shown', rows', state') /\ UidsAscendStep /\ LiveIds' \subseteq blob'
         /\ IdsOf(rows) \subseteq IdsOf(rows') /\ LiveIds' = IdsOf(LiveOf(op.rows))
<1>1. TxSound(catalog, shown, rows, state, blob, op.rows, op.state, op.new)
  BY Zenon, TxNow
<1>2. rows' = op.rows /\ state' = op.state /\ Announce
  BY Zenon DEF Commit
<1>3. Sound(catalog, shown, op.rows, op.state)
  BY Zenon, <1>1 DEF TxSound
<1>4. Sound(catalog', shown', rows', state')
  BY Zenon, <1>2, <1>3, AnnounceSound
<1>5. LiveIds' = IdsOf(LiveOf(op.rows))
  BY Zenon, <1>2, LiveIdsOf
<1>6. ASSUME NEW r \in LiveOf(rows')
      PROVE  \/ /\ state'[r.folder].validity = state[r.folder].validity
                /\ \E q \in Live : q.id = r.id /\ q.folder = r.folder /\ q.uid = r.uid
             \/ Above(<<state'[r.folder].validity, r.uid>>, shown[r.folder])
  <2>1. CASE \E q \in LiveOf(rows) : q.id = r.id /\ q.folder = r.folder /\ q.uid = r.uid
    <3>1. PICK q \in LiveOf(rows) : q.id = r.id /\ q.folder = r.folder /\ q.uid = r.uid
      BY Zenon, <2>1
    <3>2. q.folder \in Paths /\ state[q.folder].validity # 0
      <4>1. Sound(catalog, shown, rows, state)
        BY Zenon, Facts
      <4>2. q \in Row /\ state[q.folder].validity > 0
        BY Zenon, <4>1 DEF Sound, LiveOf
      <4> QED
        BY <4>2 DEF Row
    <3>3. state'[q.folder].validity = state[q.folder].validity
      BY Zenon, <1>1, <1>2, <3>2 DEF TxSound
    <3> QED
      BY Zenon, <3>1, <3>3 DEF Live
  <2>2. CASE ~ \E q \in LiveOf(rows) : q.id = r.id /\ q.folder = r.folder /\ q.uid = r.uid
    BY Zenon, <1>1, <1>2, <2>2 DEF TxSound
  <2> QED
    BY Zenon, <2>1, <2>2
<1>7. UidsAscendStep
  BY Zenon, <1>6, Ascends, Facts
<1> QED
  BY Zenon, <1>1, <1>2, <1>4, <1>5, <1>7 DEF TxSound

\* A transaction that is rolled back discards the payloads it stored.
LEMMA AbortStep ==
  ASSUME MInv, Abort
  PROVE  MInv' /\ UidsAscendStep
<1>0. /\ op.stage \in {"copy", "jmap"} /\ Discard(op.new \cap blob) /\ op' = Idle
      /\ UNCHANGED <<catalog, state, rows, up, reported, shown>>
  BY Zenon DEF Abort
<1>1. /\ TxSound(catalog, shown, rows, state, blob, op.rows, op.state, op.new) /\ up = TRUE
      /\ dirty = FALSE => blob \subseteq LiveIds \cup op.new
  BY Zenon, <1>0, TxNow
<1>2. LiveIds' = LiveIds /\ Sound(catalog', shown', rows', state')
  BY Zenon, <1>0, SameRows, Facts
<1>3. (op.new \cap blob) \cap LiveIds = {}
  BY Zenon, <1>1, LiveIdsIn DEF TxSound
<1>4. dirty = FALSE => blob \subseteq LiveIds \cup (op.new \cap blob)
  BY Zenon, <1>1
<1>5. /\ blob' \in SUBSET Ids /\ LiveIds \subseteq blob' /\ dirty' \in BOOLEAN
      /\ dirty' = FALSE => blob' \subseteq LiveIds
  BY Zenon, <1>0, <1>3, <1>4, DiscardFacts, Facts
<1>6. OpInv' /\ Pending' = {} /\ op'.stage \notin {"copy", "jmap"}
  BY Zenon, <1>0, OpIdleInv
<1>7. Answered'
  BY Zenon, <1>0, <1>2, <1>5, <1>6, AnsweredPlain, Facts
<1>8. MInv'
  BY Zenon, <1>0, <1>2, <1>5, <1>6, <1>7, Facts, Assemble
<1>9. UidsAscendStep
  BY Zenon, <1>0, SameVisible, Facts
<1> QED
  BY Zenon, <1>8, <1>9

\* COPY commits: what it shows is above all its folder has shown.
LEMMA CopyCommitStep ==
  ASSUME MInv, CopyCommit
  PROVE  MInv' /\ UidsAscendStep
<1>0. /\ op.stage = "copy" /\ Commit(op) /\ op' = Idle
      /\ UNCHANGED <<catalog, blob, up, reported, dirty>>
  BY Zenon DEF CopyCommit
<1>01. op.stage \in {"copy", "jmap"} /\ op.stage # "jmap"
  BY Zenon, <1>0
<1>1. /\ Sound(catalog', shown', rows', state') /\ UidsAscendStep /\ LiveIds' \subseteq blob'
      /\ IdsOf(rows) \subseteq IdsOf(rows') /\ LiveIds' = IdsOf(LiveOf(op.rows))
  BY Zenon, <1>0, <1>01, CommitFacts
<1>2. dirty = FALSE => blob \subseteq LiveIds \cup op.new
  BY Zenon, <1>01, TxNow
<1>3. dirty = FALSE => LiveIds \cup op.new \subseteq LiveIds'
  BY Zenon, <1>01, <1>1, Facts DEF Answered
<1>4. OpInv' /\ Pending' = {} /\ op'.stage \notin {"copy", "jmap"}
  BY Zenon, <1>0, OpIdleInv
<1>5. Answered'
  BY Zenon, <1>0, <1>2, <1>3, <1>4, AnsweredPlain, Facts
<1>6. MInv'
  BY Zenon, <1>0, <1>1, <1>4, <1>5, Facts, Assemble
<1> QED
  BY Zenon, <1>1, <1>6

\* Email/set and Email/import commit, and clean up what they destroyed.
LEMMA JMAPCommitStep ==
  ASSUME MInv, JMAPCommit
  PROVE  MInv' /\ UidsAscendStep
<1> DEFINE some == \E r \in op.rows : r.id \in op.set /\ r.expunged
           ids == IF some THEN Expunged(op.rows) \cap blob ELSE {}
<1>0. /\ op.stage = "jmap" /\ Commit(op) /\ UNCHANGED <<catalog, blob, up, reported, dirty>>
      /\ op' = IF some THEN CleanupOf(Expunged(op.rows) \cap blob) ELSE Idle
  BY Zenon DEF JMAPCommit
<1>00. op' = CleanupOf(ids)
  <2>1. CASE some
    BY Zenon, <1>0, <2>1
  <2>2. CASE ~some
    BY Zenon, <1>0, <2>2 DEF CleanupOf
  <2> QED
    BY Zenon, <2>1, <2>2
<1>01. op.stage \in {"copy", "jmap"}
  BY <1>0
<1>1. /\ Sound(catalog', shown', rows', state') /\ UidsAscendStep /\ LiveIds' \subseteq blob'
      /\ IdsOf(rows) \subseteq IdsOf(rows') /\ LiveIds' = IdsOf(LiveOf(op.rows))
  BY Zenon, <1>0, <1>01, CommitFacts
<1>2. (dirty = FALSE => blob \subseteq LiveIds \cup op.new) /\ up = TRUE
  BY Zenon, <1>01, TxNow
<1>3. Expunged(op.rows) = IdsOf(op.rows) \ IdsOf(LiveOf(op.rows))
  BY Zenon DEF Expunged, IdsOf
<1>4. ids \in SUBSET Ids /\ ids \subseteq blob' \ LiveIds'
  BY Zenon, <1>0, <1>1, <1>3, Facts
<1>5. ASSUME dirty = FALSE, NEW i \in blob, i \notin LiveIds' PROVE i \in ids
  <2>1. i \in op.set /\ \E r \in op.rows : r.id = i /\ r.expunged
    BY Zenon, <1>01, <1>1, <1>2, <1>5, Facts DEF Answered
  <2>2. i \in IdsOf(op.rows)
    BY Zenon, <2>1 DEF IdsOf
  <2> QED
    BY Zenon, <1>1, <1>3, <1>5, <2>1, <2>2
<1> HIDE DEF ids
<1>6. OpInv' /\ Pending' = ids /\ op'.stage \notin {"copy", "jmap"}
  BY Zenon, <1>0, <1>00, <1>2, <1>4, OpCleanup
<1>7. dirty' = FALSE /\ up' = TRUE => blob' \subseteq LiveIds' \cup Pending'
  BY Zenon, <1>0, <1>5, <1>6
<1>8. Answered'
  BY Zenon, <1>0, <1>6, <1>7, AnsweredPlain, Facts
<1>9. MInv'
  BY Zenon, <1>0, <1>1, <1>6, <1>8, Facts, Assemble
<1> QED
  BY Zenon, <1>1, <1>9

-----------------------------------------------------------------------------
(* A transaction begins; the records it changes.                           *)

\* The answer of an open transaction for the payloads (part of Answered).
LEMMA AnsweredTx ==
  ASSUME op'.stage \in {"copy", "jmap"}, Pending' = op'.new, dirty' \in BOOLEAN,
         dirty' = FALSE => blob' \subseteq LiveIds' \cup op'.new,
         dirty' = FALSE => \A i \in LiveIds' \cup op'.new :
              \/ i \in IdsOf(LiveOf(op'.rows))
              \/ /\ op'.stage = "jmap" /\ i \in op'.set
                 /\ \E r \in op'.rows : r.id = i /\ r.expunged
  PROVE  Answered'
BY Zenon DEF Answered

\* The committed tables are a transaction that has changed nothing yet.
LEMMA TxBegin ==
  ASSUME NEW cat, NEW h, NEW base, NEW st0, NEW bl, Sound(cat, h, base, st0), IdsOf(LiveOf(base)) \subseteq bl
  PROVE  TxSound(cat, h, base, st0, bl, base, st0, {})
BY Zenon DEF TxSound

\* CopyMessages begins when the destination has UIDs for all its messages.
LEMMA CopyBeginStep ==
  ASSUME MInv, NEW f \in Paths, NEW dest \in Paths, NEW now \in Clock, NEW ms \in Batches(f),
         CopyBegin(ms, dest, now)
  PROVE  MInv' /\ UidsAscendStep
<1> DEFINE s == Ensured(state[dest], now)
<1>0. /\ up = TRUE /\ op = Idle /\ dest \in catalog /\ s.next + Cardinality(ms) <= MaxUid
      /\ state' = [state EXCEPT ![dest] = s]
      /\ UNCHANGED <<catalog, rows, blob, up, reported, dirty, shown>>
  BY Zenon, Facts DEF CopyBegin, Free
<1>01. op' = [stage |-> "copy", rows |-> rows, state |-> state', new |-> {}, todo |-> ms, dest |-> dest]
  BY Zenon DEF CopyBegin
<1>1. LiveIds' = LiveIds /\ LiveIds = IdsOf(LiveOf(rows))
  BY Zenon, <1>0, SameRows, LiveIdsOf
<1>2. Sound(catalog, shown, rows, state)
  BY Zenon, Facts
<1>21. rows \in SUBSET Row /\ \A r, q \in rows : r.id = q.id => r = q
  BY Zenon, <1>2 DEF Sound
<1>3. state[dest] \in UidState
  BY Zenon, <1>2 DEF Sound
<1>4. s \in UidState /\ s.validity > 0 /\ Advances(state[dest], s) /\ (state[dest].validity > 0 => s = state[dest])
  BY Zenon, <1>3, EnsuredFacts
<1> HIDE DEF s
<1>5. state[dest].validity = 0 \/ (s.validity = state[dest].validity /\ s.next >= state[dest].next)
  BY <1>3, <1>4 DEF UidState
<1>6. state' = Put(state, dest, s)
  BY Zenon, <1>0 DEF Put
<1>7. /\ Sound(catalog, shown, rows, state') /\ state'[dest] = s
      /\ \A r \in LiveOf(rows) : state'[r.folder].validity = state[r.folder].validity
  BY SMTT(30), <1>2, <1>4, <1>5, <1>6, OneSound
<1>8. IsFiniteSet(ms) /\ ms \in SUBSET Row
  <2>1. ms \in SUBSET rows
    BY Zenon DEF Batches, In, Live, LiveOf
  <2>2. IsFiniteSet(rows)
    BY Zenon, <1>21, RowsFinite
  <2> QED
    BY Zenon, <1>21, <2>1, <2>2, FS_Subset
<1>9. state' \in [Paths -> UidState]
  BY Zenon, <1>7 DEF Sound
<1>10. /\ op'.stage = "copy" /\ op'.rows = rows /\ op'.state = state' /\ op'.new = {} /\ op'.todo = ms
       /\ op'.dest = dest /\ op' \in CopyOp
  BY Zenon, <1>01, <1>8, <1>9, <1>21 DEF CopyOp
<1>11. op' \in Ops /\ op'.stage \in {"copy", "jmap"}
  BY Zenon, <1>10, OpKinds
<1>12. Copying'
  BY Zenon, <1>0, <1>4, <1>7, <1>8, <1>10 DEF Copying
<1>13. TxSound(catalog', shown', rows', state', blob', op'.rows, op'.state, op'.new)
  <2>1. TxSound(catalog, shown, rows, state', blob, rows, state', {})
    BY Zenon, <1>1, <1>7, Facts, TxBegin
  <2> QED
    BY Zenon, <1>0, <1>10, <2>1
<1>14. OpInv' /\ Pending' = op'.new
  BY Zenon, <1>0, <1>11, <1>12, <1>13, TxNext
<1>15. dirty' = FALSE => blob' \subseteq LiveIds' \cup op'.new
  BY Zenon, <1>0, <1>1, IdleFacts
<1>16. \A i \in LiveIds' \cup op'.new : i \in IdsOf(LiveOf(op'.rows))
  BY Zenon, <1>1, <1>10
<1>17. Answered'
  BY Zenon, <1>0, <1>11, <1>14, <1>15, <1>16, AnsweredTx, Facts
<1>18. MInv'
  BY Zenon, <1>0, <1>1, <1>7, <1>14, <1>17, Facts, Assemble
<1>19. UidsAscendStep
  BY Zenon, <1>0, <1>7, SameVisible, Facts DEF Live
<1> QED
  BY Zenon, <1>18, <1>19

\* Email/set or Email/import begins on the committed tables.
LEMMA JMAPBeginStep ==
  ASSUME MInv, JMAPBegin
  PROVE  MInv' /\ UidsAscendStep
<1>0. /\ up = TRUE /\ op = Idle
      /\ UNCHANGED <<catalog, state, rows, blob, up, reported, dirty, shown>>
  BY Zenon, Facts DEF JMAPBegin, Free
<1>01. op' = [stage |-> "jmap", rows |-> rows, state |-> state, new |-> {}, set |-> {}]
  BY Zenon DEF JMAPBegin
<1>1. LiveIds' = LiveIds /\ LiveIds = IdsOf(LiveOf(rows))
  BY Zenon, <1>0, SameRows, LiveIdsOf
<1>2. Sound(catalog, shown, rows, state)
  BY Zenon, Facts
<1>3. rows \in SUBSET Row /\ state \in [Paths -> UidState]
  BY Zenon, <1>2 DEF Sound
<1>4. op'.stage = "jmap" /\ op'.rows = rows /\ op'.state = state /\ op'.new = {} /\ op' \in JMAPOp
  BY <1>01, <1>3 DEF JMAPOp
<1>5. op' \in Ops /\ op'.stage \in {"copy", "jmap"} /\ op'.stage # "copy"
  BY Zenon, <1>4, OpKinds
<1>6. Copying'
  BY Zenon, <1>5 DEF Copying
<1>7. TxSound(catalog', shown', rows', state', blob', op'.rows, op'.state, op'.new)
  <2>1. TxSound(catalog, shown, rows, state, blob, rows, state, {})
    BY Zenon, <1>1, <1>2, Facts, TxBegin
  <2> QED
    BY Zenon, <1>0, <1>4, <2>1
<1>8. OpInv' /\ Pending' = op'.new
  BY Zenon, <1>0, <1>5, <1>6, <1>7, TxNext
<1>9. dirty' = FALSE => blob' \subseteq LiveIds' \cup op'.new
  BY Zenon, <1>0, <1>1, IdleFacts
<1>10. \A i \in LiveIds' \cup op'.new : i \in IdsOf(LiveOf(op'.rows))
  BY Zenon, <1>1, <1>4
<1>11. Answered'
  BY Zenon, <1>0, <1>5, <1>8, <1>9, <1>10, AnsweredTx, Facts
<1>12. MInv'
  BY Zenon, <1>0, <1>1, <1>2, <1>8, <1>11, Facts, Assemble
<1>13. UidsAscendStep
  BY Zenon, <1>0, SameVisible, Facts
<1> QED
  BY Zenon, <1>12, <1>13

\* CopyMessages changes rows, state, new and todo of its operation.
LEMMA PlacedCopy ==
  ASSUME NEW o \in CopyOp, NEW id, NEW d, NEW r, NEW p,
         p = [Placed(o, id, o.dest, d, 1) EXCEPT !.new = @ \cup {id}, !.todo = @ \ {r}]
  PROVE  LET s == Ensured(o.state[o.dest], 1)
         IN  p = [stage |-> "copy", rows |-> o.rows \cup {Placing(id, o.dest, d, s)},
                  state |-> Put(o.state, o.dest, Next1(s)),
                  new |-> o.new \cup {id}, todo |-> o.todo \ {r}, dest |-> o.dest]
BY Zenon DEF CopyOp, Placed, Placing, Put, Next1

\* The transaction after importData.
Imported(o, id, f, d, now) == [Placed(o, id, f, d, now) EXCEPT !.new = @ \cup {id}]

\* A JMAP transaction with row w added in folder f and message id stored.
Opened(p, o, id, f, s, w) ==
    p = [stage |-> "jmap", rows |-> o.rows \cup {w}, state |-> Put(o.state, f, Next1(s)),
         new |-> o.new \cup {id}, set |-> o.set]

\* importData changes rows, state and new of its operation.
LEMMA PlacedImport ==
  ASSUME NEW o \in JMAPOp, NEW id, NEW f, NEW d, NEW now, NEW p,
         p = Imported(o, id, f, d, now)
  PROVE  LET s == Ensured(o.state[f], now)
         IN  Opened(p, o, id, f, s, Placing(id, f, d, s))
BY Zenon DEF Opened, JMAPOp, Imported, Placed, Placing, Put, Next1

\* Email/set of a folder changes rows, state and set of its operation.
LEMMA PlacedSet ==
  ASSUME NEW o \in JMAPOp, NEW r, NEW f, NEW now, NEW p,
         p = Placed([o EXCEPT !.rows = @ \ {r}, !.set = @ \cup {r.id}], r.id, f, r.deleted, now)
  PROVE  LET s == Ensured(o.state[f], now)
         IN  p = [stage |-> "jmap", rows |-> (o.rows \ {r}) \cup {Placing(r.id, f, r.deleted, s)},
                  state |-> Put(o.state, f, Next1(s)), new |-> o.new, set |-> o.set \cup {r.id}]
<1> DEFINE tx == [o EXCEPT !.rows = @ \ {r}, !.set = @ \cup {r.id}]
<1>1. /\ tx \in [stage : {"jmap"}, rows : SUBSET Row, state : [Paths -> UidState], new : SUBSET Ids, set : {tx.set}]
      /\ tx.rows = o.rows \ {r} /\ tx.set = o.set \cup {r.id} /\ tx.state = o.state /\ tx.new = o.new
  BY Zenon DEF JMAPOp
<1> HIDE DEF tx
<1>2. p = Placed(tx, r.id, f, r.deleted, now)
  BY Zenon DEF tx
<1>3. LET s == Ensured(tx.state[f], now)
      IN  p = [stage |-> "jmap", rows |-> tx.rows \cup {Placing(r.id, f, r.deleted, s)},
               state |-> Put(tx.state, f, Next1(s)), new |-> tx.new, set |-> tx.set]
  BY Zenon, <1>1, <1>2 DEF Placed, Placing, Put, Next1
<1> QED
  BY Zenon, <1>1, <1>3

\* Email/set destroy changes rows and set of its operation.
LEMMA MarkedSet ==
  ASSUME NEW o \in JMAPOp, NEW r, NEW w, NEW p,
         p = [[o EXCEPT !.rows = @ \ {r}, !.set = @ \cup {r.id}] EXCEPT !.rows = @ \cup {w}]
  PROVE  p = [stage |-> "jmap", rows |-> (o.rows \ {r}) \cup {w}, state |-> o.state,
              new |-> o.new, set |-> o.set \cup {r.id}]
BY Zenon DEF JMAPOp

\* importData that stores a payload and stops changes new of its operation.
LEMMA StoredImport ==
  ASSUME NEW o \in JMAPOp, NEW id, NEW p, p = [o EXCEPT !.new = @ \cup {id}]
  PROVE  p = [stage |-> "jmap", rows |-> o.rows, state |-> o.state, new |-> o.new \cup {id}, set |-> o.set]
BY Zenon DEF JMAPOp

-----------------------------------------------------------------------------
(* The steps of COPY and of a JMAP request.                                *)

\* The fields of a JMAP transaction have their types.
LEMMA JMAPFields ==
  ASSUME NEW R \in SUBSET Row, NEW S \in [Paths -> UidState], NEW N \in SUBSET Ids, NEW T \in SUBSET Ids,
         NEW p, p = [stage |-> "jmap", rows |-> R, state |-> S, new |-> N, set |-> T]
  PROVE  /\ p \in Ops /\ p.stage = "jmap" /\ p.rows = R /\ p.state = S /\ p.new = N /\ p.set = T
<1>1. p \in JMAPOp /\ p.stage = "jmap" /\ p.rows = R /\ p.state = S /\ p.new = N /\ p.set = T
  BY DEF JMAPOp
<1> QED
  BY Zenon, <1>1, OpKinds

\* The fields of a COPY have their types.
LEMMA CopyFields ==
  ASSUME NEW R \in SUBSET Row, NEW S \in [Paths -> UidState], NEW N \in SUBSET Ids, NEW T \in SUBSET Row,
         NEW D \in Paths,
         NEW p, p = [stage |-> "copy", rows |-> R, state |-> S, new |-> N, todo |-> T, dest |-> D]
  PROVE  /\ p \in Ops /\ p.stage = "copy" /\ p.rows = R /\ p.state = S /\ p.new = N /\ p.todo = T
         /\ p.dest = D
<1>1. p \in CopyOp /\ p.stage = "copy" /\ p.rows = R /\ p.state = S /\ p.new = N /\ p.todo = T /\ p.dest = D
  BY Zenon DEF CopyOp
<1> QED
  BY Zenon, <1>1, OpKinds

\* An identifier without a payload or a row is none of the transaction's either.
LEMMA FreshId ==
  ASSUME NEW id, Fresh(id)
  PROVE  id \notin blob /\ id \notin IdsOf(rows)
BY Zenon DEF Fresh, RowsOf, IdsOf

\* CopyMessages, one message: its payload and its row in the transaction.
LEMMA CopyStepStep ==
  ASSUME MInv, NEW r \in op.todo, NEW id \in Ids, CopyStep(r, id)
  PROVE  MInv' /\ UidsAscendStep
<1> DEFINE s == Ensured(op.state[op.dest], 1)
           w == Placing(id, op.dest, r.deleted, s)
           st2 == Put(op.state, op.dest, Next1(s))
<1>0. /\ op.stage = "copy" /\ Fresh(id) /\ blob' = blob \cup {id}
      /\ UNCHANGED <<catalog, state, rows, up, reported, dirty, shown>>
  BY Zenon DEF CopyStep
<1>01. op' = [Placed(op, id, op.dest, r.deleted, 1) EXCEPT !.new = @ \cup {id}, !.todo = @ \ {r}]
  BY Zenon DEF CopyStep
<1>02. op.stage \in {"copy", "jmap"} /\ op.stage # "jmap"
  BY Zenon, <1>0
<1>1. op \in CopyOp /\ Copying
  BY Zenon, <1>0, OpShape, Facts DEF OpInv
<1>2. /\ op.rows \in SUBSET Row /\ op.state \in [Paths -> UidState] /\ op.new \in SUBSET Ids
      /\ op.todo \in SUBSET Row /\ op.dest \in Paths /\ r.deleted \in BOOLEAN
  BY Zenon, <1>1 DEF CopyOp, Row
<1>3. /\ op.dest \in catalog /\ op.state[op.dest].validity > 0
      /\ IsFiniteSet(op.todo) /\ op.state[op.dest].next + Cardinality(op.todo) <= MaxUid
  BY Zenon, <1>0, <1>1 DEF Copying
<1>4. /\ TxSound(catalog, shown, rows, state, blob, op.rows, op.state, op.new) /\ up = TRUE
      /\ dirty = FALSE => blob \subseteq LiveIds \cup op.new
  BY Zenon, <1>02, TxNow
<1>5. id \notin blob /\ id \notin IdsOf(rows)
  BY Zenon, <1>0, FreshId
<1>6. op' = [stage |-> "copy", rows |-> op.rows \cup {w}, state |-> st2,
             new |-> op.new \cup {id}, todo |-> op.todo \ {r}, dest |-> op.dest]
  BY Zenon, <1>1, <1>01, PlacedCopy
<1>7. op.state[op.dest] \in UidState
  BY <1>2
<1>8. s = op.state[op.dest]
  BY <1>3, <1>7 DEF Ensured, UidState
<1> HIDE DEF s
<1>9. w.id = id /\ w.expunged = FALSE
  BY Zenon DEF Placing
<1>91. w.id \notin blob /\ w.id \notin IdsOf(rows) /\ ~w.expunged
  BY Zenon, <1>5, <1>9
<1> HIDE DEF w, st2
<1>10. /\ Cardinality(op.todo \ {r}) = Cardinality(op.todo) - 1 /\ IsFiniteSet(op.todo \ {r})
       /\ Cardinality(op.todo) \in Nat /\ Cardinality(op.todo \ {r}) \in Nat
  BY Zenon, <1>3, FS_RemoveElement, FS_CardinalityType
<1>11. s.validity > 0 /\ s.next < MaxUid /\ s.next + 1 + Cardinality(op.todo \ {r}) <= MaxUid /\ s \in UidState
  BY SMTT(30), <1>3, <1>7, <1>8, <1>10, MailboxAssumption DEF UidState
<1>12. Advances(op.state[op.dest], s) /\ (op.state[op.dest].validity = 0 \/ s = op.state[op.dest])
  BY Zenon, <1>8 DEF Advances
<1>13. Sound(catalog, shown, op.rows, op.state) /\ \A q \in op.rows : q.id # id
  <2>1. id \notin IdsOf(op.rows)
    BY Zenon, <1>4, <1>5 DEF TxSound
  <2> QED
    BY Zenon, <1>4, <2>1 DEF TxSound, IdsOf
<1>14. /\ Sound(catalog, shown, op.rows \cup {w}, st2)
       /\ Above(<<st2[w.folder].validity, w.uid>>, shown[w.folder])
       /\ \A g \in Paths : op.state[g].validity \in {0, st2[g].validity}
       /\ st2[op.dest].next = s.next + 1 /\ st2[op.dest].validity = s.validity
       /\ w \in Row
  <2>1. Grown(catalog, shown, op.rows, op.state, op.dest, s, w, st2)
    BY Zenon, <1>2, <1>3, <1>11, <1>12, <1>13, GrowSound DEF w, st2
  <2> QED
    BY Zenon, <2>1 DEF Grown
<1>15. TxSound(catalog, shown, rows, state, blob \cup {id}, op.rows \cup {w}, st2, op.new \cup {id})
  BY Zenon, <1>4, <1>9, <1>91, <1>14, TxAdd
<1>16. /\ op' \in Ops /\ op'.stage = "copy" /\ op'.rows = op.rows \cup {w} /\ op'.state = st2
       /\ op'.new = op.new \cup {id} /\ op'.todo = op.todo \ {r} /\ op'.dest = op.dest
  <2>1. st2 \in [Paths -> UidState] /\ op.rows \cup {w} \in SUBSET Row
    BY Zenon, <1>14 DEF Sound
  <2>2. op.new \cup {id} \in SUBSET Ids /\ op.todo \ {r} \in SUBSET Row
    BY Zenon, <1>2
  <2> QED
    BY SMTT(30), <1>2, <1>6, <2>1, <2>2, CopyFields
<1>17. Copying'
  <2>1. st2[op.dest].next + Cardinality(op.todo \ {r}) <= MaxUid /\ st2[op.dest].validity > 0
    BY Zenon, <1>11, <1>14
  <2> QED
    BY Zenon, <1>0, <1>3, <1>10, <1>16, <2>1 DEF Copying
<1>18. op'.stage \in {"copy", "jmap"}
  BY <1>16
<1>19. OpInv' /\ Pending' = op'.new
  <2>1. TxSound(catalog', shown', rows', state', blob', op'.rows, op'.state, op'.new)
    BY Zenon, <1>0, <1>15, <1>16
  <2> QED
    BY Zenon, <1>0, <1>4, <1>16, <1>17, <1>18, <2>1, TxNext
<1>20. LiveIds' = LiveIds
  BY Zenon, <1>0, SameRows
<1>21. dirty' = FALSE => blob' \subseteq LiveIds' \cup op'.new
  BY Zenon, <1>0, <1>4, <1>16, <1>20
<1>22. dirty' = FALSE => \A i \in LiveIds' \cup op'.new : i \in IdsOf(LiveOf(op'.rows))
  <2>1. IdsOf(LiveOf(op'.rows)) = IdsOf(LiveOf(op.rows)) \cup {id}
    <3>1. IdsOf(LiveOf(op.rows \cup {w})) = IdsOf(LiveOf(op.rows)) \cup {w.id}
      BY Zenon, <1>91, LiveAdd
    <3>2. op'.rows = op.rows \cup {w}
      BY Zenon, <1>16
    <3> QED
      BY Zenon, <1>9, <3>1, <3>2
  <2>2. dirty = FALSE => \A i \in LiveIds \cup op.new : i \in IdsOf(LiveOf(op.rows))
    BY Zenon, <1>02, Facts DEF Answered
  <2> QED
    BY Zenon, <1>0, <1>16, <1>20, <2>1, <2>2
<1>23. Answered'
  BY Zenon, <1>0, <1>18, <1>19, <1>21, <1>22, AnsweredTx, Facts
<1>24. blob' \in SUBSET Ids /\ LiveIds' \subseteq blob'
  BY Zenon, <1>0, <1>20, Facts
<1>25. MInv'
  BY Zenon, <1>0, <1>4, <1>19, <1>23, <1>24, Facts, Assemble
<1>26. UidsAscendStep
  BY Zenon, <1>0, SameVisible, Facts
<1> QED
  BY <1>25, <1>26

\* What an open Email/import or Email/set answers for.
Answers(rs, set, i) ==
    i \in IdsOf(LiveOf(rs)) \/ (i \in set /\ \E r \in rs : r.id = i /\ r.expunged)

\* A step of Email/import or Email/set that leaves the transaction open.
LEMMA JMAPOpenStep ==
  ASSUME MInv, op.stage = "jmap", NEW R, NEW S, NEW N \in SUBSET Ids, NEW T \in SUBSET Ids,
         op' = [stage |-> "jmap", rows |-> R, state |-> S, new |-> N, set |-> T],
         UNCHANGED <<catalog, state, rows, up, reported, shown>>,
         TxSound(catalog, shown, rows, state, blob', R, S, N),
         blob' \in SUBSET Ids, blob \subseteq blob', dirty' \in BOOLEAN,
         dirty' = FALSE => /\ blob' \subseteq LiveIds \cup N
                           /\ \A i \in LiveIds \cup N : Answers(R, T, i)
  PROVE  MInv' /\ UidsAscendStep
<1>1. R \in SUBSET Row /\ S \in [Paths -> UidState]
  BY Zenon DEF TxSound, Sound
<1>2. op' \in Ops /\ op'.stage = "jmap" /\ op'.rows = R /\ op'.state = S /\ op'.new = N /\ op'.set = T
  BY <1>1, JMAPFields
<1>3. op'.stage \in {"copy", "jmap"} /\ op'.stage # "copy" /\ op.stage \in {"copy", "jmap"}
  BY Zenon, <1>2
<1>4. Copying'
  BY Zenon, <1>3 DEF Copying
<1>5. up' = TRUE
  BY Zenon, <1>3, TxNow
<1>6. OpInv' /\ Pending' = op'.new
  <2>1. TxSound(catalog', shown', rows', state', blob', op'.rows, op'.state, op'.new)
    BY Zenon, <1>2
  <2> QED
    BY Zenon, <1>2, <1>3, <1>4, <1>5, <2>1, TxNext
<1>7. LiveIds' = LiveIds
  BY Zenon, SameRows
<1>8. Answered'
  BY Zenon, <1>2, <1>3, <1>6, <1>7, AnsweredTx DEF Answers
<1>9. LiveIds' \subseteq blob'
  BY Zenon, <1>7, Facts
<1>10. MInv'
  BY Zenon, <1>6, <1>8, <1>9, Facts, Assemble
<1>11. UidsAscendStep
  BY Zenon, SameVisible, Facts
<1> QED
  BY Zenon, <1>10, <1>11

\* What MInv says of an open JMAP transaction.
LEMMA JMAPNow ==
  ASSUME MInv, op.stage = "jmap"
  PROVE  /\ TxSound(catalog, shown, rows, state, blob, op.rows, op.state, op.new)
         /\ Sound(catalog, shown, op.rows, op.state) /\ op.rows \in SUBSET Row
         /\ op.state \in [Paths -> UidState]
         /\ op \in JMAPOp /\ op.new \in SUBSET Ids /\ op.set \in SUBSET Ids
         /\ dirty = FALSE => /\ blob \subseteq LiveIds \cup op.new
                             /\ \A i \in LiveIds \cup op.new : Answers(op.rows, op.set, i)
<1>1. op.stage \in {"copy", "jmap"}
  OBVIOUS
<1>2. op \in JMAPOp
  BY Zenon, OpShape, Facts DEF OpInv
<1>3. op.set \in SUBSET Ids /\ op.rows \in SUBSET Row /\ op.state \in [Paths -> UidState]
  BY <1>2 DEF JMAPOp
<1>4. dirty = FALSE => \A i \in LiveIds \cup op.new : Answers(op.rows, op.set, i)
  BY Zenon, <1>1, Facts DEF Answered, Answers
<1> QED
  BY Zenon, <1>1, <1>2, <1>3, <1>4, TxNow DEF TxSound

\* importData within a transaction: payload, UID and row, or an error.
LEMMA ImportDataStep ==
  ASSUME MInv, NEW id \in Ids, NEW f \in Paths, NEW d \in BOOLEAN, NEW now \in Clock, ImportData(id, f, d, now)
  PROVE  MInv' /\ UidsAscendStep
<1> DEFINE s == Ensured(op.state[f], now)
           w == Placing(id, f, d, s)
           st2 == Put(op.state, f, Next1(s))
<1>0. /\ op.stage = "jmap" /\ Fresh(id) /\ f \in catalog /\ s.next < MaxUid /\ blob' = blob \cup {id}
      /\ UNCHANGED <<catalog, state, rows, up, reported, shown>>
      /\ \/ op' = [Placed(op, id, f, d, now) EXCEPT !.new = @ \cup {id}] /\ dirty' = dirty
         \/ op' = [op EXCEPT !.new = @ \cup {id}] /\ dirty' = TRUE
  BY Zenon DEF ImportData, JMAPOpen
<1>1. /\ TxSound(catalog, shown, rows, state, blob, op.rows, op.state, op.new)
      /\ Sound(catalog, shown, op.rows, op.state) /\ op.state \in [Paths -> UidState]
      /\ op \in JMAPOp /\ op.new \in SUBSET Ids /\ op.set \in SUBSET Ids
      /\ dirty = FALSE => /\ blob \subseteq LiveIds \cup op.new
                          /\ \A i \in LiveIds \cup op.new : Answers(op.rows, op.set, i)
  BY Zenon, <1>0, JMAPNow
<1>2. id \notin blob /\ id \notin IdsOf(rows)
  BY Zenon, <1>0, FreshId
<1>3. /\ blob' \in SUBSET Ids /\ blob \subseteq blob' /\ op.new \cup {id} \in SUBSET Ids
      /\ dirty \in BOOLEAN
  BY Zenon, <1>0, <1>1, Facts
<1>4. CASE op' = [op EXCEPT !.new = @ \cup {id}] /\ dirty' = TRUE
  <2>1. op' = [stage |-> "jmap", rows |-> op.rows, state |-> op.state, new |-> op.new \cup {id}, set |-> op.set]
    BY SMTT(30), <1>1, <1>4, StoredImport
  <2>2. TxSound(catalog, shown, rows, state, blob', op.rows, op.state, op.new \cup {id})
    BY Zenon, <1>0, <1>1, <1>2, TxStored
  <2> QED
    BY Zenon, <1>0, <1>1, <1>3, <1>4, <2>1, <2>2, JMAPOpenStep
<1>5. CASE op' = [Placed(op, id, f, d, now) EXCEPT !.new = @ \cup {id}] /\ dirty' = dirty
  <2>1. op' = [stage |-> "jmap", rows |-> op.rows \cup {w}, state |-> st2, new |-> op.new \cup {id}, set |-> op.set]
    <3>1. op' = Imported(op, id, f, d, now) /\ op \in JMAPOp
      BY Zenon, <1>1, <1>5 DEF Imported
    <3>2. Opened(op', op, id, f, s, w)
      BY Zenon, <3>1, PlacedImport
    <3> QED
      BY Zenon, <3>2 DEF Opened
  <2>2. op.state[f] \in UidState
    BY Zenon, <1>1
  <2>3. /\ s \in UidState /\ s.validity > 0 /\ Advances(op.state[f], s)
        /\ (op.state[f].validity > 0 => s = op.state[f])
    BY Zenon, <2>2, EnsuredFacts
  <2>4. op.state[f].validity = 0 \/ s = op.state[f]
    BY <2>2, <2>3 DEF UidState
  <2> HIDE DEF s
  <2>5. w.id = id /\ w.expunged = FALSE
    BY Zenon DEF Placing
  <2> HIDE DEF w, st2
  <2>6. w.id \notin blob /\ w.id \notin IdsOf(rows) /\ ~w.expunged
    BY <1>2, <2>5
  <2>7. \A q \in op.rows : q.id # id
    <3>1. id \notin IdsOf(op.rows)
      BY Zenon, <1>1, <1>2 DEF TxSound
    <3> QED
      BY Zenon, <3>1 DEF IdsOf
  <2>8. /\ Sound(catalog, shown, op.rows \cup {w}, st2)
        /\ Above(<<st2[w.folder].validity, w.uid>>, shown[w.folder])
        /\ \A g \in Paths : op.state[g].validity \in {0, st2[g].validity}
    <3>1. s.next < MaxUid /\ f \in catalog
      BY Zenon, <1>0 DEF s
    <3>2. Grown(catalog, shown, op.rows, op.state, f, s, w, st2)
      BY Zenon, <1>1, <2>3, <2>4, <2>7, <3>1, GrowSound DEF w, st2
    <3> QED
      BY Zenon, <3>2 DEF Grown
  <2>9. TxSound(catalog, shown, rows, state, blob', op.rows \cup {w}, st2, op.new \cup {id})
    BY Zenon, <1>0, <1>1, <2>5, <2>6, <2>8, TxAdd
  <2>10. IdsOf(LiveOf(op.rows \cup {w})) = IdsOf(LiveOf(op.rows)) \cup {id}
    <3>1. IdsOf(LiveOf(op.rows \cup {w})) = IdsOf(LiveOf(op.rows)) \cup {w.id}
      BY Zenon, <2>6, LiveAdd
    <3> QED
      BY Zenon, <2>5, <3>1
  <2>11. dirty' = FALSE => /\ blob' \subseteq LiveIds \cup (op.new \cup {id})
                           /\ \A i \in LiveIds \cup (op.new \cup {id}) : Answers(op.rows \cup {w}, op.set, i)
    BY Zenon, <1>0, <1>1, <1>5, <2>10 DEF Answers
  <2> QED
    BY Zenon, <1>0, <1>1, <1>3, <1>5, <2>1, <2>9, <2>11, JMAPOpenStep
<1> QED
  BY Zenon, <1>0, <1>4, <1>5

\* Email/set of one message: moved, destroyed or left.
LEMMA SetEmailStep ==
  ASSUME MInv, NEW r \in op.rows, NEW now \in Clock, SetEmail(r, now)
  PROVE  MInv' /\ UidsAscendStep
<1> DEFINE T == op.set \cup {r.id}
<1>0. /\ op.stage = "jmap" /\ r \in LiveOf(op.rows) /\ r.id \notin op.new \cup op.set
      /\ UNCHANGED <<catalog, state, rows, blob, up, reported, dirty, shown>>
  BY Zenon DEF SetEmail, JMAPOpen
<1>01. \/ op' = [[op EXCEPT !.rows = @ \ {r}, !.set = @ \cup {r.id}] EXCEPT !.rows = @ \cup {[r EXCEPT !.expunged = TRUE]}]
       \/ \E f \in catalog \ {r.folder} :
             /\ Ensured(op.state[f], now).next < MaxUid
             /\ op' = Placed([op EXCEPT !.rows = @ \ {r}, !.set = @ \cup {r.id}], r.id, f, r.deleted, now)
  BY Zenon DEF SetEmail
<1>1. /\ TxSound(catalog, shown, rows, state, blob, op.rows, op.state, op.new)
      /\ Sound(catalog, shown, op.rows, op.state) /\ op.rows \in SUBSET Row /\ op.state \in [Paths -> UidState]
      /\ op \in JMAPOp /\ op.new \in SUBSET Ids /\ op.set \in SUBSET Ids
      /\ dirty = FALSE => /\ blob \subseteq LiveIds \cup op.new
                          /\ \A i \in LiveIds \cup op.new : Answers(op.rows, op.set, i)
  BY Zenon, <1>0, JMAPNow
<1>2. /\ r.id \in Ids /\ r.deleted \in BOOLEAN /\ r.folder \in Paths
      /\ [r EXCEPT !.expunged = TRUE] \in Row /\ [r EXCEPT !.expunged = TRUE].id = r.id
      /\ [r EXCEPT !.expunged = TRUE].expunged = TRUE
  BY Zenon, <1>1 DEF Row
<1>21. T \in SUBSET Ids
  BY Zenon, <1>1, <1>2
<1>3. /\ \A p, q \in op.rows : p.id = q.id => p = q
      /\ \A q \in op.rows \ {r} : q.id # r.id
  BY Zenon, <1>1 DEF Sound
<1>4. Sound(catalog, shown, op.rows \ {r}, op.state)
  <2>1. op.rows \ {r} \in SUBSET Row /\ LiveOf(op.rows \ {r}) \subseteq LiveOf(op.rows)
    BY Zenon, <1>1 DEF LiveOf
  <2> QED
    BY Zenon, <1>1, <2>1 DEF Sound
\* Only the answer for r changes.
<1>5. ASSUME NEW w, w.id = r.id, LiveOf(op.rows) \ {r} \subseteq LiveOf((op.rows \ {r}) \cup {w}),
             w.expunged \in BOOLEAN, dirty' = FALSE
      PROVE  /\ blob' \subseteq LiveIds \cup op.new
             /\ \A i \in LiveIds \cup op.new : Answers((op.rows \ {r}) \cup {w}, T, i)
  <2> DEFINE rs2 == (op.rows \ {r}) \cup {w}
  <2>1. dirty = FALSE /\ blob' = blob
    BY Zenon, <1>0, <1>5
  <2>2. ASSUME NEW i \in LiveIds \cup op.new PROVE Answers(rs2, T, i)
    <3>1. Answers(op.rows, op.set, i)
      BY Zenon, <1>1, <2>1
    <3>2. CASE i = r.id
      <4>1. w \in rs2
        BY Zenon
      <4>2. CASE w.expunged
        BY Zenon, <1>5, <3>2, <4>1, <4>2 DEF Answers
      <4>3. CASE ~w.expunged
        <5>1. w \in LiveOf(rs2)
          BY Zenon, <4>1, <4>3 DEF LiveOf
        <5>2. i \in IdsOf(LiveOf(rs2))
          BY Zenon, <1>5, <3>2, <5>1 DEF IdsOf
        <5> QED
          BY Zenon, <5>2 DEF Answers
      <4> QED
        BY Zenon, <4>2, <4>3
    <3>3. CASE i # r.id
      <4>1. CASE i \in IdsOf(LiveOf(op.rows))
        <5>1. PICK q \in LiveOf(op.rows) : q.id = i
          BY Zenon, <4>1 DEF IdsOf
        <5>2. q \in LiveOf(rs2)
          BY Zenon, <1>5, <3>3, <5>1
        <5>3. i \in IdsOf(LiveOf(rs2))
          BY Zenon, <5>1, <5>2 DEF IdsOf
        <5> QED
          BY Zenon, <5>3 DEF Answers
      <4>2. CASE i \in op.set /\ \E q \in op.rows : q.id = i /\ q.expunged
        BY Zenon, <3>3, <4>2 DEF Answers
      <4> QED
        BY Zenon, <3>1, <4>1, <4>2 DEF Answers
    <3> QED
      BY Zenon, <3>2, <3>3
  <2> QED
    BY Zenon, <1>1, <2>1, <2>2
<1>6. blob' = blob /\ blob' \in SUBSET Ids /\ blob \subseteq blob' /\ dirty' \in BOOLEAN
  BY Zenon, <1>0, Facts
<1>7. CASE op' = [[op EXCEPT !.rows = @ \ {r}, !.set = @ \cup {r.id}] EXCEPT !.rows = @ \cup {[r EXCEPT !.expunged = TRUE]}]
  <2> DEFINE w == [r EXCEPT !.expunged = TRUE]
             rs2 == (op.rows \ {r}) \cup {w}
  <2>1. op' = [stage |-> "jmap", rows |-> rs2, state |-> op.state, new |-> op.new, set |-> T]
    BY Zenon, <1>1, <1>7, MarkedSet
  <2>2. w \in Row /\ w.id = r.id /\ w.expunged = TRUE /\ w.expunged /\ w.expunged \in BOOLEAN
    BY Zenon, <1>2
  <2> HIDE DEF w
  <2>3. Sound(catalog, shown, rs2, op.state)
    <3>1. LiveOf(rs2) = LiveOf(op.rows \ {r})
      BY Zenon, <2>2 DEF LiveOf
    <3>2. rs2 \in SUBSET Row /\ \A p, q \in rs2 : p.id = q.id => p = q
      BY Zenon, <1>1, <1>3, <2>2
    <3> QED
      BY Zenon, <1>4, <3>1, <3>2 DEF Sound
  <2>4. \A g \in Paths : op.state[g].validity \in {0, op.state[g].validity}
    BY Zenon
  <2>5. /\ TxSound(catalog, shown, rows, state, blob, rs2, op.state, op.new)
        /\ LiveOf(op.rows) \ {r} \subseteq LiveOf(rs2)
    BY Zenon, <1>0, <1>1, <2>2, <2>3, <2>4, TxReplace
  <2>6. dirty' = FALSE => /\ blob' \subseteq LiveIds \cup op.new
                          /\ \A i \in LiveIds \cup op.new : Answers(rs2, T, i)
    BY Zenon, <1>5, <2>2, <2>5
  <2> HIDE DEF rs2, T
  <2>7. TxSound(catalog, shown, rows, state, blob', rs2, op.state, op.new)
    BY Zenon, <1>6, <2>5
  <2> QED
    BY Zenon, <1>0, <1>1, <1>21, <1>6, <2>1, <2>6, <2>7, JMAPOpenStep
<1>8. ASSUME NEW f \in catalog \ {r.folder}, Ensured(op.state[f], now).next < MaxUid,
             op' = Placed([op EXCEPT !.rows = @ \ {r}, !.set = @ \cup {r.id}], r.id, f, r.deleted, now)
      PROVE  MInv' /\ UidsAscendStep
  <2> DEFINE s == Ensured(op.state[f], now)
             w == Placing(r.id, f, r.deleted, s)
             st2 == Put(op.state, f, Next1(s))
             rs2 == (op.rows \ {r}) \cup {w}
  <2>1. op' = [stage |-> "jmap", rows |-> rs2, state |-> st2, new |-> op.new, set |-> T]
    BY Zenon, <1>1, <1>8, PlacedSet
  <2>2. f \in Paths /\ f \in catalog
    BY Zenon, Facts DEF Tree
  <2>3. op.state[f] \in UidState
    BY <1>1, <2>2
  <2>4. /\ s \in UidState /\ s.validity > 0 /\ Advances(op.state[f], s) /\ s.next < MaxUid
        /\ (op.state[f].validity > 0 => s = op.state[f])
    BY Zenon, <1>8, <2>3, EnsuredFacts
  <2>5. op.state[f].validity = 0 \/ s = op.state[f]
    BY <2>3, <2>4 DEF UidState
  <2> HIDE DEF s
  <2>6. w.id = r.id /\ w.expunged = FALSE
    BY Zenon DEF Placing
  <2>61. w.expunged \in BOOLEAN
    BY Zenon, <2>6
  <2> HIDE DEF w, st2
  <2>7. /\ Sound(catalog, shown, rs2, st2)
        /\ Above(<<st2[w.folder].validity, w.uid>>, shown[w.folder])
        /\ \A g \in Paths : op.state[g].validity \in {0, st2[g].validity}
    <3>1. Grown(catalog, shown, op.rows \ {r}, op.state, f, s, w, st2)
      BY Zenon, <1>2, <1>3, <1>4, <2>2, <2>4, <2>5, GrowSound DEF w, st2
    <3> QED
      BY Zenon, <3>1 DEF Grown
  <2>8. /\ TxSound(catalog, shown, rows, state, blob, rs2, st2, op.new)
        /\ LiveOf(op.rows) \ {r} \subseteq LiveOf(rs2)
    BY Zenon, <1>0, <1>1, <2>6, <2>61, <2>7, TxReplace
  <2>9. dirty' = FALSE => /\ blob' \subseteq LiveIds \cup op.new
                          /\ \A i \in LiveIds \cup op.new : Answers(rs2, T, i)
    BY Zenon, <1>5, <2>6, <2>61, <2>8
  <2> HIDE DEF rs2, T
  <2>10. TxSound(catalog, shown, rows, state, blob', rs2, st2, op.new)
    BY Zenon, <1>6, <2>8
  <2> QED
    BY Zenon, <1>0, <1>1, <1>21, <1>6, <2>1, <2>9, <2>10, JMAPOpenStep
<1> QED
  BY Zenon, <1>01, <1>7, <1>8
=============================================================================

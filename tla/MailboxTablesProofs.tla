------------------------- MODULE MailboxTablesProofs --------------------------
(***************************************************************************)
(* The tables of the mailbox store: folders, mailbox_state and message rows,*)
(* what they say together, and how the inductive invariant is taken apart  *)
(* and put together again.                                                 *)
(***************************************************************************)
EXTENDS Mailbox, FiniteSetTheorems, SequenceTheorems, WellFoundedInduction, TLAPS

-----------------------------------------------------------------------------
(* Folder names.                                                           *)

\* Names are sequences of parts.
LEMMA PathSeq == \A p \in Paths : p \in Seq(Part) /\ Len(p) \in Nat \ {0}
BY MailboxAssumption

\* A prefix, and a prefix of a prefix.
LEMMA Prefix ==
  ASSUME NEW S, NEW s \in Seq(S), NEW m \in 0 .. Len(s)
  PROVE  /\ SubSeq(s, 1, m) \in Seq(S) /\ Len(SubSeq(s, 1, m)) = m
         /\ \A i \in 1 .. m : SubSeq(s, 1, m)[i] = s[i]
BY LenProperties, SubSeqProperties

\* A prefix of a prefix.
LEMMA PrefixOfPrefix ==
  ASSUME NEW S, NEW s \in Seq(S), NEW m \in 0 .. Len(s), NEW n \in 0 .. m
  PROVE  SubSeq(SubSeq(s, 1, m), 1, n) = SubSeq(s, 1, n)
<1> DEFINE t == SubSeq(s, 1, m)
<1>1. t \in Seq(S) /\ Len(t) = m /\ \A i \in 1 .. m : t[i] = s[i]
  BY Prefix
<1> HIDE DEF t
<1>2. SubSeq(t, 1, n) \in Seq(S) /\ Len(SubSeq(t, 1, n)) = n /\ \A i \in 1 .. n : SubSeq(t, 1, n)[i] = t[i]
  BY <1>1, Prefix
<1>3. n \in 0 .. Len(s)
  BY LenProperties
<1>4. SubSeq(s, 1, n) \in Seq(S) /\ Len(SubSeq(s, 1, n)) = n /\ \A i \in 1 .. n : SubSeq(s, 1, n)[i] = s[i]
  BY <1>3, Prefix
<1>5. SubSeq(t, 1, n) = SubSeq(s, 1, n)
  BY <1>1, <1>2, <1>4, SeqEqual
<1> QED
  BY <1>5 DEF t

\* The folders of a chain: the folder itself, and with each its parent.
LEMMA ChainClosed ==
  ASSUME NEW f \in Paths
  PROVE  /\ f \in Chain(f)
         /\ \A g \in Chain(f) : Len(g) > 1 => Parent(g) \in Chain(f)
<1>1. f \in Seq(Part) /\ Len(f) \in Nat \ {0}
  BY PathSeq
<1>2. SubSeq(f, 1, Len(f)) = f
  BY <1>1, SubSeqFull
<1>3. ASSUME NEW n \in 1 .. Len(f), Len(SubSeq(f, 1, n)) > 1
      PROVE  Parent(SubSeq(f, 1, n)) \in Chain(f)
  <2>1. Len(SubSeq(f, 1, n)) = n
    BY <1>1, Prefix
  <2>2. SubSeq(SubSeq(f, 1, n), 1, n - 1) = SubSeq(f, 1, n - 1)
    BY <1>1, <1>3, <2>1, PrefixOfPrefix
  <2>3. n - 1 \in 1 .. Len(f)
    BY <1>1, <1>3, <2>1
  <2> QED
    BY <2>1, <2>2, <2>3 DEF Parent, Chain
<1>4. f \in Chain(f)
  <2>1. Len(f) \in 1 .. Len(f)
    BY <1>1
  <2> QED
    BY Zenon, <1>2, <2>1 DEF Chain
<1> QED
  BY Zenon, <1>3, <1>4 DEF Chain

-----------------------------------------------------------------------------
(* What a folder has shown.                                                *)

\* A nonempty set of numbers up to n has a greatest element.
LEMMA Greatest ==
  ASSUME NEW n \in Nat, NEW S \in SUBSET (0 .. n), S # {}
  PROVE  \E m \in S : \A k \in S : k <= m
<1> DEFINE T == {k \in 0 .. n : n - k \in S}
<1>1. T \subseteq Nat
  OBVIOUS
<1>2. T # {}
  <2>1. PICK m \in S : TRUE
    BY Zenon
  <2>2. n - m \in 0 .. n /\ n - (n - m) = m
    OBVIOUS
  <2> QED
    BY Zenon, <2>1, <2>2
<1>3. PICK x \in T : \A y \in T : ~(<<y, x>> \in OpToRel(<, Nat))
  BY <1>1, <1>2, NatLessThanWellFounded, WFMin, Zenon
<1>4. \A y \in T : ~(y < x)
  BY Zenon, <1>1, <1>3 DEF OpToRel
<1>5. ASSUME NEW k \in S PROVE k <= n - x
  <2>1. n - k \in 0 .. n /\ n - (n - k) = k
    OBVIOUS
  <2>2. n - k \in T
    BY <2>1
  <2> QED
    BY <1>4, <2>1, <2>2
<1> QED
  BY <1>3, <1>5

\* Of pairs with bounded components one is above which none is.
LEMMA Highest ==
  ASSUME NEW n \in Nat, NEW S \in SUBSET ((0 .. n) \X (0 .. n)), S # {}
  PROVE  \E a \in S : \A b \in S : ~Above(b, a)
<1> DEFINE F == {a[1] : a \in S}
<1>1. F \in SUBSET (0 .. n) /\ F # {}
  OBVIOUS
<1>2. PICK m \in F : \A k \in F : k <= m
  BY Zenon, <1>1, Greatest
<1> DEFINE G == {a[2] : a \in {c \in S : c[1] = m}}
<1>3. G \in SUBSET (0 .. n) /\ G # {}
  OBVIOUS
<1>4. PICK k \in G : \A l \in G : l <= k
  BY Zenon, <1>3, Greatest
<1>5. PICK a \in S : a[1] = m /\ a[2] = k
  OBVIOUS
<1>6. ASSUME NEW b \in S PROVE ~Above(b, a)
  <2>1. b[1] \in F /\ b[1] \in 0 .. n /\ b[2] \in 0 .. n /\ m \in 0 .. n /\ k \in 0 .. n
    BY <1>1, <1>3
  <2>2. b[1] = m => b[2] \in G
    OBVIOUS
  <2> HIDE DEF F, G
  <2>3. b[1] <= m /\ (b[1] = m => b[2] <= k)
    BY <1>2, <1>4, <2>1, <2>2
  <2> QED
    BY <1>5, <2>1, <2>3 DEF Above
<1> QED
  BY <1>6

\* What a folder is announced to show: what it had shown, or a message it has.
Top(f, rs, st, h) ==
    LET seen == {<<v[1], v[2]>> : v \in Visible(f, rs, st)} \cup {h}
    IN  CHOOSE a \in seen : \A b \in seen : ~Above(b, a)

\* What was shown, or a message of the folder.
Seen(t, f, rs, st, h) ==
    /\ t \in Nat \X Nat
    /\ t = h \/ \E r \in LiveOf(rs) : r.folder = f /\ t = <<st[f].validity, r.uid>>

\* What Announce records of a folder: no less than before, and at least the
\* UIDVALIDITY and UID of every message the folder shows.
LEMMA HighestSeen ==
  ASSUME NEW rs \in SUBSET Row, NEW st \in [Paths -> UidState], NEW h \in Nat \X Nat, NEW f \in Paths
  PROVE  Seen(Top(f, rs, st, h), f, rs, st, h)
<1> DEFINE top == Top(f, rs, st, h)
            seen == {<<v[1], v[2]>> : v \in Visible(f, rs, st)} \cup {h}
           n == st[f].validity + MaxUid + h[1] + h[2]
<1>1. st[f].validity \in Nat /\ MaxUid \in Nat /\ h[1] \in Nat /\ h[2] \in Nat /\ h = <<h[1], h[2]>>
  BY MailboxAssumption DEF UidState
<1>2. ASSUME NEW a \in seen
      PROVE  /\ a \in Nat \X Nat
             /\ \/ a = h
                \/ \E r \in LiveOf(rs) : r.folder = f /\ a = <<st[f].validity, r.uid>>
             /\ a \in (0 .. n) \X (0 .. n)
  <2>1. CASE a = h
    BY <1>1, <2>1
  <2>2. CASE a # h
    <3>1. PICK v \in Visible(f, rs, st) : a = <<v[1], v[2]>>
      BY <2>2
    <3>2. PICK r \in LiveOf(rs) : r.folder = f /\ v = <<st[f].validity, r.uid, r.id>>
      BY <3>1 DEF Visible
    <3>3. a = <<st[f].validity, r.uid>>
      BY <3>1, <3>2
    <3>4. r.uid \in Nat /\ r.uid <= MaxUid
      BY <1>1, <3>2 DEF LiveOf, Row
    <3>5. /\ st[f].validity \in 0 .. n /\ r.uid \in 0 .. n
          /\ st[f].validity \in Nat /\ r.uid \in Nat
      BY <1>1, <3>4
    <3> HIDE DEF n
    <3> QED
      BY <3>2, <3>3, <3>5
  <2> QED
    BY <2>1, <2>2
<1>3. h \in seen
  OBVIOUS
<1>4. n \in Nat
  BY <1>1
<1> HIDE DEF seen, n
<1>5. seen \in SUBSET ((0 .. n) \X (0 .. n)) /\ seen # {}
  BY Zenon, <1>2, <1>3
<1>6. \E a \in seen : \A b \in seen : ~Above(b, a)
  BY Zenon, <1>4, <1>5, Highest
<1>7. top = CHOOSE a \in seen : \A b \in seen : ~Above(b, a)
  BY Zenon DEF seen, Top
<1>8. top \in seen
  BY Zenon, <1>6, <1>7
<1> QED
  BY Zenon, <1>2, <1>8 DEF Seen

-----------------------------------------------------------------------------
(* The rows of mailbox_state.                                              *)

\* A folder's row in mailbox_state never goes back.
Advances(s, t) ==
    \/ t = s
    \/ t.validity > s.validity /\ t.next > 0
    \/ t.validity = s.validity /\ s.validity > 0 /\ t.next >= s.next

\* What a folder has shown lies below row s.
Beyond(s, h) ==
    IF s.validity = 0 THEN h = <<0, 0>>
    ELSE s.next > 0 /\ Above(<<s.validity, s.next>>, h)

\* A mailbox_state row that moves on stays beyond what the folder has shown.
LEMMA AdvancesBeyond ==
  ASSUME NEW s \in UidState, NEW t \in UidState, NEW h \in Nat \X Nat, Beyond(s, h), Advances(s, t)
  PROVE  Beyond(t, h)
<1>1. /\ s.validity \in Nat /\ t.validity \in Nat /\ s.next \in Nat /\ t.next \in Nat
      /\ h[1] \in Nat /\ h[2] \in Nat
  BY MailboxAssumption DEF UidState
<1> QED
  BY <1>1 DEF Beyond, Advances, Above

\* The rows createFolder, AllocateUID and RenameFolder write.
LEMMA EnsuredFacts ==
  ASSUME NEW s \in UidState, NEW now \in Clock
  PROVE  /\ Ensured(s, now) \in UidState /\ Ensured(s, now).validity > 0
         /\ Advances(s, Ensured(s, now))
         /\ s.validity > 0 => Ensured(s, now) = s
         /\ s.validity = 0 => Ensured(s, now).next = 1
<1>1. /\ now \in Nat /\ now > 0 /\ MaxUid \in Nat /\ MaxUid > 0
      /\ s.validity \in Nat
  BY MailboxAssumption DEF UidState
<1>2. CASE s.validity = 0
  BY <1>1, <1>2 DEF Ensured, Advances, UidState
<1>3. CASE s.validity # 0
  BY <1>1, <1>3 DEF Ensured, Advances
<1> QED
  BY <1>2, <1>3

\* createFolder gives a name that had a row before a higher UIDVALIDITY.
LEMMA RecreatedFacts ==
  ASSUME NEW s \in UidState, NEW now \in Clock
  PROVE  /\ Recreated(s, now) \in UidState /\ Advances(s, Recreated(s, now))
<1>1. /\ now \in Nat /\ now > 0 /\ MaxUid \in Nat /\ MaxUid > 0
      /\ s.validity \in Nat
  BY MailboxAssumption DEF UidState
<1>2. CASE s.validity = 0
  BY <1>1, <1>2 DEF Recreated, Advances, UidState
<1>3. CASE s.validity # 0
  BY <1>1, <1>3 DEF Recreated, Advances, UidState
<1> QED
  BY <1>2, <1>3

\* k UIDs are taken from row s.
LEMMA TakenFacts ==
  ASSUME NEW s \in UidState, s.validity > 0, NEW k \in Nat, s.next + k <= MaxUid
  PROVE  /\ [s EXCEPT !.next = @ + k] \in UidState
         /\ [s EXCEPT !.next = @ + k].validity = s.validity
         /\ [s EXCEPT !.next = @ + k].next = s.next + k
         /\ Advances(s, [s EXCEPT !.next = @ + k])
<1>1. s.validity \in Nat /\ s.next \in 0 .. MaxUid /\ MaxUid \in Nat
  BY MailboxAssumption DEF UidState
<1>2. [s EXCEPT !.next = @ + k] = [validity |-> s.validity, next |-> s.next + k]
  BY DEF UidState
<1>3. s.next + k \in 0 .. MaxUid
  BY <1>1
<1>4. [validity |-> s.validity, next |-> s.next + k] \in UidState
  BY <1>1, <1>3 DEF UidState
<1> QED
  BY <1>1, <1>2, <1>3, <1>4 DEF Advances

\* Messages that have each one row are as many as their identifiers, at most.
LEMMA RowsFinite ==
  ASSUME NEW rs \in SUBSET Row, \A r, q \in rs : r.id = q.id => r = q
  PROVE  IsFiniteSet(rs)
<1> DEFINE F == [r \in rs |-> r.id]
<1>1. F \in Injection(rs, Ids)
  BY DEF Row, Injection, IsInjective
<1> QED
  BY <1>1, FS_Injection, MailboxAssumption

-----------------------------------------------------------------------------
(* The tables together.                                                    *)

\* The tables rs and st are sound for the folders cat and what has been shown, h.
Sound(cat, h, rs, st) ==
    /\ rs \in SUBSET Row /\ st \in [Paths -> UidState] /\ h \in [Paths -> Nat \X Nat]
    /\ \A r, q \in rs : r.id = q.id => r = q
    /\ \A r \in LiveOf(rs) :
          r.folder \in cat /\ st[r.folder].validity > 0 /\ r.uid < st[r.folder].next
    /\ \A f \in Paths : Beyond(st[f], h[f])

\* The inductive invariant makes the committed tables sound.
LEMMA SoundNow ==
  ASSUME MInv
  PROVE  Sound(catalog, shown, rows, state)
BY Zenon DEF MInv, TypeOK, DeliveredOnce, Numbered, Ahead, Sound, Beyond

\* What sound tables say of the conjuncts of MInv after a step.
LEMMA SoundNext ==
  ASSUME Sound(catalog', shown', rows', state')
  PROVE  /\ rows' \subseteq Row /\ state' \in [Paths -> UidState] /\ shown' \in [Paths -> Nat \X Nat]
         /\ \A r, q \in rows' : r.id = q.id => r = q
         /\ Numbered(rows, state)' /\ Ahead(state)'
BY Zenon DEF Numbered, Ahead, Sound, Beyond

\* The kinds of operation in progress.
DeliverOp == [stage : {"store", "uid", "insert"}, msg : New, uid : 0..(MaxUid - 1)]

CleanupOp == [stage : {"cleanup"}, todo : SUBSET Ids]

CopyOp == [stage : {"copy"}, rows : SUBSET Row, state : [Paths -> UidState],
           new : SUBSET Ids, todo : SUBSET Row, dest : Paths]

JMAPOp == [stage : {"jmap"}, rows : SUBSET Row, state : [Paths -> UidState],
           new : SUBSET Ids, set : SUBSET Ids]

\* The operations in progress, by their stage.
LEMMA OpKinds ==
  Ops = {Idle} \cup DeliverOp \cup CleanupOp \cup CopyOp \cup JMAPOp
BY Zenon DEF Ops, DeliverOp, CleanupOp, CopyOp, JMAPOp

\* The fields of an operation in progress have their types.
LEMMA OpShape ==
  ASSUME NEW o \in Ops
  PROVE  /\ o.stage \in {"idle", "store", "uid", "insert", "cleanup", "copy", "jmap"}
         /\ o.stage = "idle" <=> o = Idle
         /\ o.stage \in {"store", "uid", "insert"} <=> o \in DeliverOp
         /\ o.stage = "cleanup" <=> o \in CleanupOp
         /\ o.stage = "copy" <=> o \in CopyOp
         /\ o.stage = "jmap" <=> o \in JMAPOp
<1>1. \A p \in {Idle} : p.stage = "idle"
  BY DEF Idle
<1>2. \A p \in DeliverOp : p.stage \in {"store", "uid", "insert"}
  BY DEF DeliverOp
<1>3. \A p \in CleanupOp : p.stage = "cleanup"
  BY DEF CleanupOp
<1>4. \A p \in CopyOp : p.stage = "copy"
  BY DEF CopyOp
<1>5. \A p \in JMAPOp : p.stage = "jmap"
  BY DEF JMAPOp
<1>6. o \in {Idle} \cup DeliverOp \cup CleanupOp \cup CopyOp \cup JMAPOp
  BY OpKinds
<1> QED
  BY <1>1, <1>2, <1>3, <1>4, <1>5, <1>6

\* No operation is in progress after the step.
LEMMA OpIdle ==
  ASSUME op' = Idle
  PROVE  /\ op' \in Ops /\ Delivering' /\ Transaction' /\ Copying' /\ Pending' = {}
         /\ (op.stage = "cleanup" => op.todo \subseteq blob \ LiveIds)'
         /\ (~up => op = Idle)'
         /\ op'.stage = "idle"
BY DEF Delivering, Transaction, Copying, Pending, Idle, Ops

\* Announcing keeps the tables sound.
LEMMA AnnounceSound ==
  ASSUME Sound(catalog', shown, rows', state'), Announce
  PROVE  Sound(catalog', shown', rows', state')
<1>0. shown' = [f \in Paths |-> Top(f, rows', state', shown[f])]
  BY Zenon DEF Announce, Top
<1>1. /\ rows' \in SUBSET Row /\ state' \in [Paths -> UidState] /\ shown \in [Paths -> Nat \X Nat]
      /\ \A r \in LiveOf(rows') :
          r.folder \in catalog' /\ state'[r.folder].validity > 0 /\ r.uid < state'[r.folder].next
      /\ \A f \in Paths : Beyond(state'[f], shown[f])
  BY Zenon DEF Sound
<1>2. ASSUME NEW f \in Paths
      PROVE  shown'[f] \in Nat \X Nat /\ Beyond(state'[f], shown'[f])
  <2>1. shown[f] \in Nat \X Nat /\ rows' \in SUBSET Row /\ state' \in [Paths -> UidState]
    BY <1>1
  <2>2. shown'[f] = Top(f, rows', state', shown[f])
    BY Zenon, <1>0
  <2>21. Seen(Top(f, rows', state', shown[f]), f, rows', state', shown[f])
    BY Zenon, <2>1, HighestSeen
  <2>3. /\ shown'[f] \in Nat \X Nat
        /\ \/ shown'[f] = shown[f]
           \/ \E r \in LiveOf(rows') : r.folder = f /\ shown'[f] = <<state'[f].validity, r.uid>>
    BY Zenon, <2>2, <2>21 DEF Seen
  <2>4. CASE shown'[f] = shown[f]
    BY Zenon, <1>1, <2>3, <2>4
  <2>5. ASSUME NEW r \in LiveOf(rows'), r.folder = f, shown'[f] = <<state'[f].validity, r.uid>>
        PROVE  Beyond(state'[f], shown'[f])
    <3>1. state'[f].validity > 0 /\ r.uid < state'[f].next
      BY Zenon, <1>1, <2>5
    <3>2. r \in Row /\ state'[f] \in UidState
      BY Zenon, <1>1 DEF LiveOf
    <3>3. r.uid \in Nat /\ r.uid > 0 /\ state'[f].validity \in Nat /\ state'[f].next \in Nat
      BY <3>2, MailboxAssumption DEF Row, UidState
    <3> QED
      BY <2>5, <3>1, <3>3 DEF Beyond, Above
  <2> QED
    BY Zenon, <2>3, <2>4, <2>5
<1>3. shown' \in [Paths -> Nat \X Nat]
  BY Zenon, <1>0, <1>2
<1> QED
  BY Zenon, <1>2, <1>3 DEF Sound

\* UIDVALIDITY and UIDNEXT of folders change that show nothing, or only advance.
LEMMA StateSound ==
  ASSUME NEW cat, NEW cat2, NEW h, NEW rs, NEW st, NEW st2 \in [Paths -> UidState],
         Sound(cat, h, rs, st), cat \subseteq cat2,
         \A f \in Paths : Advances(st[f], st2[f]),
         \A f \in cat \cap Paths :
            st[f].validity = 0 \/ (st2[f].validity = st[f].validity /\ st2[f].next >= st[f].next)
  PROVE  Sound(cat2, h, rs, st2)
<1>1. /\ rs \in SUBSET Row /\ st \in [Paths -> UidState] /\ h \in [Paths -> Nat \X Nat]
      /\ \A r \in LiveOf(rs) :
          r.folder \in cat /\ st[r.folder].validity > 0 /\ r.uid < st[r.folder].next
      /\ \A f \in Paths : Beyond(st[f], h[f])
  BY Zenon DEF Sound
<1>2. ASSUME NEW f \in Paths PROVE Beyond(st2[f], h[f])
  <2>1. st[f] \in UidState /\ st2[f] \in UidState /\ h[f] \in Nat \X Nat
    BY <1>1
  <2> QED
    BY Zenon, <1>1, <2>1, AdvancesBeyond
<1>3. ASSUME NEW r \in LiveOf(rs)
      PROVE  r.folder \in cat2 /\ st2[r.folder].validity > 0 /\ r.uid < st2[r.folder].next
  <2>1. r.folder \in Paths /\ r.uid \in Nat
    BY <1>1, MailboxAssumption DEF LiveOf, Row
  <2>2. r.folder \in cat /\ st[r.folder].validity > 0 /\ r.uid < st[r.folder].next
    BY Zenon, <1>1
  <2>3. /\ st[r.folder].validity \in Nat /\ st2[r.folder].validity \in Nat
        /\ st[r.folder].next \in Nat /\ st2[r.folder].next \in Nat
    BY <1>1, <2>1 DEF UidState
  <2> QED
    BY <2>1, <2>2, <2>3
<1> QED
  BY Zenon, <1>2, <1>3 DEF Sound

\* The table st with the row of one folder replaced.
Put(st, f, t) == [st EXCEPT ![f] = t]

\* The step shows only what was shown and what lies above all that was shown.
LEMMA Ascends ==
  ASSUME TypeOK,
         \A r \in LiveOf(rows') :
            \/ /\ state'[r.folder].validity = state[r.folder].validity
               /\ \E q \in Live : q.id = r.id /\ q.folder = r.folder /\ q.uid = r.uid
            \/ Above(<<state'[r.folder].validity, r.uid>>, shown[r.folder])
  PROVE  UidsAscendStep
<1> SUFFICES ASSUME NEW f \in Paths, NEW v \in Visible(f, rows', state'), v \notin Visible(f, rows, state)
             PROVE  Above(v, shown[f])
  <2>1. DOMAIN shown = Paths
    BY DEF TypeOK
  <2> QED
    BY Zenon, <2>1 DEF UidsAscendStep
<1>1. PICK r \in LiveOf(rows') : r.folder = f /\ v = <<state'[f].validity, r.uid, r.id>>
  BY Zenon DEF Visible
<1>2. CASE Above(<<state'[r.folder].validity, r.uid>>, shown[r.folder])
  BY <1>1, <1>2 DEF Above
<1>3. CASE ~Above(<<state'[r.folder].validity, r.uid>>, shown[r.folder])
  <2>1. state'[f].validity = state[f].validity
    BY Zenon, <1>1, <1>3
  <2>2. PICK q \in Live : q.id = r.id /\ q.folder = f /\ q.uid = r.uid
    BY Zenon, <1>1, <1>3
  <2>3. <<state[f].validity, q.uid, q.id>> \in Visible(f, rows, state)
    BY Zenon, <2>2 DEF Visible, Live
  <2> QED
    BY Zenon, <1>1, <2>1, <2>2, <2>3
<1> QED
  BY Zenon, <1>2, <1>3

\* The step leaves what clients see alone.
LEMMA SameVisible ==
  ASSUME TypeOK, rows' = rows,
         \A r \in Live : state'[r.folder].validity = state[r.folder].validity
  PROVE  UidsAscendStep
BY Zenon, Ascends DEF Live

-----------------------------------------------------------------------------
(* The inductive invariant in parts.                                       *)

\* The folders that exist form a tree that has INBOX.
Tree(cat) ==
    /\ cat \in SUBSET Paths /\ Inbox \in cat
    /\ \A f \in cat : Len(f) > 1 => Parent(f) \in cat

\* The operation in progress, if any, is in order.
OpInv ==
    /\ op \in Ops /\ Delivering /\ Transaction /\ Copying
    /\ op.stage = "cleanup" => op.todo \subseteq blob \ LiveIds
    /\ ~up => op = Idle

\* The inductive invariant, in the parts the step lemmas use.
LEMMA Facts ==
  ASSUME MInv
  PROVE  /\ Sound(catalog, shown, rows, state) /\ Tree(catalog)
         /\ blob \in SUBSET Ids /\ LiveIds \subseteq blob
         /\ reported \subseteq Keys /\ reported \subseteq IdsOf(rows)
         /\ up \in BOOLEAN /\ dirty \in BOOLEAN
         /\ OpInv /\ Answered /\ TypeOK
<1>1. Sound(catalog, shown, rows, state)
  BY Zenon, SoundNow
<1>2. Tree(catalog)
  BY Zenon DEF MInv, TypeOK, FoldersWhole, Tree
<1>3. reported \subseteq IdsOf(rows)
  BY Zenon DEF MInv, DeliveredOnce, RowsOf, IdsOf
<1> QED
  BY Zenon, <1>1, <1>2, <1>3 DEF MInv, TypeOK, PayloadBacked, OpInv

\* The parts, after a step, make the inductive invariant again.
LEMMA Assemble ==
  ASSUME Sound(catalog', shown', rows', state'), Tree(catalog'),
         blob' \in SUBSET Ids, LiveIds' \subseteq blob',
         reported' \subseteq Keys, reported' \subseteq IdsOf(rows'),
         up' \in BOOLEAN, dirty' \in BOOLEAN, OpInv', Answered'
  PROVE  MInv'
<1>1. /\ rows' \subseteq Row /\ state' \in [Paths -> UidState] /\ shown' \in [Paths -> Nat \X Nat]
      /\ \A r, q \in rows' : r.id = q.id => r = q
      /\ Numbered(rows, state)' /\ Ahead(state)'
  BY Zenon, SoundNext
<1>2. TypeOK'
  BY Zenon, <1>1 DEF TypeOK, Tree, OpInv
<1>3. FoldersWhole'
  BY Zenon, <1>1 DEF FoldersWhole, Tree, Numbered, Live
<1>4. DeliveredOnce'
  BY Zenon, <1>1 DEF DeliveredOnce, RowsOf, IdsOf
<1> QED
  BY Zenon, <1>1, <1>2, <1>3, <1>4 DEF MInv, PayloadBacked, OpInv

\* A step that leaves message_flags alone shows the same messages.
LEMMA SameRows ==
  ASSUME rows' = rows
  PROVE  Live' = Live /\ LiveIds' = LiveIds /\ \A i : RowsOf(i)' = RowsOf(i)
BY Zenon DEF Live, LiveIds, RowsOf

\* A payload cleanup, or nothing, is left to do.
LEMMA OpCleanup ==
  ASSUME NEW ids \in SUBSET Ids, op' = CleanupOf(ids), ids \subseteq blob' \ LiveIds', up' = TRUE
  PROVE  OpInv' /\ Pending' = ids /\ op'.stage \notin {"copy", "jmap"}
<1>1. CASE ids = {}
  <2>1. op' = Idle
    BY <1>1 DEF CleanupOf
  <2> QED
    BY <1>1, <2>1, OpIdle DEF OpInv
<1>2. CASE ids # {}
  <2>1. op' = [stage |-> "cleanup", todo |-> ids]
    BY <1>2 DEF CleanupOf
  <2>2. op'.stage = "cleanup" /\ op'.todo = ids
    BY <2>1
  <2>3. op' \in CleanupOp
    BY <2>1 DEF CleanupOp
  <2>4. op' \in Ops
    BY Zenon, <2>3, OpKinds
  <2> QED
    BY <2>2, <2>4 DEF OpInv, Delivering, Transaction, Copying, Pending
<1> QED
  BY Zenon, <1>1, <1>2

\* Outside a transaction only the payloads must be answered for.
LEMMA AnsweredPlain ==
  ASSUME op'.stage \notin {"copy", "jmap"},
         dirty' = FALSE /\ up' = TRUE => blob' \subseteq LiveIds' \cup Pending',
         up' \in BOOLEAN, dirty' \in BOOLEAN
  PROVE  Answered'
BY Zenon DEF Answered

\* An operation that is over leaves nothing to say of it.
LEMMA OpIdleInv ==
  ASSUME op' = Idle
  PROVE  OpInv' /\ Pending' = {} /\ op'.stage \notin {"copy", "jmap"}
<1>1. /\ op' \in Ops /\ Delivering' /\ Transaction' /\ Copying' /\ Pending' = {}
      /\ (op.stage = "cleanup" => op.todo \subseteq blob \ LiveIds)'
      /\ (~up => op = Idle)'
      /\ op'.stage = "idle"
  BY Zenon, OpIdle
<1>2. op'.stage \notin {"copy", "jmap"}
  BY <1>1
<1> QED
  BY Zenon, <1>1, <1>2 DEF OpInv

\* Nothing is in progress: every payload is shown, unless a cleanup failed.
LEMMA IdleFacts ==
  ASSUME MInv, op = Idle
  PROVE  /\ dirty = FALSE /\ up = TRUE => blob \subseteq LiveIds
         /\ op.stage = "idle"
BY DEF MInv, Answered, Pending, Idle

-----------------------------------------------------------------------------
(* Folders and rows that are added.                                        *)

\* createFolder keeps the tree of folders and the tables sound.
LEMMA CreatedFacts ==
  ASSUME MInv, NEW f \in Paths, NEW now \in Clock, Created(f, now)
  PROVE  /\ Tree(catalog') /\ f \in catalog' /\ Sound(catalog', shown, rows, state')
         /\ \A r \in Live : state'[r.folder] = state[r.folder]
<1>1. Tree(catalog) /\ Sound(catalog, shown, rows, state)
  BY Zenon, Facts
<1>2. /\ Missing(f) \subseteq Paths /\ catalog' = catalog \cup Missing(f)
      /\ Missing(f) = Chain(f) \ catalog
      /\ state' = [p \in Paths |-> IF p \in Missing(f) THEN Recreated(state[p], now) ELSE state[p]]
  BY Zenon DEF Created, Missing
<1>3. f \in Chain(f) /\ \A g \in Chain(f) : Len(g) > 1 => Parent(g) \in Chain(f)
  BY Zenon, ChainClosed
<1>4. Tree(catalog') /\ f \in catalog'
  BY Zenon, <1>1, <1>2, <1>3 DEF Tree
<1>5. state \in [Paths -> UidState]
  BY Zenon, <1>1 DEF Sound
<1>6. ASSUME NEW p \in Paths
      PROVE  /\ state'[p] \in UidState /\ Advances(state[p], state'[p])
             /\ p \in catalog => state'[p] = state[p]
  <2>1. state[p] \in UidState
    BY <1>5
  <2>2. CASE p \in Missing(f)
    <3>1. state'[p] = Recreated(state[p], now)
      BY Zenon, <1>2, <2>2
    <3>2. Recreated(state[p], now) \in UidState /\ Advances(state[p], Recreated(state[p], now))
      BY Zenon, <2>1, RecreatedFacts
    <3> QED
      BY Zenon, <1>2, <2>2, <3>1, <3>2
  <2>3. CASE p \notin Missing(f)
    <3>1. state'[p] = state[p]
      BY Zenon, <1>2, <2>3
    <3> QED
      BY Zenon, <2>1, <3>1 DEF Advances
  <2> QED
    BY Zenon, <2>2, <2>3
<1>7. state' \in [Paths -> UidState]
  BY Zenon, <1>2, <1>6
<1>8. \A p \in catalog \cap Paths :
        state[p].validity = 0 \/ (state'[p].validity = state[p].validity /\ state'[p].next >= state[p].next)
  <2>1. \A p \in Paths : state[p].next \in Nat
    BY <1>5 DEF UidState
  <2>2. \A p \in Paths : state[p].next >= state[p].next
    BY <2>1
  <2> QED
    BY Zenon, <1>6, <2>2
<1>9. Sound(catalog', shown, rows, state')
  BY Zenon, <1>1, <1>2, <1>6, <1>7, <1>8, StateSound
<1>10. \A r \in Live : r.folder \in catalog /\ r.folder \in Paths
  BY Zenon, <1>1 DEF Sound, Live, Tree
<1> QED
  BY Zenon, <1>4, <1>6, <1>9, <1>10

\* The row of one folder in mailbox_state advances.
LEMMA OneSound ==
  ASSUME NEW cat, NEW h, NEW rs, NEW st, Sound(cat, h, rs, st), NEW f \in Paths, NEW t \in UidState,
         Advances(st[f], t),
         st[f].validity = 0 \/ (t.validity = st[f].validity /\ t.next >= st[f].next),
         NEW st2, st2 = Put(st, f, t)
  PROVE  /\ Sound(cat, h, rs, st2)
         /\ st2[f] = t
         /\ \A g \in Paths : g # f => st2[g] = st[g]
         /\ \A r \in LiveOf(rs) : st2[r.folder].validity = st[r.folder].validity
         /\ \A g \in Paths : st[g].validity \in {0, st2[g].validity}
<1>1. /\ st \in [Paths -> UidState] /\ rs \in SUBSET Row
      /\ \A r \in LiveOf(rs) : r.folder \in cat /\ st[r.folder].validity > 0
  BY Zenon DEF Sound
<1>2. st2 \in [Paths -> UidState] /\ st2[f] = t /\ \A g \in Paths : g # f => st2[g] = st[g]
  BY <1>1 DEF Put
<1>3. \A g \in Paths : Advances(st[g], st2[g])
  BY Zenon, <1>2 DEF Advances
<1>4. \A g \in Paths : st[g].next \in Nat
  BY <1>1 DEF UidState
<1>5. \A g \in Paths : st[g].next >= st[g].next
  BY <1>4
<1>6. \A g \in cat \cap Paths :
        st[g].validity = 0 \/ (st2[g].validity = st[g].validity /\ st2[g].next >= st[g].next)
  BY Zenon, <1>2, <1>5
<1>7. Sound(cat, h, rs, st2)
  BY Zenon, <1>2, <1>3, <1>6, StateSound
<1>8. \A r \in LiveOf(rs) : r.folder \in Paths /\ st[r.folder].validity # 0
  BY <1>1 DEF LiveOf, Row
<1>9. \A r \in LiveOf(rs) : st2[r.folder].validity = st[r.folder].validity
  BY Zenon, <1>2, <1>8
<1>10. \A g \in Paths : st[g].validity \in {0, st2[g].validity}
  BY Zenon, <1>2
<1> QED
  BY Zenon, <1>2, <1>7, <1>9, <1>10

\* A row is added below its folder's UIDNEXT.
LEMMA AddSound ==
  ASSUME NEW cat, NEW h, NEW rs, NEW st, Sound(cat, h, rs, st), NEW w \in Row,
         \A r \in rs : r.id # w.id, w.folder \in cat, st[w.folder].validity > 0,
         w.uid < st[w.folder].next
  PROVE  Sound(cat, h, rs \cup {w}, st)
BY Zenon DEF Sound, LiveOf

\* The identifiers of one row more.
LEMMA IdsAdd ==
  ASSUME NEW rs, NEW w
  PROVE  /\ IdsOf(rs \cup {w}) = IdsOf(rs) \cup {w.id}
         /\ ~w.expunged => LiveOf(rs \cup {w}) = LiveOf(rs) \cup {w}
         /\ w.expunged => LiveOf(rs \cup {w}) = LiveOf(rs)
<1>1. IdsOf(rs \cup {w}) = IdsOf(rs) \cup {w.id}
  BY DEF IdsOf
<1>2. ~w.expunged => LiveOf(rs \cup {w}) = LiveOf(rs) \cup {w}
  BY Zenon DEF LiveOf
<1>3. w.expunged => LiveOf(rs \cup {w}) = LiveOf(rs)
  BY Zenon DEF LiveOf
<1> QED
  BY Zenon, <1>1, <1>2, <1>3

\* The identifiers of one row less.
LEMMA IdsRemove ==
  ASSUME NEW rs, NEW r \in rs, \A p, q \in rs : p.id = q.id => p = q
  PROVE  /\ IdsOf(rs \ {r}) = IdsOf(rs) \ {r.id}
         /\ LiveOf(rs \ {r}) = LiveOf(rs) \ {r}
         /\ IdsOf(LiveOf(rs \ {r})) = IdsOf(LiveOf(rs)) \ {r.id}
         /\ \A q \in rs \ {r} : q.id # r.id
<1>1. \A q \in rs \ {r} : q.id # r.id
  BY Zenon
<1>2. LiveOf(rs \ {r}) = LiveOf(rs) \ {r}
  BY Zenon DEF LiveOf
<1>3. \A q \in LiveOf(rs) : q \in rs
  BY Zenon DEF LiveOf
<1>4. IdsOf(rs \ {r}) = IdsOf(rs) \ {r.id}
  BY <1>1 DEF IdsOf
<1>5. IdsOf(LiveOf(rs) \ {r}) = IdsOf(LiveOf(rs)) \ {r.id}
  BY <1>1, <1>3 DEF IdsOf
<1> QED
  BY Zenon, <1>1, <1>2, <1>4, <1>5

\* The visible identifiers are those of the live rows.
LEMMA LiveIdsOf == LiveIds = IdsOf(LiveOf(rows)) /\ LiveIds' = IdsOf(LiveOf(rows'))
BY Zenon DEF LiveIds, Live, IdsOf
=============================================================================

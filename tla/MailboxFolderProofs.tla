------------------------- MODULE MailboxFolderProofs --------------------------
(***************************************************************************)
(* The operations of the mailbox store that take one transaction keep the  *)
(* inductive invariant: creating, deleting and renaming folders, MOVE, EXPUNGE*)
(* and flags; and so do restart and cleanup.                               *)
(***************************************************************************)
EXTENDS MailboxTablesProofs

-----------------------------------------------------------------------------
(* Folder names: a folder and all below it are carried to a new name.      *)

\* f is the folder g or lies under it.
Within(f, g) == Len(f) >= Len(g) /\ SubSeq(f, 1, Len(g)) = g

\* Name r is name f with its first part old replaced by new.
Spliced(r, f, old, new) ==
    /\ r \in Seq(Part) /\ Len(r) = Len(new) + (Len(f) - Len(old))
    /\ \A i \in 1 .. Len(new) : r[i] = new[i]
    /\ \A i \in 1 .. Len(f) - Len(old) : r[Len(new) + i] = f[Len(old) + i]

\* The name a folder gets when a folder above it, or it itself, is renamed.
LEMMA RebaseShape ==
  ASSUME NEW f \in Seq(Part), NEW old \in Seq(Part), NEW new \in Seq(Part), Within(f, old)
  PROVE  Spliced(Rebase(f, old, new), f, old, new)
<1> DEFINE t == SubSeq(f, Len(old) + 1, Len(f))
<1>1. Len(f) \in Nat /\ Len(old) \in Nat /\ Len(new) \in Nat /\ Len(f) >= Len(old)
  BY Zenon, LenProperties DEF Within
<1>2. \A i \in Len(old) + 1 .. Len(f) : f[i] \in Part
  BY <1>1, ElementOfSeq
<1>3. /\ t \in Seq(Part) /\ Len(t) = Len(f) - Len(old)
      /\ \A i \in 1 .. Len(f) - Len(old) : t[i] = f[Len(old) + i]
  BY <1>1, <1>2, SubSeqProperties
<1> HIDE DEF t
<1>4. /\ new \o t \in Seq(Part) /\ Len(new \o t) = Len(new) + Len(t)
      /\ \A i \in 1 .. Len(new) + Len(t) : (new \o t)[i] = IF i <= Len(new) THEN new[i] ELSE t[i - Len(new)]
  BY Zenon, <1>3, ConcatProperties
<1>5. \A i \in 1 .. Len(f) - Len(old) : (new \o t)[Len(new) + i] = t[i]
  BY <1>1, <1>3, <1>4
<1>6. \A i \in 1 .. Len(new) : (new \o t)[i] = new[i]
  BY <1>1, <1>3, <1>4
<1>7. Rebase(f, old, new) = new \o t
  BY Zenon DEF Rebase, t
<1>8. \A i \in 1 .. Len(f) - Len(old) : (new \o t)[Len(new) + i] = f[Len(old) + i]
  BY Zenon, <1>3, <1>5
<1>9. Len(new \o t) = Len(new) + (Len(f) - Len(old))
  BY Zenon, <1>3, <1>4
<1> QED
  BY Zenon, <1>4, <1>6, <1>7, <1>8, <1>9 DEF Spliced

\* The folder that is renamed itself gets exactly the new name.
LEMMA RebaseSelf ==
  ASSUME NEW old \in Seq(Part), NEW new \in Seq(Part)
  PROVE  Rebase(old, old, new) = new
<1>1. SubSeq(old, Len(old) + 1, Len(old)) = <<>>
  BY LenProperties, SubSeqEmpty
<1> QED
  BY Zenon, <1>1, ConcatEmptySeq DEF Rebase

\* Two folders do not get the same name.
LEMMA RebaseInjective ==
  ASSUME NEW f \in Seq(Part), NEW g \in Seq(Part), NEW old \in Seq(Part), NEW new \in Seq(Part),
         Within(f, old), Within(g, old), Rebase(f, old, new) = Rebase(g, old, new)
  PROVE  f = g
<1>1. Len(f) \in Nat /\ Len(g) \in Nat /\ Len(old) \in Nat /\ Len(new) \in Nat
  BY Zenon, LenProperties
<1>11. Spliced(Rebase(f, old, new), f, old, new) /\ Spliced(Rebase(g, old, new), g, old, new)
  BY Zenon, RebaseShape
<1>2. Len(f) = Len(g)
  <2>1. Len(new) + (Len(f) - Len(old)) = Len(new) + (Len(g) - Len(old))
    BY Zenon, <1>11 DEF Spliced
  <2> QED
    BY <1>1, <2>1
<1>3. \A i \in 1 .. Len(old) : f[i] = old[i] /\ g[i] = old[i]
  BY <1>1, Prefix DEF Within
<1>4. \A i \in 1 .. Len(f) - Len(old) : f[Len(old) + i] = g[Len(old) + i]
  <2>1. \A i \in 1 .. Len(f) - Len(old) : Rebase(f, old, new)[Len(new) + i] = f[Len(old) + i]
    BY Zenon, <1>11 DEF Spliced
  <2>2. \A i \in 1 .. Len(f) - Len(old) : Rebase(g, old, new)[Len(new) + i] = g[Len(old) + i]
    <3>1. \A i \in 1 .. Len(g) - Len(old) : Rebase(g, old, new)[Len(new) + i] = g[Len(old) + i]
      BY Zenon, <1>11 DEF Spliced
    <3> QED
      BY Zenon, <1>2, <3>1
  <2> QED
    BY Zenon, <2>1, <2>2
<1>5. ASSUME NEW i \in 1 .. Len(f) PROVE f[i] = g[i]
  <2>1. CASE i <= Len(old)
    BY <1>1, <1>3, <2>1
  <2>2. CASE i > Len(old)
    <3>1. i - Len(old) \in 1 .. Len(f) - Len(old) /\ Len(old) + (i - Len(old)) = i
      BY <1>1, <2>2
    <3> QED
      BY Zenon, <1>4, <3>1
  <2> QED
    BY <1>1, <2>1, <2>2
<1> QED
  BY Zenon, <1>2, <1>5, SeqEqual

\* The parent of a folder that moves along is renamed alike.
LEMMA RebaseParent ==
  ASSUME NEW f \in Seq(Part), NEW old \in Seq(Part), NEW new \in Seq(Part), Within(f, old),
         Len(f) > Len(old)
  PROVE  /\ Within(Parent(f), old) /\ Parent(f) \in Seq(Part) /\ Len(Parent(f)) = Len(f) - 1
         /\ Parent(Rebase(f, old, new)) = Rebase(Parent(f), old, new)
<1>1. Len(f) \in Nat /\ Len(old) \in Nat /\ Len(new) \in Nat
  BY Zenon, LenProperties
<1>2. /\ Parent(f) \in Seq(Part) /\ Len(Parent(f)) = Len(f) - 1
      /\ \A i \in 1 .. Len(f) - 1 : Parent(f)[i] = f[i]
  <2>1. Len(f) - 1 \in 0 .. Len(f)
    BY <1>1
  <2> QED
    BY Zenon, <2>1, Prefix DEF Parent
<1>3. Within(Parent(f), old)
  <2>1. SubSeq(Parent(f), 1, Len(old)) = SubSeq(f, 1, Len(old))
    BY <1>1, PrefixOfPrefix DEF Parent
  <2> QED
    BY <1>1, <1>2, <2>1 DEF Within
<1> DEFINE r == Rebase(f, old, new)
           q == Rebase(Parent(f), old, new)
<1>4. /\ r \in Seq(Part) /\ Len(r) = Len(new) + (Len(f) - Len(old))
      /\ \A i \in 1 .. Len(new) : r[i] = new[i]
      /\ \A i \in 1 .. Len(f) - Len(old) : r[Len(new) + i] = f[Len(old) + i]
  <2>1. Spliced(r, f, old, new)
    BY Zenon, RebaseShape
  <2> QED
    BY Zenon, <2>1 DEF Spliced
<1>5. /\ q \in Seq(Part) /\ Len(q) = Len(new) + (Len(Parent(f)) - Len(old))
      /\ \A i \in 1 .. Len(new) : q[i] = new[i]
      /\ \A i \in 1 .. Len(Parent(f)) - Len(old) : q[Len(new) + i] = Parent(f)[Len(old) + i]
  <2>1. Spliced(q, Parent(f), old, new)
    BY Zenon, <1>2, <1>3, RebaseShape
  <2> QED
    BY Zenon, <2>1 DEF Spliced
<1> HIDE DEF r, q
<1>6. /\ Parent(r) \in Seq(Part) /\ Len(Parent(r)) = Len(r) - 1
      /\ \A i \in 1 .. Len(r) - 1 : Parent(r)[i] = r[i]
  BY <1>1, <1>4, Prefix DEF Parent
<1>7. ASSUME NEW i \in 1 .. Len(q) PROVE q[i] = Parent(r)[i]
  <2>1. CASE i <= Len(new)
    <3>1. i \in 1 .. Len(new) /\ i \in 1 .. Len(r) - 1
      BY <1>1, <1>2, <1>4, <1>5, <2>1
    <3> QED
      BY Zenon, <1>4, <1>5, <1>6, <3>1
  <2>2. CASE i > Len(new)
    <3>1. /\ i - Len(new) \in 1 .. Len(Parent(f)) - Len(old) /\ Len(new) + (i - Len(new)) = i
          /\ i - Len(new) \in 1 .. Len(f) - Len(old)
      BY <1>1, <1>2, <1>5, <2>2
    <3>2. q[i] = Parent(f)[Len(old) + (i - Len(new))]
      BY Zenon, <1>5, <3>1
    <3>3. r[i] = f[Len(old) + (i - Len(new))]
      BY Zenon, <1>4, <3>1
    <3>4. Len(old) + (i - Len(new)) \in 1 .. Len(f) - 1
      BY <1>1, <1>2, <3>1
    <3>5. i \in 1 .. Len(r) - 1
      BY <1>1, <1>2, <1>4, <1>5
    <3> QED
      BY Zenon, <1>2, <1>6, <3>2, <3>3, <3>4, <3>5
  <2> QED
    BY <1>1, <1>5, <2>1, <2>2
<1>8. Parent(r) = q
  <2>1. Len(q) = Len(Parent(r))
    BY <1>1, <1>2, <1>4, <1>5, <1>6
  <2> QED
    BY Zenon, <1>5, <1>6, <1>7, <2>1, SeqEqual
<1> QED
  BY Zenon, <1>2, <1>3, <1>8 DEF r, q

\* A parent inside a folder means that the child is below it.
LEMMA ParentWithin ==
  ASSUME NEW f \in Seq(Part), NEW g \in Seq(Part), Len(f) > 1, Within(Parent(f), g)
  PROVE  Under(f, g)
<1>1. Len(f) \in Nat /\ Len(g) \in Nat /\ Len(Parent(f)) = Len(f) - 1
  BY LenProperties, Prefix DEF Parent
<1>2. SubSeq(Parent(f), 1, Len(g)) = SubSeq(f, 1, Len(g))
  BY <1>1, PrefixOfPrefix DEF Parent, Within
<1> QED
  BY <1>1, <1>2 DEF Within, Under

-----------------------------------------------------------------------------
(* UIDs under a new UIDVALIDITY.                                           *)

\* A UID taken from row s, or a row under a new UIDVALIDITY, is above all shown.
LEMMA BeyondAbove ==
  ASSUME NEW s \in UidState, NEW h \in Nat \X Nat, Beyond(s, h), NEW v \in Nat, NEW u \in Nat \ {0},
         v > s.validity \/ (v = s.validity /\ v > 0 /\ u >= s.next)
  PROVE  Above(<<v, u>>, h)
<1>1. s.validity \in Nat /\ s.next \in Nat /\ h[1] \in Nat /\ h[2] \in Nat
  BY MailboxAssumption DEF UidState
<1> QED
  BY <1>1 DEF Beyond, Above

\* RenameFolder gives the new name the UIDNEXT of the old one, under a
\* UIDVALIDITY above any the new name had.
LEMMA InheritedFacts ==
  ASSUME NEW s \in UidState, NEW t \in UidState, t.validity > 0, t.next > 0
  PROVE  /\ Inherited(s, t) \in UidState /\ Advances(s, Inherited(s, t))
         /\ Inherited(s, t).validity > s.validity /\ Inherited(s, t).next = t.next
<1>1. s.validity \in Nat /\ t.validity \in Nat /\ t.next \in 0 .. MaxUid
  BY Zenon DEF UidState
<1>2. CASE s.validity = 0
  BY Zenon, <1>1, <1>2 DEF Inherited, Advances
<1>3. CASE s.validity # 0
  <2>1. CASE s.validity + 1 > t.validity
    BY <1>1, <1>3, <2>1 DEF Inherited, Advances, UidState
  <2>2. CASE ~(s.validity + 1 > t.validity)
    BY <1>1, <1>3, <2>2 DEF Inherited, Advances, UidState
  <2> QED
    BY <2>1, <2>2
<1> QED
  BY Zenon, <1>2, <1>3

\* Marking or removing rows keeps the tables sound.
LEMMA LessSound ==
  ASSUME NEW cat, NEW cat2, NEW h, NEW rs, NEW st, NEW rs2 \in SUBSET Row,
         Sound(cat, h, rs, st), \A r, q \in rs2 : r.id = q.id => r = q,
         \A r \in LiveOf(rs2) : \E q \in LiveOf(rs) :
            q.folder = r.folder /\ q.uid = r.uid /\ q.folder \in cat2
  PROVE  Sound(cat2, h, rs2, st)
BY Zenon DEF Sound

-----------------------------------------------------------------------------
(* Restart and cleanup.                                                    *)

\* Crash: the tables and payloads stay, the open operation is lost.
LEMMA CrashStep ==
  ASSUME MInv, Crash
  PROVE  MInv' /\ UidsAscendStep
<1> USE DEF Crash
<1>1. LiveIds' = LiveIds
  BY Zenon, SameRows
<1>2. OpInv' /\ Pending' = {} /\ op'.stage \notin {"copy", "jmap"}
  BY Zenon, OpIdleInv
<1>3. Answered'
  BY Zenon, <1>2, AnsweredPlain, Facts
<1>4. MInv'
  BY Zenon, <1>1, <1>2, <1>3, Facts, Assemble
<1>5. UidsAscendStep
  BY Zenon, SameVisible, Facts
<1> QED
  BY Zenon, <1>4, <1>5

\* recoverMailboxData deletes every payload that nothing shows.
LEMMA RecoverStep ==
  ASSUME MInv, RecoverMailboxData
  PROVE  MInv' /\ UidsAscendStep
<1> USE DEF RecoverMailboxData
<1>1. LiveIds' = LiveIds
  BY Zenon, SameRows
<1>0. op' = Idle
  BY Zenon, Facts DEF OpInv
<1>2. OpInv' /\ Pending' = {} /\ op'.stage \notin {"copy", "jmap"}
  BY Zenon, <1>0, OpIdleInv
<1>3. blob' \in SUBSET Ids /\ blob' \subseteq LiveIds'
  BY Zenon, <1>1, Facts
<1>31. Answered'
  BY Zenon, <1>2, <1>3, AnsweredPlain, Facts
<1>4. MInv'
  BY Zenon, <1>1, <1>2, <1>3, <1>31, Facts, Assemble
<1>5. UidsAscendStep
  BY Zenon, SameVisible, Facts
<1> QED
  BY Zenon, <1>4, <1>5

\* recoverMailboxData that fails has deleted orphans only.
LEMMA RecoverFailsStep ==
  ASSUME MInv, RecoverFails
  PROVE  MInv' /\ UidsAscendStep
<1>0. /\ up = FALSE /\ blob' \subseteq blob /\ LiveIds \subseteq blob'
      /\ UNCHANGED <<catalog, state, rows, op, up, reported, dirty, shown>>
  BY Zenon, Facts DEF RecoverFails
<1>1. LiveIds' = LiveIds
  BY Zenon, <1>0, SameRows
<1>11. op' = Idle
  BY Zenon, <1>0, Facts DEF OpInv
<1>2. OpInv' /\ Pending' = {} /\ op'.stage \notin {"copy", "jmap"}
  BY Zenon, <1>11, OpIdleInv
<1>3. Answered'
  BY Zenon, <1>0, <1>2, AnsweredPlain, Facts
<1>4. MInv'
  BY Zenon, <1>0, <1>1, <1>2, <1>3, Facts, Assemble
<1>5. UidsAscendStep
  BY Zenon, <1>0, SameVisible, Facts
<1> QED
  BY Zenon, <1>4, <1>5

\* Cleanup of one payload: only what no message shows is deleted.
LEMMA CleanupStep ==
  ASSUME MInv, Cleanup
  PROVE  MInv' /\ UidsAscendStep
<1>0. /\ up = TRUE /\ op.stage = "cleanup"
      /\ UNCHANGED <<catalog, state, rows, up, reported, shown>>
  BY Zenon, Facts DEF Cleanup
<1>1. LiveIds' = LiveIds
  BY Zenon, <1>0, SameRows
<1>2. op.todo \subseteq blob \ LiveIds /\ op.todo \in SUBSET Ids
  BY Zenon, <1>0, Facts DEF OpInv
<1>3. dirty = FALSE => blob \subseteq LiveIds \cup op.todo
  BY Zenon, <1>0, Facts DEF Answered, Pending
<1>4. /\ OpInv' /\ op'.stage \notin {"copy", "jmap"} /\ blob' \in SUBSET Ids /\ LiveIds' \subseteq blob'
      /\ dirty' \in BOOLEAN
      /\ dirty' = FALSE /\ up' = TRUE => blob' \subseteq LiveIds' \cup Pending'
  <2>1. ASSUME NEW id \in op.todo, blob' = blob \ {id}, op' = CleanupOf(op.todo \ {id}), dirty' = dirty
        PROVE  /\ OpInv' /\ op'.stage \notin {"copy", "jmap"} /\ blob' \in SUBSET Ids
               /\ LiveIds' \subseteq blob' /\ dirty' \in BOOLEAN
               /\ dirty' = FALSE /\ up' = TRUE => blob' \subseteq LiveIds' \cup Pending'
    <3>1. op.todo \ {id} \in SUBSET Ids /\ op.todo \ {id} \subseteq blob' \ LiveIds'
      BY Zenon, <1>1, <1>2, <2>1
    <3>2. OpInv' /\ Pending' = op.todo \ {id} /\ op'.stage \notin {"copy", "jmap"}
      BY Zenon, <1>0, <2>1, <3>1, OpCleanup
    <3> QED
      BY Zenon, <1>1, <1>2, <1>3, <2>1, <3>2, Facts
  <2>2. CASE op' = Idle /\ dirty' = TRUE /\ blob' = blob
    BY Zenon, <1>1, <2>2, OpIdleInv, Facts
  <2> QED
    BY Zenon, <2>1, <2>2 DEF Cleanup
<1>5. Answered'
  BY Zenon, <1>0, <1>4, AnsweredPlain
<1>6. MInv'
  BY Zenon, <1>0, <1>1, <1>4, <1>5, Facts, Assemble
<1>7. UidsAscendStep
  BY Zenon, <1>0, SameVisible, Facts
<1> QED
  BY Zenon, <1>6, <1>7

-----------------------------------------------------------------------------
(* Creating and deleting folders; expunging messages.                      *)

\* Membership in the identifiers of a table.
LEMMA IdsMember == \A rs, i : i \in IdsOf(rs) <=> \E r \in rs : i = r.id
BY Zenon DEF IdsOf

\* A row that is expunged keeps its identifier.
LEMMA MarkRow ==
  ASSUME NEW r \in Row
  PROVE  /\ [r EXCEPT !.expunged = TRUE] \in Row
         /\ [r EXCEPT !.expunged = TRUE].id = r.id
         /\ [r EXCEPT !.expunged = TRUE].folder = r.folder
         /\ [r EXCEPT !.expunged = TRUE].expunged = TRUE
         /\ r.expunged \in BOOLEAN /\ r.id \in Ids /\ r.folder \in Paths
BY Zenon DEF Row

\* The rows ms are marked expunged.
Mark(rs, ms) == {IF r \in ms THEN [r EXCEPT !.expunged = TRUE] ELSE r : r \in rs}

\* Expunging rows keeps the tables sound and shows fewer messages.
LEMMA Marked ==
  ASSUME NEW rs \in SUBSET Row, \A r, q \in rs : r.id = q.id => r = q, NEW ms
  PROVE  /\ Mark(rs, ms) \in SUBSET Row
         /\ \A r, q \in Mark(rs, ms) : r.id = q.id => r = q
         /\ LiveOf(Mark(rs, ms)) = LiveOf(rs) \ ms
         /\ IdsOf(Mark(rs, ms)) = IdsOf(rs)
         /\ \A r \in rs \cap ms : \E q \in Mark(rs, ms) : q.id = r.id /\ q.folder = r.folder /\ q.expunged
<1> DEFINE M(r) == IF r \in ms THEN [r EXCEPT !.expunged = TRUE] ELSE r
<1>1. \A r \in rs : M(r) \in Row /\ M(r).id = r.id /\ M(r).folder = r.folder
  BY Zenon, MarkRow
<1>2. \A r \in rs : r \in ms => M(r).expunged = TRUE
  BY Zenon, MarkRow
<1>3. \A r \in rs : r \notin ms => M(r) = r
  BY Zenon
<1>4. Mark(rs, ms) = {M(r) : r \in rs}
  BY Zenon DEF Mark
<1> HIDE DEF M
<1>5. Mark(rs, ms) \in SUBSET Row
  BY Zenon, <1>1, <1>4
<1>6. \A r, q \in Mark(rs, ms) : r.id = q.id => r = q
  <2>1. \A r, q \in rs : M(r).id = M(q).id => M(r) = M(q)
    <3>1. ASSUME NEW r \in rs, NEW q \in rs, M(r).id = M(q).id PROVE r = q
      BY Zenon, <1>1, <3>1
    <3> QED
      BY Zenon, <3>1
  <2> QED
    BY Zenon, <1>4, <2>1
<1>7. IdsOf(Mark(rs, ms)) = IdsOf(rs)
  <2>1. \A i : (\E q \in Mark(rs, ms) : i = q.id) <=> (\E r \in rs : i = M(r).id)
    BY Zenon, <1>4
  <2>2. \A i : (\E r \in rs : i = M(r).id) <=> (\E r \in rs : i = r.id)
    BY Zenon, <1>1
  <2>3. ASSUME NEW i PROVE i \in IdsOf(Mark(rs, ms)) <=> i \in IdsOf(rs)
    <3>1. i \in IdsOf(Mark(rs, ms)) <=> \E q \in Mark(rs, ms) : i = q.id
      BY Zenon, IdsMember
    <3>2. i \in IdsOf(rs) <=> \E r \in rs : i = r.id
      BY Zenon, IdsMember
    <3> QED
      BY Zenon, <2>1, <2>2, <3>1, <3>2
  <2> QED
    BY Zenon, <2>3
<1>8. LiveOf(Mark(rs, ms)) = LiveOf(rs) \ ms
  BY Zenon, <1>2, <1>3, <1>4 DEF LiveOf
<1>9. \A r \in rs \cap ms : \E q \in Mark(rs, ms) : q.id = r.id /\ q.folder = r.folder /\ q.expunged
  BY Zenon, <1>1, <1>2, <1>4
<1> QED
  BY Zenon, <1>5, <1>6, <1>7, <1>8, <1>9

\* CreateFolder, also as Mailbox/set create.
LEMMA CreateFolderStep ==
  ASSUME MInv, NEW f \in Paths, NEW now \in Clock, CreateFolder(f, now)
  PROVE  MInv' /\ UidsAscendStep
<1>0. /\ up = TRUE /\ op = Idle /\ op' = Idle /\ Created(f, now)
      /\ UNCHANGED <<rows, blob, up, reported, dirty, shown>>
  BY Zenon, Facts DEF CreateFolder, Free
<1>1. LiveIds' = LiveIds
  BY Zenon, <1>0, SameRows
<1>2. /\ Tree(catalog') /\ f \in catalog' /\ Sound(catalog', shown', rows', state')
      /\ \A r \in Live : state'[r.folder] = state[r.folder]
  BY Zenon, <1>0, CreatedFacts
<1>3. OpInv' /\ Pending' = {} /\ op'.stage \notin {"copy", "jmap"}
  BY Zenon, <1>0, OpIdleInv
<1>4. Answered'
  BY Zenon, <1>0, <1>1, <1>3, IdleFacts, AnsweredPlain, Facts
<1>5. MInv'
  BY Zenon, <1>0, <1>1, <1>2, <1>3, <1>4, Facts, Assemble
<1>6. UidsAscendStep
  BY Zenon, <1>0, <1>2, SameVisible, Facts
<1> QED
  BY Zenon, <1>5, <1>6

\* A folder without children leaves a tree.
LEMMA TreeLess ==
  ASSUME NEW cat, Tree(cat), NEW f \in cat, f # Inbox, ~ \E g \in cat : Under(g, f)
  PROVE  Tree(cat \ {f})
<1>1. ASSUME NEW g \in cat, Len(g) > 1, Parent(g) = f PROVE FALSE
  <2>1. f \in Seq(Part) /\ g \in Seq(Part) /\ Len(f) \in Nat
    BY Zenon, PathSeq DEF Tree
  <2>2. SubSeq(f, 1, Len(f)) = f
    BY Zenon, <2>1, SubSeqFull
  <2>3. Within(Parent(g), f)
    BY <1>1, <2>1, <2>2 DEF Within
  <2>4. Under(g, f)
    BY Zenon, <1>1, <2>1, <2>3, ParentWithin
  <2> QED
    BY Zenon, <2>4
<1> QED
  BY Zenon, <1>1 DEF Tree

\* DeleteFolder: its messages are expunged and then cleaned up.
LEMMA DeleteFolderStep ==
  ASSUME MInv, NEW f \in Paths, DeleteFolder(f)
  PROVE  MInv' /\ UidsAscendStep
<1> DEFINE ms == {r \in rows : r.folder = f}
<1>0. /\ up = TRUE /\ op = Idle /\ f # Inbox /\ f \in catalog /\ ~ \E g \in catalog : Under(g, f)
      /\ catalog' = catalog \ {f}
      /\ op' = CleanupOf(Expunged(rows') \cap blob)
      /\ UNCHANGED <<state, blob, up, reported, dirty, shown>>
  BY Zenon, Facts DEF DeleteFolder, Free
<1>1. rows' = Mark(rows, ms)
  BY Zenon DEF DeleteFolder, Mark
<1>2. Sound(catalog, shown, rows, state) /\ Tree(catalog) /\ blob \in SUBSET Ids /\ LiveIds \subseteq blob
  BY Zenon, Facts
<1>21. rows \in SUBSET Row /\ \A r, q \in rows : r.id = q.id => r = q
  BY Zenon, <1>2 DEF Sound
<1>3. /\ rows' \in SUBSET Row /\ \A r, q \in rows' : r.id = q.id => r = q
      /\ LiveOf(rows') = LiveOf(rows) \ ms /\ IdsOf(rows') = IdsOf(rows)
  BY Zenon, <1>1, <1>21, Marked
<1>4. \A r \in LiveOf(rows') : r \in LiveOf(rows) /\ r.folder \in catalog'
  <2>1. \A r \in LiveOf(rows) : r.folder \in catalog /\ r \in rows
    BY Zenon, <1>2 DEF Sound, LiveOf
  <2> QED
    BY Zenon, <1>0, <1>3, <2>1
<1>5. Sound(catalog', shown', rows', state')
  BY Zenon, <1>0, <1>2, <1>3, <1>4, LessSound
<1>6. Tree(catalog')
  BY Zenon, <1>0, <1>2, TreeLess
<1> DEFINE ids == Expunged(rows') \cap blob
<1>7. LiveIds' = IdsOf(LiveOf(rows')) /\ LiveIds = IdsOf(LiveOf(rows))
  BY Zenon DEF LiveIds, Live, IdsOf
<1>8. /\ ids \in SUBSET Ids /\ ids \subseteq blob' \ LiveIds' /\ LiveIds' \subseteq LiveIds
      /\ LiveIds \cap blob \subseteq LiveIds' \cup ids
  <2>1. ids = (IdsOf(rows') \ IdsOf(LiveOf(rows'))) \cap blob
    BY Zenon DEF Expunged, IdsOf
  <2>2. LiveIds \subseteq IdsOf(rows)
    BY Zenon, <1>7 DEF IdsOf, LiveOf
  <2>3. LiveIds' \subseteq LiveIds
    BY Zenon, <1>4, <1>7 DEF IdsOf
  <2> QED
    BY Zenon, <1>0, <1>2, <1>3, <1>7, <2>1, <2>2, <2>3
<1> HIDE DEF ids
<1>9. op' = CleanupOf(ids)
  BY Zenon, <1>0 DEF ids
<1>10. OpInv' /\ Pending' = ids /\ op'.stage \notin {"copy", "jmap"}
  BY Zenon, <1>0, <1>8, <1>9, OpCleanup
<1>11. dirty' = FALSE /\ up' = TRUE => blob' \subseteq LiveIds' \cup Pending'
  BY Zenon, <1>0, <1>8, <1>10, IdleFacts
<1>12. Answered'
  BY Zenon, <1>0, <1>10, <1>11, AnsweredPlain, Facts
<1>13. MInv'
  BY Zenon, <1>0, <1>2, <1>3, <1>5, <1>6, <1>8, <1>10, <1>12, Facts, Assemble
<1>14. UidsAscendStep
  BY Zenon, <1>0, <1>4, Facts, Ascends DEF Live
<1> QED
  BY Zenon, <1>13, <1>14

\* Mailbox/set destroy of an empty folder.
LEMMA DestroyJMAPMailboxStep ==
  ASSUME MInv, NEW f \in Paths, DestroyJMAPMailbox(f)
  PROVE  MInv' /\ UidsAscendStep
<1>0. /\ up = TRUE /\ op = Idle /\ f # Inbox /\ f \in catalog /\ ~ \E g \in catalog : Under(g, f)
      /\ In(f) = {} /\ catalog' = catalog \ {f} /\ op' = Idle
      /\ UNCHANGED <<state, rows, blob, up, reported, dirty, shown>>
  BY Zenon, Facts DEF DestroyJMAPMailbox, Free
<1>1. LiveIds' = LiveIds
  BY Zenon, <1>0, SameRows
<1>2. Sound(catalog, shown, rows, state) /\ Tree(catalog)
  BY Zenon, Facts
<1>3. \A r \in LiveOf(rows) : r.folder \in catalog'
  BY Zenon, <1>0, <1>2 DEF Sound, In, Live
<1>4. Sound(catalog', shown', rows', state')
  BY Zenon, <1>0, <1>2, <1>3 DEF Sound
<1>5. Tree(catalog')
  BY Zenon, <1>0, <1>2, TreeLess
<1>6. OpInv' /\ Pending' = {} /\ op'.stage \notin {"copy", "jmap"}
  BY Zenon, <1>0, OpIdleInv
<1>7. Answered'
  BY Zenon, <1>0, <1>1, <1>6, IdleFacts, AnsweredPlain, Facts
<1>8. MInv'
  BY Zenon, <1>0, <1>1, <1>4, <1>5, <1>6, <1>7, Facts, Assemble
<1>9. UidsAscendStep
  BY Zenon, <1>0, SameVisible, Facts
<1> QED
  BY Zenon, <1>8, <1>9

\* EXPUNGE: the messages marked deleted go, and are then cleaned up.
LEMMA ExpungeDeletedStep ==
  ASSUME MInv, NEW f \in Paths, ExpungeDeleted(f)
  PROVE  MInv' /\ UidsAscendStep
<1> DEFINE ms == {r \in In(f) : r.deleted}
           ids == {r.id : r \in {q \in rows' : q.folder = f /\ q.expunged}} \cap blob
<1>0. /\ up = TRUE /\ op = Idle /\ op' = CleanupOf(ids)
      /\ UNCHANGED <<catalog, state, blob, up, reported, dirty, shown>>
  BY Zenon, Facts DEF ExpungeDeleted, Free
<1>1. rows' = Mark(rows, ms)
  BY Zenon DEF ExpungeDeleted, Mark
<1>2. Sound(catalog, shown, rows, state) /\ Tree(catalog) /\ blob \in SUBSET Ids /\ LiveIds \subseteq blob
  BY Zenon, Facts
<1>21. rows \in SUBSET Row /\ \A r, q \in rows : r.id = q.id => r = q
  BY Zenon, <1>2 DEF Sound
<1>3. /\ rows' \in SUBSET Row /\ \A r, q \in rows' : r.id = q.id => r = q
      /\ LiveOf(rows') = LiveOf(rows) \ ms /\ IdsOf(rows') = IdsOf(rows)
      /\ \A r \in rows \cap ms : \E q \in rows' : q.id = r.id /\ q.folder = r.folder /\ q.expunged
  BY ZenonT(30), <1>1, <1>21, Marked
<1>4. \A r \in LiveOf(rows') : r \in LiveOf(rows) /\ r.folder \in catalog'
  BY Zenon, <1>0, <1>2, <1>3 DEF Sound
<1>5. Sound(catalog', shown', rows', state')
  <2>1. Sound(catalog, shown, rows', state)
    BY Zenon, <1>0, <1>2, <1>3, <1>4 DEF Sound
  <2> QED
    BY Zenon, <1>0, <2>1
<1>7. LiveIds' = IdsOf(LiveOf(rows')) /\ LiveIds = IdsOf(LiveOf(rows))
  BY Zenon DEF LiveIds, Live, IdsOf
<1>8. /\ ids \in SUBSET Ids /\ ids \subseteq blob' \ LiveIds' /\ LiveIds' \subseteq LiveIds
      /\ LiveIds \cap blob \subseteq LiveIds' \cup ids
  <2>1. LiveIds' \subseteq LiveIds
    BY Zenon, <1>4, <1>7 DEF IdsOf
  <2>2. ASSUME NEW i \in ids PROVE i \notin LiveIds'
    <3>1. PICK q \in rows' : q.expunged /\ q.id = i
      BY Zenon
    <3>2. ~ \E p \in LiveOf(rows') : p.id = i
      BY Zenon, <1>3, <3>1 DEF LiveOf
    <3> QED
      BY Zenon, <1>7, <3>2 DEF IdsOf
  <2>3. ASSUME NEW i \in LiveIds \cap blob, i \notin LiveIds' PROVE i \in ids
    <3>1. PICK r \in LiveOf(rows) : r.id = i
      BY Zenon, <1>7 DEF IdsOf
    <3>2. r \in ms
      BY Zenon, <1>3, <1>7, <2>3, <3>1 DEF IdsOf
    <3>3. r \in rows /\ r.folder = f
      BY Zenon, <3>1, <3>2 DEF LiveOf, In
    <3>4. PICK q \in rows' : q.id = i /\ q.folder = f /\ q.expunged
      BY Zenon, <1>3, <3>1, <3>2, <3>3
    <3> QED
      BY Zenon, <2>3, <3>4
  <2> QED
    BY Zenon, <1>0, <1>2, <2>1, <2>2, <2>3
<1> HIDE DEF ids
<1>10. OpInv' /\ Pending' = ids /\ op'.stage \notin {"copy", "jmap"}
  BY Zenon, <1>0, <1>8, OpCleanup
<1>11. dirty' = FALSE /\ up' = TRUE => blob' \subseteq LiveIds' \cup Pending'
  BY Zenon, <1>0, <1>8, <1>10, IdleFacts
<1>12. Answered'
  BY Zenon, <1>0, <1>10, <1>11, AnsweredPlain, Facts
<1>13. MInv'
  BY Zenon, <1>0, <1>2, <1>3, <1>5, <1>8, <1>10, <1>12, Facts, Assemble
<1>14. UidsAscendStep
  BY Zenon, <1>0, <1>4, Facts, Ascends DEF Live
<1> QED
  BY Zenon, <1>13, <1>14

-----------------------------------------------------------------------------
(* Flags, and the first row of a folder name.                              *)

\* ensureMailboxState gives a folder name without a row its first one.
LEMMA EnsureMailboxStateStep ==
  ASSUME MInv, NEW f \in Paths, NEW now \in Clock, EnsureMailboxState(f, now)
  PROVE  MInv' /\ UidsAscendStep
<1> DEFINE e == Ensured(state[f], now)
<1>0. /\ up = TRUE /\ op.stage \notin {"copy", "jmap"} /\ state[f].validity = 0
      /\ state' = [state EXCEPT ![f] = e]
      /\ UNCHANGED <<catalog, rows, blob, op, up, reported, dirty, shown>>
  BY Zenon, Facts DEF EnsureMailboxState
<1>1. LiveIds' = LiveIds
  BY Zenon, <1>0, SameRows
<1>2. Sound(catalog, shown, rows, state) /\ OpInv
  BY Zenon, Facts
<1>3. state[f] \in UidState
  BY Zenon, <1>2 DEF Sound
<1>4. e \in UidState /\ Advances(state[f], e)
  BY Zenon, <1>3, EnsuredFacts
<1> HIDE DEF e
<1>5. /\ Sound(catalog', shown', rows', state') /\ \A g \in Paths : g # f => state'[g] = state[g]
      /\ \A r \in LiveOf(rows) : state'[r.folder].validity = state[r.folder].validity
  <2>1. /\ Sound(catalog, shown, rows, state')
        /\ \A g \in Paths : g # f => state'[g] = state[g]
        /\ \A r \in LiveOf(rows) : state'[r.folder].validity = state[r.folder].validity
    <3>1. state' = Put(state, f, e)
      BY Zenon, <1>0 DEF Put
    <3>2. Sound(catalog, shown, rows, state)
      BY Zenon, <1>2
    <3>3. state[f].validity = 0 \/ (e.validity = state[f].validity /\ e.next >= state[f].next)
      BY Zenon, <1>0
    <3> QED
      BY <1>4, <3>1, <3>2, <3>3, OneSound
  <2> QED
    BY Zenon, <1>0, <2>1
<1>6. Delivering'
  <2>1. CASE op.stage \in {"store", "uid", "insert"}
    <3>1. op.msg.folder \in Paths
      <4>1. op \in DeliverOp
        BY Zenon, <1>2, <2>1, OpShape DEF OpInv
      <4> QED
        BY Zenon, <4>1 DEF DeliverOp, New
    <3>2. Delivering
      BY Zenon, <1>2 DEF OpInv
    <3>3. op.stage = "insert" => state[op.msg.folder].validity > 0
      BY Zenon, <2>1, <3>2 DEF Delivering
    <3>4. op.stage = "insert" => state'[op.msg.folder] = state[op.msg.folder]
      BY <1>0, <1>5, <3>1, <3>3
    <3> QED
      BY Zenon, <1>0, <3>2, <3>4 DEF Delivering
  <2>2. CASE op.stage \notin {"store", "uid", "insert"}
    BY Zenon, <1>0, <2>2 DEF Delivering
  <2> QED
    BY Zenon, <2>1, <2>2
<1>7. Transaction' /\ Copying'
  <2>1. op'.stage # "copy" /\ op'.stage # "jmap"
    BY Zenon, <1>0
  <2> QED
    BY Zenon, <2>1 DEF Transaction, Copying
<1>8. OpInv' /\ Pending' = Pending
  BY Zenon, <1>0, <1>1, <1>2, <1>6, <1>7 DEF OpInv, Pending
<1>9. dirty' = FALSE /\ up' = TRUE => blob' \subseteq LiveIds' \cup Pending'
  BY Zenon, <1>0, <1>1, <1>8, Facts DEF Answered
<1>10. Answered'
  BY Zenon, <1>0, <1>9, AnsweredPlain, Facts
<1>11. MInv'
  BY Zenon, <1>0, <1>1, <1>5, <1>8, <1>10, Facts, Assemble
<1>12. UidsAscendStep
  BY Zenon, <1>0, <1>5, SameVisible, Facts DEF Live
<1> QED
  BY Zenon, <1>11, <1>12

\* STORE of a flag changes neither identifier, folder nor UID.
LEMMA FlagRow ==
  ASSUME NEW r \in Row
  PROVE  LET w == [r EXCEPT !.deleted = ~@]
         IN  w \in Row /\ w.id = r.id /\ w.folder = r.folder /\ w.uid = r.uid /\ w.expunged = r.expunged
BY Zenon DEF Row

\* UpdateMessageFlags: the same messages under the same UIDs.
LEMMA UpdateMessageFlagsStep ==
  ASSUME MInv, NEW r \in rows, UpdateMessageFlags(r)
  PROVE  MInv' /\ UidsAscendStep
<1> DEFINE w == [r EXCEPT !.deleted = ~@]
<1>0. /\ up = TRUE /\ op = Idle /\ op' = Idle /\ r \in LiveOf(rows)
      /\ rows' = (rows \ {r}) \cup {w}
      /\ UNCHANGED <<catalog, state, blob, up, reported, dirty, shown>>
  BY Zenon, Facts DEF UpdateMessageFlags, Free, Live
<1>1. Sound(catalog, shown, rows, state)
  BY Zenon, Facts
<1>2. rows \in SUBSET Row /\ \A p, q \in rows : p.id = q.id => p = q
  BY Zenon, <1>1 DEF Sound
<1>3. w \in Row /\ w.id = r.id /\ w.folder = r.folder /\ w.uid = r.uid /\ w.expunged = r.expunged
  BY Zenon, <1>2, FlagRow
<1> HIDE DEF w
<1>31. ~w.expunged
  BY Zenon, <1>0, <1>3 DEF LiveOf
<1>4. /\ IdsOf(rows \ {r}) = IdsOf(rows) \ {r.id}
      /\ LiveOf(rows \ {r}) = LiveOf(rows) \ {r}
      /\ IdsOf(LiveOf(rows \ {r})) = IdsOf(LiveOf(rows)) \ {r.id}
      /\ \A q \in rows \ {r} : q.id # r.id
  BY Zenon, <1>2, IdsRemove
<1>5. Sound(catalog, shown, rows \ {r}, state)
  BY Zenon, <1>1, <1>4 DEF Sound
<1>6. r.folder \in catalog /\ state[r.folder].validity > 0 /\ r.uid < state[r.folder].next
  BY Zenon, <1>0, <1>1 DEF Sound
<1>7. Sound(catalog', shown', rows', state')
  BY Zenon, <1>0, <1>3, <1>4, <1>5, <1>6, AddSound
<1>8. /\ IdsOf(rows') = IdsOf(rows \ {r}) \cup {w.id}
      /\ LiveOf(rows') = LiveOf(rows \ {r}) \cup {w}
      /\ IdsOf(LiveOf(rows')) = IdsOf(LiveOf(rows \ {r})) \cup {w.id}
  BY Zenon, <1>0, <1>31, IdsAdd
<1>9. r.id \in IdsOf(rows) /\ r.id \in IdsOf(LiveOf(rows))
  BY Zenon, <1>0 DEF IdsOf
<1>10. IdsOf(rows') = IdsOf(rows) /\ LiveIds' = LiveIds
  <2>1. IdsOf(rows') = (IdsOf(rows) \ {r.id}) \cup {r.id}
    BY Zenon, <1>3, <1>4, <1>8
  <2>2. IdsOf(LiveOf(rows')) = (IdsOf(LiveOf(rows)) \ {r.id}) \cup {r.id}
    BY Zenon, <1>3, <1>4, <1>8
  <2>3. IdsOf(rows') = IdsOf(rows) /\ IdsOf(LiveOf(rows')) = IdsOf(LiveOf(rows))
    BY Zenon, <1>9, <2>1, <2>2
  <2> QED
    BY Zenon, <2>3, LiveIdsOf
<1>11. OpInv' /\ Pending' = {} /\ op'.stage \notin {"copy", "jmap"}
  BY Zenon, <1>0, OpIdleInv
<1>12. Answered'
  BY Zenon, <1>0, <1>10, <1>11, IdleFacts, AnsweredPlain, Facts
<1>13. MInv'
  BY Zenon, <1>0, <1>7, <1>10, <1>11, <1>12, Facts, Assemble
<1>14. \A q \in LiveOf(rows') : \E p \in Live : p.id = q.id /\ p.folder = q.folder /\ p.uid = q.uid
  BY Zenon, <1>0, <1>3, <1>4, <1>8 DEF Live
<1>15. UidsAscendStep
  BY Zenon, <1>0, <1>14, Ascends, Facts
<1> QED
  BY Zenon, <1>13, <1>15

-----------------------------------------------------------------------------
(* MOVE, and the tree after a rename.                                      *)

\* The row of a message that is moved.
Moved(r, dest, u) == [r EXCEPT !.folder = dest, !.uid = u]

\* The fields of the row of a message that is moved.
LEMMA MovedRow ==
  ASSUME NEW r \in Row, NEW dest \in Paths, NEW u \in 1 .. (MaxUid - 1)
  PROVE  /\ Moved(r, dest, u) \in Row /\ Moved(r, dest, u).id = r.id
         /\ Moved(r, dest, u).folder = dest /\ Moved(r, dest, u).uid = u
         /\ Moved(r, dest, u).expunged = r.expunged
BY Zenon DEF Row, Moved

\* Messages of a batch are fewer than the batch below any of them.
LEMMA RankBound ==
  ASSUME NEW ms \in SUBSET Row, IsFiniteSet(ms), NEW r \in ms
  PROVE  /\ Cardinality({q \in ms : q.uid < r.uid}) \in Nat
         /\ Cardinality({q \in ms : q.uid < r.uid}) < Cardinality(ms)
         /\ Cardinality(ms) \in Nat
<1> DEFINE below == {q \in ms : q.uid < r.uid}
<1>1. r.uid \in Nat
  BY DEF Row
<1>2. r \notin below
  BY <1>1
<1>3. below \in SUBSET (ms \ {r})
  BY Zenon, <1>2
<1> HIDE DEF below
<1>4. /\ IsFiniteSet(ms \ {r}) /\ Cardinality(ms \ {r}) = Cardinality(ms) - 1
      /\ Cardinality(ms) \in Nat /\ Cardinality(ms \ {r}) \in Nat
  BY Zenon, FS_RemoveElement, FS_CardinalityType
<1>5. IsFiniteSet(below) /\ Cardinality(below) <= Cardinality(ms \ {r})
  BY Zenon, <1>3, <1>4, FS_Subset
<1>6. Cardinality(below) \in Nat
  BY Zenon, <1>5, FS_CardinalityType
<1>7. Cardinality(below) < Cardinality(ms)
  BY <1>4, <1>5, <1>6
<1> QED
  BY Zenon, <1>4, <1>6, <1>7 DEF below

\* MoveMessages: the rows change folder under UIDs the destination hands out.
LEMMA MoveMessagesStep ==
  ASSUME MInv, NEW f \in Paths, NEW dest \in Paths, NEW now \in Clock, NEW ms \in Batches(f),
         MoveMessages(ms, dest, now)
  PROVE  MInv' /\ UidsAscendStep
<1> DEFINE s == Ensured(state[dest], now)
           rank(r) == Cardinality({q \in ms : q.uid < r.uid})
           n == Cardinality(ms)
           t == [s EXCEPT !.next = @ + n]
           u(r) == s.next + rank(r)
           M(r) == Moved(r, dest, u(r))
<1>0. /\ up = TRUE /\ op = Idle /\ op' = Idle /\ dest \in catalog /\ s.next + n <= MaxUid
      /\ state' = [state EXCEPT ![dest] = t] /\ Announce
      /\ UNCHANGED <<catalog, blob, up, reported, dirty>>
  BY Zenon, Facts DEF MoveMessages, Free
<1>01. rows' = (rows \ ms) \cup {M(r) : r \in ms}
  BY Zenon DEF MoveMessages, Moved
<1>1. Sound(catalog, shown, rows, state)
  BY Zenon, Facts
<1>2. rows \in SUBSET Row /\ state \in [Paths -> UidState] /\ \A r, q \in rows : r.id = q.id => r = q
  BY Zenon, <1>1 DEF Sound
<1>3. ms \in SUBSET LiveOf(rows) /\ ms \in SUBSET rows /\ ms \in SUBSET Row
  BY Zenon, <1>2 DEF Batches, In, Live, LiveOf
<1>4. IsFiniteSet(ms)
  <2>1. IsFiniteSet(rows)
    BY Zenon, <1>2, RowsFinite
  <2> QED
    BY Zenon, <1>3, <2>1, FS_Subset
<1>5. n \in Nat /\ \A r \in ms : rank(r) \in Nat /\ rank(r) < n
  BY Zenon, <1>3, <1>4, RankBound, FS_CardinalityType
<1>6. state[dest] \in UidState /\ shown[dest] \in Nat \X Nat /\ Beyond(state[dest], shown[dest])
  BY Zenon, <1>1 DEF Sound
<1>7. /\ s \in UidState /\ s.validity > 0 /\ Advances(state[dest], s)
      /\ (state[dest].validity > 0 => s = state[dest])
  BY Zenon, <1>6, EnsuredFacts
<1>8. Beyond(s, shown[dest])
  BY Zenon, <1>6, <1>7, AdvancesBeyond
<1> HIDE DEF s, n, rank
<1>9. t \in UidState /\ t.validity = s.validity /\ t.next = s.next + n /\ Advances(s, t)
  BY Zenon, <1>0, <1>5, <1>7, TakenFacts
<1> HIDE DEF t
<1>10. s.next > 0 /\ s.next \in Nat /\ s.validity \in Nat /\ MaxUid \in Nat
  BY <1>7, <1>8, MailboxAssumption DEF Beyond, UidState
<1>11. /\ Advances(state[dest], t)
       /\ state[dest].validity = 0 \/ (t.validity = state[dest].validity /\ t.next >= state[dest].next)
  <2>1. state[dest].validity \in Nat /\ state[dest].next \in Nat /\ t.next \in Nat /\ t.next >= s.next
    BY <1>5, <1>6, <1>9, <1>10 DEF UidState
  <2>2. CASE state[dest].validity = 0
    BY <1>7, <1>9, <1>10, <2>1, <2>2 DEF Advances
  <2>3. CASE state[dest].validity # 0
    BY <1>7, <1>9, <2>1, <2>3 DEF Advances
  <2> QED
    BY Zenon, <2>2, <2>3
<1>12. state' = Put(state, dest, t)
  BY Zenon, <1>0 DEF Put
<1>13. /\ Sound(catalog, shown, rows, state') /\ state'[dest] = t
       /\ \A r \in LiveOf(rows) : state'[r.folder].validity = state[r.folder].validity
  BY <1>1, <1>9, <1>11, <1>12, OneSound
<1>14. ASSUME NEW r \in ms
       PROVE  /\ u(r) \in 1 .. (MaxUid - 1) /\ u(r) \in Nat \ {0} /\ u(r) < t.next /\ u(r) >= s.next
  <2>1. rank(r) \in Nat /\ rank(r) < n
    BY Zenon, <1>5
  <2>2. s.next + n <= MaxUid
    BY Zenon, <1>0
  <2> QED
    BY <1>5, <1>9, <1>10, <2>1, <2>2
<1> HIDE DEF u
<1>15. ASSUME NEW r \in ms
       PROVE  /\ M(r) \in Row /\ M(r).id = r.id /\ M(r).folder = dest /\ M(r).uid = u(r) /\ ~M(r).expunged
  <2>1. r \in Row /\ u(r) \in 1 .. (MaxUid - 1) /\ ~r.expunged
    BY Zenon, <1>3, <1>14 DEF LiveOf
  <2>2. /\ M(r) \in Row /\ M(r).id = r.id /\ M(r).folder = dest /\ M(r).uid = u(r) /\ M(r).expunged = r.expunged
    BY <2>1, MovedRow
  <2> QED
    BY Zenon, <2>1, <2>2
<1> HIDE DEF M
<1>16. \A q \in rows' : (q \in rows /\ q \notin ms) \/ \E r \in ms : q = M(r)
  BY Zenon, <1>01
<1>17. rows' \in SUBSET Row
  BY Zenon, <1>2, <1>15, <1>16
<1>18. \A p, q \in rows' : p.id = q.id => p = q
  <2>1. ASSUME NEW p \in rows', NEW q \in rows', p.id = q.id PROVE p = q
    <3>1. PICK r \in rows : r.id = p.id /\ ((r \notin ms /\ p = r) \/ (r \in ms /\ p = M(r)))
      BY Zenon, <1>3, <1>15, <1>16
    <3>2. PICK w \in rows : w.id = q.id /\ ((w \notin ms /\ q = w) \/ (w \in ms /\ q = M(w)))
      BY Zenon, <1>3, <1>15, <1>16
    <3>3. r = w
      BY Zenon, <1>2, <2>1, <3>1, <3>2
    <3> QED
      BY Zenon, <3>1, <3>2, <3>3
  <2> QED
    BY Zenon, <2>1
<1>19. ASSUME NEW q \in LiveOf(rows')
       PROVE  /\ q.folder \in catalog /\ state'[q.folder].validity > 0 /\ q.uid < state'[q.folder].next
              /\ \/ q \in LiveOf(rows)
                 \/ Above(<<state'[q.folder].validity, q.uid>>, shown[q.folder])
  <2>1. CASE q \in rows
    <3>1. q \in LiveOf(rows)
      BY Zenon, <2>1 DEF LiveOf
    <3> QED
      BY Zenon, <1>13, <3>1 DEF Sound
  <2>2. ASSUME NEW r \in ms, q = M(r)
        PROVE  /\ q.folder \in catalog /\ state'[q.folder].validity > 0 /\ q.uid < state'[q.folder].next
               /\ Above(<<state'[q.folder].validity, q.uid>>, shown[q.folder])
    <3>1. q.folder = dest /\ q.uid = u(r) /\ u(r) \in Nat \ {0} /\ u(r) < t.next /\ u(r) >= s.next
      BY Zenon, <1>14, <1>15, <2>2
    <3>2. Above(<<s.validity, u(r)>>, shown[dest])
      BY SMTT(30), <1>6, <1>7, <1>8, <1>10, <3>1, BeyondAbove
    <3> QED
      BY Zenon, <1>0, <1>7, <1>9, <1>13, <3>1, <3>2
  <2> QED
    BY Zenon, <1>16, <2>1, <2>2 DEF LiveOf
<1>20. Sound(catalog', shown', rows', state')
  <2>1. Sound(catalog', shown, rows', state')
    BY Zenon, <1>0, <1>13, <1>17, <1>18, <1>19 DEF Sound
  <2> QED
    BY Zenon, <1>0, <2>1, AnnounceSound
<1>21. /\ \A q \in rows' : \E r \in rows : q.id = r.id /\ (q.expunged <=> r.expunged)
       /\ \A r \in rows : \E q \in rows' : q.id = r.id /\ (q.expunged <=> r.expunged)
  <2>1. \A r \in ms : r \in rows /\ ~r.expunged
    BY Zenon, <1>3 DEF LiveOf
  <2>2. \A q \in rows' : \E r \in rows : q.id = r.id /\ (q.expunged <=> r.expunged)
    <3>1. ASSUME NEW q \in rows' PROVE \E r \in rows : q.id = r.id /\ (q.expunged <=> r.expunged)
      <4>1. CASE q \in rows
        BY Zenon, <4>1
      <4>2. ASSUME NEW r \in ms, q = M(r) PROVE r \in rows /\ q.id = r.id /\ (q.expunged <=> r.expunged)
        BY Zenon, <1>15, <2>1, <4>2
      <4> QED
        BY Zenon, <1>16, <4>1, <4>2
    <3> QED
      BY Zenon, <3>1
  <2>3. \A r \in rows : \E q \in rows' : q.id = r.id /\ (q.expunged <=> r.expunged)
    <3>1. \A r \in ms : M(r) \in rows'
      BY Zenon, <1>01
    <3>2. \A r \in rows \ ms : r \in rows'
      BY Zenon, <1>01
    <3> QED
      BY Zenon, <1>15, <2>1, <3>1, <3>2
  <2> QED
    BY Zenon, <2>2, <2>3
<1>22. IdsOf(rows') = IdsOf(rows) /\ LiveIds' = LiveIds
  BY <1>21 DEF IdsOf, LiveIds, Live, LiveOf
<1>23. OpInv' /\ Pending' = {} /\ op'.stage \notin {"copy", "jmap"}
  BY Zenon, <1>0, OpIdleInv
<1>24. Answered'
  BY Zenon, <1>0, <1>22, <1>23, IdleFacts, AnsweredPlain, Facts
<1>25. MInv'
  BY Zenon, <1>0, <1>20, <1>22, <1>23, <1>24, Facts, Assemble
<1>26. UidsAscendStep
  BY Zenon, <1>13, <1>19, Ascends, Facts DEF Live
<1> QED
  BY Zenon, <1>25, <1>26

\* The folders that move lie within the old name, and keep the tree.
LEMMA MovingWithin ==
  ASSUME Tree(catalog), NEW old \in catalog
  PROVE  /\ old \in Moving(old) /\ Moving(old) \subseteq catalog
         /\ \A g \in Moving(old) : g \in Seq(Part) /\ Within(g, old)
         /\ old # Inbox => \A g \in catalog : Within(g, old) => g \in Moving(old)
         /\ old # Inbox => Inbox \notin Moving(old)
         /\ \A g \in Moving(old) : g = old \/ (old # Inbox /\ Len(g) > Len(old))
<1>1. catalog \subseteq Paths /\ Inbox \in catalog
  BY Zenon DEF Tree
<1>2. \A p \in catalog : p \in Seq(Part) /\ Len(p) \in Nat \ {0}
  BY Zenon, <1>1, PathSeq
<1>3. SubSeq(old, 1, Len(old)) = old
  BY Zenon, <1>2, SubSeqFull
<1>4. Within(old, old)
  BY <1>2, <1>3 DEF Within
<1>5. ASSUME NEW g \in Moving(old)
      PROVE  /\ g \in catalog /\ g \in Seq(Part) /\ Within(g, old)
             /\ g = old \/ (old # Inbox /\ Len(g) > Len(old))
  <2>1. CASE g = old
    BY Zenon, <1>2, <1>4, <2>1
  <2>2. CASE g # old
    <3>1. g \in catalog /\ old # Inbox /\ Under(g, old)
      BY Zenon, <2>2 DEF Moving
    <3>2. Len(g) \in Nat /\ Len(old) \in Nat
      BY Zenon, <1>2, <3>1
    <3> QED
      BY <1>2, <3>1, <3>2 DEF Under, Within
  <2> QED
    BY Zenon, <2>1, <2>2
<1>6. ASSUME old # Inbox, NEW g \in catalog, Within(g, old) PROVE g \in Moving(old)
  <2>1. Len(g) \in Nat /\ Len(old) \in Nat /\ Len(g) >= Len(old) /\ SubSeq(g, 1, Len(old)) = old
    BY Zenon, <1>2, <1>6 DEF Within
  <2>2. CASE Len(g) = Len(old)
    <3>1. SubSeq(g, 1, Len(g)) = g
      BY Zenon, <1>2, SubSeqFull
    <3>2. g = old
      BY Zenon, <2>1, <2>2, <3>1
    <3> QED
      BY Zenon, <3>2 DEF Moving
  <2>3. CASE Len(g) # Len(old)
    <3>1. Under(g, old)
      BY <2>1, <2>3 DEF Under
    <3> QED
      BY Zenon, <1>6, <3>1 DEF Moving
  <2> QED
    BY Zenon, <2>2, <2>3
<1>7. old # Inbox => Inbox \notin Moving(old)
  <2>1. Len(Inbox) = 1 /\ Len(old) \in Nat \ {0}
    BY Zenon, <1>2, MailboxAssumption
  <2>2. ~(Len(Inbox) > Len(old))
    BY <2>1
  <2> QED
    BY Zenon, <1>5, <2>2
<1> QED
  BY Zenon, <1>5, <1>6, <1>7 DEF Moving

\* After RenameFolder every folder still has its parent.
LEMMA RenameTree ==
  ASSUME Tree(catalog), NEW old \in catalog, NEW new \in Paths, new \notin catalog, ~Under(new, old),
         Len(new) > 1 => Parent(new) \in catalog,
         NEW targets \in SUBSET Paths, targets = {Rebase(g, old, new) : g \in Moving(old)},
         NEW cat2, cat2 = (IF old = Inbox THEN catalog ELSE catalog \ Moving(old)) \cup targets
  PROVE  Tree(cat2)
<1>1. /\ catalog \in SUBSET Paths /\ Inbox \in catalog
      /\ \A g \in catalog : Len(g) > 1 => Parent(g) \in catalog
  BY Zenon DEF Tree
<1>2. /\ old \in Moving(old) /\ Moving(old) \subseteq catalog
      /\ \A g \in Moving(old) : g \in Seq(Part) /\ Within(g, old)
      /\ (old # Inbox => \A g \in catalog : Within(g, old) => g \in Moving(old))
      /\ (old # Inbox => Inbox \notin Moving(old))
      /\ \A g \in Moving(old) : g = old \/ (old # Inbox /\ Len(g) > Len(old))
  BY Zenon, MovingWithin
<1>3. new \in Seq(Part) /\ old \in Seq(Part) /\ Len(old) \in Nat \ {0} /\ \A g \in catalog : g \in Seq(Part)
  BY Zenon, <1>1, PathSeq
<1>4. cat2 \in SUBSET Paths /\ Inbox \in cat2
  BY Zenon, <1>1, <1>2
\* Outside the folders that move, the parent stays.
<1>5. ASSUME NEW g \in Seq(Part), Len(g) > 1, Parent(g) \in catalog,
             old # Inbox => g \notin Moving(old), g \in catalog \/ g = new
      PROVE  Parent(g) \in cat2
  <2>1. CASE old = Inbox
    BY Zenon, <1>5, <2>1
  <2>2. CASE old # Inbox
    <3>1. ASSUME Parent(g) \in Moving(old) PROVE FALSE
      <4>1. Within(Parent(g), old)
        BY Zenon, <1>2, <3>1
      <4>2. Under(g, old)
        BY Zenon, <1>3, <1>5, <4>1, ParentWithin
      <4>3. g \in catalog
        BY Zenon, <1>5, <4>2
      <4>4. g \in Moving(old)
        BY Zenon, <2>2, <4>2, <4>3 DEF Moving
      <4> QED
        BY Zenon, <1>5, <2>2, <4>4
    <3> QED
      BY Zenon, <1>5, <2>2, <3>1
  <2> QED
    BY Zenon, <2>1, <2>2
<1>6. ASSUME NEW g \in Moving(old), Len(Rebase(g, old, new)) > 1 PROVE Parent(Rebase(g, old, new)) \in cat2
  <2>1. CASE g = old
    <3>1. Rebase(g, old, new) = new
      BY Zenon, <1>3, <2>1, RebaseSelf
    <3>2. Len(new) > 1 /\ Parent(new) \in catalog
      BY Zenon, <1>6, <3>1
    <3>3. new \notin Moving(old)
      BY Zenon, <1>2
    <3> QED
      BY Zenon, <1>3, <1>5, <3>1, <3>2, <3>3
  <2>2. CASE g # old
    <3>1. /\ g \in Seq(Part) /\ Within(g, old) /\ Len(g) > Len(old) /\ old # Inbox /\ g \in catalog
      BY Zenon, <1>2, <2>2
    <3>2. Within(Parent(g), old) /\ Parent(Rebase(g, old, new)) = Rebase(Parent(g), old, new)
      BY Zenon, <1>3, <3>1, RebaseParent
    <3>3. Len(g) > 1
      BY <1>3, <3>1, LenProperties
    <3>4. Parent(g) \in Moving(old)
      BY Zenon, <1>1, <1>2, <3>1, <3>2, <3>3
    <3> QED
      BY Zenon, <3>2, <3>4
  <2> QED
    BY Zenon, <2>1, <2>2
<1>7. ASSUME NEW g \in cat2, Len(g) > 1 PROVE Parent(g) \in cat2
  <2>1. CASE g \in targets
    BY Zenon, <1>6, <1>7, <2>1
  <2>2. CASE g \notin targets
    <3>1. g \in catalog /\ (old # Inbox => g \notin Moving(old))
      BY Zenon, <2>2
    <3> QED
      BY Zenon, <1>1, <1>3, <1>5, <1>7, <3>1
  <2> QED
    BY Zenon, <2>1, <2>2
<1> QED
  BY Zenon, <1>4, <1>7 DEF Tree

-----------------------------------------------------------------------------
(* RENAME.                                                                 *)

\* A row that follows its folder to a new name.
Carried(r, f) == [r EXCEPT !.folder = f]

\* The fields of a row whose folder gets a new name.
LEMMA CarriedRow ==
  ASSUME NEW r \in Row, NEW f \in Paths
  PROVE  /\ Carried(r, f) \in Row /\ Carried(r, f).id = r.id /\ Carried(r, f).folder = f
         /\ Carried(r, f).uid = r.uid /\ Carried(r, f).expunged = r.expunged
BY Zenon DEF Row, Carried

\* The folder whose contents RenameFolder puts at f.
Source(f, old, new) == CHOOSE g \in Moving(old) : Rebase(g, old, new) = f

\* Each new name has one folder whose contents it takes.
LEMMA SourceFacts ==
  ASSUME Tree(catalog), NEW old \in catalog, NEW new \in Paths, NEW g \in Moving(old)
  PROVE  Source(Rebase(g, old, new), old, new) = g
<1> DEFINE c == Source(Rebase(g, old, new), old, new)
<1>1. \A p \in Moving(old) : p \in Seq(Part) /\ Within(p, old)
  BY Zenon, MovingWithin
<1>2. old \in Seq(Part) /\ new \in Seq(Part)
  BY Zenon, PathSeq DEF Tree
<1>3. c \in Moving(old) /\ Rebase(c, old, new) = Rebase(g, old, new)
  BY Zenon DEF Source
<1> HIDE DEF c
<1>4. c = g
  BY Zenon, <1>1, <1>2, <1>3, RebaseInjective
<1> QED
  BY Zenon, <1>4 DEF c

\* What RenameFolder does to the row of a folder name.
LEMMA RenamedState ==
  ASSUME MInv, NEW old \in Paths, NEW new \in Paths, NEW now \in Clock, RenameFolder(old, new, now)
  PROVE  /\ state' \in [Paths -> UidState]
         /\ \A f \in Paths : Beyond(state'[f], shown[f])
         /\ \A g \in Moving(old) :
               /\ Rebase(g, old, new) \in Paths
               /\ state'[Rebase(g, old, new)].validity > state[Rebase(g, old, new)].validity
               /\ state[g].validity > 0 => state'[Rebase(g, old, new)].next = state[g].next
         /\ \A f \in catalog : f \notin Moving(old) => state'[f] = state[f]
<1> DEFINE To(g) == Rebase(g, old, new)
           from(g) == Ensured(state[g], now)
           targets == {To(g) : g \in Moving(old)}
<1>1. old \in catalog /\ targets \subseteq Paths /\ targets \cap catalog = {}
  BY Zenon DEF RenameFolder
<1>2. state' = [f \in Paths |-> IF f \in targets THEN Inherited(state[f], from(Source(f, old, new)))
                                ELSE IF f \in Moving(old) THEN from(f) ELSE state[f]]
  BY Zenon DEF RenameFolder, Source
<1>3. Sound(catalog, shown, rows, state) /\ Tree(catalog)
  BY Zenon, Facts
<1>4. Moving(old) \subseteq catalog /\ catalog \subseteq Paths
  BY Zenon, <1>1, <1>3, MovingWithin DEF Tree
<1>5. ASSUME NEW g \in Paths
      PROVE  /\ state[g] \in UidState /\ shown[g] \in Nat \X Nat /\ Beyond(state[g], shown[g])
             /\ from(g) \in UidState /\ from(g).validity > 0 /\ Advances(state[g], from(g))
             /\ (state[g].validity > 0 => from(g) = state[g]) /\ from(g).next > 0
             /\ Beyond(from(g), shown[g])
  <2>1. state[g] \in UidState /\ shown[g] \in Nat \X Nat /\ Beyond(state[g], shown[g])
    BY Zenon, <1>3 DEF Sound
  <2>2. /\ from(g) \in UidState /\ from(g).validity > 0 /\ Advances(state[g], from(g))
        /\ (state[g].validity > 0 => from(g) = state[g])
    BY Zenon, <2>1, EnsuredFacts
  <2> HIDE DEF from
  <2>3. Beyond(from(g), shown[g])
    BY Zenon, <2>1, <2>2, AdvancesBeyond
  <2>4. from(g).next > 0
    BY <2>2, <2>3 DEF Beyond, UidState
  <2> QED
    BY Zenon, <2>1, <2>2, <2>3, <2>4
<1>6. ASSUME NEW g \in Moving(old)
      PROVE  /\ To(g) \in Paths /\ To(g) \in targets /\ state'[To(g)] = Inherited(state[To(g)], from(g))
  <2>1. To(g) \in targets /\ To(g) \in Paths
    BY Zenon, <1>1
  <2>2. Source(To(g), old, new) = g
    BY Zenon, <1>1, <1>3, SourceFacts
  <2> QED
    BY Zenon, <1>2, <2>1, <2>2
<1> HIDE DEF from, To
<1>7. ASSUME NEW g \in Moving(old)
      PROVE  /\ state'[To(g)] \in UidState /\ Advances(state[To(g)], state'[To(g)])
             /\ state'[To(g)].validity > state[To(g)].validity
             /\ state'[To(g)].next = from(g).next
  <2>1. g \in Paths /\ To(g) \in Paths
    BY Zenon, <1>4, <1>6
  <2>2. state[To(g)] \in UidState /\ from(g) \in UidState /\ from(g).validity > 0 /\ from(g).next > 0
    BY Zenon, <1>5, <2>1
  <2> QED
    <3> DEFINE h == Inherited(state[To(g)], from(g))
    <3>1. /\ h \in UidState /\ Advances(state[To(g)], h)
          /\ h.validity > state[To(g)].validity /\ h.next = from(g).next
      BY Zenon, <2>2, InheritedFacts
    <3>2. state'[To(g)] = h
      BY Zenon, <1>6
    <3> QED
      BY Zenon, <3>1, <3>2
<1>8. ASSUME NEW f \in Paths, f \notin targets
      PROVE  state'[f] = IF f \in Moving(old) THEN from(f) ELSE state[f]
  BY Zenon, <1>2, <1>8
<1>9. ASSUME NEW f \in Paths PROVE state'[f] \in UidState /\ Beyond(state'[f], shown[f])
  <2>1. CASE f \in targets
    <3>1. PICK g \in Moving(old) : f = To(g)
      BY Zenon, <2>1
    <3>2. state'[f] \in UidState /\ Advances(state[f], state'[f])
      BY Zenon, <1>7, <3>1
    <3>3. state[f] \in UidState /\ shown[f] \in Nat \X Nat /\ Beyond(state[f], shown[f])
      BY Zenon, <1>5
    <3> QED
      BY Zenon, <3>2, <3>3, AdvancesBeyond
  <2>2. CASE f \notin targets
    BY Zenon, <1>5, <1>8, <2>2
  <2> QED
    BY Zenon, <2>1, <2>2
<1>10. state' \in [Paths -> UidState]
  <2>1. state' = [f \in Paths |-> state'[f]]
    BY Zenon, <1>2
  <2> QED
    BY Zenon, <1>9, <2>1
<1>11. \A f \in catalog : f \notin Moving(old) => state'[f] = state[f]
  BY Zenon, <1>1, <1>4, <1>8
<1>12. ASSUME NEW g \in Moving(old)
       PROVE  /\ To(g) \in Paths /\ state'[To(g)].validity > state[To(g)].validity
              /\ (state[g].validity > 0 => state'[To(g)].next = state[g].next)
  BY Zenon, <1>4, <1>5, <1>6, <1>7
<1> QED
  BY Zenon, <1>9, <1>10, <1>11, <1>12 DEF To

\* RenameFolder, also as Mailbox/set update: the messages keep their UIDs under
\* a new name, whose UIDVALIDITY no client has seen there.
LEMMA RenameFolderStep ==
  ASSUME MInv, NEW old \in Paths, NEW new \in Paths, NEW now \in Clock, RenameFolder(old, new, now)
  PROVE  MInv' /\ UidsAscendStep
<1> DEFINE To(g) == Rebase(g, old, new)
           targets == {To(g) : g \in Moving(old)}
           M(r) == IF r \in Live /\ r.folder \in Moving(old) THEN Carried(r, To(r.folder)) ELSE r
<1>0. /\ up = TRUE /\ op = Idle /\ op' = Idle /\ old \in catalog /\ new \notin catalog /\ ~Under(new, old)
      /\ (Len(new) > 1 => Parent(new) \in catalog)
      /\ targets \in SUBSET Paths
      /\ catalog' = (IF old = Inbox THEN catalog ELSE catalog \ Moving(old)) \cup targets
      /\ Announce /\ UNCHANGED <<blob, up, reported, dirty>>
  BY Zenon, Facts DEF RenameFolder, Free
<1>01. rows' = {M(r) : r \in rows}
  BY Zenon DEF RenameFolder, Carried
<1>1. Sound(catalog, shown, rows, state) /\ Tree(catalog)
  BY Zenon, Facts
<1>2. /\ state' \in [Paths -> UidState]
      /\ \A f \in Paths : Beyond(state'[f], shown[f])
      /\ \A g \in Moving(old) :
            /\ To(g) \in Paths
            /\ state'[To(g)].validity > state[To(g)].validity
            /\ (state[g].validity > 0 => state'[To(g)].next = state[g].next)
      /\ \A f \in catalog : f \notin Moving(old) => state'[f] = state[f]
  BY Zenon, RenamedState
<1>3. Tree(catalog')
  BY Zenon, <1>0, <1>1, RenameTree
<1> HIDE DEF To
<1>4. /\ rows \in SUBSET Row /\ shown \in [Paths -> Nat \X Nat] /\ state \in [Paths -> UidState]
      /\ \A r, q \in rows : r.id = q.id => r = q
      /\ \A r \in LiveOf(rows) :
            r.folder \in catalog /\ state[r.folder].validity > 0 /\ r.uid < state[r.folder].next
      /\ \A f \in Paths : Beyond(state[f], shown[f])
  BY Zenon, <1>1 DEF Sound
<1>5. ASSUME NEW r \in rows
      PROVE  /\ M(r) \in Row /\ M(r).id = r.id /\ M(r).uid = r.uid /\ M(r).expunged = r.expunged
             /\ M(r).folder = IF r \in Live /\ r.folder \in Moving(old) THEN To(r.folder) ELSE r.folder
  <2>1. CASE r \in Live /\ r.folder \in Moving(old)
    <3>1. r \in Row /\ To(r.folder) \in Paths
      BY Zenon, <1>2, <1>4, <2>1
    <3>2. M(r) = Carried(r, To(r.folder))
      BY Zenon, <2>1
    <3> QED
      BY Zenon, <2>1, <3>1, <3>2, CarriedRow
  <2>2. CASE ~(r \in Live /\ r.folder \in Moving(old))
    BY Zenon, <1>4, <2>2
  <2> QED
    BY Zenon, <2>1, <2>2
<1> HIDE DEF M
<1>6. rows' \in SUBSET Row
  BY Zenon, <1>01, <1>5
<1>7. \A p, q \in rows' : p.id = q.id => p = q
  <2>1. ASSUME NEW p \in rows', NEW q \in rows', p.id = q.id PROVE p = q
    <3>1. PICK r \in rows : p = M(r)
      BY Zenon, <1>01
    <3>2. PICK w \in rows : q = M(w)
      BY Zenon, <1>01
    <3>3. M(r).id = r.id /\ M(w).id = w.id
      BY Zenon, <1>5
    <3>4. r = w
      BY Zenon, <1>4, <2>1, <3>1, <3>2, <3>3
    <3> QED
      BY Zenon, <3>1, <3>2, <3>4
  <2> QED
    BY Zenon, <2>1
<1>8. ASSUME NEW q \in LiveOf(rows')
      PROVE  /\ q.folder \in catalog' /\ state'[q.folder].validity > 0 /\ q.uid < state'[q.folder].next
             /\ \/ q \in LiveOf(rows) /\ state'[q.folder].validity = state[q.folder].validity
                \/ Above(<<state'[q.folder].validity, q.uid>>, shown[q.folder])
  <2>1. PICK r \in rows : q = M(r)
    BY Zenon, <1>01 DEF LiveOf
  <2>2. /\ q.id = r.id /\ q.uid = r.uid /\ q.expunged = r.expunged /\ r \in Live /\ r \in LiveOf(rows)
        /\ q.folder = IF r.folder \in Moving(old) THEN To(r.folder) ELSE r.folder
    BY Zenon, <1>5, <2>1 DEF LiveOf, Live
  <2>3. /\ r.folder \in catalog /\ state[r.folder].validity > 0 /\ r.uid < state[r.folder].next
        /\ r.uid \in Nat \ {0}
    <3>1. r \in Row
      BY Zenon, <1>4
    <3>2. r.uid \in Nat \ {0}
      BY <3>1, MailboxAssumption DEF Row
    <3> QED
      BY Zenon, <1>4, <2>2, <3>2
  <2>4. CASE r.folder \in Moving(old)
    <3>1. q.folder = To(r.folder) /\ q.folder \in targets /\ q.folder \in Paths /\ q.folder \in catalog'
      BY Zenon, <1>0, <1>2, <2>2, <2>4
    <3>2. /\ state'[q.folder].validity > state[q.folder].validity
          /\ state'[q.folder].next = state[r.folder].next
      BY Zenon, <1>2, <2>3, <2>4, <3>1
    <3>3. /\ state[q.folder] \in UidState /\ state'[q.folder] \in UidState /\ shown[q.folder] \in Nat \X Nat
          /\ Beyond(state[q.folder], shown[q.folder])
      BY Zenon, <1>2, <1>4, <3>1
    <3>4. state[q.folder].validity \in Nat /\ state'[q.folder].validity \in Nat
      BY <3>3 DEF UidState
    <3>5. Above(<<state'[q.folder].validity, q.uid>>, shown[q.folder])
      BY Zenon, <2>2, <2>3, <3>2, <3>3, <3>4, BeyondAbove
    <3>6. state'[q.folder].validity > 0
      BY <3>2, <3>4
    <3> QED
      BY Zenon, <2>2, <2>3, <3>1, <3>2, <3>5, <3>6
  <2>5. CASE r.folder \notin Moving(old)
    <3>1. q.folder = r.folder /\ q.folder \in catalog' /\ state'[q.folder] = state[q.folder]
      BY Zenon, <1>0, <1>2, <2>2, <2>3, <2>5
    <3>2. q = r
      BY Zenon, <2>1, <2>5 DEF M
    <3> QED
      BY Zenon, <2>2, <2>3, <3>1, <3>2
  <2> QED
    BY Zenon, <2>4, <2>5
<1>9. Sound(catalog', shown', rows', state')
  <2>1. Sound(catalog', shown, rows', state')
    BY Zenon, <1>2, <1>4, <1>6, <1>7, <1>8 DEF Sound
  <2> QED
    BY Zenon, <1>0, <2>1, AnnounceSound
<1>10. IdsOf(rows') = IdsOf(rows) /\ LiveIds' = LiveIds
  <2>1. /\ \A q \in rows' : \E r \in rows : q.id = r.id /\ (q.expunged <=> r.expunged)
        /\ \A r \in rows : \E q \in rows' : q.id = r.id /\ (q.expunged <=> r.expunged)
    <3>1. ASSUME NEW r \in rows PROVE M(r).id = r.id /\ (M(r).expunged <=> r.expunged) /\ M(r) \in rows'
      BY Zenon, <1>01, <1>5
    <3>2. ASSUME NEW q \in rows' PROVE \E r \in rows : q.id = r.id /\ (q.expunged <=> r.expunged)
      <4>1. PICK r \in rows : q = M(r)
        BY Zenon, <1>01
      <4> QED
        BY Zenon, <3>1, <4>1
    <3>3. \A r \in rows : \E q \in rows' : q.id = r.id /\ (q.expunged <=> r.expunged)
      BY Zenon, <3>1
    <3> QED
      BY Zenon, <3>2, <3>3
  <2> QED
    BY <2>1 DEF IdsOf, LiveIds, Live, LiveOf
<1>11. OpInv' /\ Pending' = {} /\ op'.stage \notin {"copy", "jmap"}
  BY Zenon, <1>0, OpIdleInv
<1>12. Answered'
  BY Zenon, <1>0, <1>10, <1>11, IdleFacts, AnsweredPlain, Facts
<1>13. MInv'
  BY Zenon, <1>0, <1>3, <1>9, <1>10, <1>11, <1>12, Facts, Assemble
<1>14. UidsAscendStep
  BY Zenon, <1>8, Ascends, Facts DEF Live
<1> QED
  BY <1>13, <1>14
=============================================================================

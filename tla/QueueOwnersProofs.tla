-------------------------- MODULE QueueOwnersProofs ---------------------------
(***************************************************************************)
(* The typed part of DeliveryQueue's inductive invariant, and what the     *)
(* operations of the store and of a worker do to the other variables.  Then:*)
(* nobody shares a message, no message takes more attempts than it may, and*)
(* no notice is stored twice (Owned, Attempts, Marks), for any messages,   *)
(* recipients, workers and bounds.                                         *)
(***************************************************************************)
EXTENDS DeliveryQueue, TLAPS

-----------------------------------------------------------------------------
(* Types.                                                                  *)

\* An idle worker's local variables are well typed.
LEMMA NoWorkType == NoWork \in Job /\ Sound(NoWork) /\ NoWork.pc = "idle"
  BY Zenon, QueueAssumption DEF NoWork, Job, Sound

\* So is the entry of a message that is not in the spool.
LEMMA AbsentType == Absent \in Entry
  BY Zenon DEF Absent, Entry

\* So is the state of the scheduler between two passes.
LEMMA NoPassType == NoPass \in Pass /\ NoPass.cur = {} /\ NoPass.pc = "idle"
  BY Zenon DEF NoPass, Pass

\* A capped counter stays a number.
LEMMA CountType == ASSUME NEW n \in Nat PROVE Count(n) \in Nat
  BY QueueAssumption DEF Count

\* The type invariant by parts: the store's calls, the goroutines, and what
\* the world has seen of the messages.
StoreTyped == store \in [Msgs -> Entry] /\ faults \in Nat

\* The workers' locals, and what their program counters say of them.
WorkTyped ==
    /\ worker \in [Workers -> Job] /\ \A w \in Workers : Sound(worker[w])
    /\ \A w \in Workers : worker[w].pc = "preserved" => worker[w].id \in preserved

\* The scheduler's pass.
PassTyped == sched \in Pass /\ (sched.pc \in {"idle", "scan"} => sched.cur = {})

\* The SMTP sessions.
SessTyped == sess \in [Msgs -> {"new", "rejected", "stored", "claimed", "done"}]

\* The channel from Enqueue and the scheduler to the workers.
ChanTyped == chan \in Seq([id : Msgs, to : SUBSET Rcpts])

\* What the outside world has seen.
WorldTyped ==
    /\ mailbox \in [Msgs -> SUBSET Rcpts]
    /\ sent \in [Msgs -> [Rcpts -> Nat]]
    /\ bounced \in [Msgs -> [Rcpts -> Nat]]
    /\ notices \in [Msgs -> [Told -> Nat]]
    /\ preserved \subseteq Msgs /\ deleted \subseteq Msgs

\* The counters that bound a behaviour.
BoundsTyped == stopping \in BOOLEAN /\ crashes \in Nat /\ revives \in Nat /\ stale \in Nat

\* The type invariant and Phases are the conjunction of these parts.
LEMMA Parts ==
    TypeOK /\ Phases <=> /\ StoreTyped /\ WorkTyped /\ PassTyped /\ SessTyped
                         /\ ChanTyped /\ WorldTyped /\ BoundsTyped
  BY Zenon DEF TypeOK, Phases, StoreTyped, WorkTyped, PassTyped, SessTyped, ChanTyped, WorldTyped,
         BoundsTyped

\* They hold when the queue manager starts with an empty spool.
LEMMA InitTypes == Init => TypeOK /\ Phases
<1> SUFFICES ASSUME Init
             PROVE  /\ StoreTyped /\ WorkTyped /\ PassTyped /\ SessTyped
                    /\ ChanTyped /\ WorldTyped /\ BoundsTyped
  BY Zenon, Parts
<1>1. StoreTyped
  BY Zenon, AbsentType DEF Init, StoreTyped
<1>2. WorkTyped
  BY Zenon, NoWorkType DEF Init, WorkTyped
<1>3. PassTyped
  BY Zenon, NoPassType DEF Init, PassTyped
<1>4. SessTyped /\ ChanTyped
  BY DEF Init, SessTyped, ChanTyped
<1>6. BoundsTyped
  BY Zenon DEF Init, BoundsTyped
<1>5. WorldTyped
  BY Zenon DEF Init, WorldTyped
<1> QED
  BY Zenon, <1>1, <1>2, <1>3, <1>4, <1>5, <1>6

\* Calls of the message store keep its type.
LEMMA PutType ==
    ASSUME StoreTyped, NEW m \in Msgs, NEW e \in Entry, Put(m, e) PROVE StoreTyped'
  BY Zenon DEF StoreTyped, Put

\* A store call that fails keeps the spool well typed.
LEMMA FaultType == ASSUME StoreTyped, Fault PROVE StoreTyped'
  BY DEF StoreTyped, Fault

\* ClaimStatus (storage/message_store.go) keeps the spool well typed.
LEMMA ClaimType ==
    ASSUME StoreTyped, NEW m \in Msgs, NEW from, NEW st \in {"pending", "queued", "processing"},
           Claim(m, from, st)
    PROVE  StoreTyped'
<1> DEFINE a == IF st = "processing" THEN store[m].att + 1 ELSE store[m].att
           e == [store[m] EXCEPT !.st = st, !.att = a]
<1>1. a \in Nat
  BY DEF StoreTyped, Entry
<1> HIDE DEF a
<1>2. e \in Entry
  BY Zenon, <1>1 DEF StoreTyped, Entry
<1>3. Put(m, e)
  BY Zenon DEF Claim, a
<1> QED
  BY Zenon, <1>2, <1>3, PutType

\* UpdateStatus does, whatever the outcome it records.
LEMMA SetStatusType ==
    ASSUME StoreTyped, NEW m \in Msgs,
           NEW st \in {"pending", "held", "failed", "delivered", "deleted"}, SetStatus(m, st)
    PROVE  StoreTyped'
<1>1. st \notin {"delivered", "deleted"} => [store[m] EXCEPT !.st = st] \in Entry
  BY Zenon DEF StoreTyped, Entry
<1> QED
  BY Zenon, <1>1, PutType, AbsentType DEF SetStatus

\* A store call that fails or finds no entry does.
LEMMA CallFailsType == ASSUME StoreTyped, NEW m \in Msgs, CallFails(m) PROVE StoreTyped'
  BY Zenon, FaultType DEF CallFails, StoreTyped

\* UpdateStatus that may fail does.
LEMMA TrySetStatusType ==
    ASSUME StoreTyped, NEW m \in Msgs,
           NEW st \in {"pending", "held", "failed", "delivered", "deleted"}, TrySetStatus(m, st)
    PROVE  StoreTyped'
  BY Zenon, SetStatusType, CallFailsType DEF TrySetStatus

\* One more delivery or bounce is counted.
LEMMA CountedType ==
    ASSUME NEW S, NEW f \in [Msgs -> [S -> Nat]], NEW m \in Msgs, NEW r \in S
    PROVE  [f EXCEPT ![m][r] = Count(@)] \in [Msgs -> [S -> Nat]]
<1>1. Count(f[m][r]) \in Nat
  BY Zenon, CountType
<1>2. [f[m] EXCEPT ![r] = Count(@)] \in [S -> Nat]
  BY Zenon, <1>1
<1> QED
  BY Zenon, <1>2

\* Storing a delivery status notice and marking it does.
LEMMA NoticeType ==
    ASSUME StoreTyped, WorldTyped, NEW m \in Msgs, NEW r \in Rcpts, NEW event \in Notify,
           Notice(m, r, event)
    PROVE  StoreTyped' /\ notices' \in [Msgs -> [Told -> Nat]]
<1>1. <<r, event>> \in Told
  BY Zenon DEF Told
<1>2. [store[m] EXCEPT !.told = @ \cup {<<r, event>>}] \in Entry
  BY Zenon, <1>1 DEF StoreTyped, Entry
<1>3. StoreTyped'
  BY Zenon, <1>2, PutType DEF Notice, StoreTyped
<1>4. [notices EXCEPT ![m][<<r, event>>] = Count(@)] \in [Msgs -> [Told -> Nat]]
  BY Zenon, <1>1, CountedType DEF WorldTyped
<1> QED
  BY Zenon, <1>3, <1>4 DEF Notice, WorldTyped

\* The send on the channel, or its default branch, does.
LEMMA SendType ==
    ASSUME StoreTyped, ChanTyped, NEW m \in Msgs, NEW to \in SUBSET Rcpts, Send(m, to)
    PROVE  StoreTyped' /\ ChanTyped'
<1>1. CASE Len(chan) < ChanCap /\ chan' = Append(chan, [id |-> m, to |-> to]) /\ UNCHANGED <<store, faults>>
  <2>1. [id |-> m, to |-> to] \in [id : Msgs, to : SUBSET Rcpts]
    OBVIOUS
  <2> QED
    BY <1>1, <2>1 DEF StoreTyped, ChanTyped
<1>2. CASE TrySetStatus(m, "pending") /\ UNCHANGED chan
  BY Zenon, <1>2, TrySetStatusType DEF ChanTyped
<1> QED
  BY Zenon, <1>1, <1>2 DEF Send

\* A worker's variables stay sound when one step writes sound ones.
LEMMA JobStep ==
    ASSUME WorkTyped, preserved \subseteq preserved', NEW w \in Workers, NEW k \in Job, Sound(k),
           k.pc = "preserved" => k.id \in preserved', worker' = [worker EXCEPT ![w] = k]
    PROVE  WorkTyped'
  BY Zenon DEF WorkTyped

\* A worker that returns from processMessage is idle and well typed.
LEMMA ReturnType ==
    ASSUME WorkTyped, UNCHANGED preserved, NEW w \in Workers, Return(w) PROVE WorkTyped'
  BY Zenon, JobStep, NoWorkType DEF Return

\* A worker that ended its attempt for recipient r stays well typed.
LEMMA AttemptedType ==
    ASSUME WorkTyped, UNCHANGED preserved, NEW w \in Workers, NEW r \in worker[w].rcpt,
           worker[w].pc \in {"deliver", "notify"}, NEW ok \in BOOLEAN, Attempted(w, r, ok)
    PROVE  WorkTyped'
<1> DEFINE rem == IF ok THEN worker[w].remaining ELSE worker[w].remaining \cup {r}
           k == [worker[w] EXCEPT !.pc = "checkpoint", !.rcpt = {}, !.todo = @ \ {r},
                                  !.remaining = rem]
<1>1. rem \in SUBSET Rcpts /\ rem \subseteq worker[w].remaining \cup {r}
  BY DEF WorkTyped, Job
<1>2. worker' = [worker EXCEPT ![w] = k]
  BY Zenon DEF Attempted, WorkTyped, Job
<1> HIDE DEF rem
<1>3. k \in Job
  BY Zenon, <1>1 DEF WorkTyped, Job
<1>4. Sound(k) /\ k.pc # "preserved"
  BY <1>1 DEF WorkTyped, Job, Sound
<1> QED
  BY Zenon, <1>2, <1>3, <1>4, JobStep

\* So does a worker whose recipient r was accepted.
LEMMA AcceptedType ==
    ASSUME WorkTyped, UNCHANGED preserved, NEW w \in Workers, NEW r \in worker[w].rcpt,
           worker[w].pc = "deliver", Accepted(w, r)
    PROVE  WorkTyped'
<1>1. CASE "SUCCESS" \in Notify
  <2> DEFINE k == [worker[w] EXCEPT !.pc = "notify"]
  <2>1. worker' = [worker EXCEPT ![w] = k]
    BY Zenon, <1>1 DEF Accepted, WorkTyped, Job
  <2>2. k \in Job
    BY Zenon DEF WorkTyped, Job
  <2>3. Sound(k) /\ k.pc # "preserved"
    BY <1>1 DEF WorkTyped, Job, Sound
  <2> QED
    BY Zenon, <2>1, <2>2, <2>3, JobStep
<1>2. CASE "SUCCESS" \notin Notify
  BY Zenon, <1>2, AttemptedType DEF Accepted
<1> QED
  BY Zenon, <1>1, <1>2

\* Worker w only moves its program counter to pc.
LEMMA MovedType ==
    ASSUME WorkTyped, preserved \subseteq preserved', NEW w \in Workers,
           NEW pc \in {"custody", "preserved", "retain", "loop", "finish"},
           worker' = [worker EXCEPT ![w].pc = pc],
           pc = "preserved" => worker[w].id \in preserved',
           pc = "finish" => worker[w].todo = {} /\ worker[w].remaining = {}
    PROVE  WorkTyped'
<1> DEFINE k == [worker[w] EXCEPT !.pc = pc]
<1>1. worker' = [worker EXCEPT ![w] = k]
  BY Zenon DEF WorkTyped, Job
<1>2. k \in Job
  BY Zenon DEF WorkTyped, Job
<1>3. Sound(k) /\ (k.pc = "preserved" => k.id \in preserved')
  BY DEF WorkTyped, Job, Sound
<1> QED
  BY Zenon, <1>1, <1>2, <1>3, JobStep

\* So does a worker that writes the remaining recipients back.
LEMMA CheckpointType ==
    ASSUME WorkTyped, StoreTyped, NEW w \in Workers, NEW left \in SUBSET Rcpts,
           NEW next \in {"loop", "retain", "finish"},
           next = "finish" => worker[w].todo = {} /\ worker[w].remaining = {},
           Checkpoint(w, left, next)
    PROVE  WorkTyped' /\ StoreTyped'
<1>1. worker[w].id \in Msgs
  BY Zenon DEF WorkTyped, Job
<1>2. [store[worker[w].id] EXCEPT !.to = left] \in Entry
  BY <1>1 DEF StoreTyped, Entry
<1>3. StoreTyped'
  BY Zenon, <1>1, <1>2, PutType, CallFailsType DEF Checkpoint
<1>4. UNCHANGED preserved
  BY Zenon DEF Checkpoint, world
<1>5. WorkTyped'
  BY Zenon, <1>4, MovedType DEF Checkpoint
<1> QED
  BY Zenon, <1>3, <1>5

\* The typed part of the inductive invariant.
Types == TypeOK /\ Phases

\* Enqueue.
LEMMA SessionTypes == ASSUME Types, Session PROVE Types'
<1>0. /\ StoreTyped /\ WorkTyped /\ PassTyped /\ SessTyped
      /\ ChanTyped /\ WorldTyped /\ BoundsTyped
  BY Zenon, Parts DEF Types
<1> SUFFICES /\ StoreTyped' /\ WorkTyped' /\ PassTyped' /\ SessTyped'
             /\ ChanTyped' /\ WorldTyped' /\ BoundsTyped'
  BY Parts, PTL DEF Types
<1>1. ASSUME NEW m \in Msgs, EnqueueStore(m)
      PROVE  /\ StoreTyped' /\ SessTyped'
             /\ UNCHANGED <<chan, worker, sched, world, stopping, bounds>>
  <2>1. ASSUME NEW st \in Arrivals PROVE [Absent EXCEPT !.st = st, !.to = Rcpts] \in Entry
    BY ZenonT(30), QueueAssumption DEF Absent, Entry
  <2>2. StoreTyped'
    BY Zenon, <1>0, <1>1, <2>1, PutType, FaultType DEF EnqueueStore
  <2>3. SessTyped'
    BY Zenon, <1>0, <1>1 DEF EnqueueStore, SessTyped
  <2> QED
    BY Zenon, <1>1, <2>2, <2>3 DEF EnqueueStore
<1>2. ASSUME NEW m \in Msgs, EnqueueClaim(m)
      PROVE  /\ StoreTyped' /\ SessTyped' /\ stale' \in Nat
             /\ UNCHANGED <<chan, worker, sched, world, stopping, crashes, revives>>
  <2>1. StoreTyped'
    BY Zenon, <1>0, <1>2, ClaimType, FaultType DEF EnqueueClaim, Lost, StoreTyped
  <2>2. SessTyped'
    BY Zenon, <1>0, <1>2 DEF EnqueueClaim, SessTyped
  <2>3. stale' \in Nat
    BY Zenon, <1>0, <1>2, CountType DEF EnqueueClaim, Outdated, BoundsTyped
  <2> QED
    BY Zenon, <1>2, <2>1, <2>2, <2>3 DEF EnqueueClaim
<1>3. ASSUME NEW m \in Msgs, EnqueueSend(m)
      PROVE  /\ StoreTyped' /\ SessTyped' /\ ChanTyped'
             /\ UNCHANGED <<worker, sched, world, stopping, bounds>>
  <2>1. StoreTyped' /\ ChanTyped'
    BY Zenon, <1>0, <1>3, SendType DEF EnqueueSend
  <2>2. SessTyped'
    BY SMTT(30), <1>0, <1>3 DEF EnqueueSend, SessTyped
  <2> QED
    BY Zenon, <1>3, <2>1, <2>2 DEF EnqueueSend
<1> QED
  BY Zenon, <1>0, <1>1, <1>2, <1>3
  DEF Session, world, bounds, WorkTyped, PassTyped, ChanTyped, WorldTyped, BoundsTyped

\* processMessage.
LEMMA WorkerTypes == ASSUME Types, NEW w \in Workers, WorkerStep(w) \/ WorkerDefer(w) PROVE Types'
<1>0. /\ StoreTyped /\ WorkTyped /\ PassTyped /\ SessTyped
      /\ ChanTyped /\ WorldTyped /\ BoundsTyped
  BY Zenon, Parts DEF Types
<1> SUFFICES /\ StoreTyped' /\ WorkTyped' /\ PassTyped' /\ SessTyped'
             /\ ChanTyped' /\ WorldTyped' /\ BoundsTyped'
  BY Parts, PTL DEF Types
<1>k. worker[w].id \in Msgs /\ worker[w].rcpt \subseteq Rcpts /\ worker[w] \in Job /\ Sound(worker[w])
  BY Zenon, <1>0 DEF WorkTyped, Job
<1> DEFINE Kept == UNCHANGED <<sess, chan, sched, stopping, bounds>>
<1>1. ASSUME WorkerTake(w)
      PROVE  WorkTyped' /\ ChanTyped' /\ UNCHANGED <<store, sess, sched, world, faults, stopping, bounds>>
  <2> DEFINE k == [NoWork EXCEPT !.pc = "loop", !.id = Head(chan).id, !.todo = Head(chan).to]
  <2>1. Head(chan) \in [id : Msgs, to : SUBSET Rcpts] /\ ChanTyped'
    <3> DEFINE S == [id : Msgs, to : SUBSET Rcpts]
    <3>1. chan \in Seq(S) /\ chan # <<>> /\ chan' = Tail(chan)
      BY Zenon, <1>0, <1>1 DEF WorkerTake, ChanTyped
    <3> HIDE DEF S
    <3>2. Head(chan) \in S /\ chan' \in Seq(S)
      BY <3>1
    <3> QED
      BY Zenon, <3>2 DEF S, ChanTyped
  <2>2. k \in Job
    BY Zenon, <2>1, NoWorkType DEF Job
  <2>3. Sound(k) /\ k.pc # "preserved"
    BY Zenon, <2>1, NoWorkType DEF Job, Sound, NoWork
  <2>4. WorkTyped'
    BY Zenon, <1>0, <1>1, <2>2, <2>3, JobStep DEF WorkerTake, world
  <2> QED
    BY Zenon, <1>1, <2>1, <2>4 DEF WorkerTake
<1>2. ASSUME NEW r \in Rcpts, WorkerAttempt(w, r)
      PROVE  StoreTyped' /\ WorkTyped' /\ UNCHANGED world /\ Kept
  <2>1. StoreTyped'
    BY Zenon, <1>0, <1>k, <1>2, ClaimType, FaultType DEF WorkerAttempt, Lost, StoreTyped
  <2> DEFINE k1 == [worker[w] EXCEPT !.pc = "deliver", !.rcpt = {r}]
             k2 == [worker[w] EXCEPT !.pc = "deliver", !.rcpt = {r}, !.started = TRUE]
  <2>2. k1 \in Job /\ (worker[w].started /\ r \in worker[w].todo => Sound(k1))
    BY Zenon, <1>k DEF Job, Sound
  <2>3. k2 \in Job /\ (r \in worker[w].todo => Sound(k2))
    BY Zenon, <1>k DEF Job, Sound
  <2>4. k1.pc = "deliver" /\ k2.pc = "deliver"
    BY Zenon, <1>k DEF Job
  <2>5. \/ worker[w].started /\ worker' = [worker EXCEPT ![w] = k1]
        \/ worker' = [worker EXCEPT ![w] = k2]
        \/ Return(w)
    BY Zenon, <1>0, <1>2 DEF WorkerAttempt, WorkTyped, Job
  <2>6. r \in worker[w].todo /\ UNCHANGED preserved
    BY Zenon, <1>2 DEF WorkerAttempt, world
  <2>7. WorkTyped'
    BY Zenon, <1>0, <2>2, <2>3, <2>4, <2>5, <2>6, JobStep, ReturnType
  <2> QED
    BY Zenon, <1>2, <2>1, <2>7 DEF WorkerAttempt
<1>3. ASSUME NEW r \in worker[w].rcpt, Bounce(w, r), Busy(w, "deliver"), UNCHANGED preserved
      PROVE  StoreTyped' /\ WorkTyped' /\ bounced' \in [Msgs -> [Rcpts -> Nat]]
  <2>1. StoreTyped' /\ WorkTyped'
    BY Zenon, <1>0, <1>3, FaultType, AttemptedType DEF Bounce, Busy, StoreTyped
  <2>2. [bounced EXCEPT ![worker[w].id][r] = Count(@)] \in [Msgs -> [Rcpts -> Nat]]
    BY Zenon, <1>0, <1>k, CountedType DEF WorldTyped
  <2>3. bounced' \in [Msgs -> [Rcpts -> Nat]]
    BY Zenon, <1>0, <1>3, <2>2 DEF Bounce, WorldTyped
  <2> QED
    BY Zenon, <2>1, <2>3
<1>4. ASSUME WorkerSuppressed(w)
      PROVE  /\ StoreTyped' /\ WorkTyped' /\ bounced' \in [Msgs -> [Rcpts -> Nat]]
             /\ UNCHANGED <<mailbox, sent, notices, preserved, deleted>> /\ Kept
  BY Zenon, <1>3, <1>4 DEF WorkerSuppressed
<1>5. ASSUME WorkerLocal(w)
      PROVE  /\ WorkTyped' /\ mailbox' \in [Msgs -> SUBSET Rcpts]
             /\ UNCHANGED <<store, faults, sent, bounced, notices, preserved, deleted>> /\ Kept
  <2>1. PICK r \in worker[w].rcpt \cap (Local \ Suppressed) :
          /\ Busy(w, "deliver")
          /\ \/ mailbox' = [mailbox EXCEPT ![worker[w].id] = @ \cup {r}] /\ Accepted(w, r)
             \/ Attempted(w, r, FALSE) /\ UNCHANGED mailbox
          /\ UNCHANGED <<store, faults, sent, bounced, notices, preserved, deleted>> /\ Kept
    BY Zenon, <1>5 DEF WorkerLocal
  <2>2. WorkTyped'
    BY Zenon, <1>0, <2>1, AcceptedType, AttemptedType DEF Busy
  <2>3. mailbox[worker[w].id] \cup {r} \in SUBSET Rcpts
    BY Zenon, <1>0, <1>k DEF WorldTyped
  <2>4. mailbox' \in [Msgs -> SUBSET Rcpts]
    BY Zenon, <1>0, <2>1, <2>3 DEF WorldTyped
  <2> QED
    BY Zenon, <2>1, <2>2, <2>4
<1>6. ASSUME WorkerRemote(w)
      PROVE  /\ StoreTyped' /\ WorkTyped' /\ sent' \in [Msgs -> [Rcpts -> Nat]]
             /\ bounced' \in [Msgs -> [Rcpts -> Nat]]
             /\ UNCHANGED <<mailbox, notices, preserved, deleted>> /\ Kept
  <2>1. PICK r \in worker[w].rcpt :
          /\ Busy(w, "deliver")
          /\ \/ /\ sent' = [sent EXCEPT ![worker[w].id][r] = Count(@)]
                /\ Accepted(w, r) /\ UNCHANGED <<bounced, store, faults>>
             \/ Attempted(w, r, FALSE) /\ UNCHANGED <<sent, bounced, store, faults>>
             \/ Bounce(w, r) /\ UNCHANGED sent
          /\ UNCHANGED <<mailbox, notices, preserved, deleted>> /\ Kept
    BY Zenon, <1>6 DEF WorkerRemote
  <2>2. StoreTyped' /\ WorkTyped' /\ bounced' \in [Msgs -> [Rcpts -> Nat]]
    BY Zenon, <1>0, <1>3, <2>1, AcceptedType, AttemptedType DEF Busy, StoreTyped, WorldTyped
  <2>3. [sent EXCEPT ![worker[w].id][r] = Count(@)] \in [Msgs -> [Rcpts -> Nat]]
    BY Zenon, <1>0, <1>k, CountedType DEF WorldTyped
  <2>4. sent' \in [Msgs -> [Rcpts -> Nat]]
    BY Zenon, <1>0, <2>1, <2>3 DEF WorldTyped
  <2> QED
    BY Zenon, <2>1, <2>2, <2>4
<1>7. ASSUME WorkerNotify(w)
      PROVE  /\ StoreTyped' /\ WorkTyped' /\ notices' \in [Msgs -> [Told -> Nat]]
             /\ UNCHANGED <<mailbox, sent, bounced, preserved, deleted>> /\ Kept
  <2>1. PICK r \in worker[w].rcpt :
          /\ Busy(w, "notify")
          /\ \/ Notice(worker[w].id, r, "SUCCESS") /\ Attempted(w, r, TRUE)
             \/ CallFails(worker[w].id) /\ UNCHANGED notices /\ Attempted(w, r, FALSE)
          /\ UNCHANGED <<mailbox, sent, bounced, preserved, deleted>> /\ Kept
    BY Zenon, <1>7 DEF WorkerNotify
  <2>2. WorkTyped'
    BY Zenon, <1>0, <2>1, AttemptedType DEF Busy
  <2>3. r \in Rcpts /\ "SUCCESS" \in Notify
    BY Zenon, <1>k, <2>1 DEF Sound, Busy
  <2>4. StoreTyped' /\ notices' \in [Msgs -> [Told -> Nat]]
    BY Zenon, <1>0, <1>k, <2>1, <2>3, NoticeType, CallFailsType DEF WorldTyped
  <2> QED
    BY Zenon, <2>1, <2>2, <2>4
<1>8. ASSUME WorkerCheckpoint(w) \/ WorkerFinal(w)
      PROVE  StoreTyped' /\ WorkTyped' /\ UNCHANGED world /\ Kept
  <2>1. worker[w].remaining \in SUBSET Rcpts /\ worker[w].todo \in SUBSET Rcpts
    BY Zenon, <1>k DEF Job
  <2>2. CASE WorkerCheckpoint(w)
    <3>1. StoreTyped' /\ WorkTyped'
      BY Zenon, <1>0, <2>1, <2>2, CheckpointType DEF WorkerCheckpoint
    <3> QED
      BY Zenon, <2>2, <3>1 DEF WorkerCheckpoint, Checkpoint
  <2>3. CASE WorkerFinal(w)
    <3> DEFINE next == IF worker[w].remaining = {} THEN "finish" ELSE "retain"
    <3>1. worker[w].todo = {}
      BY Zenon, <1>k, <2>3 DEF WorkerFinal, Busy, Sound
    <3>2. next \in {"loop", "retain", "finish"} /\ (next = "finish" => worker[w].remaining = {})
      OBVIOUS
    <3>3. Checkpoint(w, worker[w].remaining, next)
      BY Zenon, <2>3 DEF WorkerFinal
    <3> HIDE DEF next
    <3>4. StoreTyped' /\ WorkTyped'
      BY Zenon, <1>0, <2>1, <3>1, <3>2, <3>3, CheckpointType
    <3> QED
      BY Zenon, <3>3, <3>4 DEF Checkpoint
  <2> QED
    BY Zenon, <1>8, <2>2, <2>3
<1>9. ASSUME WorkerRetain(w) \/ WorkerPreserved(w)
      PROVE  StoreTyped' /\ WorkTyped' /\ UNCHANGED world /\ Kept
  <2>1. Return(w) /\ UNCHANGED world /\ Kept
    BY Zenon, <1>9 DEF WorkerRetain, WorkerPreserved
  <2>2. StoreTyped'
    BY Zenon, <1>0, <1>k, <1>9, TrySetStatusType DEF WorkerRetain, WorkerPreserved
  <2> QED
    BY Zenon, <1>0, <2>1, <2>2, ReturnType DEF world
<1>10. ASSUME WorkerFinish(w)
       PROVE  StoreTyped' /\ WorkTyped' /\ UNCHANGED world /\ Kept
  <2>1. StoreTyped'
    BY Zenon, <1>0, <1>k, <1>10, SetStatusType, CallFailsType DEF WorkerFinish
  <2>2. WorkTyped'
    BY Zenon, <1>0, <1>10, ReturnType, MovedType DEF WorkerFinish, world
  <2> QED
    BY Zenon, <1>10, <2>1, <2>2 DEF WorkerFinish
<1>11. ASSUME WorkerPreserve(w)
       PROVE  /\ StoreTyped' /\ WorkTyped' /\ preserved' \subseteq Msgs
              /\ UNCHANGED <<mailbox, sent, bounced, notices, deleted>> /\ Kept
  <2>1. preserved' \subseteq Msgs /\ preserved \subseteq preserved'
    BY Zenon, <1>0, <1>k, <1>11 DEF WorkerPreserve, WorldTyped
  <2>2. StoreTyped'
    BY Zenon, <1>0, <1>11, FaultType DEF WorkerPreserve, StoreTyped
  <2>3. WorkTyped'
    BY Zenon, <1>0, <1>11, <2>1, MovedType DEF WorkerPreserve
  <2> QED
    BY Zenon, <1>11, <2>1, <2>2, <2>3 DEF WorkerPreserve
<1>12. ASSUME WorkerCustody(w)
       PROVE  StoreTyped' /\ WorkTyped' /\ UNCHANGED world /\ Kept
  <2>1. StoreTyped'
    BY Zenon, <1>0, <1>k, <1>12, ClaimType, FaultType DEF WorkerCustody, Lost, StoreTyped
  <2>2. WorkTyped'
    BY Zenon, <1>0, <1>12, ReturnType, MovedType DEF WorkerCustody, world
  <2> QED
    BY Zenon, <1>12, <2>1, <2>2 DEF WorkerCustody
<1>13. ASSUME WorkerPaused(w)
       PROVE  StoreTyped' /\ WorkTyped' /\ UNCHANGED world /\ Kept
  <2> DEFINE k == [worker[w] EXCEPT !.pc = "final", !.todo = {}, !.remaining = @ \cup worker[w].todo]
  <2>1. StoreTyped'
    BY Zenon, <1>0, <1>k, <1>13, ClaimType, FaultType DEF WorkerPaused, TryMove, Lost, StoreTyped
  <2>2. k \in Job
    BY Zenon, <1>k DEF Job
  <2>3. Sound(k) /\ k.pc # "preserved"
    BY Zenon, <1>k DEF Job, Sound
  <2>4. Return(w) \/ worker' = [worker EXCEPT ![w] = k]
    BY Zenon, <1>0, <1>13 DEF WorkerPaused, WorkTyped, Job
  <2>5. WorkTyped'
    BY Zenon, <1>0, <1>13, <2>2, <2>3, <2>4, JobStep, ReturnType DEF WorkerPaused, world
  <2> QED
    BY Zenon, <1>13, <2>1, <2>5 DEF WorkerPaused
<1>14. ASSUME NEW r \in Rcpts, WorkerThrottled(w, r)
       PROVE  WorkTyped' /\ UNCHANGED <<store, faults, world>> /\ Kept
  <2> DEFINE k == [worker[w] EXCEPT !.todo = @ \ {r}, !.remaining = @ \cup {r}]
  <2>1. k \in Job
    BY Zenon, <1>k DEF Job
  <2>2. Sound(k) /\ k.pc # "preserved"
    BY Zenon, <1>k, <1>14 DEF Job, Sound, WorkerThrottled, Busy
  <2>3. worker' = [worker EXCEPT ![w] = k]
    BY Zenon, <1>0, <1>14 DEF WorkerThrottled, WorkTyped, Job
  <2>4. WorkTyped'
    BY Zenon, <1>0, <1>14, <2>1, <2>2, <2>3, JobStep DEF WorkerThrottled, world
  <2> QED
    BY Zenon, <1>14, <2>4 DEF WorkerThrottled
<1> QED
  BY Zenon, <1>0, <1>1, <1>2, <1>4, <1>5, <1>6, <1>7, <1>8, <1>9, <1>10, <1>11, <1>12, <1>13, <1>14
  DEF WorkerStep, WorkerDefer, world, bounds, StoreTyped, PassTyped, SessTyped, ChanTyped,
      WorldTyped, BoundsTyped

\* processRetries.
LEMMA SchedulerTypes == ASSUME Types, Scheduler PROVE Types'
<1>0. /\ StoreTyped /\ WorkTyped /\ PassTyped /\ SessTyped
      /\ ChanTyped /\ WorldTyped /\ BoundsTyped
  BY Zenon, Parts DEF Types
<1> SUFFICES /\ StoreTyped' /\ WorkTyped' /\ PassTyped' /\ SessTyped'
             /\ ChanTyped' /\ WorldTyped' /\ BoundsTyped'
  BY Parts, PTL DEF Types
<1>k. /\ sched \in Pass
      /\ \A e \in sched.list \cup sched.cur : e.id \in Msgs /\ e.to \in SUBSET Rcpts /\ e.att \in Nat
  BY Zenon, <1>0 DEF PassTyped, Pass, Copy
<1> DEFINE Kept == UNCHANGED <<sess, worker, stopping, bounds>>
<1>1. ASSUME NEW m \in Msgs, RetryRelease(m)
      PROVE  StoreTyped' /\ UNCHANGED <<chan, sched, world>> /\ Kept
  BY Zenon, <1>0, <1>1, SetStatusType DEF RetryRelease
<1>2. ASSUME RetryList
      PROVE  PassTyped' /\ UNCHANGED <<store, faults, chan, world>> /\ Kept
  <2> DEFINE L == {[id |-> m, to |-> store[m].to, att |-> store[m].att] :
                     m \in {x \in Msgs : store[x].st = "pending"}}
  <2>1. L \subseteq Copy
    BY <1>0 DEF StoreTyped, Entry, Copy
  <2>2. sched' = [NoPass EXCEPT !.pc = "scan", !.list = L]
    BY Zenon, <1>2 DEF RetryList
  <2> HIDE DEF L
  <2>3. PassTyped'
    BY Zenon, <2>1, <2>2 DEF PassTyped, Pass, NoPass
  <2> QED
    BY Zenon, <1>2, <2>3 DEF RetryList
<1>3. ASSUME NEW e \in sched.list, RetrySkip(e)
      PROVE  StoreTyped' /\ PassTyped' /\ UNCHANGED <<chan, world>> /\ Kept
  <2>1. StoreTyped'
    BY Zenon, <1>0, <1>3, FaultType DEF RetrySkip, Lost, StoreTyped
  <2>2. PassTyped'
    BY Zenon, <1>0, <1>3 DEF RetrySkip, PassTyped, Pass
  <2> QED
    BY Zenon, <1>3, <2>1, <2>2 DEF RetrySkip
<1>4. ASSUME NEW e \in sched.list, RetryClaim(e)
      PROVE  /\ StoreTyped' /\ PassTyped' /\ stale' \in Nat
             /\ UNCHANGED <<chan, world, sess, worker, stopping, crashes, revives>>
  <2>1. StoreTyped'
    BY Zenon, <1>0, <1>k, <1>4, ClaimType DEF RetryClaim
  <2> DEFINE pc == IF e.att >= MaxAttempts THEN "bounce" ELSE "requeue"
             td == IF e.att >= MaxAttempts THEN e.to ELSE {}
  <2>2. sched' = [sched EXCEPT !.list = @ \ {e}, !.cur = {e}, !.pc = pc, !.todo = td]
    BY Zenon, <1>4 DEF RetryClaim
  <2>3. pc \in {"bounce", "requeue"} /\ td \in SUBSET Rcpts /\ e \in Copy
    BY Zenon, <1>0, <1>k DEF PassTyped, Pass
  <2> HIDE DEF pc, td
  <2>4. PassTyped'
    BY Zenon, <1>0, <2>2, <2>3 DEF PassTyped, Pass
  <2>5. stale' \in Nat
    BY Zenon, <1>0, <1>4, CountType DEF RetryClaim, Outdated, BoundsTyped
  <2> QED
    BY Zenon, <1>4, <2>1, <2>4, <2>5 DEF RetryClaim
<1>5. ASSUME NEW e \in sched.list, NEW r \in Rcpts, RetryWarn(e, r)
      PROVE  /\ StoreTyped' /\ notices' \in [Msgs -> [Told -> Nat]]
             /\ UNCHANGED <<chan, sched, mailbox, sent, bounced, preserved, deleted>> /\ Kept
  BY Zenon, <1>0, <1>k, <1>5, NoticeType DEF RetryWarn
<1>6. ASSUME Scan PROVE PassTyped'
  BY Zenon, <1>0, <1>6 DEF Scan, PassTyped, Pass
<1>7. ASSUME RetryRequeue
      PROVE  StoreTyped' /\ ChanTyped' /\ PassTyped' /\ UNCHANGED world /\ Kept
  BY Zenon, <1>0, <1>k, <1>6, <1>7, SendType DEF RetryRequeue
<1>8. ASSUME NEW r \in Rcpts, RetryBounce(r)
      PROVE  /\ StoreTyped' /\ PassTyped' /\ bounced' \in [Msgs -> [Rcpts -> Nat]]
             /\ UNCHANGED <<chan, mailbox, sent, notices, preserved, deleted>> /\ Kept
  <2>1. PICK e \in sched.cur :
          \/ /\ bounced' = [bounced EXCEPT ![e.id][r] = Count(@)]
             /\ sched' = [sched EXCEPT !.todo = @ \ {r}]
             /\ UNCHANGED <<store, faults>>
          \/ Fault /\ sched' = [sched EXCEPT !.pc = "unbounced"] /\ UNCHANGED bounced
    BY Zenon, <1>8 DEF RetryBounce
  <2>2. [bounced EXCEPT ![e.id][r] = Count(@)] \in [Msgs -> [Rcpts -> Nat]]
    BY Zenon, <1>0, <1>k, CountedType DEF WorldTyped
  <2>3. bounced' \in [Msgs -> [Rcpts -> Nat]]
    BY Zenon, <1>0, <2>1, <2>2 DEF WorldTyped
  <2>4. StoreTyped'
    BY Zenon, <1>0, <2>1, FaultType DEF StoreTyped
  <2>5. PassTyped'
    BY Zenon, <1>0, <1>8, <2>1 DEF RetryBounce, PassTyped, Pass
  <2> QED
    BY Zenon, <1>8, <2>3, <2>4, <2>5 DEF RetryBounce
<1>9. ASSUME RetryGiveUp \/ RetryUnbounced
      PROVE  StoreTyped' /\ PassTyped' /\ UNCHANGED <<chan, world>> /\ Kept
  BY Zenon, <1>0, <1>k, <1>6, <1>9, TrySetStatusType DEF RetryGiveUp, RetryUnbounced
<1>10. ASSUME RetryEnd
       PROVE  PassTyped' /\ UNCHANGED <<store, faults, chan, world>> /\ Kept
  BY Zenon, <1>10, NoPassType DEF RetryEnd, PassTyped
<1> QED
  BY Zenon, <1>0, <1>1, <1>2, <1>3, <1>4, <1>5, <1>7, <1>8, <1>9, <1>10
  DEF Scheduler, world, bounds, StoreTyped, WorkTyped, PassTyped, SessTyped, ChanTyped,
      WorldTyped, BoundsTyped

\* Every step keeps the types and the program counters' meaning.
LEMMA NextTypes == Types /\ [Next]_vars => Types'
<1> SUFFICES ASSUME Types, [Next]_vars PROVE Types'
  OBVIOUS
<1>0. /\ StoreTyped /\ WorkTyped /\ PassTyped /\ SessTyped
      /\ ChanTyped /\ WorldTyped /\ BoundsTyped
  BY Zenon, Parts DEF Types
<1>s. ASSUME StoreTyped', WorkTyped', PassTyped', SessTyped', ChanTyped', WorldTyped', BoundsTyped'
      PROVE  Types'
  BY <1>s, Parts, PTL DEF Types
<1>1. ASSUME NEW m \in Msgs, OperatorDelete(m) PROVE Types'
  <2>1. StoreTyped'
    BY Zenon, <1>0, <1>1, SetStatusType DEF OperatorDelete
  <2>2. WorldTyped'
    BY Zenon, <1>0, <1>1 DEF OperatorDelete, WorldTyped
  <2>3. UNCHANGED <<sess, chan, worker, sched, preserved, stopping, bounds>>
    BY Zenon, <1>1 DEF OperatorDelete
  <2>4. WorkTyped' /\ PassTyped' /\ SessTyped' /\ ChanTyped' /\ BoundsTyped'
    BY Zenon, <1>0, <2>3 DEF bounds, WorkTyped, PassTyped, SessTyped, ChanTyped, BoundsTyped
  <2> QED
    BY Zenon, <1>s, <2>1, <2>2, <2>4
<1>2. ASSUME NEW m \in Msgs, OperatorRevive(m) \/ OperatorRelease(m) PROVE Types'
  <2>1. [store[m] EXCEPT !.st = "pending", !.att = 0] \in Entry
    BY Zenon, <1>0 DEF StoreTyped, Entry
  <2>2. StoreTyped'
    BY Zenon, <1>0, <1>2, <2>1, PutType, SetStatusType DEF OperatorRevive, OperatorRelease
  <2>3. BoundsTyped'
    BY <1>0, <1>2 DEF OperatorRevive, OperatorRelease, bounds, BoundsTyped
  <2>4. UNCHANGED <<sess, chan, worker, sched, world>>
    BY Zenon, <1>2 DEF OperatorRevive, OperatorRelease
  <2>5. WorkTyped' /\ PassTyped' /\ SessTyped' /\ ChanTyped' /\ WorldTyped'
    BY Zenon, <1>0, <2>4 DEF world, WorkTyped, PassTyped, SessTyped, ChanTyped, WorldTyped
  <2> QED
    BY Zenon, <1>s, <2>2, <2>3, <2>5
<1>3. ASSUME Shutdown PROVE Types'
  <2>1. BoundsTyped'
    BY Zenon, <1>0, <1>3 DEF Shutdown, bounds, BoundsTyped
  <2>2. StoreTyped' /\ WorkTyped' /\ PassTyped' /\ SessTyped' /\ ChanTyped' /\ WorldTyped'
    BY Zenon, <1>0, <1>3
    DEF Shutdown, world, StoreTyped, WorkTyped, PassTyped, SessTyped, ChanTyped, WorldTyped
  <2> QED
    BY Zenon, <1>s, <2>1, <2>2
<1>4. ASSUME Restart PROVE Types'
  <2>1. StoreTyped'
    BY Zenon, <1>0, <1>4 DEF Restart, StoreTyped, Entry
  <2>2. WorkTyped' /\ PassTyped'
    BY Zenon, <1>4, NoWorkType, NoPassType DEF Restart, WorkTyped, PassTyped
  <2>3. SessTyped' /\ ChanTyped'
    BY <1>0, <1>4 DEF Restart, SessTyped, ChanTyped
  <2>4. BoundsTyped'
    <3>1. crashes' \in Nat /\ revives' \in Nat /\ stale' \in Nat
      BY <1>0, <1>4 DEF Restart, BoundsTyped
    <3>2. stopping' \in BOOLEAN
      BY ZenonT(30), <1>4 DEF Restart
    <3> QED
      BY Zenon, <3>1, <3>2 DEF BoundsTyped
  <2>5. WorldTyped'
    BY Zenon, <1>0, <1>4 DEF Restart, WorldTyped, world
  <2> QED
    BY Zenon, <1>s, <2>1, <2>2, <2>3, <2>4, <2>5
<1>5. CASE UNCHANGED vars
  BY Zenon, <1>0, <1>s, <1>5
  DEF vars, world, bounds, StoreTyped, WorkTyped, PassTyped, SessTyped, ChanTyped, WorldTyped,
      BoundsTyped
<1> QED
  BY Zenon, <1>1, <1>2, <1>3, <1>4, <1>5, SessionTypes, WorkerTypes, SchedulerTypes DEF Next, Operator

\* Who holds a message, and what its entry says then.
Owned == Exclusive /\ Claimed /\ NoneStranded

\* Nobody holds a pending message, so a claim gives it one holder.
LEMMA PendingFree ==
    ASSUME Types, Owned, NEW m \in Msgs, store[m].st \notin {"none", "queued", "processing"}
    PROVE  ~Held(m) /\ m \notin deleted /\ Taken(m)
  BY Zenon DEF Owned, Claimed, Held, Taken

\* What is in the channel is a message with a list of recipients.
LEMMA ChanElement ==
    ASSUME ChanTyped, NEW i \in DOMAIN chan PROVE chan[i] \in [id : Msgs, to : SUBSET Rcpts]
<1> DEFINE S == [id : Msgs, to : SUBSET Rcpts]
<1>1. chan \in Seq(S)
  BY Zenon DEF ChanTyped
<1>2. i \in 1 .. Len(chan)
  BY <1>1
<1> HIDE DEF S
<1>3. chan[i] \in S
  BY <1>1, <1>2
<1> QED
  BY Zenon, <1>3 DEF S

\* A send adds one element to the channel, a receive takes the first.
LEMMA Appended ==
    ASSUME ChanTyped, NEW x \in [id : Msgs, to : SUBSET Rcpts], chan' = Append(chan, x)
    PROVE  \E n \in DOMAIN chan' :
             /\ n \notin DOMAIN chan /\ DOMAIN chan' = DOMAIN chan \cup {n}
             /\ chan'[n] = x /\ \A i \in DOMAIN chan : chan'[i] = chan[i]
<1> DEFINE S == [id : Msgs, to : SUBSET Rcpts]
<1>1. chan \in Seq(S) /\ x \in S
  BY Zenon DEF ChanTyped
<1> HIDE DEF S
<1>2. /\ chan' \in Seq(S) /\ Len(chan') = Len(chan) + 1
      /\ \A i \in 1 .. Len(chan) : chan'[i] = chan[i]
      /\ chan'[Len(chan) + 1] = x
  BY <1>1
<1>3. Len(chan) \in Nat /\ DOMAIN chan = 1 .. Len(chan) /\ DOMAIN chan' = 1 .. Len(chan')
  BY <1>1, <1>2
<1> WITNESS Len(chan) + 1 \in DOMAIN chan'
<1> QED
  BY <1>2, <1>3

\* Receiving from the channel: the first element goes, the others move up.
LEMMA Received ==
    ASSUME ChanTyped, chan # <<>>, chan' = Tail(chan)
    PROVE  /\ 1 \in DOMAIN chan /\ chan[1] = Head(chan)
           /\ \A i \in DOMAIN chan' : i \in Nat /\ i # 0 /\ i + 1 \in DOMAIN chan /\ chan'[i] = chan[i + 1]
           /\ \A i \in DOMAIN chan : i = 1 \/ \E j \in DOMAIN chan' : chan'[j] = chan[i]
<1> DEFINE S == [id : Msgs, to : SUBSET Rcpts]
<1>1. chan \in Seq(S)
  BY Zenon DEF ChanTyped
<1> HIDE DEF S
<1>2. /\ chan' \in Seq(S) /\ Len(chan') = Len(chan) - 1
      /\ \A i \in 1 .. Len(chan') : chan'[i] = chan[i + 1]
  BY <1>1
<1>3. Len(chan) \in Nat \ {0} /\ DOMAIN chan = 1 .. Len(chan) /\ DOMAIN chan' = 1 .. Len(chan')
  BY <1>1, <1>2
<1>4. chan[1] = Head(chan)
  BY <1>1
<1>5. ASSUME NEW i \in DOMAIN chan, i # 1 PROVE \E j \in DOMAIN chan' : chan'[j] = chan[i]
  <2>1. i - 1 \in DOMAIN chan' /\ chan'[i - 1] = chan[i]
    BY <1>2, <1>3, <1>5
  <2> QED
    BY Zenon, <2>1
<1>6. ASSUME NEW i \in DOMAIN chan'
      PROVE  i \in Nat /\ i # 0 /\ i + 1 \in DOMAIN chan /\ chan'[i] = chan[i + 1]
  BY <1>2, <1>3
<1>7. 1 \in DOMAIN chan
  BY <1>3
<1> QED
  BY Zenon, <1>4, <1>5, <1>6, <1>7

\* ClaimStatus changes the status of one message and no list of recipients.
LEMMA ClaimSt ==
    ASSUME StoreTyped, NEW m \in Msgs, NEW from, NEW st, Claim(m, from, st)
    PROVE  /\ store[m].st = from /\ store'[m].st = st /\ faults' = faults
           /\ store'[m].to = store[m].to /\ store'[m].told = store[m].told
           /\ \A x \in Msgs \ {m} : store'[x] = store[x]
  BY Zenon DEF Claim, Put, StoreTyped, Entry

\* Storing a notice changes no status, no list and no count of attempts.
LEMMA NoticeSt ==
    ASSUME StoreTyped, NEW m \in Msgs, NEW r, NEW event, Notice(m, r, event)
    PROVE  /\ faults' = faults /\ Present(m)
           /\ \A x \in Msgs : /\ store'[x].st = store[x].st /\ store'[x].to = store[x].to
                              /\ store'[x].att = store[x].att
<1>1. UNCHANGED <<store, faults>> \/ Put(m, [store[m] EXCEPT !.told = @ \cup {<<r, event>>}])
  BY Zenon DEF Notice
<1> QED
  BY <1>1 DEF Put, StoreTyped, Entry, Notice

\* A call that leaves every list in the spool as it is.
ToKept == \A m \in Msgs : (Present(m)' <=> Present(m)) /\ store'[m].to = store[m].to

\* A failed store call keeps every list.
LEMMA FaultTo == ASSUME Fault \/ UNCHANGED store PROVE ToKept
  BY Zenon DEF Fault, ToKept, Present

\* ClaimStatus keeps every list.
LEMMA ClaimTo ==
    ASSUME StoreTyped, NEW m \in Msgs, NEW from, NEW st, from # "none", st # "none", Claim(m, from, st)
    PROVE  ToKept
  BY Zenon, ClaimSt DEF ToKept, Present

\* UpdateStatus to a status that stays in the spool keeps every list.
LEMMA SetStatusTo ==
    ASSUME StoreTyped, NEW m \in Msgs, NEW st \in {"pending", "held", "failed"}, TrySetStatus(m, st)
    PROVE  ToKept
<1>1. CASE SetStatus(m, st)
  BY Zenon, <1>1 DEF SetStatus, Put, ToKept, Present, StoreTyped, Entry
<1>2. CASE CallFails(m)
  BY Zenon, <1>2, FaultTo DEF CallFails
<1> QED
  BY Zenon, <1>1, <1>2 DEF TrySetStatus

\* Storing a notice keeps every list.
LEMMA NoticeTo ==
    ASSUME StoreTyped, NEW m \in Msgs, NEW r, NEW event, Notice(m, r, event) PROVE ToKept
  BY Zenon, NoticeSt DEF ToKept, Present

-----------------------------------------------------------------------------
(* Recipients.                                                             *)

\* Counter f of message m goes up at r.
Bumped(f, g, m, r) == g = [f EXCEPT ![m][r] = Count(@)]

\* A bumped counter is positive and no counter went down.
LEMMA Counted ==
    ASSUME NEW S, NEW f \in [Msgs -> [S -> Nat]], NEW m \in Msgs, NEW r \in S, NEW g,
           Bumped(f, g, m, r)
    PROVE  /\ g[m][r] = Count(f[m][r]) /\ g[m][r] > 0 /\ g[m][r] >= f[m][r]
           /\ \A x \in Msgs, y \in S : x # m \/ y # r => g[x][y] = f[x][y]
           /\ \A x \in Msgs, y \in S : g[x][y] >= f[x][y]
<1>1. g[m][r] = Count(f[m][r]) /\ \A x \in Msgs, y \in S : x # m \/ y # r => g[x][y] = f[x][y]
  BY Zenon DEF Bumped
<1>2. f[m][r] \in Nat /\ \A x \in Msgs, y \in S : f[x][y] \in Nat
  OBVIOUS
<1>3. Count(f[m][r]) > 0 /\ Count(f[m][r]) >= f[m][r]
  BY <1>2, QueueAssumption DEF Count
<1> QED
  BY <1>1, <1>2, <1>3

\* What one step of worker w writes of its own variables.
LEMMA AttemptedWork ==
    ASSUME WorkTyped, NEW w \in Workers, NEW r, NEW ok \in BOOLEAN, Attempted(w, r, ok)
    PROVE  /\ \A v \in Workers \ {w} : worker'[v] = worker[v]
           /\ worker'[w].pc = "checkpoint" /\ worker'[w].id = worker[w].id
           /\ worker'[w].started = worker[w].started /\ worker'[w].rcpt = {}
           /\ worker'[w].todo = worker[w].todo \ {r}
           /\ ok => worker'[w].remaining = worker[w].remaining
           /\ ~ok => worker'[w].remaining = worker[w].remaining \cup {r}
  BY DEF Attempted, WorkTyped, Job

\* A worker that only moves to another step keeps its lists.
LEMMA MovedWork ==
    ASSUME WorkTyped, NEW w \in Workers, NEW pc, worker' = [worker EXCEPT ![w].pc = pc]
    PROVE  /\ \A v \in Workers \ {w} : worker'[v] = worker[v]
           /\ worker'[w].pc = pc /\ worker'[w].id = worker[w].id
           /\ worker'[w].started = worker[w].started /\ worker'[w].rcpt = worker[w].rcpt
           /\ worker'[w].todo = worker[w].todo /\ worker'[w].remaining = worker[w].remaining
  BY Zenon DEF WorkTyped, Job

\* A worker whose recipient r was accepted reports it, or has done with it.
LEMMA AcceptedWork ==
    ASSUME WorkTyped, NEW w \in Workers, NEW r, Accepted(w, r)
    PROVE  /\ \A v \in Workers \ {w} : worker'[v] = worker[v]
           /\ worker'[w].id = worker[w].id /\ worker'[w].started = worker[w].started
           /\ worker'[w].remaining = worker[w].remaining
           /\ \/ worker'[w].pc = "notify" /\ UNCHANGED <<worker[w].todo, worker[w].rcpt>>
              \/ worker'[w].pc = "checkpoint" /\ worker'[w].todo = worker[w].todo \ {r}
<1>1. CASE "SUCCESS" \in Notify
  <2>1. worker' = [worker EXCEPT ![w].pc = "notify"]
    BY Zenon, <1>1 DEF Accepted
  <2> QED
    BY Zenon, <2>1, MovedWork
<1>2. CASE "SUCCESS" \notin Notify
  <2>1. Attempted(w, r, TRUE)
    BY Zenon, <1>2 DEF Accepted
  <2> QED
    BY Zenon, <2>1, AttemptedWork
<1> QED
  BY Zenon, <1>1, <1>2

\* A worker that returns is idle; the others do not move.
LEMMA ReturnWork ==
    ASSUME WorkTyped, NEW w \in Workers, Return(w)
    PROVE  (\A v \in Workers \ {w} : worker'[v] = worker[v]) /\ worker'[w] = NoWork
  BY Zenon DEF Return, WorkTyped

\* One more remote delivery of m to r, and no other count changes.
LEMMA SentMore ==
    ASSUME WorldTyped, NEW m \in Msgs, NEW r \in Rcpts, sent' = [sent EXCEPT ![m][r] = Count(@)]
    PROVE  /\ sent'[m][r] = Count(sent[m][r]) /\ sent'[m][r] > 0
           /\ \A x \in Msgs, y \in Rcpts : x # m \/ y # r => sent'[x][y] = sent[x][y]
           /\ \A x \in Msgs, y \in Rcpts : sent'[x][y] >= sent[x][y]
<1>1. sent \in [Msgs -> [Rcpts -> Nat]]
  BY Zenon DEF WorldTyped
<1>2. Bumped(sent, sent', m, r)
  BY Zenon DEF Bumped
<1> QED
  BY <1>1, <1>2, Counted

-----------------------------------------------------------------------------
(* Owners, attempts and notices.                                           *)

-----------------------------------------------------------------------------
(* Owners.                                                                 *)

\* A step after which nobody holds a message they did not hold before.
Shrinks ==
    /\ \A m \in Msgs : sess'[m] = "claimed" => sess[m] = "claimed"
    /\ \A m \in Msgs : Taken(m) => Taken(m)'
    /\ chan' = chan \/ chan' = <<>>
    /\ \A w \in Workers : Working(w)' =>
         Working(w) /\ worker'[w].id = worker[w].id /\ (Early(w)' => Early(w))
    /\ sched'.cur \subseteq sched.cur
    /\ deleted \subseteq deleted' /\ faults <= faults'

\* What such a step may do to message m: nothing, or its holder lets go; its
\* holder claims it for processing; it waits, released; or it is gone.
Fate(m) ==
    \/ /\ store'[m].st = store[m].st /\ (m \in deleted' => m \in deleted)
       /\ Held(m) => Held(m)' \/ faults' > 0 \/ store[m].st = "none"
    \/ /\ store[m].st = "queued" /\ store'[m].st = "processing" /\ (m \in deleted' => m \in deleted)
       /\ \E w \in Workers : Working(w)' /\ worker'[w].id = m /\ ~Early(w)'
       /\ Taken(m)'
    \/ /\ store'[m].st \notin {"none", "queued", "processing"} /\ ~Held(m)'
       /\ Taken(m)' /\ m \notin deleted'
    \/ store'[m].st = "none" /\ Taken(m)' /\ (m \in deleted' \/ ~Held(m)')

\* After such a step every message still has at most one owner.
LEMMA Shrunk ==
    ASSUME Types, Types', Owned, Shrinks, \A m \in Msgs : Fate(m)
    PROVE  Owned'
<1>  /\ StoreTyped /\ ChanTyped /\ PassTyped
      /\ StoreTyped' /\ WorkTyped' /\ WorldTyped'
  BY Parts, PTL DEF Types
<1>0. /\ faults \in Nat /\ faults' \in Nat
      /\ \A i \in DOMAIN chan : chan[i].id \in Msgs
      /\ \A w \in Workers : worker'[w].id \in Msgs
      /\ \A e \in sched.cur : e.id \in Msgs
      /\ deleted' \subseteq Msgs
  <2>1. \A i \in DOMAIN chan : chan[i] \in [id : Msgs, to : SUBSET Rcpts]
    BY Zenon, ChanElement
  <2>2. \A w \in Workers : worker'[w].id \in Msgs
    BY Zenon DEF WorkTyped, Job
  <2>3. \A e \in sched.cur : e.id \in Msgs
    BY Zenon DEF PassTyped, Pass, Copy
  <2> QED
    BY Zenon, <2>1, <2>2, <2>3 DEF StoreTyped, WorldTyped
<1>1. DOMAIN chan' \subseteq DOMAIN chan /\ \A i \in DOMAIN chan' : chan'[i] = chan[i]
  BY DEF Shrinks
<1>2. Exclusive'
  BY <1>0, <1>1 DEF Owned, Exclusive, Shrinks
<1>3. Claimed'
  <2>0. /\ \A w \in Workers, i \in DOMAIN chan' : Working(w)' => chan'[i].id # worker'[w].id
        /\ \A w \in Workers, e \in sched'.cur : Working(w)' => worker'[w].id # e.id
        /\ \A v, w \in Workers : Working(v)' /\ Working(w)' /\ worker'[v].id = worker'[w].id => v = w
    BY Zenon, <1>2 DEF Exclusive
  <2>1. ASSUME NEW m \in Msgs, sess'[m] = "claimed" PROVE store'[m].st = "queued" \/ m \in deleted'
    BY <1>0, <2>1 DEF Owned, Claimed, Shrinks, Fate, Held, Exclusive
  <2>2. ASSUME NEW i \in DOMAIN chan' 
        PROVE store'[chan'[i].id].st = "queued" \/ chan'[i].id \in deleted'
    BY <1>0, <1>1, <2>0, <2>2 DEF Owned, Claimed, Shrinks, Fate, Held
  <2>3. ASSUME NEW e \in sched'.cur 
        PROVE store'[e.id].st = "queued" \/ e.id \in deleted'
    BY <1>0, <2>0, <2>3 DEF Owned, Claimed, Shrinks, Fate, Held
  <2>4. ASSUME NEW w \in Workers, Early(w)'
        PROVE store'[worker'[w].id].st = "queued" \/ worker'[w].id \in deleted'
    BY <1>0, <2>0, <2>4 DEF Owned, Claimed, Shrinks, Fate, Held, Working, Early
  <2>5. ASSUME NEW w \in Workers, Working(w)'
        PROVE store'[worker'[w].id].st \in {"queued", "processing"} \/ worker'[w].id \in deleted'
    BY <1>0, <2>5 DEF Owned, Claimed, Shrinks, Fate, Held
  <2>6. ASSUME NEW m \in deleted' PROVE store'[m].st = "none"
    BY Zenon, <1>0, <2>6 DEF Owned, Claimed, Shrinks, Fate
  <2>7. ASSUME NEW m \in Msgs, ~Taken(m)' PROVE store'[m].st = "none" /\ m \notin deleted'
    BY Zenon, <1>0, <2>7 DEF Owned, Claimed, Shrinks, Fate
  <2> QED
    BY Zenon, <2>1, <2>2, <2>3, <2>4, <2>5, <2>6, <2>7 DEF Claimed
<1>4. NoneStranded'
  <2> SUFFICES ASSUME faults' = 0, NEW m \in Msgs, store'[m].st \in {"queued", "processing"}
               PROVE  Held(m)'
    BY Zenon DEF NoneStranded
  <2>1. faults = 0
    BY <1>0 DEF Shrinks
  <2>2. store[m].st \in {"queued", "processing"} => Held(m)
    BY Zenon, <2>1 DEF Owned, NoneStranded
  <2> QED
    BY <1>0, <2>2 DEF Fate, Held
<1> QED
  BY Zenon, <1>2, <1>3, <1>4 DEF Owned

\* Worker w goes on with its message.
GoesOn(w) ==
    /\ Working(w) /\ Working(w)' /\ worker'[w].id = worker[w].id /\ (Early(w)' => Early(w))
    /\ \A v \in Workers \ {w} : worker'[v] = worker[v]
    /\ \A m \in Msgs : store'[m].st = store[m].st
    /\ UNCHANGED <<sess, chan, sched, deleted>> /\ faults <= faults'

\* That keeps the ownership of every message.
LEMMA GoesOnOwned ==
    ASSUME Types, Types', Owned, NEW w \in Workers, GoesOn(w) PROVE Owned'
<1>1. Shrinks
  BY Zenon DEF Shrinks, GoesOn, Working, Early, Taken
<1>2. ASSUME NEW m \in Msgs PROVE Fate(m)
  <2>1. Held(m) => Held(m)'
    BY Zenon DEF Held, GoesOn, Working
  <2> QED
    BY Zenon, <2>1 DEF Fate, GoesOn
<1> QED
  BY Zenon, <1>1, <1>2, Shrunk

\* How the entry of message m, whose only holder lets it go, is left.
LetGo(m) ==
    /\ \A x \in Msgs \ {m} : store'[x] = store[x]
    /\ UNCHANGED deleted /\ faults <= faults'
    /\ \/ store'[m].st = "none"
       \/ Present(m) /\ store'[m].st \notin {"none", "queued", "processing"}
       \/ store'[m].st = store[m].st /\ faults' > 0

\* When the holder of m lets go, that is what happens to every message.
LEMMA LetGoFate ==
    ASSUME Types, Owned, NEW m \in Msgs, Held(m), LetGo(m), ~Held(m)', Taken(m) => Taken(m)',
           \A x \in Msgs \ {m} : Held(x) => Held(x)'
    PROVE  \A x \in Msgs : Fate(x)
<1>  StoreTyped /\ ChanTyped /\ PassTyped /\ WorkTyped
  BY Zenon, Parts DEF Types
<1>1. Taken(m) /\ (Present(m) => m \notin deleted)
  BY DEF Owned, Claimed, Held, Taken, Present
<1>2. Fate(m)
  BY Zenon, <1>1 DEF LetGo, Fate, Present
<1>3. ASSUME NEW x \in Msgs \ {m} PROVE Fate(x)
  BY Zenon, <1>3 DEF LetGo, Fate
<1> QED
  BY Zenon, <1>2, <1>3

\* A worker that returns after settling its message keeps ownership.
LEMMA WorkerLetsGo ==
    ASSUME Types, Types', Owned, NEW w \in Workers, Working(w), Return(w), LetGo(worker[w].id),
           UNCHANGED <<sess, chan, sched>>
    PROVE  Owned'
<1>  WorkTyped
  BY Zenon, Parts DEF Types
<1>m. PICK m \in Msgs : worker[w].id = m
  BY Zenon DEF WorkTyped, Job
<1>1. /\ \A v \in Workers \ {w} : worker'[v] = worker[v]
      /\ ~Working(w)' /\ ~Early(w)'
  BY Zenon, NoWorkType DEF Return, WorkTyped, Working, Early
<1>2. Shrinks
  BY Zenon, <1>1 DEF Shrinks, LetGo, Working, Early, Taken
<1>3. Held(m) /\ ~Held(m)'
  BY <1>m, <1>1 DEF Held, Owned, Exclusive, Working
<1>4. \A x \in Msgs \ {m} : Held(x) => Held(x)'
  BY <1>m, <1>1 DEF Held, Working
<1> QED
  BY Zenon, <1>m, <1>2, <1>3, <1>4, LetGoFate, Shrunk DEF Taken

\* So does Enqueue when it takes its claim back.
LEMMA SessionLetsGo ==
    ASSUME Types, Types', Owned, NEW m \in Msgs, sess[m] = "claimed",
           sess' = [sess EXCEPT ![m] = "done"], LetGo(m), UNCHANGED <<chan, worker, sched>>
    PROVE  Owned'
<1>  SessTyped
  BY Zenon, Parts DEF Types
<1>1. sess'[m] = "done" /\ \A x \in Msgs \ {m} : sess'[x] = sess[x]
  BY Zenon DEF SessTyped
<1>2. Shrinks
  BY Zenon, <1>1 DEF Shrinks, LetGo, Working, Early, Taken
<1>3. Held(m) /\ ~Held(m)'
  BY <1>1 DEF Held, Owned, Exclusive, Working
<1>4. \A x \in Msgs \ {m} : Held(x) => Held(x)'
  BY Zenon, <1>1 DEF Held, Working
<1>5. Taken(m)'
  BY Zenon, <1>1 DEF Taken
<1> QED
  BY Zenon, <1>2, <1>3, <1>4, <1>5, LetGoFate, Shrunk

\* So does the scheduler when it is done with the entry it claimed.
LEMMA SchedulerLetsGo ==
    ASSUME Types, Types', Owned, NEW e \in sched.cur, LetGo(e.id), Scan,
           UNCHANGED <<sess, chan, worker>>
    PROVE  Owned'
<1>  PassTyped
  BY Zenon, Parts DEF Types
<1>1. sched'.cur = {} /\ e.id \in Msgs
  BY Zenon DEF PassTyped, Pass, Copy, Scan
<1>2. Shrinks
  BY Zenon, <1>1 DEF Shrinks, LetGo, Working, Early, Taken
<1>3. Held(e.id) /\ ~Held(e.id)'
  BY Zenon, <1>1 DEF Held, Owned, Exclusive, Working
<1>4. \A x \in Msgs \ {e.id} : Held(x) => Held(x)'
  BY Zenon, <1>1 DEF Held, Working, Owned, Exclusive
<1> QED
  BY Zenon, <1>1, <1>2, <1>3, <1>4, LetGoFate, Shrunk DEF Taken

\* The claim of Enqueue gives the message its first owner.
LEMMA EnqueueClaimOwned ==
    ASSUME Types, Types', Owned, NEW m \in Msgs, sess[m] = "stored", Claim(m, "pending", "queued"),
           sess' = [sess EXCEPT ![m] = "claimed"], UNCHANGED <<chan, worker, sched, deleted>>
    PROVE  Owned'
<1>  StoreTyped /\ SessTyped /\ ChanTyped /\ PassTyped /\ WorkTyped
  BY Zenon, Parts DEF Types
<1>1. /\ store'[m].st = "queued" /\ \A x \in Msgs \ {m} : store'[x] = store[x]
      /\ sess'[m] = "claimed" /\ \A x \in Msgs \ {m} : sess'[x] = sess[x]
      /\ faults' = faults
  BY ClaimSt DEF SessTyped
<1>2. ~Held(m) /\ m \notin deleted
  BY PendingFree, ClaimSt
<1>0. /\ \A i \in DOMAIN chan : chan[i].id \in Msgs \ {m}
      /\ \A w \in Workers : Working(w) => worker[w].id \in Msgs \ {m}
      /\ \A e \in sched.cur : e.id \in Msgs \ {m}
      /\ deleted \subseteq Msgs
  <2>1. \A i \in DOMAIN chan : chan[i].id \in Msgs
    BY Zenon, ChanElement
  <2>2. deleted \subseteq Msgs
    BY Zenon, Parts DEF Types, WorldTyped
  <2> QED
    BY Zenon, <1>2, <2>1, <2>2 DEF Held, PassTyped, Pass, Copy, WorkTyped, Job
<1>3. Exclusive'
  BY <1>0, <1>1 DEF Owned, Exclusive, Working
<1>4. Claimed'
  BY <1>0, <1>1, <1>2 DEF Owned, Claimed, Working, Early, Taken
<1>5. NoneStranded'
  BY Zenon, <1>1 DEF Owned, NoneStranded, Held, Working
<1> QED
  BY Zenon, <1>3, <1>4, <1>5 DEF Owned

\* The claim of the scheduler gives a pending message its owner.
LEMMA RetryClaimOwned ==
    ASSUME Types, Types', Owned, NEW e \in sched.list, RetryClaim(e)
    PROVE  Owned'
<1>  StoreTyped /\ SessTyped /\ ChanTyped /\ PassTyped /\ WorkTyped
  BY Zenon, Parts DEF Types
<1>m. PICK m \in Msgs : e.id = m
  BY Zenon DEF PassTyped, Pass, Copy
<1>1. /\ store'[m].st = "queued" /\ \A x \in Msgs \ {m} : store'[x] = store[x]
      /\ faults' = faults
  BY <1>m, ClaimSt DEF RetryClaim
<1>c. sched.cur = {} /\ sched'.cur = {e} /\ UNCHANGED <<sess, chan, worker, deleted>>
  BY Zenon DEF RetryClaim, PassTyped, Pass, world
<1>2. ~Held(m) /\ m \notin deleted /\ Taken(m)
  BY <1>m, PendingFree, ClaimSt DEF RetryClaim
<1>0. /\ \A i \in DOMAIN chan : chan[i].id \in Msgs \ {m}
      /\ \A w \in Workers : Working(w) => worker[w].id \in Msgs \ {m}
      /\ sess[m] # "claimed"
      /\ deleted \subseteq Msgs
  <2>1. \A i \in DOMAIN chan : chan[i].id \in Msgs
    BY Zenon, ChanElement
  <2>2. deleted \subseteq Msgs
    BY Zenon, Parts DEF Types, WorldTyped
  <2> QED
    BY Zenon, <1>2, <2>1, <2>2 DEF Held, WorkTyped, Job
<1>3. Exclusive'
  BY <1>0, <1>1, <1>c, <1>m DEF Owned, Exclusive, Working
<1>4. Claimed'
  BY <1>0, <1>1, <1>2, <1>c, <1>m DEF Owned, Claimed, Working, Early, Taken
<1>5. NoneStranded'
  BY Zenon, <1>1, <1>c, <1>m DEF Owned, NoneStranded, Held, Working
<1> QED
  BY Zenon, <1>3, <1>4, <1>5 DEF Owned

\* Sending hands the message from the session or the scheduler to the channel.
LEMMA SendOwned ==
    ASSUME Types, Types', Owned, NEW m \in Msgs, NEW to \in SUBSET Rcpts,
           chan' = Append(chan, [id |-> m, to |-> to]), UNCHANGED <<store, worker, faults, deleted>>,
           \/ sess[m] = "claimed" /\ sess' = [sess EXCEPT ![m] = "done"] /\ UNCHANGED sched
           \/ (\E e \in sched.cur : e.id = m) /\ sched'.cur = {} /\ UNCHANGED sess
    PROVE  Owned'
<1>  StoreTyped /\ SessTyped /\ ChanTyped /\ PassTyped /\ WorkTyped
  BY Zenon, Parts DEF Types
<1>a. [id |-> m, to |-> to] \in [id : Msgs, to : SUBSET Rcpts]
  BY Zenon
<1>1. PICK n \in DOMAIN chan' :
        /\ n \notin DOMAIN chan /\ DOMAIN chan' = DOMAIN chan \cup {n}
        /\ chan'[n].id = m /\ \A i \in DOMAIN chan : chan'[i] = chan[i]
  BY <1>a, Appended
<1>2. /\ \A x \in Msgs : sess'[x] = "claimed" => x # m /\ sess[x] = "claimed"
      /\ \A x \in Msgs : sess[x] = "claimed" => x = m \/ sess'[x] = "claimed"
      /\ \A x \in Msgs : Taken(x)' <=> Taken(x)
      /\ \A e \in sched'.cur : e \in sched.cur /\ e.id # m
      /\ \A e \in sched.cur : e.id = m \/ e \in sched'.cur
      /\ \A i \in DOMAIN chan : chan[i].id # m
      /\ \A w \in Workers : Working(w) => worker[w].id # m
      /\ store[m].st = "queued" \/ m \in deleted
  <2>1. CASE sess[m] = "claimed" /\ sess' = [sess EXCEPT ![m] = "done"] /\ UNCHANGED sched
    BY Zenon, <2>1 DEF Owned, Exclusive, Claimed, SessTyped, Taken
  <2>2. CASE (\E e \in sched.cur : e.id = m) /\ sched'.cur = {} /\ UNCHANGED sess
    BY <2>2 DEF Owned, Exclusive, Claimed, SessTyped, Taken
  <2> QED
    BY Zenon, <2>1, <2>2
<1>3. /\ \A i \in DOMAIN chan : chan[i].id \in Msgs
      /\ \A w \in Workers : worker[w].id \in Msgs
      /\ \A e \in sched.cur : e.id \in Msgs
  <2>1. \A i \in DOMAIN chan : chan[i].id \in Msgs
    BY Zenon, ChanElement
  <2> QED
    BY Zenon, <2>1 DEF PassTyped, Pass, Copy, WorkTyped, Job
<1>4. Exclusive'
  BY <1>1, <1>2, <1>3 DEF Owned, Exclusive, Working
<1>5. Claimed'
  BY ZenonT(30), <1>1, <1>2, <1>3 DEF Owned, Claimed, Working, Early, Taken
<1>6. NoneStranded'
  <2> SUFFICES ASSUME NEW x \in Msgs, Held(x) PROVE Held(x)'
    BY Zenon DEF Owned, NoneStranded
  <2> QED
    BY <1>1, <1>2 DEF Held, Working
<1> QED
  BY Zenon, <1>4, <1>5, <1>6 DEF Owned

\* Receiving hands it on to the worker.
LEMMA TakeOwned ==
    ASSUME Types, Types', Owned, NEW w \in Workers, WorkerTake(w)
    PROVE  Owned'
<1>  StoreTyped /\ SessTyped /\ ChanTyped /\ PassTyped /\ WorkTyped /\ WorldTyped
  BY Zenon, Parts DEF Types
<1>1. /\ 1 \in DOMAIN chan /\ chan[1] = Head(chan)
      /\ \A i \in DOMAIN chan' : i \in Nat /\ i # 0 /\ i + 1 \in DOMAIN chan /\ chan'[i] = chan[i + 1]
      /\ \A i \in DOMAIN chan : i = 1 \/ \E j \in DOMAIN chan' : chan'[j] = chan[i]
  BY Zenon, Received DEF WorkerTake
<1>2. /\ worker'[w].id = chan[1].id /\ Working(w)' /\ Early(w)' /\ ~Working(w)
      /\ \A v \in Workers \ {w} : worker'[v] = worker[v]
  BY Zenon, <1>1, NoWorkType DEF WorkerTake, WorkTyped, Working, Early, Job, Busy, NoWork
<1>u. UNCHANGED <<store, sess, sched, deleted, faults>>
  BY Zenon DEF WorkerTake, world
<1>3. /\ \A i \in DOMAIN chan : chan[i].id \in Msgs
      /\ \A i \in DOMAIN chan' : chan'[i].id # chan[1].id
  <2>1. \A i \in DOMAIN chan : chan[i].id \in Msgs
    BY Zenon, ChanElement
  <2>2. ASSUME NEW i \in DOMAIN chan' PROVE chan'[i].id # chan[1].id
    BY <1>1 DEF Owned, Exclusive
  <2> QED
    BY Zenon, <2>1, <2>2
<1>4. Exclusive'
  <2>1. \A i, j \in DOMAIN chan' : chan'[i].id = chan'[j].id => i = j
    BY <1>1 DEF Owned, Exclusive
  <2> QED
    BY <1>1, <1>2, <1>3, <1>u, <2>1 DEF Owned, Exclusive, Working
<1>5. Claimed'
  BY <1>1, <1>2, <1>3, <1>u DEF Owned, Claimed, Working, Early, Taken
<1>6. NoneStranded'
  <2> SUFFICES ASSUME NEW x \in Msgs, Held(x) PROVE Held(x)'
    BY Zenon, <1>u DEF Owned, NoneStranded
  <2> QED
    BY <1>1, <1>2, <1>u DEF Held, Working
<1> QED
  BY Zenon, <1>4, <1>5, <1>6 DEF Owned

\* Store calls that let a message go.
LEMMA SetStatusLetsGo ==
    ASSUME Types, Types', Owned, NEW m \in Msgs, Held(m), NEW st \in {"pending", "failed", "delivered"},
           TrySetStatus(m, st), UNCHANGED deleted
    PROVE  LetGo(m)
<1>  StoreTyped /\ StoreTyped'
  BY Parts, PTL DEF Types
<1>1. CASE SetStatus(m, st)
  BY <1>1 DEF SetStatus, Put, LetGo, StoreTyped, Entry, Absent, Present
<1>2. CASE CallFails(m)
  BY <1>2 DEF CallFails, Fault, LetGo, StoreTyped, Present
<1> QED
  BY Zenon, <1>1, <1>2 DEF TrySetStatus

\* Every step of Enqueue keeps ownership.
LEMMA SessionOwned == ASSUME Types, Types', Owned, Session PROVE Owned'
<1>  StoreTyped /\ SessTyped /\ WorldTyped
  BY Zenon, Parts DEF Types
<1>1. ASSUME NEW m \in Msgs, EnqueueStore(m) PROVE Owned'
  <2>1. /\ \A x \in Msgs \ {m} : store'[x] = store[x] /\ sess'[x] = sess[x]
        /\ \/ store'[m].st \in Arrivals /\ sess'[m] \in {"stored", "done"} /\ faults' = faults
           \/ store'[m].st = store[m].st /\ sess'[m] = "rejected" /\ faults' > 0 /\ faults <= faults'
    <3>1. CASE \E st \in Arrivals :
                 /\ Put(m, [Absent EXCEPT !.st = st, !.to = Rcpts])
                 /\ sess' = [sess EXCEPT ![m] = IF st = "pending" THEN "stored" ELSE "done"]
      BY <3>1 DEF Put, StoreTyped, SessTyped, Absent
    <3>2. CASE Fault /\ sess' = [sess EXCEPT ![m] = "rejected"]
      BY <3>2 DEF Fault, StoreTyped, SessTyped
    <3> QED
      BY Zenon, <1>1, <3>1, <3>2 DEF EnqueueStore
  <2>2. UNCHANGED <<chan, worker, sched, deleted>> /\ sess[m] = "new"
    BY Zenon, <1>1 DEF EnqueueStore, world
  <2>3. store[m].st = "none" /\ m \notin deleted /\ ~Held(m)
    BY Zenon, <2>2 DEF Owned, Claimed, Held, Taken
  <2>4. Shrinks
    BY <2>1, <2>2 DEF Shrinks, Working, Early, Taken, StoreTyped
  <2>5. ~Held(m)' /\ \A x \in Msgs \ {m} : Held(x) => Held(x)'
    BY Zenon, <2>1, <2>2, <2>3 DEF Held, Working
  <2>6. ASSUME NEW x \in Msgs PROVE Fate(x)
    BY Zenon, QueueAssumption, <2>1, <2>2, <2>3, <2>5 DEF Fate, Taken
  <2> QED
    BY Zenon, <2>4, <2>6, Shrunk
<1>2. ASSUME NEW m \in Msgs, EnqueueClaim(m) PROVE Owned'
  <2>u. UNCHANGED <<chan, worker, sched, deleted>> /\ sess[m] = "stored"
    BY Zenon, <1>2 DEF EnqueueClaim, world
  <2>1. CASE Claim(m, "pending", "queued") /\ sess' = [sess EXCEPT ![m] = "claimed"]
    BY Zenon, <2>u, <2>1, EnqueueClaimOwned
  <2>2. CASE (Lost(m, "pending") \/ Fault) /\ sess' = [sess EXCEPT ![m] = "done"]
    <3>1. store' = store /\ faults <= faults' /\ sess'[m] = "done"
          /\ \A x \in Msgs \ {m} : sess'[x] = sess[x]
      BY <2>2 DEF Lost, Fault, StoreTyped, SessTyped
    <3>2. Shrinks
      BY Zenon, <2>u, <3>1 DEF Shrinks, Working, Early, Taken
    <3>3. ASSUME NEW x \in Msgs PROVE Fate(x)
      BY Zenon, <2>u, <3>1 DEF Fate, Held, Working
    <3> QED
      BY Zenon, <3>2, <3>3, Shrunk
  <2> QED
    BY Zenon, <1>2, <2>1, <2>2 DEF EnqueueClaim
<1>3. ASSUME NEW m \in Msgs, EnqueueSend(m) PROVE Owned'
  <2>u. /\ UNCHANGED <<worker, sched, deleted>> /\ sess[m] = "claimed"
        /\ sess' = [sess EXCEPT ![m] = "done"]
    BY Zenon, <1>3 DEF EnqueueSend, world
  <2>1. CASE chan' = Append(chan, [id |-> m, to |-> Rcpts]) /\ UNCHANGED <<store, faults>>
    BY Zenon, <2>u, <2>1, SendOwned
  <2>2. CASE TrySetStatus(m, "pending") /\ UNCHANGED chan
    <3>1. LetGo(m)
      BY Zenon, <2>u, <2>2, SetStatusLetsGo DEF Held
    <3> QED
      BY Zenon, <2>u, <2>2, <3>1, SessionLetsGo
  <2> QED
    BY Zenon, <1>3, <2>1, <2>2 DEF EnqueueSend, Send
<1> QED
  BY Zenon, <1>1, <1>2, <1>3 DEF Session

\* A worker that claims its message, and one that finds it gone.
LEMMA ClaimsOwned ==
    ASSUME Types, Types', Owned, NEW w \in Workers, Early(w), Claim(worker[w].id, "queued", "processing"),
           Working(w)', ~Early(w)', worker'[w].id = worker[w].id,
           \A v \in Workers \ {w} : worker'[v] = worker[v],
           UNCHANGED <<sess, chan, sched, deleted>>
    PROVE  Owned'
<1>  StoreTyped /\ WorkTyped
  BY Zenon, Parts DEF Types
<1>m. PICK m \in Msgs : worker[w].id = m
  BY Zenon DEF WorkTyped, Job
<1>1. /\ store[m].st = "queued" /\ store'[m].st = "processing" /\ faults' = faults
      /\ \A x \in Msgs \ {m} : store'[x] = store[x]
  BY <1>m, ClaimSt
<1>2. Shrinks
  BY <1>1 DEF Shrinks, Early, Working, Taken, StoreTyped
<1>3. \A x \in Msgs : Held(x) => Held(x)'
  BY Zenon DEF Held, Working
<1>4. Taken(m)' /\ m \notin deleted'
  BY Zenon, <1>1 DEF Owned, Claimed, Taken
<1>5. Fate(m)
  BY Zenon, <1>1, <1>m, <1>4 DEF Fate
<1>6. ASSUME NEW x \in Msgs \ {m} PROVE Fate(x)
  BY Zenon, <1>1, <1>3 DEF Fate
<1> QED
  BY Zenon, <1>2, <1>5, <1>6, Shrunk

\* A worker that loses its claim, or whose claim fails, drops the message.
LEMMA LosesOwned ==
    ASSUME Types, Types', Owned, NEW w \in Workers, Early(w), Return(w),
           Lost(worker[w].id, "queued") \/ Fault, UNCHANGED <<sess, chan, sched, deleted>>
    PROVE  Owned'
<1>  StoreTyped /\ WorkTyped
  BY Zenon, Parts DEF Types
<1>1. worker[w].id \in Msgs /\ Working(w)
  BY Zenon DEF WorkTyped, Job, Early, Working
<1>2. Lost(worker[w].id, "queued") => store[worker[w].id].st = "none"
  BY Zenon, <1>1 DEF Owned, Claimed, Lost
<1>3. LetGo(worker[w].id)
  BY <1>1, <1>2 DEF LetGo, Lost, Fault, StoreTyped
<1> QED
  BY Zenon, <1>1, <1>3, WorkerLetsGo

\* Every step of a worker keeps ownership.
LEMMA WorkerOwned ==
    ASSUME Types, Types', Owned, NEW w \in Workers, WorkerStep(w) \/ WorkerDefer(w) PROVE Owned'
<1>  StoreTyped /\ WorkTyped
  BY Zenon, Parts DEF Types
<1>k. worker[w].id \in Msgs /\ worker[w] \in Job /\ Sound(worker[w])
  BY Zenon DEF WorkTyped, Job
<1> DEFINE Kept == UNCHANGED <<sess, chan, sched, deleted>>
<1>f. Fault => UNCHANGED store /\ faults <= faults'
  BY DEF Fault, StoreTyped
<1>1. ASSUME NEW r \in Rcpts, WorkerAttempt(w, r) PROVE Owned'
  <2>u. Kept /\ worker[w].pc = "loop"
    BY Zenon, <1>1 DEF WorkerAttempt, Busy, world
  <2> DEFINE k1 == [worker[w] EXCEPT !.pc = "deliver", !.rcpt = {r}]
             k2 == [worker[w] EXCEPT !.pc = "deliver", !.rcpt = {r}, !.started = TRUE]
  <2>1. CASE /\ worker[w].started /\ UNCHANGED <<store, faults>>
             /\ worker' = [worker EXCEPT ![w] = k1]
    <3>1. GoesOn(w)
      BY <1>k, <2>u, <2>1 DEF GoesOn, StoreTyped, WorkTyped, Job, Working, Early
    <3> QED
      BY Zenon, <3>1, GoesOnOwned
  <2>2. CASE /\ ~worker[w].started /\ Claim(worker[w].id, "queued", "processing")
             /\ worker' = [worker EXCEPT ![w] = k2]
    <3>1. /\ Early(w) /\ Working(w)' /\ ~Early(w)' /\ worker'[w].id = worker[w].id
          /\ \A v \in Workers \ {w} : worker'[v] = worker[v]
      BY Zenon, <1>k, <2>u, <2>2 DEF WorkTyped, Job, Working, Early
    <3> QED
      BY Zenon, <2>u, <2>2, <3>1, ClaimsOwned
  <2>3. CASE ~worker[w].started /\ (Lost(worker[w].id, "queued") \/ Fault) /\ Return(w)
    BY Zenon, <2>u, <2>3, LosesOwned DEF Early
  <2> QED
    BY ZenonT(30), <1>1, <2>1, <2>2, <2>3 DEF WorkerAttempt, WorkTyped, Job
<1>2. ASSUME WorkerSuppressed(w) \/ WorkerLocal(w) \/ WorkerRemote(w) PROVE Owned'
  <2>1. /\ worker[w].pc = "deliver" /\ worker[w].started /\ Kept
        /\ UNCHANGED <<store, faults>> \/ Fault
        /\ \E r \in Rcpts : Accepted(w, r) \/ Attempted(w, r, TRUE) \/ Attempted(w, r, FALSE)
    BY ZenonT(30), <1>2, <1>k DEF WorkerSuppressed, WorkerLocal, WorkerRemote, Bounce, Busy, Sound, Job
  <2>2. GoesOn(w)
    <3>1. /\ \A v \in Workers \ {w} : worker'[v] = worker[v]
          /\ worker'[w].pc \in {"notify", "checkpoint"} /\ worker'[w].id = worker[w].id
      <4>1. PICK r \in Rcpts : Accepted(w, r) \/ \E ok \in BOOLEAN : Attempted(w, r, ok)
        BY ZenonT(30), <2>1
      <4>2. CASE Accepted(w, r)
        BY Zenon, <4>2, AcceptedWork
      <4>3. ASSUME NEW ok \in BOOLEAN, Attempted(w, r, ok)
            PROVE  /\ \A v \in Workers \ {w} : worker'[v] = worker[v]
                   /\ worker'[w].pc = "checkpoint" /\ worker'[w].id = worker[w].id
        BY <4>3, AttemptedWork
      <4> QED
        BY Zenon, <4>1, <4>2, <4>3
    <3>2. (\A m \in Msgs : store'[m].st = store[m].st) /\ faults <= faults'
      BY <1>f, <2>1 DEF StoreTyped
    <3> QED
      BY ZenonT(30), <2>1, <3>1, <3>2 DEF GoesOn, Working, Early
  <2> QED
    BY Zenon, <2>2, GoesOnOwned
<1>3. ASSUME WorkerNotify(w) PROVE Owned'
  <2>1. /\ worker[w].pc = "notify" /\ worker[w].started /\ Kept
        /\ \E r \in Rcpts :
             \/ Notice(worker[w].id, r, "SUCCESS") /\ Attempted(w, r, TRUE)
             \/ CallFails(worker[w].id) /\ Attempted(w, r, FALSE)
    BY Zenon, <1>3, <1>k DEF WorkerNotify, Busy, Sound, Job
  <2>2. /\ \A m \in Msgs : store'[m].st = store[m].st
        /\ faults <= faults'
    <3>1. ASSUME CallFails(worker[w].id) PROVE store' = store /\ faults <= faults'
      BY <1>f, <3>1 DEF CallFails, StoreTyped
    <3> QED
      <4>1. faults \in Nat
        BY Zenon DEF StoreTyped
      <4>2. PICK r \in Rcpts : Notice(worker[w].id, r, "SUCCESS") \/ CallFails(worker[w].id)
        BY Zenon, <2>1
      <4>3. CASE Notice(worker[w].id, r, "SUCCESS")
        BY <1>k, <4>1, <4>3, NoticeSt
      <4> QED
        BY Zenon, <3>1, <4>2, <4>3
  <2>3. GoesOn(w)
    <3>1. PICK r \in Rcpts, ok \in BOOLEAN : Attempted(w, r, ok)
      BY Zenon, <2>1
    <3> QED
      BY Zenon, <1>k, <2>1, <2>2, <3>1, AttemptedWork DEF GoesOn, Working, Early
  <2> QED
    BY Zenon, <2>3, GoesOnOwned
<1>4. ASSUME WorkerCheckpoint(w) \/ WorkerFinal(w) PROVE Owned'
  <2>1. PICK left \in SUBSET Rcpts, next \in {"loop", "finish", "retain"} :
          Checkpoint(w, left, next) /\ (next = "loop" => worker[w].started)
    <3>1. CASE WorkerCheckpoint(w)
      BY Zenon, <3>1, <1>k DEF WorkerCheckpoint, Busy, Sound, Job
    <3>2. CASE WorkerFinal(w)
      BY Zenon, <3>2, <1>k DEF WorkerFinal, Job
    <3> QED
      BY Zenon, <1>4, <3>1, <3>2
  <2>2. worker[w].pc # "idle" /\ Kept
    BY Zenon, <1>4 DEF WorkerCheckpoint, WorkerFinal, Busy, Checkpoint, world
  <2>3. /\ \A m \in Msgs : store'[m].st = store[m].st
        /\ faults <= faults'
    <3>1. \A m \in Msgs : store'[m].st = store[m].st
      BY <1>k, <1>f, <2>1 DEF Checkpoint, CallFails, Put, StoreTyped, Entry
    <3>2. faults <= faults'
      BY <1>f, <2>1 DEF Checkpoint, CallFails, Put, StoreTyped
    <3> QED
      BY Zenon, <3>1, <3>2
  <2>4. GoesOn(w)
    BY <1>k, <2>1, <2>2, <2>3, MovedWork DEF Checkpoint, GoesOn, Working, Early
  <2> QED
    BY Zenon, <2>4, GoesOnOwned
<1>5. ASSUME WorkerRetain(w) \/ WorkerPreserved(w) PROVE Owned'
  <2>1. /\ Working(w) /\ Return(w) /\ Kept
        /\ TrySetStatus(worker[w].id, "pending") \/ TrySetStatus(worker[w].id, "delivered")
    BY Zenon, <1>5 DEF WorkerRetain, WorkerPreserved, Busy, Working, world
  <2>2. LetGo(worker[w].id)
    BY Zenon, <1>k, <2>1, SetStatusLetsGo DEF Held
  <2> QED
    BY Zenon, <2>1, <2>2, WorkerLetsGo
<1>6. ASSUME WorkerFinish(w) PROVE Owned'
  <2>1. Working(w) /\ Kept /\ worker[w].pc = "finish"
    BY Zenon, <1>6 DEF WorkerFinish, Busy, Working, world
  <2>2. CASE SetStatus(worker[w].id, "delivered") /\ Return(w)
    <3>1. LetGo(worker[w].id)
      BY Zenon, <1>k, <2>1, <2>2, SetStatusLetsGo DEF Held, TrySetStatus
    <3> QED
      BY Zenon, <2>1, <2>2, <3>1, WorkerLetsGo
  <2>3. CASE CallFails(worker[w].id) /\ worker' = [worker EXCEPT ![w].pc = "retain"]
    <3>1. GoesOn(w)
      BY <1>f, <2>1, <2>3, MovedWork DEF GoesOn, Working, Early, CallFails, StoreTyped
    <3> QED
      BY Zenon, <3>1, GoesOnOwned
  <2> QED
    BY Zenon, <1>6, <2>2, <2>3 DEF WorkerFinish
<1>7. ASSUME WorkerPreserve(w) PROVE Owned'
  <2>1. Working(w) /\ Kept /\ worker[w].pc = "custody"
    BY Zenon, <1>7 DEF WorkerPreserve, Busy, Working
  <2>2. GoesOn(w)
    BY <1>f, <1>7, <2>1, MovedWork DEF WorkerPreserve, GoesOn, Working, Early, StoreTyped
  <2> QED
    BY Zenon, <2>2, GoesOnOwned
<1>8. ASSUME WorkerCustody(w) PROVE Owned'
  <2>1. Early(w) /\ Kept
    BY Zenon, <1>8 DEF WorkerCustody, Busy, Early, world
  <2>2. CASE Claim(worker[w].id, "queued", "processing") /\ worker' = [worker EXCEPT ![w].pc = "custody"]
    <3>1. /\ Working(w)' /\ ~Early(w)' /\ worker'[w].id = worker[w].id
          /\ \A v \in Workers \ {w} : worker'[v] = worker[v]
      <4>1. /\ \A v \in Workers \ {w} : worker'[v] = worker[v]
            /\ worker'[w].pc = "custody" /\ worker'[w].id = worker[w].id
        BY ZenonT(30), <2>2, MovedWork
      <4> QED
        BY Zenon, <4>1 DEF Working, Early
    <3> QED
      BY Zenon, <2>1, <2>2, <3>1, ClaimsOwned
  <2>3. CASE (Lost(worker[w].id, "queued") \/ Fault) /\ Return(w)
    BY Zenon, <2>1, <2>3, LosesOwned
  <2> QED
    BY Zenon, <1>8, <2>2, <2>3 DEF WorkerCustody
<1>9. ASSUME WorkerPaused(w) PROVE Owned'
  <2>1. worker[w].pc = "loop" /\ Kept
    BY Zenon, <1>9 DEF WorkerPaused, Busy, world
  <2>2. CASE ~worker[w].started /\ TryMove(worker[w].id, "queued", "pending") /\ Return(w)
    <3>1. CASE Claim(worker[w].id, "queued", "pending")
      <4>1. LetGo(worker[w].id)
        BY <1>k, <2>1, <3>1, ClaimSt DEF LetGo, Present, StoreTyped
      <4> QED
        BY Zenon, <2>1, <2>2, <4>1, WorkerLetsGo DEF Working
    <3>2. CASE Lost(worker[w].id, "queued") \/ Fault
      BY Zenon, <2>1, <2>2, <3>2, LosesOwned DEF Early
    <3> QED
      BY Zenon, <2>2, <3>1, <3>2 DEF TryMove
  <2>3. CASE /\ worker[w].started
             /\ worker' = [worker EXCEPT ![w].pc = "final", ![w].todo = {},
                                         ![w].remaining = @ \cup worker[w].todo]
             /\ UNCHANGED <<store, faults>>
    <3>1. GoesOn(w)
      BY <2>1, <2>3 DEF GoesOn, Working, Early, WorkTyped, Job, StoreTyped
    <3> QED
      BY Zenon, <3>1, GoesOnOwned
  <2> QED
    BY Zenon, <1>9, <2>2, <2>3 DEF WorkerPaused
<1>10. ASSUME NEW r \in Rcpts, WorkerThrottled(w, r) PROVE Owned'
  <2>1. GoesOn(w)
    BY <1>k, <1>10
    DEF WorkerThrottled, Busy, GoesOn, Working, Early, WorkTyped, Job, StoreTyped, world
  <2> QED
    BY Zenon, <2>1, GoesOnOwned
<1> QED
  BY Zenon, <1>1, <1>2, <1>3, <1>4, <1>5, <1>6, <1>7, <1>8, <1>9, <1>10, TakeOwned
  DEF WorkerStep, WorkerDefer

\* Every step of the retry scheduler keeps ownership.
LEMMA SchedulerOwned == ASSUME Types, Types', Owned, Scheduler PROVE Owned'
<1>  StoreTyped /\ PassTyped
  BY Zenon, Parts DEF Types
<1>f. Fault => UNCHANGED store /\ faults <= faults'
  BY DEF Fault, StoreTyped
\* A step that leaves every status and every holder as it is.
<1>s. ASSUME UNCHANGED <<sess, chan, worker, deleted>>, sched'.cur = sched.cur, faults <= faults',
             \A m \in Msgs : store'[m].st = store[m].st
      PROVE  Owned'
  <2>1. Shrinks
    BY Zenon, <1>s DEF Shrinks, Working, Early, Taken
  <2>2. ASSUME NEW m \in Msgs PROVE Fate(m)
    BY Zenon, <1>s DEF Fate, Held, Working
  <2> QED
    BY Zenon, <2>1, <2>2, Shrunk
<1>1. ASSUME NEW m \in Msgs, RetryRelease(m) PROVE Owned'
  <2>1. /\ UNCHANGED <<sess, chan, worker, sched, deleted, faults>> /\ store[m].st = "scheduled"
        /\ store'[m].st \in {"pending", "held"} /\ \A x \in Msgs \ {m} : store'[x] = store[x]
    BY Zenon, <1>1 DEF RetryRelease, SetStatus, Put, StoreTyped, Entry, world
  <2>2. ~Held(m) /\ m \notin deleted /\ Taken(m)
    BY Zenon, <2>1, PendingFree
  <2>3. Shrinks
    BY <2>1 DEF Shrinks, Working, Early, Taken, StoreTyped
  <2>4. ASSUME NEW x \in Msgs PROVE Fate(x)
    <3>1. Held(x)' <=> Held(x)
      BY Zenon, <2>1 DEF Held, Working
    <3> QED
      BY Zenon, <2>1, <2>2, <3>1 DEF Fate, Taken
  <2> QED
    BY Zenon, <2>3, <2>4, Shrunk
<1>2. ASSUME RetryList PROVE Owned'
  <2>1. sched.cur = {} /\ sched'.cur = {}
    BY Zenon, <1>2 DEF RetryList, PassTyped, NoPass
  <2> QED
    BY <1>2, <1>s, <2>1 DEF RetryList, StoreTyped, world
<1>3. ASSUME NEW e \in sched.list, RetrySkip(e) PROVE Owned'
  <2>1. sched'.cur = sched.cur
    BY Zenon, <1>3 DEF RetrySkip, PassTyped, Pass
  <2> QED
    BY <1>3, <1>s, <1>f, <2>1 DEF RetrySkip, Lost, StoreTyped, world
<1>4. ASSUME NEW e \in sched.list, NEW r \in Rcpts, RetryWarn(e, r) PROVE Owned'
  <2>1. e.id \in Msgs /\ faults \in Nat
    BY Zenon DEF PassTyped, Pass, Copy, StoreTyped
  <2>2. faults' = faults /\ \A m \in Msgs : store'[m].st = store[m].st
    BY Zenon, <1>4, <2>1, NoticeSt DEF RetryWarn
  <2> QED
    BY <1>4, <1>s, <2>1, <2>2 DEF RetryWarn
<1>5. ASSUME RetryRequeue PROVE Owned'
  <2>1. PICK e \in sched.cur : Send(e.id, e.to)
    BY Zenon, <1>5 DEF RetryRequeue
  <2>2. /\ e.id \in Msgs /\ e.to \in SUBSET Rcpts /\ Scan /\ UNCHANGED <<sess, worker, deleted>>
        /\ sched'.cur = {}
    BY Zenon, <1>5 DEF PassTyped, Pass, Copy, RetryRequeue, Scan, world
  <2>3. CASE chan' = Append(chan, [id |-> e.id, to |-> e.to]) /\ UNCHANGED <<store, faults>>
    BY Zenon, <2>2, <2>3, SendOwned
  <2>4. CASE TrySetStatus(e.id, "pending") /\ UNCHANGED chan
    <3>1. LetGo(e.id)
      BY Zenon, <2>2, <2>4, SetStatusLetsGo DEF Held
    <3> QED
      BY Zenon, <2>2, <2>4, <3>1, SchedulerLetsGo
  <2> QED
    BY Zenon, <2>1, <2>3, <2>4 DEF Send
<1>6. ASSUME NEW r \in Rcpts, RetryBounce(r) PROVE Owned'
  <2>1. /\ sched'.cur = sched.cur /\ UNCHANGED <<sess, chan, worker, deleted>>
        /\ UNCHANGED <<store, faults>> \/ Fault
    BY Zenon, <1>6 DEF RetryBounce, PassTyped, Pass
  <2> QED
    BY <1>s, <1>f, <2>1 DEF StoreTyped
<1>7. ASSUME RetryGiveUp \/ RetryUnbounced PROVE Owned'
  <2>1. PICK e \in sched.cur, st \in {"pending", "failed"} : TrySetStatus(e.id, st)
    BY Zenon, <1>7 DEF RetryGiveUp, RetryUnbounced
  <2>2. e.id \in Msgs /\ Scan /\ UNCHANGED <<sess, chan, worker, deleted>>
    BY Zenon, <1>7 DEF PassTyped, Pass, Copy, RetryGiveUp, RetryUnbounced, world
  <2>3. LetGo(e.id)
    BY Zenon, <2>1, <2>2, SetStatusLetsGo DEF Held
  <2> QED
    BY Zenon, <2>2, <2>3, SchedulerLetsGo
<1>8. ASSUME RetryEnd PROVE Owned'
  <2>1. sched.cur = {} /\ sched'.cur = {}
    BY Zenon, <1>8 DEF RetryEnd, PassTyped, NoPass
  <2> QED
    BY <1>8, <1>s, <2>1 DEF RetryEnd, StoreTyped, world
<1> QED
  BY Zenon, <1>1, <1>2, <1>3, <1>4, <1>5, <1>6, <1>7, <1>8, RetryClaimOwned DEF Scheduler

\* Ownership is inductive, given the types.
LEMMA NextOwned == ASSUME Types, Owned, [Next]_vars PROVE Owned'
<1>t. Types'
  BY Zenon, NextTypes
<1>  StoreTyped /\ PassTyped /\ WorldTyped /\ SessTyped /\ WorkTyped
  BY Zenon, Parts DEF Types
<1>1. ASSUME NEW m \in Msgs, OperatorDelete(m) PROVE Owned'
  <2>1. /\ UNCHANGED <<sess, chan, worker, sched, faults>> /\ Present(m) /\ deleted' = deleted \cup {m}
        /\ store'[m].st = "none" /\ \A x \in Msgs \ {m} : store'[x] = store[x]
    BY Zenon, <1>1 DEF OperatorDelete, SetStatus, Put, StoreTyped, Absent
  <2>2. Taken(m)
    BY Zenon, <2>1 DEF Owned, Claimed, Present
  <2>3. Shrinks
    BY <2>1 DEF Shrinks, Working, Early, Taken, StoreTyped
  <2>4. ASSUME NEW x \in Msgs PROVE Fate(x)
    <3>1. Held(x)' <=> Held(x)
      BY Zenon, <2>1 DEF Held, Working
    <3> QED
      BY Zenon, <2>1, <2>2, <3>1 DEF Fate, Taken
  <2> QED
    BY Zenon, <1>t, <2>3, <2>4, Shrunk
<1>2. ASSUME NEW m \in Msgs, OperatorRevive(m) \/ OperatorRelease(m) PROVE Owned'
  <2>1. /\ UNCHANGED <<sess, chan, worker, sched, deleted, faults>> /\ store[m].st \in {"failed", "held"}
        /\ store'[m].st = "pending" /\ \A x \in Msgs \ {m} : store'[x] = store[x]
    BY ZenonT(30), <1>2 DEF OperatorRevive, OperatorRelease, SetStatus, Put, StoreTyped, Entry, world
  <2>2. ~Held(m) /\ m \notin deleted /\ Taken(m)
    BY Zenon, <2>1, PendingFree
  <2>3. Shrinks
    BY <2>1 DEF Shrinks, Working, Early, Taken, StoreTyped
  <2>4. ASSUME NEW x \in Msgs PROVE Fate(x)
    <3>1. Held(x)' <=> Held(x)
      BY ZenonT(30), <2>1 DEF Held, Working
    <3> QED
      BY Zenon, <2>1, <2>2, <3>1 DEF Fate, Taken
  <2> QED
    BY Zenon, <1>t, <2>3, <2>4, Shrunk
<1>3. CASE Shutdown \/ UNCHANGED vars
  <2>1. UNCHANGED <<store, sess, chan, worker, sched, deleted, faults>>
    BY Zenon, <1>3 DEF Shutdown, vars, world
  <2> QED
    BY <2>1 DEF Owned, Exclusive, Claimed, NoneStranded, Held, Working, Early, Taken
<1>4. CASE Restart
  <2>1. /\ chan' = <<>> /\ sched'.cur = {} /\ UNCHANGED <<deleted, faults>>
        /\ \A w \in Workers : ~Working(w)' /\ ~Early(w)'
        /\ \A x \in Msgs : sess'[x] # "claimed"
        /\ \A x \in Msgs : Taken(x)' <=> Taken(x)
        /\ \A x \in Msgs : store'[x].st = IF store[x].st \in {"queued", "processing"} THEN "pending"
                                          ELSE store[x].st
    <3>1. chan' = <<>> /\ sched'.cur = {} /\ UNCHANGED <<deleted, faults>>
      BY Zenon, <1>4, NoPassType DEF Restart, world
    <3>2. \A w \in Workers : ~Working(w)' /\ ~Early(w)'
      BY Zenon, <1>4, NoWorkType DEF Restart, Working, Early
    <3>3. \A x \in Msgs : sess'[x] # "claimed" /\ (Taken(x)' <=> Taken(x))
      BY Zenon, <1>4 DEF Restart, Taken
    <3>4. \A x \in Msgs : store'[x].st = IF store[x].st \in {"queued", "processing"} THEN "pending"
                                         ELSE store[x].st
      BY Zenon, <1>4 DEF Restart, StoreTyped, Entry
    <3> QED
      BY Zenon, <3>1, <3>2, <3>3, <3>4
  <2>2. Exclusive'
    BY <2>1 DEF Exclusive
  <2>3. Claimed'
    <3>1. \A m \in deleted' : store'[m].st = "none"
      BY ZenonT(30), <2>1 DEF Owned, Claimed, WorldTyped
    <3>2. \A m \in Msgs : ~Taken(m)' => store'[m].st = "none" /\ m \notin deleted'
      BY Zenon, <2>1 DEF Owned, Claimed
    <3> QED
      BY <2>1, <3>1, <3>2 DEF Claimed
  <2>4. NoneStranded'
    BY Zenon, <2>1 DEF NoneStranded
  <2> QED
    BY Zenon, <2>2, <2>3, <2>4 DEF Owned
<1> QED
  BY Zenon, <1>t, <1>1, <1>2, <1>3, <1>4, SessionOwned, WorkerOwned, SchedulerOwned DEF Next, Operator

-----------------------------------------------------------------------------
(* Attempts.                                                               *)

\* Attempts stay bounded when no counter goes up, no bound goes down and nobody
\* new is on the way to an attempt.
AttKept == \A m \in Msgs : store'[m].att <= store[m].att

\* Such a step keeps the bound on attempts.
LEMMA AttemptsStep ==
    ASSUME Types, Types', Attempts, stale' = stale, AttKept,
           \A m \in Msgs : sess'[m] = "claimed" => sess[m] = "claimed",
           \A i \in DOMAIN chan' : \E j \in DOMAIN chan : chan[j].id = chan'[i].id,
           sched'.pc = "requeue" => sched.pc = "requeue" /\ sched'.cur \subseteq sched.cur,
           \A w \in Workers : Early(w)' => Early(w) /\ worker'[w].id = worker[w].id
    PROVE  Attempts'
<1>  /\ StoreTyped /\ StoreTyped' /\ ChanTyped /\ ChanTyped' /\ PassTyped /\ PassTyped'
      /\ WorkTyped /\ BoundsTyped
  BY Parts, PTL DEF Types
<1> SUFFICES ASSUME stale # MaxCount PROVE Attempts'
  BY Zenon DEF Attempts
<1> DEFINE B == MaxAttempts + stale
<1>b. B \in Nat /\ MaxAttempts + stale' = B
  BY QueueAssumption DEF BoundsTyped
<1>s. \A m \in Msgs : store[m].att \in Nat /\ store'[m].att \in Nat /\ store'[m].att <= store[m].att
  BY ZenonT(30) DEF StoreTyped, Entry, AttKept
<1>a. /\ \A m \in Msgs : store[m].att <= B
      /\ \A m \in Msgs : sess[m] = "claimed" => store[m].att < B
      /\ \A i \in DOMAIN chan : store[chan[i].id].att < B
      /\ sched.pc = "requeue" => \A e \in sched.cur : store[e.id].att < B
      /\ \A w \in Workers : Early(w) => store[worker[w].id].att < B
  BY Zenon DEF Attempts
<1> HIDE DEF B
<1>1. \A m \in Msgs : store'[m].att <= B
  BY <1>a, <1>b, <1>s
<1>2. \A m \in Msgs : sess'[m] = "claimed" => store'[m].att < B
  BY <1>a, <1>b, <1>s
<1>3. \A i \in DOMAIN chan' : store'[chan'[i].id].att < B
  <2>1. \A i \in DOMAIN chan : chan[i].id \in Msgs
    BY Zenon, ChanElement
  <2> QED
    BY <1>a, <1>b, <1>s, <2>1
<1>4. sched'.pc = "requeue" => \A e \in sched'.cur : store'[e.id].att < B
  <2>1. \A e \in sched.cur : e.id \in Msgs
    BY Zenon DEF PassTyped, Pass, Copy
  <2> QED
    BY <1>a, <1>b, <1>s, <2>1
<1>5. \A w \in Workers : Early(w)' => store'[worker'[w].id].att < B
  <2>1. \A w \in Workers : worker[w].id \in Msgs
    BY Zenon DEF WorkTyped, Job
  <2> QED
    BY <1>a, <1>b, <1>s, <2>1
<1> QED
  BY Zenon, <1>b, <1>1, <1>2, <1>3, <1>4, <1>5 DEF Attempts

\* No count goes up when the store call fails or there is none.
LEMMA SameAtt == ASSUME StoreTyped, UNCHANGED store \/ Fault PROVE AttKept
  BY DEF Fault, AttKept, StoreTyped, Entry

\* ClaimStatus counts an attempt only when it starts processing.
LEMMA ClaimAtt ==
    ASSUME StoreTyped, NEW m \in Msgs, NEW from, NEW st, st # "processing", Claim(m, from, st)
    PROVE  store'[m].att = store[m].att /\ AttKept
<1>1. Put(m, [store[m] EXCEPT !.st = st, !.att = store[m].att])
  BY Zenon DEF Claim
<1> QED
  BY <1>1 DEF Put, AttKept, StoreTyped, Entry

\* UpdateStatus counts none.
LEMMA SetStatusAtt ==
    ASSUME StoreTyped, NEW m \in Msgs, NEW st, TrySetStatus(m, st) PROVE AttKept
<1>1. CASE SetStatus(m, st)
  <2>1. Put(m, Absent) \/ Put(m, [store[m] EXCEPT !.st = st])
    BY Zenon, <1>1 DEF SetStatus
  <2> QED
    BY <2>1 DEF Put, AttKept, StoreTyped, Entry, Absent
<1>2. CASE CallFails(m)
  BY Zenon, <1>2, SameAtt DEF CallFails
<1> QED
  BY Zenon, <1>1, <1>2 DEF TrySetStatus

\* Storing a notice counts none.
LEMMA NoticeAtt ==
    ASSUME StoreTyped, NEW m \in Msgs, NEW r, NEW event, Notice(m, r, event) PROVE AttKept
  BY NoticeSt DEF AttKept, StoreTyped, Entry

\* A claim on a copy that shows an attempt is left leaves one, or is outdated.
LEMMA OutdatedAttempts ==
    ASSUME Types, Types', Attempts, stale <= MaxCount, NEW m \in Msgs, NEW to, NEW att \in Nat,
           Outdated(m, to, att), stale' # MaxCount
    PROVE  /\ stale # MaxCount /\ stale \in Nat /\ stale' \in Nat /\ stale <= stale'
           /\ att < MaxAttempts => store[m].att < MaxAttempts + stale'
<1>  StoreTyped /\ BoundsTyped /\ BoundsTyped'
  BY Parts, PTL DEF Types
<1>1. stale \in Nat /\ stale' \in Nat /\ MaxAttempts \in Nat /\ MaxCount \in Nat /\ store[m].att \in Nat
  BY Zenon, QueueAssumption DEF BoundsTyped, StoreTyped, Entry
<1>2. CASE <<to, att>> # <<store[m].to, store[m].att>>
  <2>1. stale' = Count(stale)
    BY Zenon, <1>2 DEF Outdated
  <2>2. stale # MaxCount /\ stale' = stale + 1
    BY <1>1, <2>1 DEF Count
  <2>3. store[m].att <= MaxAttempts + stale
    BY Zenon, <2>2 DEF Attempts
  <2> QED
    BY <1>1, <2>2, <2>3
<1>3. CASE <<to, att>> = <<store[m].to, store[m].att>>
  <2>1. stale' = stale /\ store[m].att = att
    BY Zenon, <1>3 DEF Outdated
  <2> QED
    BY <1>1, <2>1
<1> QED
  BY Zenon, <1>2, <1>3

\* Enqueue keeps the bound: the first claim is for the first attempt.
LEMMA SessionAttempts ==
    ASSUME Types, Types', Owned, Attempts, stale <= MaxCount, Session PROVE Attempts'
<1>  StoreTyped /\ StoreTyped' /\ SessTyped /\ ChanTyped /\ BoundsTyped /\ WorkTyped /\ PassTyped
  BY Parts, PTL DEF Types
<1>u. UNCHANGED <<worker, sched>>
  BY Zenon DEF Session, EnqueueStore, EnqueueClaim, EnqueueSend
<1>w. /\ \A w \in Workers : Early(w)' => Early(w) /\ worker'[w].id = worker[w].id
      /\ sched'.pc = "requeue" => sched.pc = "requeue" /\ sched'.cur \subseteq sched.cur
  BY Zenon, <1>u DEF Early
<1>1. ASSUME NEW m \in Msgs, EnqueueStore(m) PROVE Attempts'
  <2>1. AttKept
    <3>1. CASE \E st \in Arrivals : Put(m, [Absent EXCEPT !.st = st, !.to = Rcpts])
      BY <3>1 DEF Put, AttKept, Absent, StoreTyped, Entry
    <3>2. CASE Fault
      BY Zenon, <3>2, SameAtt
    <3> QED
      BY Zenon, <1>1, <3>1, <3>2 DEF EnqueueStore
  <2>2. /\ \A x \in Msgs : sess'[x] = "claimed" => sess[x] = "claimed"
        /\ UNCHANGED <<chan, stale>>
    BY Zenon, <1>1 DEF EnqueueStore, SessTyped, bounds
  <2> QED
    BY Zenon, <1>w, <2>1, <2>2, AttemptsStep
<1>2. ASSUME NEW m \in Msgs, EnqueueClaim(m) PROVE Attempts'
  <2>1. CASE Claim(m, "pending", "queued") /\ sess' = [sess EXCEPT ![m] = "claimed"] /\ Outdated(m, Rcpts, 0)
    <3> SUFFICES ASSUME stale' # MaxCount PROVE Attempts'
      BY ZenonT(30) DEF Attempts
    <3>1. /\ stale # MaxCount /\ stale \in Nat /\ stale' \in Nat /\ stale <= stale'
          /\ store[m].att < MaxAttempts + stale'
      <4>1. 0 \in Nat /\ 0 < MaxAttempts
        BY QueueAssumption
      <4> QED
        BY Zenon, <2>1, <4>1, OutdatedAttempts
    <3>2. \A x \in Msgs : store'[x].att = store[x].att /\ store[x].att \in Nat
      <4>1. store'[m].att = store[m].att /\ \A x \in Msgs \ {m} : store'[x] = store[x]
        BY Zenon, <2>1, ClaimSt, ClaimAtt
      <4>2. \A x \in Msgs : store[x].att \in Nat
        BY Zenon DEF StoreTyped, Entry
      <4> QED
        BY Zenon, <4>1, <4>2
    <3>3. \A x \in Msgs : sess'[x] = "claimed" => x = m \/ sess[x] = "claimed"
      BY Zenon, <2>1 DEF SessTyped
    <3>4. UNCHANGED chan
      BY Zenon, <1>2 DEF EnqueueClaim
    <3>5. ASSUME NEW x \in Msgs
          PROVE  /\ store'[x].att <= MaxAttempts + stale'
                 /\ store[x].att < MaxAttempts + stale => store'[x].att < MaxAttempts + stale'
      BY <3>1, <3>2, QueueAssumption DEF Attempts
    <3>6. /\ \A i \in DOMAIN chan : chan[i].id \in Msgs
          /\ \A w \in Workers : worker[w].id \in Msgs
          /\ \A e \in sched.cur : e.id \in Msgs
      <4>1. \A i \in DOMAIN chan : chan[i].id \in Msgs
        BY ZenonT(30), ChanElement
      <4> QED
        BY Zenon, <4>1 DEF WorkTyped, Job, PassTyped, Pass, Copy
    <3> QED
      BY Zenon, <1>w, <1>u, <3>1, <3>2, <3>3, <3>4, <3>5, <3>6 DEF Attempts
  <2>2. CASE (Lost(m, "pending") \/ Fault) /\ sess' = [sess EXCEPT ![m] = "done"] /\ UNCHANGED stale
    <3>1. AttKept
      BY Zenon, <2>2, SameAtt DEF Lost
    <3>2. (\A x \in Msgs : sess'[x] = "claimed" => sess[x] = "claimed") /\ UNCHANGED chan
      BY Zenon, <1>2, <2>2 DEF EnqueueClaim, SessTyped
    <3> QED
      BY Zenon, <1>w, <2>2, <3>1, <3>2, AttemptsStep
  <2> QED
    BY Zenon, <1>2, <2>1, <2>2 DEF EnqueueClaim
<1>3. ASSUME NEW m \in Msgs, EnqueueSend(m) PROVE Attempts'
  <2>1. /\ \A x \in Msgs : sess'[x] = "claimed" => sess[x] = "claimed"
        /\ sess[m] = "claimed" /\ UNCHANGED stale
    BY ZenonT(30), <1>3 DEF EnqueueSend, SessTyped, bounds
  <2>2. CASE chan' = Append(chan, [id |-> m, to |-> Rcpts]) /\ UNCHANGED <<store, faults>>
    <3>1. PICK n \in DOMAIN chan' :
            /\ DOMAIN chan' = DOMAIN chan \cup {n}
            /\ chan'[n] = [id |-> m, to |-> Rcpts] /\ \A i \in DOMAIN chan : chan'[i] = chan[i]
      BY Zenon, <2>2, Appended
    <3>2. chan'[n].id = m
      <4>1. [id |-> m, to |-> Rcpts].id = m
        OBVIOUS
      <4> QED
        BY Zenon, <3>1, <4>1
    <3>3. ASSUME stale # MaxCount, NEW i \in DOMAIN chan'
          PROVE  store[chan'[i].id].att < MaxAttempts + stale
      <4>1. CASE i = n
        BY Zenon, <2>1, <3>2, <3>3, <4>1 DEF Attempts
      <4>2. CASE i \in DOMAIN chan
        BY Zenon, <3>1, <3>3, <4>2 DEF Attempts
      <4> QED
        BY Zenon, <3>1, <4>1, <4>2
    <3> QED
      BY Zenon, <1>w, <1>u, <2>1, <2>2, <3>3 DEF Attempts
  <2>3. CASE TrySetStatus(m, "pending") /\ UNCHANGED chan
    <3>1. AttKept
      BY Zenon, <2>3, SetStatusAtt
    <3> QED
      BY Zenon, <1>w, <2>1, <2>3, <3>1, AttemptsStep
  <2> QED
    BY Zenon, <1>3, <2>2, <2>3 DEF EnqueueSend, Send
<1> QED
  BY Zenon, <1>1, <1>2, <1>3 DEF Session

\* The scheduler does: what it requeues has an attempt left.
LEMMA SchedulerAttempts ==
    ASSUME Types, Types', Owned, Attempts, stale <= MaxCount, Scheduler PROVE Attempts'
<1>  StoreTyped /\ StoreTyped' /\ ChanTyped /\ BoundsTyped /\ WorkTyped /\ PassTyped
  BY Parts, PTL DEF Types
<1>k. \A e \in sched.list \cup sched.cur : e.id \in Msgs /\ e.to \in SUBSET Rcpts /\ e.att \in Nat
  BY Zenon DEF PassTyped, Pass, Copy
<1>u. UNCHANGED <<sess, worker>>
  BY Zenon DEF Scheduler, RetryRelease, RetryList, RetrySkip, RetryClaim, RetryWarn, RetryRequeue,
         RetryBounce, RetryGiveUp, RetryUnbounced, RetryEnd
<1>w. /\ \A w \in Workers : Early(w)' => Early(w) /\ worker'[w].id = worker[w].id
      /\ \A m \in Msgs : sess'[m] = "claimed" => sess[m] = "claimed"
  BY Zenon, <1>u DEF Early
<1> DEFINE PassKept == sched'.pc = "requeue" => sched.pc = "requeue" /\ sched'.cur \subseteq sched.cur
<1>s. ASSUME UNCHANGED <<chan, stale>>, AttKept, PassKept PROVE Attempts'
  BY Zenon, <1>s, <1>w, AttemptsStep
<1>1. ASSUME NEW m \in Msgs, RetryRelease(m) PROVE Attempts'
  <2>1. AttKept
    BY Zenon, <1>1, SetStatusAtt DEF RetryRelease, TrySetStatus
  <2> QED
    BY Zenon, <1>s, <1>1, <2>1 DEF RetryRelease, bounds
<1>2. ASSUME RetryList PROVE Attempts'
  BY Zenon, <1>s, <1>2, SameAtt DEF RetryList, bounds, NoPass
<1>3. ASSUME NEW e \in sched.list, RetrySkip(e) PROVE Attempts'
  <2>1. PassKept
    BY Zenon, <1>3 DEF RetrySkip, PassTyped, Pass
  <2> QED
    BY Zenon, <1>s, <1>3, <2>1, SameAtt DEF RetrySkip, Lost, bounds
<1>4. ASSUME NEW e \in sched.list, RetryClaim(e) PROVE Attempts'
  <2>m. PICK m \in Msgs : e.id = m
    BY Zenon, <1>k
  <2>1. /\ Claim(m, "pending", "queued") /\ Outdated(m, e.to, e.att) /\ UNCHANGED chan
        /\ sched'.cur = {e} /\ (sched'.pc = "requeue" => e.att < MaxAttempts)
    BY <1>k, <1>4, <2>m, QueueAssumption DEF RetryClaim, PassTyped, Pass
  <2> SUFFICES ASSUME stale' # MaxCount PROVE Attempts'
    BY ZenonT(30) DEF Attempts
  <2>2. /\ stale # MaxCount /\ stale \in Nat /\ stale' \in Nat /\ stale <= stale'
        /\ e.att < MaxAttempts => store[m].att < MaxAttempts + stale'
    BY ZenonT(30), <1>k, <2>1, OutdatedAttempts
  <2>3. \A x \in Msgs : store'[x].att = store[x].att /\ store[x].att \in Nat
    <3>1. store'[m].att = store[m].att /\ \A x \in Msgs \ {m} : store'[x] = store[x]
      BY Zenon, <2>1, ClaimSt, ClaimAtt
    <3>2. \A x \in Msgs : store[x].att \in Nat
      BY Zenon DEF StoreTyped, Entry
    <3> QED
      BY Zenon, <3>1, <3>2
  <2>4. ASSUME NEW x \in Msgs
        PROVE  /\ store'[x].att <= MaxAttempts + stale'
               /\ store[x].att < MaxAttempts + stale => store'[x].att < MaxAttempts + stale'
    BY <2>2, <2>3, QueueAssumption DEF Attempts
  <2>5. /\ \A i \in DOMAIN chan : chan[i].id \in Msgs
        /\ \A w \in Workers : worker[w].id \in Msgs
    <3>1. \A i \in DOMAIN chan : chan[i].id \in Msgs
      BY Zenon, ChanElement
    <3> QED
      BY Zenon, <3>1 DEF WorkTyped, Job
  <2>6. sched'.pc = "requeue" => \A f \in sched'.cur : store'[f.id].att < MaxAttempts + stale'
    BY Zenon, <2>m, <2>1, <2>2, <2>3
  <2> QED
    BY ZenonT(30), <1>w, <1>u, <2>1, <2>2, <2>4, <2>5, <2>6 DEF Attempts
<1>5. ASSUME NEW e \in sched.list, NEW r \in Rcpts, RetryWarn(e, r) PROVE Attempts'
  <2>1. AttKept
    BY Zenon, <1>k, <1>5, NoticeAtt DEF RetryWarn
  <2> QED
    BY Zenon, <1>s, <1>5, <2>1 DEF RetryWarn, bounds
<1>6. ASSUME Scan PROVE PassKept
  BY Zenon, <1>6 DEF Scan, PassTyped, Pass
<1>7. ASSUME RetryRequeue PROVE Attempts'
  <2>1. PICK e \in sched.cur : Send(e.id, e.to)
    BY Zenon, <1>7 DEF RetryRequeue
  <2>2. sched.pc = "requeue" /\ PassKept /\ UNCHANGED stale /\ sched'.pc # "requeue"
    BY ZenonT(30), <1>6, <1>7 DEF RetryRequeue, bounds, Scan, PassTyped, Pass
  <2>3. CASE chan' = Append(chan, [id |-> e.id, to |-> e.to]) /\ UNCHANGED <<store, faults>>
    <3>0. [id |-> e.id, to |-> e.to] \in [id : Msgs, to : SUBSET Rcpts]
      BY Zenon, <1>k
    <3>1. PICK n \in DOMAIN chan' :
            /\ DOMAIN chan' = DOMAIN chan \cup {n}
            /\ chan'[n] = [id |-> e.id, to |-> e.to] /\ \A i \in DOMAIN chan : chan'[i] = chan[i]
      BY Zenon, <2>3, <3>0, Appended
    <3> QED
      BY <1>w, <1>u, <2>2, <2>3, <3>1 DEF Attempts
  <2>4. CASE TrySetStatus(e.id, "pending") /\ UNCHANGED chan
    <3>1. AttKept
      BY Zenon, <1>k, <2>4, SetStatusAtt
    <3> QED
      BY Zenon, <1>s, <2>2, <2>4, <3>1
  <2> QED
    BY Zenon, <2>1, <2>3, <2>4 DEF Send
<1>8. ASSUME NEW r \in Rcpts, RetryBounce(r) PROVE Attempts'
  <2>1. PassKept
    BY Zenon, <1>8 DEF RetryBounce, PassTyped, Pass
  <2> QED
    BY Zenon, <1>s, <1>8, <2>1, SameAtt DEF RetryBounce, bounds
<1>9. ASSUME RetryGiveUp \/ RetryUnbounced PROVE Attempts'
  <2>1. AttKept
    BY Zenon, <1>k, <1>9, SetStatusAtt DEF RetryGiveUp, RetryUnbounced
  <2> QED
    BY Zenon, <1>s, <1>6, <1>9, <2>1 DEF RetryGiveUp, RetryUnbounced, bounds
<1>10. ASSUME RetryEnd PROVE Attempts'
  BY ZenonT(30), <1>s, <1>10, SameAtt DEF RetryEnd, bounds, NoPass
<1> QED
  BY Zenon, <1>1, <1>2, <1>3, <1>4, <1>5, <1>7, <1>8, <1>9, <1>10 DEF Scheduler

\* The worker that claims its message for processing uses up one attempt.
LEMMA ClaimsAttempts ==
    ASSUME Types, Types', Owned, Attempts, NEW w \in Workers, Early(w),
           Claim(worker[w].id, "queued", "processing"), ~Early(w)',
           \A v \in Workers \ {w} : worker'[v] = worker[v], UNCHANGED <<sess, chan, sched, stale>>
    PROVE  Attempts'
<1>  StoreTyped /\ ChanTyped /\ BoundsTyped /\ WorkTyped /\ PassTyped
  BY ZenonT(30), Parts DEF Types
<1> SUFFICES ASSUME stale # MaxCount PROVE Attempts'
  BY Zenon DEF Attempts
<1>m. PICK m \in Msgs : worker[w].id = m
  BY Zenon DEF WorkTyped, Job
<1>1. store'[m].att = store[m].att + 1 /\ \A x \in Msgs \ {m} : store'[x] = store[x]
  <2>1. Put(m, [store[m] EXCEPT !.st = "processing", !.att = store[m].att + 1])
    BY Zenon, <1>m DEF Claim
  <2> QED
    BY Zenon, <2>1 DEF Put, StoreTyped, Entry
<1>2. store[m].att < MaxAttempts + stale
  BY ZenonT(30), <1>m DEF Attempts
<1>3. /\ sess[m] # "claimed" /\ Working(w)
      /\ \A i \in DOMAIN chan : chan[i].id \in Msgs \ {m}
      /\ \A v \in Workers \ {w} : Working(v) => worker[v].id \in Msgs \ {m}
      /\ \A e \in sched.cur : e.id \in Msgs \ {m}
  <2>1. \A i \in DOMAIN chan : chan[i].id \in Msgs
    BY Zenon, ChanElement
  <2>2. Working(w)
    BY Zenon DEF Early, Working
  <2> QED
    BY ZenonT(30), <1>m, <2>1, <2>2 DEF Owned, Exclusive, WorkTyped, Job, PassTyped, Pass, Copy
<1>4. store[m].att \in Nat /\ MaxAttempts + stale \in Nat
  BY QueueAssumption DEF StoreTyped, Entry, BoundsTyped
<1>5. \A x \in Msgs : store'[x].att <= MaxAttempts + stale
  BY <1>1, <1>2, <1>4 DEF Attempts
<1>6. \A v \in Workers : Early(v)' => Early(v) /\ v # w /\ worker'[v] = worker[v] /\ Working(v)
  BY Zenon DEF Early, Working
<1> QED
  BY <1>1, <1>3, <1>5, <1>6 DEF Attempts

\* A worker does: it counts the attempt it was given.
LEMMA WorkerAttempts ==
    ASSUME Types, Types', Owned, Attempts, stale <= MaxCount, NEW w \in Workers,
           WorkerStep(w) \/ WorkerDefer(w)
    PROVE  Attempts'
<1>  StoreTyped /\ WorkTyped /\ ChanTyped
  BY Zenon, Parts DEF Types
<1>k. worker[w].id \in Msgs /\ worker[w] \in Job /\ Sound(worker[w])
  BY Zenon DEF WorkTyped, Job
<1> DEFINE Kept == UNCHANGED <<sess, chan, sched, stale>>
           Others == \A v \in Workers \ {w} : worker'[v] = worker[v]
<1>s. ASSUME Kept, AttKept, Others, Early(w)' => Early(w) /\ worker'[w].id = worker[w].id PROVE Attempts'
  <2>1. \A v \in Workers : Early(v)' => Early(v) /\ worker'[v].id = worker[v].id
    BY Zenon, <1>s DEF Early
  <2> QED
    BY Zenon, <1>s, <2>1, AttemptsStep
<1>r. ASSUME Kept, AttKept, Return(w) PROVE Attempts'
  <2>1. Others /\ ~Early(w)'
    BY Zenon, <1>r, ReturnWork, NoWorkType DEF Early
  <2> QED
    BY Zenon, <1>r, <1>s, <2>1
<1>1. ASSUME WorkerTake(w) PROVE Attempts'
  <2> SUFFICES ASSUME stale # MaxCount PROVE Attempts'
    BY Zenon, <1>1 DEF Attempts, WorkerTake, bounds
  <2>1. /\ 1 \in DOMAIN chan /\ chan[1] = Head(chan)
        /\ \A i \in DOMAIN chan' : i + 1 \in DOMAIN chan /\ chan'[i] = chan[i + 1]
    BY Zenon, <1>1, Received DEF WorkerTake
  <2>2. Others /\ worker'[w].id = chan[1].id
    BY Zenon, <1>1, <2>1, NoWorkType DEF WorkerTake, WorkTyped, Job
  <2>3. UNCHANGED <<store, sess, sched, stale>>
    BY Zenon, <1>1 DEF WorkerTake, bounds
  <2>4. \A v \in Workers : Early(v)' => v = w \/ (Early(v) /\ worker'[v] = worker[v])
    BY Zenon, <2>2 DEF Early
  <2> QED
    BY ZenonT(30), <2>1, <2>2, <2>3, <2>4 DEF Attempts
<1>2. ASSUME NEW r \in Rcpts, WorkerAttempt(w, r) PROVE Attempts'
  <2>u. Kept /\ worker[w].pc = "loop"
    BY Zenon, <1>2 DEF WorkerAttempt, Busy, bounds
  <2>1. CASE Return(w) /\ (Lost(worker[w].id, "queued") \/ Fault)
    BY Zenon, <1>r, <2>u, <2>1, SameAtt DEF Lost
  <2>2. CASE UNCHANGED <<store, faults>> /\ worker' = [worker EXCEPT ![w].pc = "deliver", ![w].rcpt = {r}]
    <3>1. Others /\ ~Early(w)'
      BY Zenon, <2>2 DEF WorkTyped, Job, Early
    <3> QED
      BY Zenon, <1>s, <2>u, <2>2, <3>1, SameAtt
  <2>3. CASE /\ ~worker[w].started /\ Claim(worker[w].id, "queued", "processing")
             /\ worker' = [worker EXCEPT ![w].pc = "deliver", ![w].rcpt = {r}, ![w].started = TRUE]
    <3>1. Others /\ ~Early(w)'
      BY Zenon, <2>3 DEF WorkTyped, Job, Early
    <3> QED
      BY ZenonT(30), <2>u, <2>3, <3>1, ClaimsAttempts DEF Early
  <2> QED
    BY Zenon, <1>2, <2>1, <2>2, <2>3 DEF WorkerAttempt
<1>3. ASSUME WorkerSuppressed(w) \/ WorkerLocal(w) \/ WorkerRemote(w) \/ WorkerNotify(w) PROVE Attempts'
  <2>1. Kept
    BY Zenon, <1>3 DEF WorkerSuppressed, WorkerLocal, WorkerRemote, WorkerNotify, bounds
  <2>2. AttKept
    <3>1. CASE UNCHANGED store \/ Fault
      BY Zenon, <3>1, SameAtt
    <3>2. CASE \E r \in worker[w].rcpt : Notice(worker[w].id, r, "SUCCESS")
      BY Zenon, <1>k, <3>2, NoticeAtt
    <3> QED
      BY Zenon, <1>3, <3>1, <3>2
      DEF WorkerSuppressed, WorkerLocal, WorkerRemote, WorkerNotify, Bounce, CallFails
  <2>3. PICK r : Accepted(w, r) \/ \E ok \in BOOLEAN : Attempted(w, r, ok)
    BY ZenonT(30), <1>3 DEF WorkerSuppressed, WorkerLocal, WorkerRemote, WorkerNotify, Bounce
  <2>4. Others /\ worker'[w].pc # "loop"
    <3>1. CASE Accepted(w, r)
      BY ZenonT(30), <3>1, AcceptedWork
    <3>2. ASSUME NEW ok \in BOOLEAN, Attempted(w, r, ok) PROVE Others /\ worker'[w].pc # "loop"
      BY <3>2, AttemptedWork
    <3> QED
      BY ZenonT(30), <2>3, <3>1, <3>2
  <2> QED
    BY Zenon, <1>s, <2>1, <2>2, <2>4 DEF Early
<1>4. ASSUME WorkerCheckpoint(w) \/ WorkerFinal(w) PROVE Attempts'
  <2>1. PICK left, next : Checkpoint(w, left, next) /\ (next = "loop" => worker[w].started)
    <3>1. CASE WorkerCheckpoint(w)
      BY Zenon, <3>1, <1>k DEF WorkerCheckpoint, Busy, Sound
    <3>2. CASE WorkerFinal(w)
      BY <3>2 DEF WorkerFinal
    <3> QED
      BY Zenon, <1>4, <3>1, <3>2
  <2>2. Kept
    BY Zenon, <2>1 DEF Checkpoint, bounds
  <2>3. AttKept
    <3>1. CASE CallFails(worker[w].id)
      BY Zenon, <3>1, SameAtt DEF CallFails
    <3>2. CASE Put(worker[w].id, [store[worker[w].id] EXCEPT !.to = left])
      BY <1>k, <3>2 DEF Put, AttKept, StoreTyped, Entry
    <3> QED
      BY Zenon, <2>1, <3>1, <3>2 DEF Checkpoint
  <2>4. PICK pc : worker' = [worker EXCEPT ![w].pc = pc] /\ (pc = "loop" => worker[w].started)
    BY Zenon, <2>1 DEF Checkpoint
  <2>5. Others /\ ~Early(w)'
    BY Zenon, <2>4, MovedWork DEF Early
  <2> QED
    BY Zenon, <1>s, <2>2, <2>3, <2>5
<1>5. ASSUME WorkerRetain(w) \/ WorkerPreserved(w) PROVE Attempts'
  <2>1. Kept /\ Return(w)
    BY Zenon, <1>5 DEF WorkerRetain, WorkerPreserved, bounds
  <2>2. AttKept
    BY Zenon, <1>k, <1>5, SetStatusAtt DEF WorkerRetain, WorkerPreserved
  <2> QED
    BY Zenon, <1>r, <2>1, <2>2
<1>6. ASSUME WorkerFinish(w) PROVE Attempts'
  <2>1. Kept
    BY Zenon, <1>6 DEF WorkerFinish, bounds
  <2>2. AttKept
    BY Zenon, <1>k, <1>6, SetStatusAtt DEF WorkerFinish, TrySetStatus
  <2>3. CASE Return(w)
    BY Zenon, <1>r, <2>1, <2>2, <2>3
  <2>4. CASE worker' = [worker EXCEPT ![w].pc = "retain"]
    <3>1. Others /\ worker'[w].pc = "retain"
      BY Zenon, <2>4, MovedWork
    <3> QED
      BY Zenon, <1>s, <2>1, <2>2, <3>1 DEF Early
  <2> QED
    BY Zenon, <1>6, <2>3, <2>4 DEF WorkerFinish
<1>7. ASSUME WorkerPreserve(w) PROVE Attempts'
  <2>1. Kept /\ AttKept
    BY Zenon, <1>7, SameAtt DEF WorkerPreserve, bounds
  <2>2. PICK pc \in {"preserved", "retain"} : worker' = [worker EXCEPT ![w].pc = pc]
    BY Zenon, <1>7 DEF WorkerPreserve
  <2>3. Others /\ worker'[w].pc # "loop"
    BY Zenon, <2>2, MovedWork
  <2> QED
    BY Zenon, <1>s, <2>1, <2>3 DEF Early
<1>8. ASSUME WorkerCustody(w) PROVE Attempts'
  <2>1. Kept /\ Early(w)
    BY Zenon, <1>8 DEF WorkerCustody, Busy, Early, bounds
  <2>2. CASE Claim(worker[w].id, "queued", "processing") /\ worker' = [worker EXCEPT ![w].pc = "custody"]
    <3>1. Others /\ worker'[w].pc = "custody"
      BY Zenon, <2>2, MovedWork
    <3>2. ~Early(w)'
      BY Zenon, <3>1 DEF Early
    <3> QED
      BY Zenon, <2>1, <2>2, <3>1, <3>2, ClaimsAttempts
  <2>3. CASE (Lost(worker[w].id, "queued") \/ Fault) /\ Return(w)
    BY Zenon, <1>r, <2>1, <2>3, SameAtt DEF Lost
  <2> QED
    BY Zenon, <1>8, <2>2, <2>3 DEF WorkerCustody
<1>9. ASSUME WorkerPaused(w) PROVE Attempts'
  <2>1. Kept
    BY Zenon, <1>9 DEF WorkerPaused, bounds
  <2>2. CASE TryMove(worker[w].id, "queued", "pending") /\ Return(w)
    <3>1. AttKept
      BY Zenon, <1>k, <2>2, ClaimAtt, SameAtt DEF TryMove, Lost
    <3> QED
      BY Zenon, <1>r, <2>1, <2>2, <3>1
  <2>3. CASE /\ worker' = [worker EXCEPT ![w].pc = "final", ![w].todo = {},
                                         ![w].remaining = @ \cup worker[w].todo]
             /\ UNCHANGED <<store, faults>>
    <3>1. Others /\ worker'[w].pc = "final"
      BY Zenon, <2>3 DEF WorkTyped, Job
    <3> QED
      BY Zenon, <1>s, <2>1, <2>3, <3>1, SameAtt DEF Early
  <2> QED
    BY Zenon, <1>9, <2>2, <2>3 DEF WorkerPaused
<1>10. ASSUME NEW r \in Rcpts, WorkerThrottled(w, r) PROVE Attempts'
  <2>1. Others /\ (Early(w)' => Early(w) /\ worker'[w].id = worker[w].id)
    BY Zenon, <1>k, <1>10 DEF WorkerThrottled, Busy, WorkTyped, Job, Early
  <2>2. Kept /\ AttKept
    BY Zenon, <1>10, SameAtt DEF WorkerThrottled, bounds
  <2> QED
    BY Zenon, <1>s, <2>1, <2>2
<1> QED
  BY Zenon, <1>1, <1>2, <1>3, <1>4, <1>5, <1>6, <1>7, <1>8, <1>9, <1>10 DEF WorkerStep, WorkerDefer

\* The bound on attempts is inductive, given types and ownership.
LEMMA NextAttempts ==
    ASSUME Types, Owned, Attempts, stale <= MaxCount, [Next]_vars PROVE Attempts'
<1>t. Types'
  BY Zenon, NextTypes
<1>  StoreTyped
  BY Zenon, Parts DEF Types
<1>s. ASSUME UNCHANGED <<sess, chan, sched, worker, stale>>, AttKept PROVE Attempts'
  BY Zenon, <1>t, <1>s, AttemptsStep DEF Early
<1>1. ASSUME NEW m \in Msgs, OperatorDelete(m) \/ OperatorRelease(m) PROVE Attempts'
  <2>1. AttKept
    BY Zenon, <1>1, SetStatusAtt DEF OperatorDelete, OperatorRelease, TrySetStatus
  <2> QED
    BY Zenon, <1>1, <1>s, <2>1 DEF OperatorDelete, OperatorRelease, bounds
<1>2. ASSUME NEW m \in Msgs, OperatorRevive(m) PROVE Attempts'
  <2>1. AttKept
    BY <1>2 DEF OperatorRevive, Put, AttKept, StoreTyped, Entry
  <2> QED
    BY Zenon, <1>2, <1>s, <2>1 DEF OperatorRevive
<1>3. CASE Shutdown \/ UNCHANGED vars
  <2>1. UNCHANGED <<store, sess, chan, sched, worker, stale>>
    BY Zenon, <1>3 DEF Shutdown, vars, bounds
  <2> QED
    BY Zenon, <1>s, <2>1, SameAtt
<1>4. CASE Restart
  <2>1. AttKept
    BY <1>4 DEF Restart, AttKept, StoreTyped, Entry
  <2>2. \A m \in Msgs : sess'[m] # "claimed"
    BY Zenon, <1>4 DEF Restart
  <2>3. chan' = <<>> /\ sched'.pc = "idle" /\ stale' = stale
    BY Zenon, <1>4, NoPassType DEF Restart
  <2>4. \A w \in Workers : ~Early(w)'
    BY Zenon, <1>4, NoWorkType DEF Restart, Early
  <2> QED
    BY <1>t, <2>1, <2>2, <2>3, <2>4, AttemptsStep
<1> QED
  BY Zenon, <1>t, <1>1, <1>2, <1>3, <1>4, SessionAttempts, WorkerAttempts, SchedulerAttempts DEF Next, Operator

-----------------------------------------------------------------------------
(* Notices.                                                                *)

\* Notices stay marked when none is stored, no mark is lost, and what is new in
\* the spool was not there before.
ToldKept ==
    \A m \in Msgs : Present(m)' => (Present(m) /\ store[m].told \subseteq store'[m].told) \/ ~Taken(m)

\* Such a step keeps the marks in agreement with the notices.
LEMMA MarksStep ==
    ASSUME Types, Types', Marks, UNCHANGED notices, ToldKept, \A m \in Msgs : Taken(m) => Taken(m)'
    PROVE  Marks'
  BY Zenon DEF Marks, ToldKept

\* A failed store call loses no mark.
LEMMA SameTold == ASSUME UNCHANGED store \/ Fault PROVE ToldKept
  BY Zenon DEF Fault, ToldKept, Present

\* ClaimStatus loses none.
LEMMA ClaimTold ==
    ASSUME StoreTyped, NEW m \in Msgs, NEW from, NEW st, from # "none", Claim(m, from, st) PROVE ToldKept
  BY Zenon, ClaimSt DEF ToldKept, Present

\* UpdateStatus loses none.
LEMMA SetStatusTold == ASSUME StoreTyped, NEW m \in Msgs, NEW st, TrySetStatus(m, st) PROVE ToldKept
<1>1. CASE SetStatus(m, st)
  <2>1. Present(m) /\ (Put(m, Absent) \/ Put(m, [store[m] EXCEPT !.st = st]))
    BY Zenon, <1>1 DEF SetStatus
  <2> QED
    BY <2>1 DEF Put, ToldKept, Present, StoreTyped, Entry, Absent
<1>2. CASE CallFails(m)
  BY Zenon, <1>2, SameTold DEF CallFails
<1> QED
  BY Zenon, <1>1, <1>2 DEF TrySetStatus

\* One more notice t about m, and no other count changes.
LEMMA NoticesMore ==
    ASSUME WorldTyped, NEW m \in Msgs, NEW t \in Told, notices' = [notices EXCEPT ![m][t] = Count(@)]
    PROVE  /\ notices'[m][t] = Count(notices[m][t])
           /\ \A x \in Msgs, y \in Told : x # m \/ y # t => notices'[x][y] = notices[x][y]
<1>1. notices \in [Msgs -> [Told -> Nat]]
  BY Zenon DEF WorldTyped
<1>2. Bumped(notices, notices', m, t)
  BY Zenon DEF Bumped
<1> QED
  BY Zenon, <1>1, <1>2, Counted

\* A notice is stored with its mark.
LEMMA NoticeMarks ==
    ASSUME Types, Types', Owned, Marks, NEW m \in Msgs, NEW r \in Rcpts, NEW event \in Notify,
           Notice(m, r, event), UNCHANGED sess
    PROVE  Marks'
<1>  StoreTyped /\ WorldTyped
  BY Zenon, Parts DEF Types
<1>t. Taken(m) /\ Present(m)
  BY Zenon DEF Notice, Present, Owned, Claimed
<1>1. CASE UNCHANGED <<store, faults, notices>>
  BY Zenon, <1>1, MarksStep, SameTold DEF Taken
<1>2. CASE /\ <<r, event>> \notin store[m].told
           /\ Put(m, [store[m] EXCEPT !.told = @ \cup {<<r, event>>}])
           /\ notices' = [notices EXCEPT ![m][<<r, event>>] = Count(@)]
  <2> DEFINE t == <<r, event>>
  <2>1. t \in Told
    BY Zenon DEF Told
  <2>2. t \notin store[m].told /\ Put(m, [store[m] EXCEPT !.told = @ \cup {t}])
        /\ notices' = [notices EXCEPT ![m][t] = Count(@)]
    BY Zenon, <1>2
  <2> HIDE DEF t
  <2>3. /\ store'[m].told = store[m].told \cup {t} /\ store'[m].st = store[m].st
        /\ \A x \in Msgs \ {m} : store'[x] = store[x]
    BY Zenon, <2>2 DEF Put, StoreTyped, Entry
  <2>4. notices[m][t] = 0
    BY Zenon, <1>t, <2>1, <2>2 DEF Marks
  <2>6. /\ notices'[m][t] = Count(notices[m][t])
        /\ \A x \in Msgs, y \in Told : x # m \/ y # t => notices'[x][y] = notices[x][y]
    BY ZenonT(30), <2>1, <2>2, NoticesMore
  <2>7. notices'[m][t] = 1
    BY <2>4, <2>6, QueueAssumption DEF Count
  <2>8. ASSUME NEW x \in Msgs, NEW y \in Told
        PROVE  /\ notices'[x][y] <= 1
               /\ Present(x)' /\ y \notin store'[x].told => notices'[x][y] = 0
               /\ ~Taken(x)' => notices'[x][y] = 0
    <3>1. CASE x = m /\ y = t
      BY <1>t, <2>3, <2>7, <3>1 DEF Taken
    <3>2. CASE x # m \/ y # t
      BY <2>3, <2>6, <3>2 DEF Marks, Present, Taken
    <3> QED
      BY ZenonT(30), <3>1, <3>2
  <2> QED
    BY Zenon, <2>8 DEF Marks
<1> QED
  BY Zenon, <1>1, <1>2 DEF Notice

\* The agreement of marks and notices is inductive, given ownership.
LEMMA NextMarks == ASSUME Types, Owned, Marks, [Next]_vars PROVE Marks'
<1>t. Types'
  BY Zenon, NextTypes
<1>  StoreTyped /\ SessTyped /\ WorkTyped /\ PassTyped
  BY Zenon, Parts DEF Types
<1>k. /\ \A w \in Workers : /\ worker[w].id \in Msgs /\ worker[w].rcpt \subseteq Rcpts
                            /\ worker[w].pc = "notify" => "SUCCESS" \in Notify
      /\ \A e \in sched.list \cup sched.cur : e.id \in Msgs
  BY Zenon DEF WorkTyped, Job, Sound, PassTyped, Pass, Copy
<1>s. ASSUME UNCHANGED <<sess, notices>>, ToldKept PROVE Marks'
  BY Zenon, <1>t, <1>s, MarksStep DEF Taken
<1>1. ASSUME NEW m \in Msgs, EnqueueStore(m) \/ EnqueueClaim(m) \/ EnqueueSend(m) PROVE Marks'
  <2>1. UNCHANGED notices /\ \A x \in Msgs : Taken(x) => Taken(x)'
    BY Zenon, <1>1 DEF EnqueueStore, EnqueueClaim, EnqueueSend, world, SessTyped, Taken
  <2>2. ToldKept
    <3>1. CASE EnqueueStore(m)
      <4>1. CASE \E st \in Arrivals : Put(m, [Absent EXCEPT !.st = st, !.to = Rcpts])
        BY Zenon, <3>1, <4>1 DEF EnqueueStore, Put, ToldKept, Present, Taken, StoreTyped
      <4>2. CASE Fault
        BY Zenon, <4>2, SameTold
      <4> QED
        BY ZenonT(30), <3>1, <4>1, <4>2 DEF EnqueueStore
    <3>2. CASE EnqueueClaim(m)
      BY ZenonT(30), <3>2, ClaimTold, SameTold DEF EnqueueClaim, Lost
    <3>3. CASE EnqueueSend(m)
      BY Zenon, <3>3, SetStatusTold, SameTold DEF EnqueueSend, Send
    <3> QED
      BY Zenon, <1>1, <3>1, <3>2, <3>3
  <2> QED
    BY Zenon, <1>t, <2>1, <2>2, MarksStep
<1>2. ASSUME NEW w \in Workers, WorkerNotify(w) PROVE Marks'
  <2>1. PICK r \in worker[w].rcpt :
          Notice(worker[w].id, r, "SUCCESS") \/ (CallFails(worker[w].id) /\ UNCHANGED notices)
    BY ZenonT(30), <1>2 DEF WorkerNotify
  <2>2. UNCHANGED sess /\ worker[w].pc = "notify"
    BY Zenon, <1>2 DEF WorkerNotify, Busy
  <2>3. CASE Notice(worker[w].id, r, "SUCCESS")
    BY Zenon, <1>t, <1>k, <2>2, <2>3, NoticeMarks
  <2>4. CASE CallFails(worker[w].id) /\ UNCHANGED notices
    BY Zenon, <1>s, <2>2, <2>4, SameTold DEF CallFails
  <2> QED
    BY Zenon, <2>1, <2>3, <2>4
<1>3. ASSUME NEW w \in Workers,
             \/ WorkerTake(w) \/ WorkerSuppressed(w) \/ WorkerLocal(w) \/ WorkerRemote(w)
             \/ WorkerPreserve(w) \/ \E r \in Rcpts : WorkerThrottled(w, r)
      PROVE  Marks'
  <2>1. UNCHANGED <<sess, notices>> /\ (UNCHANGED store \/ Fault)
    BY Zenon, <1>3 DEF WorkerTake, WorkerSuppressed, WorkerLocal, WorkerRemote, WorkerPreserve,
                WorkerThrottled, Bounce, world
  <2> QED
    BY Zenon, <1>s, <2>1, SameTold
<1>4. ASSUME NEW w \in Workers,
             (\E r \in Rcpts : WorkerAttempt(w, r)) \/ WorkerCustody(w) \/ WorkerPaused(w)
      PROVE  Marks'
  <2>1. UNCHANGED <<sess, notices>>
    BY ZenonT(30), <1>4 DEF WorkerAttempt, WorkerCustody, WorkerPaused, world
  <2>2. ToldKept
    BY ZenonT(30), <1>k, <1>4, ClaimTold, SameTold DEF WorkerAttempt, WorkerCustody, WorkerPaused, TryMove, Lost
  <2> QED
    BY Zenon, <1>s, <2>1, <2>2
<1>5. ASSUME NEW w \in Workers, WorkerCheckpoint(w) \/ WorkerFinal(w) PROVE Marks'
  <2>1. PICK left, next : Checkpoint(w, left, next)
    BY Zenon, <1>5 DEF WorkerCheckpoint, WorkerFinal
  <2>2. UNCHANGED <<sess, notices>>
    BY Zenon, <2>1 DEF Checkpoint, world
  <2>3. ToldKept
    <3>1. CASE CallFails(worker[w].id)
      BY Zenon, <3>1, SameTold DEF CallFails
    <3>2. CASE Present(worker[w].id) /\ Put(worker[w].id, [store[worker[w].id] EXCEPT !.to = left])
      BY Zenon, <1>k, <3>2 DEF Put, ToldKept, Present, StoreTyped, Entry
    <3> QED
      BY Zenon, <2>1, <3>1, <3>2 DEF Checkpoint
  <2> QED
    BY Zenon, <1>s, <2>2, <2>3
<1>6. ASSUME NEW w \in Workers, WorkerRetain(w) \/ WorkerPreserved(w) \/ WorkerFinish(w) PROVE Marks'
  <2>1. UNCHANGED <<sess, notices>>
    BY Zenon, <1>6 DEF WorkerRetain, WorkerPreserved, WorkerFinish, world
  <2>2. ToldKept
    BY Zenon, <1>k, <1>6, SetStatusTold DEF WorkerRetain, WorkerPreserved, WorkerFinish, TrySetStatus
  <2> QED
    BY Zenon, <1>s, <2>1, <2>2
<1>7. ASSUME NEW e \in sched.list, NEW r \in Rcpts, RetryWarn(e, r) PROVE Marks'
  BY Zenon, <1>t, <1>k, <1>7, NoticeMarks DEF RetryWarn
<1>8. ASSUME \/ RetryList \/ RetryEnd
             \/ \E e \in sched.list : RetrySkip(e)
             \/ \E r \in Rcpts : RetryBounce(r)
      PROVE  Marks'
  <2>1. UNCHANGED <<sess, notices>> /\ (UNCHANGED store \/ Fault)
    BY ZenonT(30), <1>8 DEF RetryList, RetrySkip, RetryBounce, RetryEnd, Lost, world
  <2> QED
    BY Zenon, <1>s, <2>1, SameTold
<1>9. ASSUME \/ RetryRequeue \/ RetryGiveUp \/ RetryUnbounced
             \/ \E m \in Msgs : RetryRelease(m) \/ OperatorDelete(m) \/ OperatorRelease(m)
      PROVE  Marks'
  <2>1. UNCHANGED <<sess, notices>>
    BY Zenon, <1>9 DEF RetryRelease, RetryRequeue, RetryGiveUp, RetryUnbounced, OperatorDelete,
                OperatorRelease, world
  <2>2. (UNCHANGED store) \/ \E x \in Msgs : \E st : TrySetStatus(x, st)
    BY Zenon, <1>k, <1>9 DEF RetryRelease, RetryRequeue, RetryGiveUp, RetryUnbounced, OperatorDelete,
                OperatorRelease, Send, TrySetStatus
  <2> QED
    BY Zenon, <1>s, <2>1, <2>2, SameTold, SetStatusTold
<1>10. ASSUME NEW e \in sched.list, RetryClaim(e) PROVE Marks'
  <2>1. ToldKept
    BY Zenon, <1>k, <1>10, ClaimTold DEF RetryClaim
  <2> QED
    BY Zenon, <1>s, <1>10, <2>1 DEF RetryClaim, world
<1>11. ASSUME NEW m \in Msgs, OperatorRevive(m) PROVE Marks'
  <2>1. ToldKept
    BY Zenon, <1>11 DEF OperatorRevive, Put, ToldKept, Present, StoreTyped, Entry
  <2> QED
    BY Zenon, <1>s, <1>11, <2>1 DEF OperatorRevive, world
<1>12. CASE Shutdown \/ UNCHANGED vars
  BY Zenon, <1>s, <1>12, SameTold DEF Shutdown, vars, world
<1>13. CASE Restart
  <2>1. ToldKept
    BY Zenon, <1>13 DEF Restart, ToldKept, Present, StoreTyped, Entry
  <2>2. \A x \in Msgs : Taken(x) => Taken(x)'
    BY Zenon, <1>13 DEF Restart, Taken
  <2> QED
    BY Zenon, <1>t, <1>13, <2>1, <2>2, MarksStep DEF Restart, world
<1>14. ASSUME NEW w \in Workers, WorkerStep(w) \/ WorkerDefer(w) PROVE Marks'
  BY Zenon, <1>2, <1>3, <1>4, <1>5, <1>6, <1>14 DEF WorkerStep, WorkerDefer
<1>15. ASSUME Scheduler PROVE Marks'
  BY Zenon, <1>7, <1>8, <1>9, <1>10, <1>15 DEF Scheduler
<1> QED
  BY Zenon, <1>1, <1>9, <1>11, <1>12, <1>13, <1>14, <1>15 DEF Next, Session, Operator
=============================================================================

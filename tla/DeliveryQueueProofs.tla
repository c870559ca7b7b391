------------------------- MODULE DeliveryQueueProofs --------------------------
(***************************************************************************)
(* The safety properties of the queue manager hold for any messages,       *)
(* recipients, workers and bounds.  No list of recipients loses one who was*)
(* not reached, and no recipient is given a message once too often (Lists, *)
(* Deliveries); then the parts of the inductive invariant are put together,*)
(* and the properties the runs check drawn from it.                        *)
(***************************************************************************)
EXTENDS QueueOwnersProofs, FiniteSetTheorems

-----------------------------------------------------------------------------
(* Recipient lists.                                                        *)

\* One more bounce of m for r, and no count goes down.
LEMMA BouncedMore ==
    ASSUME WorldTyped, NEW m \in Msgs, NEW r \in Rcpts, bounced' = [bounced EXCEPT ![m][r] = Count(@)]
    PROVE  bounced'[m][r] > 0 /\ \A x \in Msgs, y \in Rcpts : bounced'[x][y] >= bounced[x][y]
<1>1. bounced \in [Msgs -> [Rcpts -> Nat]]
  BY Zenon DEF WorldTyped
<1>2. Bumped(bounced, bounced', m, r)
  BY Zenon DEF Bumped
<1> QED
  BY <1>1, <1>2, Counted

\* What the world has seen of the messages only grows.
Grows ==
    /\ \A m \in Msgs : mailbox[m] \subseteq mailbox'[m]
    /\ \A m \in Msgs, r \in Rcpts : sent[m][r] <= sent'[m][r] /\ bounced[m][r] <= bounced'[m][r]
    /\ preserved \subseteq preserved' /\ deleted \subseteq deleted'

\* Who was reached stays reached.
LEMMA ReachedStays ==
    ASSUME WorldTyped, WorldTyped', Grows, NEW m \in Msgs, NEW r \in Rcpts, Reached(m, r)
    PROVE  Reached(m, r)'
  BY DEF WorldTyped, Grows, Reached

\* What a step may do to the lists in the spool, in the channel, with a
\* worker and in a pass: keep them, or put in a list that leaves out nobody
\* who was not reached.
StoreListed ==
    /\ \A m \in Msgs : Present(m)' =>
         (Present(m) /\ store[m].to \subseteq store'[m].to) \/ Left(m, store[m].to)'
    /\ \A m \in Msgs : Taken(m)' /\ ~Present(m)' =>
         (Taken(m) /\ ~Present(m)) \/ m \in deleted' \cup preserved' \/ Left(m, {})'

\* The same of the channel.
ChanListed ==
    \A i \in DOMAIN chan' : (\E j \in DOMAIN chan : chan[j] = chan'[i]) \/ Left(chan[i].id, chan[i].to)'

\* The same of worker w.
WorkListed(w) ==
    Working(w)' =>
        /\ \/ /\ Working(w) /\ worker'[w].id = worker[w].id
              /\ worker[w].todo \cup worker[w].remaining \subseteq worker'[w].todo \cup worker'[w].remaining
           \/ Left(worker[w].id, worker[w].todo \cup worker[w].remaining)'
        /\ worker'[w].pc = "notify" => \A r \in worker'[w].rcpt : Reached(worker[w].id, r)'

\* The same of the scheduler's copies.
PassListed ==
    \A e \in sched'.list \cup sched'.cur : e \in sched.list \cup sched.cur \/ Left(e.id, e.to)'

\* The lists stay complete if each is an old one, a longer one, or complete.
LEMMA ListsStep ==
    ASSUME Types, Types', Lists, Grows, StoreListed, ChanListed, PassListed,
           \A w \in Workers : WorkListed(w)
    PROVE  Lists'
<1>  WorldTyped /\ WorldTyped' /\ StoreTyped /\ ChanTyped /\ PassTyped /\ WorkTyped /\ WorkTyped'
  BY Parts, PTL DEF Types
<1>1. ASSUME NEW m \in Msgs, NEW list, Left(m, list) PROVE Left(m, list)'
  BY Zenon, <1>1, ReachedStays DEF Left
<1>2. \A m \in Msgs : Present(m)' => Left(m, store[m].to)'
  BY Zenon, <1>1 DEF StoreListed, Lists, Left
<1>3. \A m \in Msgs : Taken(m)' /\ ~Present(m)' => m \in deleted' \cup preserved' \/ Left(m, {})'
  BY Zenon, <1>1 DEF StoreListed, Lists, Grows
<1>4. \A i \in DOMAIN chan' : Left(chan[i].id, chan[i].to)'
  <2>1. \A j \in DOMAIN chan : chan[j].id \in Msgs
    BY Zenon, ChanElement
  <2> QED
    BY Zenon, <1>1, <2>1 DEF ChanListed, Lists
<1>5. \A w \in Workers : Working(w)' => Left(worker[w].id, worker[w].todo \cup worker[w].remaining)'
  <2>1. \A w \in Workers : worker[w].id \in Msgs
    BY Zenon DEF WorkTyped, Job
  <2> QED
    BY ZenonT(30), <1>1, <2>1 DEF WorkListed, Lists, Left
<1>6. \A w \in Workers : worker'[w].pc = "notify" => \A r \in worker'[w].rcpt : Reached(worker[w].id, r)'
  BY Zenon DEF WorkListed, Working
<1>7. \A e \in sched'.list \cup sched'.cur : Left(e.id, e.to)'
  <2>1. \A e \in sched.list \cup sched.cur : e.id \in Msgs
    BY Zenon DEF PassTyped, Pass, Copy
  <2> QED
    BY Zenon, <1>1, <2>1 DEF PassListed, Lists
<1> QED
  BY Zenon, <1>2, <1>3, <1>4, <1>5, <1>6, <1>7 DEF Lists

\* A step that keeps every entry's list does so for the spool.
LEMMA ToListed ==
    ASSUME ToKept, \A m \in Msgs : Taken(m)' => Taken(m) \/ Present(m) PROVE StoreListed
  BY Zenon DEF ToKept, StoreListed

\* A step that delivers nothing undoes nothing.
LEMMA SameWorld == ASSUME WorldTyped, UNCHANGED <<mailbox, sent, bounced>>, preserved \subseteq preserved',
                          deleted \subseteq deleted' PROVE Grows
  BY DEF WorldTyped, Grows

\* A step that leaves the channel alone does so for it.
LEMMA SameChan == ASSUME UNCHANGED chan PROVE ChanListed
  BY Zenon DEF ChanListed

\* A step that leaves the scheduler alone does so for it.
LEMMA SamePass == ASSUME UNCHANGED sched PROVE PassListed
  BY Zenon DEF PassListed

\* A step that leaves worker w alone does so for it.
LEMMA SameWork ==
    ASSUME Types, Types', Lists, Grows, NEW w \in Workers, worker'[w] = worker[w]
    PROVE  WorkListed(w)
<1>  WorldTyped /\ WorldTyped' /\ WorkTyped
  BY Parts, PTL DEF Types
<1>1. worker[w].id \in Msgs /\ worker[w].rcpt \subseteq Rcpts
  BY Zenon DEF WorkTyped, Job
<1>2. ASSUME worker[w].pc = "notify", NEW r \in worker[w].rcpt PROVE Reached(worker[w].id, r)'
  BY Zenon, <1>1, <1>2, ReachedStays DEF Lists
<1> QED
  BY Zenon, <1>2 DEF WorkListed, Working

\* So does a worker that returns.
LEMMA ReturnListed ==
    ASSUME Types, Types', Lists, Grows, NEW w \in Workers, Return(w)
    PROVE  \A v \in Workers : WorkListed(v)
<1>  WorkTyped
  BY Zenon, Parts DEF Types
<1>1. WorkListed(w)
  BY Zenon, ReturnWork, NoWorkType DEF WorkListed, Working
<1>2. ASSUME NEW v \in Workers \ {w} PROVE WorkListed(v)
  BY Zenon, ReturnWork, SameWork
<1> QED
  BY Zenon, <1>1, <1>2

\* Worker w moves on with all of its recipients.
LEMMA MovedListed ==
    ASSUME Types, Types', Lists, Grows, NEW w \in Workers, Working(w),
           \A v \in Workers \ {w} : worker'[v] = worker[v], worker'[w].pc # "notify",
           worker'[w].id = worker[w].id,
           worker[w].todo \cup worker[w].remaining \subseteq worker'[w].todo \cup worker'[w].remaining
    PROVE  \A v \in Workers : WorkListed(v)
<1>1. WorkListed(w)
  BY Zenon DEF WorkListed, Working
<1>2. ASSUME NEW v \in Workers \ {w} PROVE WorkListed(v)
  BY Zenon, SameWork
<1> QED
  BY Zenon, <1>1, <1>2

\* Worker w is done with recipient r, who was reached or is kept.
LEMMA AttemptedListed ==
    ASSUME Types, Types', Lists, Grows, NEW w \in Workers, Working(w), NEW r \in Rcpts,
           NEW ok \in BOOLEAN, Attempted(w, r, ok), ok => Reached(worker[w].id, r)'
    PROVE  \A v \in Workers : WorkListed(v)
<1>  WorldTyped /\ WorldTyped' /\ WorkTyped
  BY Parts, PTL DEF Types
<1>m. worker[w].id \in Msgs
  BY Zenon DEF WorkTyped, Job
<1>1. /\ \A v \in Workers \ {w} : worker'[v] = worker[v]
      /\ worker'[w].pc = "checkpoint" /\ worker'[w].id = worker[w].id
      /\ worker'[w].todo = worker[w].todo \ {r}
      /\ ok => worker'[w].remaining = worker[w].remaining
      /\ ~ok => worker'[w].remaining = worker[w].remaining \cup {r}
  BY AttemptedWork
<1>2. CASE ok
  <2>1. \A x \in Rcpts \ (worker[w].todo \cup worker[w].remaining) : Reached(worker[w].id, x)'
    BY Zenon, <1>m, <1>1, ReachedStays DEF Lists, Left
  <2>2. Left(worker[w].id, worker[w].todo \cup worker[w].remaining)'
    BY Zenon, <1>1, <1>2, <2>1 DEF Left
  <2>3. WorkListed(w)
    BY Zenon, <1>1, <2>2 DEF WorkListed
  <2> QED
    BY Zenon, <1>1, <2>3, SameWork
<1>3. CASE ~ok
  BY Zenon, <1>1, <1>3, MovedListed
<1> QED
  BY Zenon, <1>2, <1>3

\* So does a worker whose recipient was accepted and so reached.
LEMMA AcceptedListed ==
    ASSUME Types, Types', Lists, Grows, NEW w \in Workers, worker[w].pc = "deliver",
           NEW r \in worker[w].rcpt, Accepted(w, r), Reached(worker[w].id, r)'
    PROVE  \A v \in Workers : WorkListed(v)
<1>  WorkTyped
  BY Zenon, Parts DEF Types
<1>r. r \in Rcpts /\ \A x \in worker[w].rcpt : x = r
  BY Zenon DEF WorkTyped, Job, Sound
<1>1. CASE "SUCCESS" \in Notify
  <2>1. worker' = [worker EXCEPT ![w].pc = "notify"]
    BY Zenon, <1>1 DEF Accepted
  <2>2. /\ \A v \in Workers \ {w} : worker'[v] = worker[v]
        /\ worker'[w].id = worker[w].id /\ worker'[w].rcpt = worker[w].rcpt
        /\ worker'[w].todo = worker[w].todo /\ worker'[w].remaining = worker[w].remaining
    BY Zenon, <2>1, MovedWork
  <2>3. WorkListed(w)
    BY Zenon, <1>r, <2>2 DEF WorkListed, Working
  <2> QED
    BY Zenon, <2>2, <2>3, SameWork
<1>2. CASE "SUCCESS" \notin Notify
  BY Zenon, <1>r, <1>2, AttemptedListed DEF Accepted, Working
<1> QED
  BY Zenon, <1>1, <1>2

\* Enqueue keeps the lists complete.
LEMMA SessionLists == ASSUME Types, Types', Owned, Lists, Session PROVE Lists'
<1>  StoreTyped /\ SessTyped /\ WorldTyped /\ ChanTyped
  BY Zenon, Parts DEF Types
<1>u. UNCHANGED <<worker, sched, world>>
  BY Zenon DEF Session, EnqueueStore, EnqueueClaim, EnqueueSend
<1>g. Grows
  BY Zenon, <1>u, SameWorld DEF world
<1>w. PassListed /\ \A w \in Workers : WorkListed(w)
  BY Zenon, <1>u, <1>g, SamePass, SameWork
<1>1. ASSUME NEW m \in Msgs, EnqueueStore(m) PROVE StoreListed /\ ChanListed
  <2>1. CASE \E st \in Arrivals :
               /\ Put(m, [Absent EXCEPT !.st = st, !.to = Rcpts])
               /\ sess' = [sess EXCEPT ![m] = IF st = "pending" THEN "stored" ELSE "done"]
    <3>1. /\ store'[m].to = Rcpts /\ store'[m].st # "none"
          /\ \A x \in Msgs \ {m} : store'[x] = store[x] /\ sess'[x] = sess[x]
      BY <2>1, QueueAssumption DEF Put, Absent, StoreTyped, SessTyped
    <3>2. Left(m, store[m].to)'
      BY Zenon, <3>1 DEF Left
    <3> QED
      BY Zenon, <1>1, <3>1, <3>2, SameChan DEF StoreListed, Present, Taken, EnqueueStore
  <2>2. CASE Fault /\ sess' = [sess EXCEPT ![m] = "rejected"]
    <3>1. \A x \in Msgs : Taken(x)' => Taken(x)
      BY Zenon, <2>2 DEF SessTyped, Taken
    <3> QED
      BY Zenon, <1>1, <2>2, <3>1, FaultTo, ToListed, SameChan DEF EnqueueStore
  <2> QED
    BY ZenonT(30), <1>1, <2>1, <2>2 DEF EnqueueStore
<1>2. ASSUME NEW m \in Msgs, EnqueueClaim(m) PROVE StoreListed /\ ChanListed
  <2>1. \A x \in Msgs : Taken(x)' => Taken(x)
    BY Zenon, <1>2 DEF EnqueueClaim, SessTyped, Taken
  <2>2. ToKept
    BY Zenon, <1>2, ClaimTo, FaultTo DEF EnqueueClaim, Lost
  <2> QED
    BY Zenon, <1>2, <2>1, <2>2, ToListed, SameChan DEF EnqueueClaim
<1>3. ASSUME NEW m \in Msgs, EnqueueSend(m) PROVE StoreListed /\ ChanListed
  <2>1. \A x \in Msgs : Taken(x)' => Taken(x)
    BY Zenon, <1>3 DEF EnqueueSend, SessTyped, Taken
  <2>2. CASE chan' = Append(chan, [id |-> m, to |-> Rcpts]) /\ UNCHANGED <<store, faults>>
    <3>1. PICK n \in DOMAIN chan' :
            /\ DOMAIN chan' = DOMAIN chan \cup {n}
            /\ chan'[n] = [id |-> m, to |-> Rcpts] /\ \A i \in DOMAIN chan : chan'[i] = chan[i]
      BY Zenon, <2>2, Appended
    <3>2. Left(chan[n].id, chan[n].to)'
      BY <3>1 DEF Left
    <3>3. ChanListed
      BY Zenon, <3>1, <3>2 DEF ChanListed
    <3> QED
      BY Zenon, <2>1, <2>2, <3>3, FaultTo, ToListed
  <2>3. CASE TrySetStatus(m, "pending") /\ UNCHANGED chan
    BY Zenon, <2>1, <2>3, SetStatusTo, ToListed, SameChan
  <2> QED
    BY Zenon, <1>3, <2>2, <2>3 DEF EnqueueSend, Send
<1> QED
  BY Zenon, <1>1, <1>2, <1>3, <1>g, <1>w, ListsStep DEF Session

\* The scheduler does, with its outdated copies too.
LEMMA SchedulerLists == ASSUME Types, Types', Owned, Lists, Scheduler PROVE Lists'
<1>  StoreTyped /\ PassTyped /\ WorldTyped /\ ChanTyped
  BY Zenon, Parts DEF Types
<1>k. \A e \in sched.list \cup sched.cur : e.id \in Msgs /\ e.to \in SUBSET Rcpts
  BY Zenon DEF PassTyped, Pass, Copy
<1>u. UNCHANGED <<sess, worker, mailbox, sent, preserved, deleted>>
  BY ZenonT(30) DEF Scheduler, RetryRelease, RetryList, RetrySkip, RetryClaim, RetryWarn, RetryRequeue,
         RetryBounce, RetryGiveUp, RetryUnbounced, RetryEnd, world
<1>g. Grows
  <2>1. CASE UNCHANGED bounced
    BY Zenon, <1>u, <2>1, SameWorld
  <2>2. CASE \E r \in Rcpts : RetryBounce(r)
    <3>1. PICK e \in sched.cur, r \in Rcpts :
            UNCHANGED bounced \/ bounced' = [bounced EXCEPT ![e.id][r] = Count(@)]
      BY Zenon, <2>2 DEF RetryBounce
    <3>2. CASE bounced' = [bounced EXCEPT ![e.id][r] = Count(@)]
      <4>1. \A x \in Msgs, y \in Rcpts : bounced'[x][y] >= bounced[x][y]
        BY Zenon, <1>k, <3>2, BouncedMore
      <4> QED
        BY <1>u, <4>1 DEF Grows, WorldTyped
    <3> QED
      BY Zenon, <2>1, <3>1, <3>2
  <2> QED
    BY Zenon, <2>1, <2>2 DEF Scheduler, RetryRelease, RetryList, RetrySkip, RetryClaim, RetryWarn,
                      RetryRequeue, RetryGiveUp, RetryUnbounced, RetryEnd, world
<1>w. \A w \in Workers : WorkListed(w)
  BY Zenon, <1>u, <1>g, SameWork
<1>t. \A m \in Msgs : Taken(m)' => Taken(m)
  BY Zenon, <1>u DEF Taken
<1>1. ASSUME NEW m \in Msgs, RetryRelease(m) PROVE ToKept /\ ChanListed /\ PassListed
  BY Zenon, <1>1, SetStatusTo, SameChan, SamePass DEF RetryRelease, TrySetStatus
<1>2. ASSUME RetryList PROVE ToKept /\ ChanListed /\ PassListed
  <2>1. ASSUME NEW e \in sched'.list \cup sched'.cur PROVE Left(e.id, e.to)'
    <3>1. PICK m \in Msgs : store[m].st = "pending" /\ e.id = m /\ e.to = store[m].to
      BY <1>2, <2>1 DEF RetryList, NoPass
    <3>2. Left(m, store[m].to)
      BY Zenon, <3>1 DEF Lists, Present
    <3> QED
      BY Zenon, <1>2, <3>1, <3>2 DEF Left, Reached, RetryList, world
  <2> QED
    BY Zenon, <1>2, <2>1, FaultTo, SameChan DEF RetryList, PassListed
<1>3. ASSUME NEW e \in sched.list, RetrySkip(e) PROVE ToKept /\ ChanListed /\ PassListed
  BY Zenon, <1>3, FaultTo, SameChan DEF RetrySkip, Lost, PassListed, PassTyped, Pass
<1>4. ASSUME NEW e \in sched.list, RetryClaim(e) PROVE ToKept /\ ChanListed /\ PassListed
  <2>1. ToKept
    BY Zenon, <1>k, <1>4, ClaimTo DEF RetryClaim
  <2>2. sched'.list \subseteq sched.list /\ sched'.cur = {e}
    BY Zenon, <1>4 DEF RetryClaim, PassTyped, Pass
  <2> QED
    BY Zenon, <1>4, <2>1, <2>2, SameChan DEF RetryClaim, PassListed
<1>5. ASSUME NEW e \in sched.list, NEW r \in Rcpts, RetryWarn(e, r)
      PROVE  ToKept /\ ChanListed /\ PassListed
  BY Zenon, <1>k, <1>5, NoticeTo, SameChan, SamePass DEF RetryWarn
<1>6. ASSUME Scan PROVE PassListed
  BY Zenon, <1>6 DEF Scan, PassListed, PassTyped, Pass
<1>7. ASSUME RetryRequeue PROVE ToKept /\ ChanListed /\ PassListed
  <2>1. PICK e \in sched.cur : Send(e.id, e.to)
    BY Zenon, <1>7 DEF RetryRequeue
  <2>2. CASE chan' = Append(chan, [id |-> e.id, to |-> e.to]) /\ UNCHANGED <<store, faults>>
    <3>0. [id |-> e.id, to |-> e.to] \in [id : Msgs, to : SUBSET Rcpts]
      BY Zenon, <1>k
    <3>1. PICK n \in DOMAIN chan' :
            /\ DOMAIN chan' = DOMAIN chan \cup {n}
            /\ chan'[n] = [id |-> e.id, to |-> e.to] /\ \A i \in DOMAIN chan : chan'[i] = chan[i]
      BY Zenon, <2>2, <3>0, Appended
    <3>2. Left(e.id, e.to)
      BY Zenon DEF Lists
    <3>3. Left(e.id, e.to)'
      BY Zenon, <1>7, <3>2 DEF Left, Reached, RetryRequeue, world
    <3>4. Left(chan[n].id, chan[n].to)'
      BY <3>1, <3>3 DEF Left
    <3>5. ChanListed
      BY Zenon, <3>1, <3>4 DEF ChanListed
    <3> QED
      BY Zenon, <1>6, <1>7, <2>2, <3>5, FaultTo DEF RetryRequeue
  <2>3. CASE TrySetStatus(e.id, "pending") /\ UNCHANGED chan
    BY Zenon, <1>k, <1>6, <1>7, <2>3, SetStatusTo, SameChan DEF RetryRequeue
  <2> QED
    BY Zenon, <2>1, <2>2, <2>3 DEF Send
<1>8. ASSUME NEW r \in Rcpts, RetryBounce(r) PROVE ToKept /\ ChanListed /\ PassListed
  <2>1. PassListed
    BY Zenon, <1>8 DEF RetryBounce, PassListed, PassTyped, Pass
  <2> QED
    BY Zenon, <1>8, <2>1, FaultTo, SameChan DEF RetryBounce
<1>9. ASSUME RetryGiveUp \/ RetryUnbounced PROVE ToKept /\ ChanListed /\ PassListed
  BY Zenon, <1>k, <1>6, <1>9, SetStatusTo, SameChan DEF RetryGiveUp, RetryUnbounced
<1>10. ASSUME RetryEnd PROVE ToKept /\ ChanListed /\ PassListed
  BY Zenon, <1>10, FaultTo, SameChan DEF RetryEnd, PassListed, NoPass
<1>11. ToKept /\ ChanListed /\ PassListed
  BY Zenon, <1>1, <1>2, <1>3, <1>4, <1>5, <1>7, <1>8, <1>9, <1>10 DEF Scheduler
<1> QED
  BY Zenon, <1>11, <1>t, <1>g, <1>w, ToListed, ListsStep

\* A worker does, whatever its attempts end in.
LEMMA WorkerLists ==
    ASSUME Types, Types', Owned, Lists, NEW w \in Workers, WorkerStep(w) \/ WorkerDefer(w)
    PROVE  Lists'
<1>  StoreTyped /\ WorkTyped /\ WorldTyped /\ ChanTyped
  BY Zenon, Parts DEF Types
<1>k. worker[w].id \in Msgs /\ worker[w] \in Job /\ Sound(worker[w]) /\ worker[w].rcpt \subseteq Rcpts
  BY Zenon DEF WorkTyped, Job
<1> DEFINE Works == \A v \in Workers : WorkListed(v)
<1>f. ASSUME UNCHANGED <<store, faults>> \/ Fault, UNCHANGED sess PROVE StoreListed
  BY Zenon, <1>f, FaultTo, ToListed DEF Taken
<1>g. ASSUME UNCHANGED world PROVE Grows
  BY Zenon, <1>g, SameWorld DEF world
<1>c. ASSUME UNCHANGED <<chan, sched>> PROVE ChanListed /\ PassListed
  BY Zenon, <1>c, SameChan, SamePass
<1>1. ASSUME WorkerTake(w) PROVE Lists'
  <2>1. Grows /\ StoreListed /\ PassListed
    BY Zenon, <1>f, <1>g, <1>1, SamePass DEF WorkerTake
  <2>2. /\ 1 \in DOMAIN chan /\ chan[1] = Head(chan)
        /\ \A i \in DOMAIN chan' : i + 1 \in DOMAIN chan /\ chan'[i] = chan[i + 1]
    BY Zenon, <1>1, Received DEF WorkerTake
  <2>3. ChanListed
    BY Zenon, <2>2 DEF ChanListed
  <2>4. /\ \A v \in Workers \ {w} : worker'[v] = worker[v]
        /\ worker'[w].id = chan[1].id /\ worker'[w].todo = chan[1].to /\ worker'[w].remaining = {}
        /\ worker'[w].pc = "loop"
    BY Zenon, <1>1, <2>2, NoWorkType DEF WorkerTake, WorkTyped, Job, NoWork
  <2>5. Left(chan[1].id, chan[1].to)
    BY Zenon, <2>2 DEF Lists
  <2>6. Left(worker[w].id, worker[w].todo \cup worker[w].remaining)'
    BY Zenon, <1>1, <2>4, <2>5 DEF Left, Reached, WorkerTake, world
  <2>7. WorkListed(w)
    BY Zenon, <2>4, <2>6 DEF WorkListed
  <2> QED
    BY Zenon, <2>1, <2>3, <2>4, <2>7, SameWork, ListsStep
<1>2. ASSUME NEW r \in Rcpts, WorkerAttempt(w, r) PROVE Lists'
  <2>1. Grows /\ ChanListed /\ PassListed /\ Working(w)
    BY Zenon, <1>c, <1>g, <1>2 DEF WorkerAttempt, Busy, Working
  <2>2. StoreListed
    BY Zenon, <1>k, <1>2, ClaimTo, FaultTo, ToListed DEF WorkerAttempt, Lost, Taken
  <2>3. CASE Return(w)
    BY Zenon, <2>1, <2>2, <2>3, ReturnListed, ListsStep
  <2>4. CASE ~Return(w)
    <3>1. /\ \A v \in Workers \ {w} : worker'[v] = worker[v]
          /\ worker'[w].pc = "deliver" /\ worker'[w].id = worker[w].id
          /\ worker'[w].todo = worker[w].todo /\ worker'[w].remaining = worker[w].remaining
      BY <1>2, <2>4 DEF WorkerAttempt, WorkTyped, Job
    <3>2. Works
      BY Zenon, <2>1, <3>1, MovedListed
    <3> QED
      BY Zenon, <2>1, <2>2, <3>2, ListsStep
  <2> QED
    BY Zenon, <2>3, <2>4
<1>3. ASSUME NEW r \in worker[w].rcpt, Bounce(w, r), Busy(w, "deliver"),
             UNCHANGED <<sess, chan, sched, mailbox, sent, preserved, deleted>>
      PROVE  Lists'
  <2>1. ChanListed /\ PassListed /\ StoreListed /\ Working(w)
    BY ZenonT(30), <1>c, <1>f, <1>3 DEF Bounce, Busy, Working
  <2>2. CASE bounced' = [bounced EXCEPT ![worker[w].id][r] = Count(@)] /\ Attempted(w, r, TRUE)
    <3>1. bounced'[worker[w].id][r] > 0 /\ \A x \in Msgs, y \in Rcpts : bounced'[x][y] >= bounced[x][y]
      BY Zenon, <1>k, <2>2, BouncedMore
    <3>2. Grows
      BY <1>3, <3>1 DEF Grows, WorldTyped
    <3>3. worker'[w].id = worker[w].id
      BY Zenon, <2>2, AttemptedWork
    <3>4. Reached(worker[w].id, r)'
      BY Zenon, <3>1, <3>3 DEF Reached
    <3>5. Works
      BY Zenon, <1>k, <2>1, <2>2, <3>2, <3>4, AttemptedListed
    <3> QED
      BY Zenon, <2>1, <3>2, <3>5, ListsStep
  <2>3. CASE Attempted(w, r, FALSE) /\ UNCHANGED bounced
    <3>1. Grows
      BY Zenon, <1>3, <2>3, SameWorld
    <3>2. Works
      BY Zenon, <1>k, <2>1, <2>3, <3>1, AttemptedListed
    <3> QED
      BY Zenon, <2>1, <3>1, <3>2, ListsStep
  <2> QED
    BY Zenon, <1>3, <2>2, <2>3 DEF Bounce
<1>4. ASSUME WorkerSuppressed(w) PROVE Lists'
  BY Zenon, <1>3, <1>4 DEF WorkerSuppressed
<1>5. ASSUME WorkerLocal(w) PROVE Lists'
  <2>1. PICK r \in worker[w].rcpt :
          \/ mailbox' = [mailbox EXCEPT ![worker[w].id] = @ \cup {r}] /\ Accepted(w, r)
          \/ Attempted(w, r, FALSE) /\ UNCHANGED mailbox
    BY ZenonT(30), <1>5 DEF WorkerLocal
  <2>2. /\ ChanListed /\ PassListed /\ StoreListed /\ Working(w) /\ worker[w].pc = "deliver"
        /\ UNCHANGED <<sent, bounced, preserved, deleted>>
    BY Zenon, <1>c, <1>f, <1>5 DEF WorkerLocal, Busy, Working
  <2>3. CASE mailbox' = [mailbox EXCEPT ![worker[w].id] = @ \cup {r}] /\ Accepted(w, r)
    <3>1. r \in mailbox'[worker[w].id] /\ \A m \in Msgs : mailbox[m] \subseteq mailbox'[m]
      BY Zenon, <1>k, <2>3 DEF WorldTyped
    <3>2. Grows
      BY <2>2, <3>1 DEF Grows, WorldTyped
    <3>3. worker'[w].id = worker[w].id
      BY Zenon, <2>3, AcceptedWork
    <3>4. Reached(worker[w].id, r)'
      BY Zenon, <3>1, <3>3 DEF Reached
    <3>5. Works
      BY Zenon, <2>2, <2>3, <3>2, <3>4, AcceptedListed
    <3> QED
      BY Zenon, <2>2, <3>2, <3>5, ListsStep
  <2>4. CASE Attempted(w, r, FALSE) /\ UNCHANGED mailbox
    <3>1. Grows
      BY Zenon, <2>2, <2>4, SameWorld
    <3>2. Works
      BY Zenon, <1>k, <2>2, <2>4, <3>1, AttemptedListed
    <3> QED
      BY Zenon, <2>2, <3>1, <3>2, ListsStep
  <2> QED
    BY Zenon, <2>1, <2>3, <2>4
<1>6. ASSUME WorkerRemote(w) PROVE Lists'
  <2>1. PICK r \in worker[w].rcpt :
          \/ sent' = [sent EXCEPT ![worker[w].id][r] = Count(@)] /\ Accepted(w, r)
               /\ UNCHANGED <<bounced, store, faults>>
          \/ Attempted(w, r, FALSE) /\ UNCHANGED <<sent, bounced, store, faults>>
          \/ Bounce(w, r) /\ UNCHANGED sent
    BY Zenon, <1>6 DEF WorkerRemote
  <2>2. /\ ChanListed /\ PassListed /\ Working(w) /\ worker[w].pc = "deliver"
        /\ UNCHANGED <<sess, chan, sched, mailbox, preserved, deleted>>
    BY Zenon, <1>c, <1>6 DEF WorkerRemote, Busy, Working
  <2>3. CASE sent' = [sent EXCEPT ![worker[w].id][r] = Count(@)] /\ Accepted(w, r)
               /\ UNCHANGED <<bounced, store, faults>>
    <3>1. sent'[worker[w].id][r] > 0 /\ \A x \in Msgs, y \in Rcpts : sent'[x][y] >= sent[x][y]
      BY Zenon, <1>k, <2>3, SentMore
    <3>2. Grows
      BY <2>2, <2>3, <3>1 DEF Grows, WorldTyped
    <3>3. worker'[w].id = worker[w].id
      BY Zenon, <2>3, AcceptedWork
    <3>4. Reached(worker[w].id, r)'
      BY Zenon, <3>1, <3>3 DEF Reached
    <3>5. Works
      BY Zenon, <2>2, <2>3, <3>2, <3>4, AcceptedListed
    <3> QED
      BY Zenon, <1>f, <2>2, <2>3, <3>2, <3>5, ListsStep
  <2>4. CASE Attempted(w, r, FALSE) /\ UNCHANGED <<sent, bounced, store, faults>>
    <3>1. Grows
      BY Zenon, <2>2, <2>4, SameWorld
    <3>2. Works
      BY ZenonT(30), <1>k, <2>2, <2>4, <3>1, AttemptedListed
    <3> QED
      BY Zenon, <1>f, <2>2, <2>4, <3>1, <3>2, ListsStep
  <2>5. CASE Bounce(w, r) /\ UNCHANGED sent
    BY Zenon, <1>3, <2>2, <2>5 DEF Busy
  <2> QED
    BY Zenon, <2>1, <2>3, <2>4, <2>5
<1>7. ASSUME WorkerNotify(w) PROVE Lists'
  <2>1. PICK r \in worker[w].rcpt :
          \/ Notice(worker[w].id, r, "SUCCESS") /\ Attempted(w, r, TRUE)
          \/ CallFails(worker[w].id) /\ Attempted(w, r, FALSE)
    BY Zenon, <1>7 DEF WorkerNotify
  <2>2. /\ ChanListed /\ PassListed /\ Working(w) /\ worker[w].pc = "notify"
        /\ UNCHANGED <<sess, mailbox, sent, bounced, preserved, deleted>>
    BY Zenon, <1>c, <1>7 DEF WorkerNotify, Busy, Working
  <2>3. ToKept
    BY Zenon, <1>k, <2>1, NoticeTo, FaultTo DEF CallFails
  <2>4. Grows
    BY Zenon, <2>2, SameWorld
  <2>5. PICK ok \in BOOLEAN : Attempted(w, r, ok)
    BY ZenonT(30), <2>1
  <2>6. worker'[w].id = worker[w].id
    BY Zenon, <2>5, AttemptedWork
  <2>7. Reached(worker[w].id, r)'
    BY Zenon, <2>2, <2>6 DEF Lists, Reached
  <2>8. Works
    BY Zenon, <1>k, <2>2, <2>4, <2>5, <2>7, AttemptedListed
  <2> QED
    BY Zenon, <2>2, <2>3, <2>4, <2>8, ToListed, ListsStep DEF Taken
<1>8. ASSUME WorkerCheckpoint(w) \/ WorkerFinal(w) PROVE Lists'
  <2>1. PICK next \in {"loop", "finish", "retain"} :
          Checkpoint(w, worker[w].todo \cup worker[w].remaining, next)
    <3>1. CASE WorkerCheckpoint(w)
      <4>1. worker[w].todo \cup worker[w].remaining = worker[w].remaining \cup worker[w].todo
        BY Zenon
      <4> QED
        BY Zenon, <3>1, <4>1 DEF WorkerCheckpoint
    <3>2. CASE WorkerFinal(w)
      <4>1. worker[w].todo \cup worker[w].remaining = worker[w].remaining
        BY Zenon, <1>k, <3>2 DEF WorkerFinal, Busy, Sound
      <4> QED
        BY Zenon, <3>2, <4>1 DEF WorkerFinal
    <3> QED
      BY Zenon, <1>8, <3>1, <3>2
  <2>2. ChanListed /\ PassListed /\ Working(w) /\ Grows /\ UNCHANGED <<sess, world>>
    BY Zenon, <1>c, <1>g, <1>8 DEF WorkerCheckpoint, WorkerFinal, Busy, Working, Checkpoint
  <2>3. PICK pc \in {"loop", "finish", "retain"} : worker' = [worker EXCEPT ![w].pc = pc]
    BY Zenon, <2>1 DEF Checkpoint
  <2>4. Works
    BY ZenonT(30), <2>2, <2>3, MovedWork, MovedListed
  <2>5. StoreListed
    <3>1. CASE CallFails(worker[w].id)
      BY Zenon, <2>2, <3>1, FaultTo, ToListed DEF CallFails, Taken
    <3>2. CASE /\ Present(worker[w].id)
               /\ Put(worker[w].id, [store[worker[w].id] EXCEPT !.to = worker[w].todo \cup worker[w].remaining])
      <4>m. PICK m \in Msgs : worker[w].id = m
        BY Zenon, <1>k
      <4>1. /\ store'[m].to = worker[w].todo \cup worker[w].remaining
            /\ store'[m].st = store[m].st /\ store[m].st # "none"
            /\ \A x \in Msgs \ {m} : store'[x] = store[x]
        BY Zenon, <3>2, <4>m DEF Put, StoreTyped, Entry, Present
      <4>2. Left(m, worker[w].todo \cup worker[w].remaining)
        BY Zenon, <2>2, <4>m DEF Lists
      <4>3. Left(m, store[m].to)'
        BY Zenon, <2>2, <4>1, <4>2 DEF Left, Reached, world
      <4> QED
        BY Zenon, <2>2, <4>1, <4>3 DEF StoreListed, Present, Taken
    <3> QED
      BY Zenon, <2>1, <3>1, <3>2 DEF Checkpoint
  <2> QED
    BY Zenon, <2>2, <2>4, <2>5, ListsStep
<1>9. ASSUME WorkerRetain(w) PROVE Lists'
  <2>1. ChanListed /\ PassListed /\ Grows /\ UNCHANGED sess
    BY Zenon, <1>c, <1>g, <1>9 DEF WorkerRetain
  <2>2. StoreListed
    BY Zenon, <1>k, <1>9, <2>1, SetStatusTo, ToListed DEF WorkerRetain, Taken
  <2> QED
    BY Zenon, <1>9, <2>1, <2>2, ReturnListed, ListsStep DEF WorkerRetain
<1>10. ASSUME WorkerPreserved(w) \/ WorkerFinish(w) PROVE Lists'
  <2>1. ChanListed /\ PassListed /\ Grows /\ UNCHANGED <<sess, world>> /\ Working(w)
    BY Zenon, <1>c, <1>g, <1>10 DEF WorkerPreserved, WorkerFinish, Busy, Working
  <2>m. PICK m \in Msgs : worker[w].id = m
    BY Zenon, <1>k
  <2>2. m \in preserved \/ Left(m, {})
    <3>1. CASE WorkerPreserved(w)
      BY Zenon, <2>m, <3>1 DEF WorkerPreserved, Busy, WorkTyped
    <3>2. CASE WorkerFinish(w)
      <4>1. worker[w].todo \cup worker[w].remaining = {}
        BY Zenon, <1>k, <3>2 DEF WorkerFinish, Busy, Sound
      <4> QED
        BY Zenon, <2>1, <2>m, <4>1 DEF Lists
    <3> QED
      BY Zenon, <1>10, <3>1, <3>2
  <2>3. StoreListed
    <3>1. CASE CallFails(m)
      BY Zenon, <2>1, <3>1, FaultTo, ToListed DEF CallFails, Taken
    <3>2. CASE SetStatus(m, "delivered")
      <4>1. store'[m].st = "none" /\ \A x \in Msgs \ {m} : store'[x] = store[x]
        BY Zenon, <3>2 DEF SetStatus, Put, StoreTyped, Absent
      <4>2. m \in preserved' \/ Left(m, {})'
        BY Zenon, <2>1, <2>2 DEF Left, Reached, world
      <4> QED
        BY Zenon, <2>1, <4>1, <4>2 DEF StoreListed, Present, Taken
    <3> QED
      BY Zenon, <1>10, <2>m, <3>1, <3>2 DEF WorkerPreserved, WorkerFinish, TrySetStatus
  <2>4. Works
    <3>1. CASE Return(w)
      BY Zenon, <2>1, <3>1, ReturnListed
    <3>2. CASE worker' = [worker EXCEPT ![w].pc = "retain"]
      <4>1. /\ \A v \in Workers \ {w} : worker'[v] = worker[v]
            /\ worker'[w].pc = "retain" /\ worker'[w].id = worker[w].id
            /\ worker'[w].todo = worker[w].todo /\ worker'[w].remaining = worker[w].remaining
        BY Zenon, <3>2, MovedWork
      <4> QED
        BY Zenon, <2>1, <4>1, MovedListed
    <3> QED
      BY Zenon, <1>10, <3>1, <3>2 DEF WorkerPreserved, WorkerFinish
  <2> QED
    BY Zenon, <2>1, <2>3, <2>4, ListsStep
<1>11. ASSUME WorkerPreserve(w) PROVE Lists'
  <2>1. ChanListed /\ PassListed /\ StoreListed /\ Working(w)
    BY Zenon, <1>c, <1>f, <1>11 DEF WorkerPreserve, Busy, Working
  <2>2. Grows
    BY Zenon, <1>11, SameWorld DEF WorkerPreserve
  <2>3. PICK pc \in {"preserved", "retain"} : worker' = [worker EXCEPT ![w].pc = pc]
    BY Zenon, <1>11 DEF WorkerPreserve
  <2>4. Works
    BY Zenon, <2>1, <2>2, <2>3, MovedWork, MovedListed
  <2> QED
    BY Zenon, <2>1, <2>2, <2>4, ListsStep
<1>12. ASSUME WorkerCustody(w) \/ WorkerPaused(w) PROVE Lists'
  <2>1. ChanListed /\ PassListed /\ Grows /\ UNCHANGED sess /\ Working(w)
    BY Zenon, <1>c, <1>g, <1>12 DEF WorkerCustody, WorkerPaused, Busy, Working
  <2>2. StoreListed
    BY Zenon, <1>k, <1>12, <2>1, ClaimTo, FaultTo, ToListed
    DEF WorkerCustody, WorkerPaused, TryMove, Lost, Taken
  <2>3. Works
    <3>1. CASE Return(w)
      BY Zenon, <2>1, <3>1, ReturnListed
    <3>2. CASE worker' = [worker EXCEPT ![w].pc = "custody"]
      <4>1. /\ \A v \in Workers \ {w} : worker'[v] = worker[v]
            /\ worker'[w].pc = "custody" /\ worker'[w].id = worker[w].id
            /\ worker'[w].todo = worker[w].todo /\ worker'[w].remaining = worker[w].remaining
        BY Zenon, <3>2, MovedWork
      <4> QED
        BY Zenon, <2>1, <4>1, MovedListed
    <3>3. CASE worker' = [worker EXCEPT ![w].pc = "final", ![w].todo = {},
                                        ![w].remaining = @ \cup worker[w].todo]
      <4>1. /\ \A v \in Workers \ {w} : worker'[v] = worker[v]
            /\ worker'[w].pc = "final" /\ worker'[w].id = worker[w].id
            /\ worker'[w].todo = {} /\ worker'[w].remaining = worker[w].remaining \cup worker[w].todo
        BY Zenon, <3>3 DEF WorkTyped, Job
      <4> QED
        BY Zenon, <2>1, <4>1, MovedListed
    <3> QED
      BY Zenon, <1>12, <3>1, <3>2, <3>3 DEF WorkerCustody, WorkerPaused
  <2> QED
    BY Zenon, <2>1, <2>2, <2>3, ListsStep
<1>13. ASSUME NEW r \in Rcpts, WorkerThrottled(w, r) PROVE Lists'
  <2>1. ChanListed /\ PassListed /\ StoreListed /\ Grows /\ Working(w)
    BY Zenon, <1>c, <1>f, <1>g, <1>13 DEF WorkerThrottled, Busy, Working
  <2>2. /\ \A v \in Workers \ {w} : worker'[v] = worker[v]
        /\ worker'[w].pc = "loop" /\ worker'[w].id = worker[w].id
        /\ worker'[w].todo = worker[w].todo \ {r} /\ worker'[w].remaining = worker[w].remaining \cup {r}
    BY Zenon, <1>k, <1>13 DEF WorkerThrottled, Busy, WorkTyped, Job
  <2>3. Works
    BY Zenon, <2>1, <2>2, MovedListed
  <2> QED
    BY Zenon, <2>1, <2>3, ListsStep
<1> QED
  BY Zenon, <1>1, <1>2, <1>4, <1>5, <1>6, <1>7, <1>8, <1>9, <1>10, <1>11, <1>12, <1>13
  DEF WorkerStep, WorkerDefer

\* Completeness of the lists is inductive, given types and ownership.
LEMMA NextLists == ASSUME Types, Owned, Lists, [Next]_vars PROVE Lists'
<1>t. Types'
  BY Zenon, NextTypes
<1>  StoreTyped /\ WorldTyped
  BY Zenon, Parts DEF Types
<1>1. ASSUME NEW m \in Msgs, OperatorDelete(m) PROVE Lists'
  <2>1. /\ UNCHANGED <<sess, chan, worker, sched, mailbox, sent, bounced, preserved>>
        /\ deleted' = deleted \cup {m}
        /\ store'[m].st = "none" /\ \A x \in Msgs \ {m} : store'[x] = store[x]
    BY Zenon, <1>1 DEF OperatorDelete, SetStatus, Put, StoreTyped, Absent
  <2>2. Grows
    BY Zenon, <2>1, SameWorld
  <2>3. StoreListed
    BY Zenon, <2>1 DEF StoreListed, Present, Taken
  <2> QED
    BY Zenon, <1>t, <2>1, <2>2, <2>3, SameChan, SamePass, SameWork, ListsStep
<1>2. ASSUME NEW m \in Msgs, OperatorRevive(m) \/ OperatorRelease(m) PROVE Lists'
  <2>1. UNCHANGED <<sess, chan, worker, sched, mailbox, sent, bounced, preserved, deleted>>
    BY Zenon, <1>2 DEF OperatorRevive, OperatorRelease, world
  <2>2. ToKept
    <3>1. CASE OperatorRevive(m)
      BY Zenon, <3>1 DEF OperatorRevive, Put, ToKept, Present, StoreTyped, Entry
    <3>2. CASE OperatorRelease(m)
      BY Zenon, <3>2, SetStatusTo DEF OperatorRelease, TrySetStatus
    <3> QED
      BY Zenon, <1>2, <3>1, <3>2
  <2>3. Grows /\ StoreListed
    BY Zenon, <2>1, <2>2, SameWorld, ToListed DEF Taken
  <2> QED
    BY Zenon, <1>t, <2>1, <2>3, SameChan, SamePass, SameWork, ListsStep
<1>3. CASE Shutdown \/ UNCHANGED vars
  <2>1. UNCHANGED <<store, sess, chan, worker, sched, mailbox, sent, bounced, preserved, deleted>>
    BY Zenon, <1>3 DEF Shutdown, vars, world
  <2>2. Grows /\ StoreListed
    BY Zenon, <2>1, SameWorld, FaultTo, ToListed DEF Taken
  <2> QED
    BY Zenon, <1>t, <2>1, <2>2, SameChan, SamePass, SameWork, ListsStep
<1>4. CASE Restart
  <2>1. ToKept
    BY Zenon, <1>4 DEF Restart, ToKept, Present, StoreTyped, Entry
  <2>2. \A x \in Msgs : Taken(x)' => Taken(x)
    BY Zenon, <1>4 DEF Restart, Taken
  <2>3. Grows
    BY Zenon, <1>4, SameWorld DEF Restart, world
  <2>4. ChanListed /\ PassListed
    BY <1>4 DEF Restart, ChanListed, PassListed, NoPass
  <2>5. \A w \in Workers : WorkListed(w)
    BY Zenon, <1>4, NoWorkType DEF Restart, WorkListed, Working
  <2> QED
    BY Zenon, <1>t, <2>1, <2>2, <2>3, <2>4, <2>5, ToListed, ListsStep
<1> QED
  BY Zenon, <1>t, <1>1, <1>2, <1>3, <1>4, SessionLists, WorkerLists, SchedulerLists DEF Next, Operator

-----------------------------------------------------------------------------
(* Deliveries.                                                             *)

\* The explained deliveries of m to r.
Few(m, r) == sent[m][r] <= Slack

\* What is counted is a number.
Numbers ==
    /\ Slack \in Nat /\ stale \in Nat /\ faults \in Nat /\ crashes \in Nat
    /\ \A m \in Msgs, r \in Rcpts : sent[m][r] \in Nat

\* It is, in every typed state.
LEMMA SlackType == Types => Numbers
<1> SUFFICES ASSUME Types PROVE Numbers
  BY Zenon
<1>1. BoundsTyped /\ StoreTyped /\ WorldTyped
  BY Zenon, Parts DEF Types
<1>2. stale \in Nat /\ faults \in Nat /\ crashes \in Nat
  BY Zenon, <1>1 DEF BoundsTyped, StoreTyped
<1> QED
  BY <1>1, <1>2 DEF Numbers, Slack, WorldTyped

\* Whatever names a message or recipients names some of this instance.
Proper ==
    /\ \A i \in DOMAIN chan : chan[i].id \in Msgs /\ chan[i].to \subseteq Rcpts
    /\ \A e \in sched.list \cup sched.cur : e.id \in Msgs /\ e.to \subseteq Rcpts
    /\ \A w \in Workers : /\ worker[w].id \in Msgs /\ worker[w].todo \subseteq Rcpts
                          /\ worker[w].remaining \subseteq Rcpts /\ worker[w].rcpt \subseteq Rcpts
    /\ \A m \in Msgs : store[m].to \subseteq Rcpts

\* It does, in every typed state.
LEMMA Elements == Types => Proper
<1> SUFFICES ASSUME Types PROVE Proper
  OBVIOUS
<1>1. ChanTyped /\ PassTyped /\ WorkTyped /\ StoreTyped
  BY Zenon, Parts DEF Types
<1>2. \A i \in DOMAIN chan : chan[i].id \in Msgs /\ chan[i].to \subseteq Rcpts
  BY Zenon, <1>1, ChanElement
<1>3. \A e \in sched.list \cup sched.cur : e.id \in Msgs /\ e.to \subseteq Rcpts
  BY Zenon, <1>1 DEF PassTyped, Pass, Copy
<1>4. \A w \in Workers : /\ worker[w].id \in Msgs /\ worker[w].todo \subseteq Rcpts
                         /\ worker[w].remaining \subseteq Rcpts /\ worker[w].rcpt \subseteq Rcpts
  BY Zenon, <1>1 DEF WorkTyped, Job
<1>5. \A m \in Msgs : store[m].to \subseteq Rcpts
  BY Zenon, <1>1 DEF StoreTyped, Entry
<1> QED
  BY Zenon, <1>2, <1>3, <1>4, <1>5 DEF Proper

\* A failed call, a restart or an outdated claim explains one more delivery of
\* every message.
LEMMA AllFew ==
    ASSUME Types, Types', stale' <= MaxCount,
           \A m \in Msgs, r \in Rcpts : sent'[m][r] <= MaxCount /\ Few(m, r)'
                                        /\ (~Taken(m)' => sent'[m][r] = 0)
    PROVE  Deliveries'
<1>1. /\ \A i \in DOMAIN chan' : chan'[i].id \in Msgs /\ chan'[i].to \subseteq Rcpts
      /\ \A e \in sched'.cur : e.id \in Msgs /\ e.to \subseteq Rcpts
      /\ \A w \in Workers : /\ worker'[w].id \in Msgs /\ worker'[w].todo \subseteq Rcpts
                            /\ worker'[w].remaining \subseteq Rcpts
      /\ \A m \in Msgs : store'[m].to \subseteq Rcpts
  <2>1. Proper'
    BY Elements, PTL
  <2> QED
    BY Zenon, <2>1 DEF Proper
<1>2. /\ Slack' \in Nat /\ \A m \in Msgs, r \in Rcpts : sent'[m][r] \in Nat
  <2>1. Numbers'
    BY SlackType, PTL
  <2> QED
    BY Zenon, <2>1 DEF Numbers
<1>3. \A m \in Msgs, r \in Rcpts : sent'[m][r] <= Slack'
  BY Zenon DEF Few
<1>4. \A m \in Msgs, r \in Rcpts : sent'[m][r] <= MaxCount /\ sent'[m][r] <= Slack' + 1
  BY <1>2, <1>3
<1> QED
  BY Zenon, <1>1, <1>3, <1>4 DEF Deliveries

\* A crash, a fault or an outdated claim explains one more of every delivery.
LEMMA MoreSlack ==
    ASSUME Types, Types', Deliveries, UNCHANGED sent, Slack + 1 <= Slack', stale' <= MaxCount,
           \A m \in Msgs : Taken(m) => Taken(m)'
    PROVE  Deliveries'
<1>1. /\ Slack \in Nat /\ \A m \in Msgs, r \in Rcpts : sent[m][r] \in Nat
  BY Zenon, SlackType DEF Numbers
<1>2. Slack' \in Nat
  <2>1. Numbers'
    BY SlackType, PTL
  <2> QED
    BY Zenon, <2>1 DEF Numbers
<1>3. \A m \in Msgs, r \in Rcpts : sent[m][r] <= Slack'
  BY <1>1, <1>2 DEF Deliveries
<1>4. \A m \in Msgs, r \in Rcpts : Few(m, r)'
  BY Zenon, <1>3 DEF Few
<1> QED
  BY ZenonT(30), <1>4, AllFew DEF Deliveries

\* What a step that delivers nothing may do to worker w: keep only
\* recipients whose deliveries are explained.
WorkFew(w) ==
    Working(w)' =>
        /\ \A r \in worker'[w].todo : ~Between(w, r)' => Few(worker[w].id, r)'
        /\ Present(worker[w].id)' => \A r \in worker'[w].remaining : Few(worker[w].id, r)'

\* The same of the entry of m.
StoreFew(m) ==
    Present(m)' => \A r \in store'[m].to : Few(m, r)' \/ \E w \in Workers : worker'[w].id = m /\ Between(w, r)'

\* A step that delivers nothing and keeps to that keeps Deliveries.
LEMMA FewStep ==
    ASSUME Types, Types', Deliveries, UNCHANGED sent, Slack <= Slack', stale' <= MaxCount,
           \A m \in Msgs : Taken(m) => Taken(m)',
           \A m \in Msgs : sess'[m] = "claimed" => sess[m] = "claimed" \/ \A r \in Rcpts : Few(m, r)',
           \A i \in DOMAIN chan' : \/ \E j \in DOMAIN chan : chan[j] = chan'[i]
                                   \/ \A r \in chan'[i].to : Few(chan[i].id, r)',
           \A e \in sched'.cur : e \in sched.cur \/ \A r \in e.to : Few(e.id, r)',
           \A w \in Workers : WorkFew(w),
           \A m \in Msgs : StoreFew(m)
    PROVE  Deliveries'
<1>1. Slack \in Nat /\ \A m \in Msgs, r \in Rcpts : sent[m][r] \in Nat
  BY Zenon, SlackType DEF Numbers
<1>2. Slack' \in Nat
  <2>1. Numbers'
    BY SlackType, PTL
  <2> QED
    BY Zenon, <2>1 DEF Numbers
<1>f. \A m \in Msgs, r \in Rcpts : sent[m][r] <= Slack => sent'[m][r] <= Slack'
  BY <1>1, <1>2
<1>e. /\ \A i \in DOMAIN chan : chan[i].id \in Msgs /\ chan[i].to \subseteq Rcpts
      /\ \A e \in sched.cur : e.id \in Msgs /\ e.to \subseteq Rcpts
  BY Zenon, Elements DEF Proper
<1>3. \A m \in Msgs, r \in Rcpts : /\ sent'[m][r] <= MaxCount /\ sent'[m][r] <= Slack' + 1
                                   /\ ~Taken(m)' => sent'[m][r] = 0
  BY <1>1, <1>2 DEF Deliveries
<1>4. \A m \in Msgs : sess'[m] = "claimed" => \A r \in Rcpts : sent'[m][r] <= Slack'
  BY Zenon, <1>f DEF Deliveries, Few
<1>5. \A i \in DOMAIN chan' : \A r \in chan'[i].to : sent'[chan'[i].id][r] <= Slack'
  BY ZenonT(30), <1>e, <1>f DEF Deliveries, Few
<1>6. \A e \in sched'.cur : \A r \in e.to : sent'[e.id][r] <= Slack'
  BY ZenonT(30), <1>e, <1>f DEF Deliveries, Few
<1>7. \A w \in Workers : Working(w)' =>
         /\ \A r \in worker'[w].todo : ~Between(w, r)' => sent'[worker'[w].id][r] <= Slack'
         /\ Present(worker[w].id)' => \A r \in worker'[w].remaining : sent'[worker'[w].id][r] <= Slack'
  BY Zenon DEF WorkFew, Few
<1>8. \A m \in Msgs : Present(m)' => \A r \in store'[m].to :
         sent'[m][r] <= Slack' \/ \E w \in Workers : worker'[w].id = m /\ Between(w, r)'
  BY Zenon DEF StoreFew, Few
<1> QED
  BY ZenonT(30), <1>3, <1>4, <1>5, <1>6, <1>7, <1>8 DEF Deliveries

\* A worker that does not move keeps to it.
LEMMA SameWorkFew ==
    ASSUME Types, Types', Deliveries, UNCHANGED sent, Slack <= Slack', NEW w \in Workers,
           worker'[w] = worker[w], Working(w) /\ Present(worker[w].id)' => Present(worker[w].id)
    PROVE  WorkFew(w)
<1>1. Slack \in Nat /\ \A m \in Msgs, r \in Rcpts : sent[m][r] \in Nat
  BY Zenon, SlackType DEF Numbers
<1>2. Slack' \in Nat
  <2>1. Numbers'
    BY SlackType, PTL
  <2> QED
    BY Zenon, <2>1 DEF Numbers
<1>3. worker[w].id \in Msgs /\ worker[w].todo \subseteq Rcpts /\ worker[w].remaining \subseteq Rcpts
  BY ZenonT(30), Elements DEF Proper
<1>f. \A r \in Rcpts : sent[worker[w].id][r] <= Slack => sent'[worker'[w].id][r] <= Slack'
  BY <1>1, <1>2, <1>3
<1>4. \A r \in Rcpts : Between(w, r)' <=> Between(w, r)
  BY Zenon DEF Between
<1>5. Working(w)' <=> Working(w)
  BY Zenon DEF Working
<1> QED
  BY Zenon, <1>3, <1>4, <1>5, <1>f DEF WorkFew, Few, Deliveries

\* An entry that keeps its list does.
LEMMA SameStoreFew ==
    ASSUME Types, Types', Deliveries, UNCHANGED sent, Slack <= Slack', NEW m \in Msgs,
           Present(m)' => Present(m) /\ store'[m].to = store[m].to,
           \A w \in Workers, r \in Rcpts : worker[w].id = m /\ Between(w, r) =>
               worker'[w].id = m /\ Between(w, r)'
    PROVE  StoreFew(m)
<1>1. Slack \in Nat /\ \A r \in Rcpts : sent[m][r] \in Nat
  BY Zenon, SlackType DEF Numbers
<1>2. Slack' \in Nat
  <2>1. Numbers'
    BY SlackType, PTL
  <2> QED
    BY Zenon, <2>1 DEF Numbers
<1>3. store[m].to \subseteq Rcpts
  BY Zenon, Elements DEF Proper
<1>f. \A r \in Rcpts : sent[m][r] <= Slack => sent'[m][r] <= Slack'
  BY <1>1, <1>2
<1> QED
  BY ZenonT(30), <1>3, <1>f DEF StoreFew, Few, Deliveries

\* A failed store call keeps Deliveries: it explains one more delivery.
LEMMA FaultFew ==
    ASSUME Types, Types', Deliveries, Fault, UNCHANGED <<sent, crashes, stale>>,
           \A m \in Msgs : Taken(m) => Taken(m)'
    PROVE  Deliveries'
<1>1. Slack' = Slack + 1 /\ Slack \in Nat
  BY SlackType DEF Numbers, Slack, Fault
<1>2. Slack + 1 <= Slack' /\ stale' <= MaxCount
  BY <1>1 DEF Deliveries
<1> QED
  BY Zenon, <1>2, MoreSlack

\* A call that adds no list to the spool.
Shorter == \A m \in Msgs : Present(m)' => Present(m) /\ store'[m].to = store[m].to

\* A step that keeps every list adds nobody.
LEMMA ToShorter == ToKept => Shorter
  BY Zenon DEF ToKept, Shorter

\* UpdateStatus adds nobody.
LEMMA SetStatusShorter ==
    ASSUME StoreTyped, NEW m \in Msgs, NEW st \in {"pending", "held", "failed", "delivered", "deleted"},
           SetStatus(m, st)
    PROVE  Shorter
<1>1. CASE st \in {"pending", "held", "failed"}
  BY Zenon, <1>1, SetStatusTo, ToShorter DEF TrySetStatus
<1>2. CASE st \in {"delivered", "deleted"}
  <2>1. store'[m].st = "none" /\ \A x \in Msgs \ {m} : store'[x] = store[x]
    BY Zenon, <1>2 DEF SetStatus, Put, StoreTyped, Absent
  <2> QED
    BY Zenon, <2>1 DEF Shorter, Present
<1> QED
  BY Zenon, <1>1, <1>2

\* Nobody's list grows and no worker moves.
LEMMA IdleFew ==
    ASSUME Types, Types', Deliveries, UNCHANGED <<sent, worker>>, Slack <= Slack', stale' <= MaxCount,
           Shorter, \A m \in Msgs : Taken(m) => Taken(m)',
           \A m \in Msgs : sess'[m] = "claimed" => sess[m] = "claimed" \/ \A r \in Rcpts : Few(m, r)',
           \A i \in DOMAIN chan' : \/ \E j \in DOMAIN chan : chan[j] = chan'[i]
                                   \/ \A r \in chan'[i].to : Few(chan[i].id, r)',
           \A e \in sched'.cur : e \in sched.cur \/ \A r \in e.to : Few(e.id, r)'
    PROVE  Deliveries'
<1>1. ASSUME NEW w \in Workers PROVE WorkFew(w)
  BY Zenon, Elements, SameWorkFew DEF Shorter, Proper
<1>2. ASSUME NEW m \in Msgs PROVE StoreFew(m)
  <2>1. \A w \in Workers, r \in Rcpts : worker[w].id = m /\ Between(w, r) =>
            worker'[w].id = m /\ Between(w, r)'
    BY Zenon DEF Between
  <2> QED
    BY ZenonT(30), <2>1, SameStoreFew DEF Shorter
<1> QED
  BY Zenon, <1>1, <1>2, FewStep

\* A claim on a copy of the entry: the copy's recipients are the entry's, or
\* the claim is outdated.
LEMMA ClaimFew ==
    ASSUME Types, Types', Owned, Deliveries, NEW m \in Msgs, NEW to \in SUBSET Rcpts, NEW att,
           store[m].st = "pending", Outdated(m, to, att), UNCHANGED <<sent, crashes, faults>>
    PROVE  Slack <= Slack' /\ stale' <= MaxCount /\ \A r \in to : Few(m, r)'
<1>1. Numbers /\ Numbers'
  BY SlackType, PTL
<1>2. /\ MaxCount \in Nat /\ stale <= MaxCount
      /\ \A r \in Rcpts : sent[m][r] <= MaxCount /\ sent[m][r] <= Slack + 1
  BY Zenon, QueueAssumption DEF Deliveries
<1>3. CASE <<to, att>> # <<store[m].to, store[m].att>>
  <2>1. stale' = Count(stale)
    BY Zenon, <1>3 DEF Outdated
  <2>2. CASE stale < MaxCount
    <3>1. Slack' = Slack + 1 /\ stale' <= MaxCount
      BY <1>1, <1>2, <2>1, <2>2 DEF Count, Slack, Numbers
    <3> QED
      BY <1>1, <1>2, <3>1 DEF Few, Numbers
  <2>3. CASE stale = MaxCount
    <3>1. stale' = stale /\ Slack' = Slack /\ MaxCount <= Slack'
      BY <1>1, <1>2, <2>1, <2>3 DEF Count, Slack, Numbers
    <3>2. \A r \in to : sent'[m][r] <= Slack'
      BY <1>1, <1>2, <3>1 DEF Numbers
    <3> QED
      BY <1>1, <1>2, <3>1, <3>2 DEF Few, Numbers
  <2> QED
    BY <1>1, <1>2, <2>2, <2>3 DEF Numbers
<1>4. CASE <<to, att>> = <<store[m].to, store[m].att>>
  <2>1. stale' = stale /\ to = store[m].to /\ Slack' = Slack
    BY Zenon, <1>4 DEF Outdated, Slack
  <2>2. \A w \in Workers, r \in Rcpts : worker[w].id = m => ~Between(w, r)
    BY Zenon, PendingFree DEF Held, Working, Between
  <2>3. \A r \in to : sent[m][r] <= Slack
    BY ZenonT(30), <2>1, <2>2 DEF Deliveries, Present
  <2> QED
    BY <1>1, <1>2, <2>1, <2>3 DEF Few, Numbers
<1> QED
  BY Zenon, <1>3, <1>4

\* Enqueue keeps Deliveries.
LEMMA SessionDeliveries ==
    ASSUME Types, Types', Owned, Deliveries, Session PROVE Deliveries'
<1>  StoreTyped /\ SessTyped /\ ChanTyped
  BY Zenon, Parts DEF Types
<1>n. Numbers /\ stale <= MaxCount /\ (UNCHANGED <<faults, crashes, stale>> => Slack' = Slack)
  BY ZenonT(30), SlackType DEF Deliveries, Slack
<1>u. UNCHANGED <<worker, sched, sent>>
  BY ZenonT(30) DEF Session, EnqueueStore, EnqueueClaim, EnqueueSend, world
<1>t. \A m \in Msgs : Taken(m) => Taken(m)'
  BY ZenonT(30) DEF Session, EnqueueStore, EnqueueClaim, EnqueueSend, SessTyped, Taken
<1>1. ASSUME NEW m \in Msgs, EnqueueStore(m) PROVE Deliveries'
  <2>1. UNCHANGED <<chan, crashes, stale>> /\ ~Taken(m)
    BY Zenon, <1>1 DEF EnqueueStore, bounds, Taken
  <2>2. CASE Fault
    BY Zenon, <1>u, <1>t, <2>1, <2>2, FaultFew
  <2>3. CASE \E st \in Arrivals :
               /\ Put(m, [Absent EXCEPT !.st = st, !.to = Rcpts])
               /\ sess' = [sess EXCEPT ![m] = IF st = "pending" THEN "stored" ELSE "done"]
    <3>1. /\ UNCHANGED faults /\ store'[m].to = Rcpts
          /\ \A x \in Msgs \ {m} : store'[x] = store[x]
          /\ \A x \in Msgs : sess'[x] = "claimed" => sess[x] = "claimed"
      BY <2>3 DEF Put, Absent, StoreTyped, SessTyped
    <3>2. ~Held(m)
      BY Zenon, <2>1 DEF Owned, Claimed, Held, Taken
    <3>3. Slack' = Slack /\ Slack <= Slack' /\ stale' <= MaxCount
      BY <1>n, <2>1, <3>1 DEF Numbers
    <3>4. ASSUME NEW w \in Workers PROVE WorkFew(w)
      <4>1. Working(w) => worker[w].id \in Msgs \ {m}
        BY Zenon, <3>2, Elements DEF Held, Proper
      <4> QED
        BY Zenon, <1>u, <3>1, <3>3, <4>1, SameWorkFew DEF Present
    <3>5. StoreFew(m)
      <4>1. \A r \in Rcpts : sent'[m][r] <= Slack'
        BY <1>n, <1>u, <2>1, <3>3 DEF Deliveries, Numbers
      <4> QED
        BY Zenon, <3>1, <4>1 DEF StoreFew, Few
    <3>6. ASSUME NEW x \in Msgs \ {m} PROVE StoreFew(x)
      <4>1. \A w \in Workers, r \in Rcpts : worker[w].id = x /\ Between(w, r) =>
                worker'[w].id = x /\ Between(w, r)'
        BY Zenon, <1>u DEF Between
      <4> QED
        BY Zenon, <1>u, <3>1, <3>3, <4>1, SameStoreFew DEF Present
    <3> QED
      BY Zenon, <1>u, <1>t, <2>1, <3>1, <3>3, <3>4, <3>5, <3>6, FewStep
  <2> QED
    BY ZenonT(30), <1>1, <2>2, <2>3 DEF EnqueueStore
<1>2. ASSUME NEW m \in Msgs, EnqueueClaim(m) PROVE Deliveries'
  <2>1. UNCHANGED <<chan, crashes>>
    BY Zenon, <1>2 DEF EnqueueClaim
  <2>2. CASE Fault /\ UNCHANGED stale
    BY Zenon, <1>u, <1>t, <2>1, <2>2, FaultFew
  <2>3. CASE Lost(m, "pending") /\ sess' = [sess EXCEPT ![m] = "done"] /\ UNCHANGED stale
    <3>1. /\ Slack <= Slack' /\ stale' <= MaxCount /\ Shorter
          /\ \A x \in Msgs : sess'[x] = "claimed" => sess[x] = "claimed"
      BY <1>n, <2>1, <2>3 DEF Lost, SessTyped, Shorter, Present, Numbers
    <3> QED
      BY Zenon, <1>u, <1>t, <2>1, <3>1, IdleFew
  <2>4. CASE Claim(m, "pending", "queued") /\ sess' = [sess EXCEPT ![m] = "claimed"] /\ Outdated(m, Rcpts, 0)
    <3>1. /\ store[m].st = "pending" /\ UNCHANGED faults /\ Shorter
          /\ \A x \in Msgs : sess'[x] = "claimed" => x = m \/ sess[x] = "claimed"
      BY Zenon, <2>4, ClaimSt, ClaimTo, ToShorter DEF SessTyped
    <3>2. Slack <= Slack' /\ stale' <= MaxCount /\ \A r \in Rcpts : Few(m, r)'
      BY Zenon, <1>u, <2>1, <2>4, <3>1, ClaimFew
    <3> QED
      BY Zenon, <1>u, <1>t, <2>1, <3>1, <3>2, IdleFew
  <2> QED
    BY Zenon, <1>2, <2>2, <2>3, <2>4 DEF EnqueueClaim
<1>3. ASSUME NEW m \in Msgs, EnqueueSend(m) PROVE Deliveries'
  <2>1. /\ UNCHANGED <<crashes, stale>> /\ sess[m] = "claimed"
        /\ \A x \in Msgs : sess'[x] = "claimed" => sess[x] = "claimed"
    BY Zenon, <1>3 DEF EnqueueSend, SessTyped, bounds
  <2>2. CASE chan' = Append(chan, [id |-> m, to |-> Rcpts]) /\ UNCHANGED <<store, faults>>
    <3>1. PICK n \in DOMAIN chan' :
            /\ DOMAIN chan' = DOMAIN chan \cup {n}
            /\ chan'[n] = [id |-> m, to |-> Rcpts] /\ \A i \in DOMAIN chan : chan'[i] = chan[i]
      BY Zenon, <2>2, Appended
    <3>2. Slack' = Slack /\ Slack <= Slack' /\ stale' <= MaxCount /\ Shorter
      BY <1>n, <2>1, <2>2 DEF Numbers, Shorter, Present
    <3>3. \A r \in chan'[n].to : Few(chan[n].id, r)'
      BY SMTT(30), <1>u, <2>1, <3>1, <3>2 DEF Deliveries, Few
    <3>4. \A i \in DOMAIN chan' : \/ \E j \in DOMAIN chan : chan[j] = chan'[i]
                                  \/ \A r \in chan'[i].to : Few(chan[i].id, r)'
      BY Zenon, <3>1, <3>3
    <3> QED
      BY ZenonT(30), <1>u, <1>t, <2>1, <3>2, <3>4, IdleFew
  <2>3. CASE SetStatus(m, "pending") /\ UNCHANGED chan
    <3>1. Slack <= Slack' /\ stale' <= MaxCount /\ Shorter
      <4>1. Shorter
        BY Zenon, <2>3, SetStatusShorter
      <4> QED
        BY <1>n, <2>1, <2>3, <4>1 DEF Numbers, SetStatus, Put
    <3> QED
      BY Zenon, <1>u, <1>t, <2>1, <2>3, <3>1, IdleFew
  <2>4. CASE CallFails(m) /\ UNCHANGED chan
    <3>1. CASE Fault
      BY Zenon, <1>u, <1>t, <2>1, <3>1, FaultFew
    <3>2. CASE UNCHANGED <<store, faults>>
      <4>1. Slack <= Slack' /\ stale' <= MaxCount /\ Shorter
        BY <1>n, <2>1, <3>2 DEF Numbers, Shorter, Present
      <4> QED
        BY Zenon, <1>u, <1>t, <2>1, <2>4, <4>1, IdleFew
    <3> QED
      BY Zenon, <2>4, <3>1, <3>2 DEF CallFails
  <2> QED
    BY Zenon, <1>3, <2>2, <2>3, <2>4 DEF EnqueueSend, Send, TrySetStatus
<1> QED
  BY Zenon, <1>1, <1>2, <1>3 DEF Session

\* Worker w goes on with message m, or returns, and adds no recipient it may
\* have delivered to.
Moves(w, m) ==
    /\ \A v \in Workers \ {w} : worker'[v] = worker[v]
    /\ UNCHANGED <<sent, sess, chan, sched, faults, crashes, stale>>
    /\ Working(w) /\ worker[w].id = m
    /\ Working(w)' =>
         /\ worker'[w].id = m
         /\ \A r \in worker'[w].todo : r \in worker[w].todo /\ (~Between(w, r)' => ~Between(w, r))
         /\ Present(m)' => Present(m) /\ \A r \in worker'[w].remaining :
              r \in worker[w].remaining \/ (r \in worker[w].todo /\ ~Between(w, r))

\* Such a step keeps the worker's own recipients explained.
LEMMA MovesFew ==
    ASSUME Types, Types', Deliveries, NEW w \in Workers, NEW m \in Msgs, Moves(w, m)
    PROVE  /\ WorkFew(w) /\ Slack' = Slack /\ Slack <= Slack' /\ stale' <= MaxCount
           /\ \A x \in Msgs : Taken(x) => Taken(x)'
<1>1. Slack \in Nat /\ Slack' = Slack /\ stale' = stale /\ Slack <= Slack'
  BY SlackType DEF Numbers, Moves, Slack
<1>2. ASSUME Working(w)' PROVE /\ \A r \in worker'[w].todo : ~Between(w, r)' => sent'[m][r] <= Slack'
                               /\ Present(m)' => \A r \in worker'[w].remaining : sent'[m][r] <= Slack'
  BY ZenonT(30), <1>1, <1>2 DEF Moves, Deliveries
<1>3. WorkFew(w)
  <2>1. Working(w)' => worker'[w].id = m
    BY ZenonT(30) DEF Moves
  <2> QED
    BY ZenonT(30), <1>2, <2>1 DEF WorkFew, Few, Present
<1> QED
  BY ZenonT(30), <1>1, <1>3 DEF Deliveries, Moves, Taken

\* It keeps Deliveries when the spool gets no new recipient.
LEMMA WorkerFew ==
    ASSUME Types, Types', Deliveries, NEW w \in Workers, NEW m \in Msgs, Moves(w, m), Shorter,
           \A r \in Rcpts : Between(w, r) => ~Present(m)' \/ (worker'[w].id = m /\ Between(w, r)')
    PROVE  Deliveries'
<1>1. /\ WorkFew(w) /\ Slack <= Slack' /\ stale' <= MaxCount
      /\ \A x \in Msgs : Taken(x) => Taken(x)'
  BY Zenon, MovesFew
<1>2. /\ \A v \in Workers \ {w} : worker'[v] = worker[v] /\ worker[v].id \in Msgs
      /\ UNCHANGED <<sent, sess, chan, sched>> /\ worker[w].id = m
  BY ZenonT(30), Elements DEF Moves, Proper
<1>3. ASSUME NEW v \in Workers \ {w} PROVE WorkFew(v)
  BY Zenon, <1>1, <1>2, SameWorkFew DEF Shorter
<1>4. ASSUME NEW x \in Msgs PROVE StoreFew(x)
  <2>1. CASE x = m /\ ~Present(m)'
    BY Zenon, <2>1 DEF StoreFew
  <2>2. CASE x # m \/ Present(m)'
    <3>1. \A v \in Workers, r \in Rcpts : worker[v].id = x /\ Between(v, r) =>
              worker'[v].id = x /\ Between(v, r)'
      BY ZenonT(30), <1>2, <2>2 DEF Between
    <3> QED
      BY ZenonT(30), <1>1, <1>2, <3>1, SameStoreFew DEF Shorter
  <2> QED
    BY Zenon, <2>1, <2>2
<1> QED
  BY ZenonT(30), <1>1, <1>2, <1>3, <1>4, FewStep

\* It does when it writes the remaining recipients to the spool.
LEMMA CheckpointFew ==
    ASSUME Types, Types', Deliveries, NEW w \in Workers, NEW m \in Msgs, Moves(w, m),
           \A x \in Msgs \ {m} : store'[x] = store[x], Present(m),
           \A r \in store'[m].to : r \in worker[w].remaining \/ (r \in worker[w].todo /\ ~Between(w, r))
    PROVE  Deliveries'
<1>1. /\ WorkFew(w) /\ Slack' = Slack /\ Slack <= Slack' /\ stale' <= MaxCount
      /\ \A x \in Msgs : Taken(x) => Taken(x)'
  BY ZenonT(30), MovesFew
<1>2. /\ \A v \in Workers \ {w} : worker'[v] = worker[v] /\ worker[v].id \in Msgs
      /\ UNCHANGED <<sent, sess, chan, sched>> /\ worker[w].id = m /\ Working(w)
  BY ZenonT(30), Elements DEF Moves, Proper
<1>3. ASSUME NEW v \in Workers \ {w} PROVE WorkFew(v)
  BY ZenonT(30), <1>1, <1>2, SameWorkFew DEF Present
<1>4. ASSUME NEW x \in Msgs \ {m} PROVE StoreFew(x)
  <2>1. \A v \in Workers, r \in Rcpts : worker[v].id = x /\ Between(v, r) =>
            worker'[v].id = x /\ Between(v, r)'
    BY ZenonT(30), <1>2 DEF Between
  <2> QED
    BY ZenonT(30), <1>1, <1>2, <2>1, SameStoreFew DEF Present
<1>5. StoreFew(m)
  <2>1. \A r \in store'[m].to : sent[m][r] <= Slack
    BY ZenonT(30), <1>2 DEF Deliveries
  <2> QED
    BY ZenonT(30), <1>1, <1>2, <2>1 DEF StoreFew, Few
<1> QED
  BY ZenonT(30), <1>1, <1>2, <1>3, <1>4, <1>5, FewStep

\* Receiving from the channel does.
LEMMA TakeFew ==
    ASSUME Types, Types', Owned, Deliveries, NEW w \in Workers, WorkerTake(w)
    PROVE  Deliveries'
<1>  ChanTyped /\ WorkTyped
  BY Zenon, Parts DEF Types
<1>1. /\ 1 \in DOMAIN chan /\ chan[1] = Head(chan)
      /\ \A i \in DOMAIN chan' : i \in Nat /\ i # 0 /\ i + 1 \in DOMAIN chan /\ chan'[i] = chan[i + 1]
  BY Zenon, Received DEF WorkerTake
<1>2. /\ \A v \in Workers \ {w} : worker'[v] = worker[v]
      /\ worker'[w].pc = "loop" /\ worker'[w].id = chan[1].id /\ worker'[w].todo = chan[1].to
      /\ worker'[w].remaining = {} /\ worker[w].pc = "idle"
  BY Zenon, <1>1, NoWorkType DEF WorkerTake, WorkTyped, Job, Busy, NoWork
<1>3. UNCHANGED <<store, sess, sched, sent, faults, crashes, stale>>
  BY Zenon DEF WorkerTake, world, bounds
<1>4. Slack \in Nat /\ Slack' = Slack /\ Slack <= Slack' /\ stale' <= MaxCount
  BY SMTT(30), <1>3, SlackType DEF Slack, Numbers, Deliveries
<1>5. WorkFew(w)
  BY Zenon, <1>1, <1>2, <1>3, <1>4 DEF WorkFew, Few, Deliveries
<1>6. ASSUME NEW v \in Workers \ {w} PROVE WorkFew(v)
  BY ZenonT(30), <1>2, <1>3, <1>4, SameWorkFew DEF Present
<1>7. ASSUME NEW x \in Msgs PROVE StoreFew(x)
  <2>1. \A v \in Workers, r \in Rcpts : worker[v].id = x /\ Between(v, r) =>
            worker'[v].id = x /\ Between(v, r)'
    BY Zenon, <1>2 DEF Between
  <2> QED
    BY Zenon, <1>3, <1>4, <2>1, SameStoreFew DEF Present
<1>8. \A i \in DOMAIN chan' : \E j \in DOMAIN chan : chan[j] = chan'[i]
  BY Zenon, <1>1
<1> QED
  BY Zenon, <1>3, <1>4, <1>5, <1>6, <1>7, <1>8, FewStep DEF Taken

\* A remote server accepts the message: the recipient was one still to be
\* tried, and until it is checkpointed it is between.
LEMMA RemoteFew ==
    ASSUME Types, Types', Owned, Deliveries, NEW w \in Workers, NEW m \in Msgs, worker[w].id = m,
           worker[w].pc = "deliver", NEW r \in worker[w].rcpt,
           sent' = [sent EXCEPT ![m][r] = Count(@)], Accepted(w, r),
           UNCHANGED <<store, faults, crashes, stale, sess, chan, sched>>
    PROVE  Deliveries'
<1>  WorkTyped /\ WorldTyped
  BY Zenon, Parts DEF Types
<1>n. Numbers /\ Proper
  BY Zenon, SlackType, Elements
<1>r. /\ r \in Rcpts /\ r \in worker[w].todo /\ r \notin worker[w].remaining
      /\ \A y : ~Between(w, y)
  BY Zenon DEF WorkTyped, Job, Sound, Between
<1>1. /\ \A v \in Workers \ {w} : worker'[v] = worker[v]
      /\ worker'[w].id = m /\ worker'[w].remaining = worker[w].remaining
      /\ worker'[w].todo \subseteq worker[w].todo
      /\ Between(w, r)'
  BY <1>r, AcceptedWork DEF Between
<1>2. /\ sent'[m][r] = Count(sent[m][r])
      /\ \A x \in Msgs, y \in Rcpts : x # m \/ y # r => sent'[x][y] = sent[x][y]
  BY ZenonT(30), <1>r, SentMore
<1>3. Slack' = Slack /\ stale' <= MaxCount
  BY Zenon DEF Slack, Deliveries
<1>4. sent[m][r] <= Slack /\ sent[m][r] \in Nat /\ sent[m][r] <= MaxCount
  BY Zenon, <1>n, <1>r DEF Deliveries, Working, Numbers
<1>5. sent'[m][r] <= Slack + 1 /\ sent'[m][r] <= MaxCount
  BY <1>2, <1>4, <1>n, QueueAssumption DEF Count, Numbers
<1>6. /\ sess[m] # "claimed" /\ Taken(m) /\ \A i \in DOMAIN chan : chan[i].id # m
      /\ \A e \in sched.cur : e.id # m
      /\ \A v \in Workers \ {w} : Working(v) => worker[v].id # m
  <2>1. /\ sess[m] # "claimed" /\ \A i \in DOMAIN chan : chan[i].id # m
        /\ \A e \in sched.cur : e.id # m
        /\ \A v \in Workers \ {w} : Working(v) => worker[v].id # m
    BY Zenon DEF Owned, Exclusive, Working
  <2>2. Taken(m)
    BY Zenon DEF Owned, Claimed, Working, Taken
  <2> QED
    BY Zenon, <2>1, <2>2
<1>a. \A x \in Msgs, y \in Rcpts : /\ sent'[x][y] <= MaxCount /\ sent'[x][y] <= Slack' + 1
                                   /\ ~Taken(x)' => sent'[x][y] = 0
  BY SMTT(30), <1>2, <1>3, <1>5, <1>6 DEF Deliveries, Taken
<1>b. \A x \in Msgs : sess'[x] = "claimed" => \A y \in Rcpts : sent'[x][y] <= Slack'
  BY SMTT(30), <1>2, <1>3, <1>6 DEF Deliveries
<1>c. \A i \in DOMAIN chan' : \A y \in chan'[i].to : sent'[chan'[i].id][y] <= Slack'
  BY SMTT(30), <1>n, <1>2, <1>3, <1>6 DEF Deliveries, Proper
<1>d. \A e \in sched'.cur : \A y \in e.to : sent'[e.id][y] <= Slack'
  BY SMTT(30), <1>n, <1>2, <1>3, <1>6 DEF Deliveries, Proper
<1>e. ASSUME NEW v \in Workers, Working(v)'
      PROVE  /\ \A y \in worker'[v].todo : ~Between(v, y)' => sent'[worker'[v].id][y] <= Slack'
             /\ Present(worker[v].id)' => \A y \in worker'[v].remaining : sent'[worker'[v].id][y] <= Slack'
  <2>1. CASE v = w
    <3>1. \A y \in worker'[w].todo : ~Between(w, y)' => y \in worker[w].todo /\ y # r
      BY Zenon, <1>1
    <3>2. \A y \in worker'[w].todo : ~Between(w, y)' => sent'[m][y] <= Slack'
      BY SMTT(30), <1>n, <1>r, <1>2, <1>3, <3>1 DEF Deliveries, Proper, Working
    <3>3. Present(m) => \A y \in worker'[w].remaining : sent'[m][y] <= Slack'
      BY SMTT(30), <1>n, <1>r, <1>1, <1>2, <1>3 DEF Deliveries, Proper, Working
    <3> QED
      BY Zenon, <1>1, <2>1, <3>2, <3>3 DEF Present
  <2>2. CASE v # w
    <3>1. /\ worker'[v] = worker[v] /\ Working(v) /\ worker[v].id # m /\ worker[v].id \in Msgs
          /\ worker[v].todo \subseteq Rcpts /\ worker[v].remaining \subseteq Rcpts
          /\ \A y \in Rcpts : Between(v, y)' <=> Between(v, y)
      BY Zenon, <1>e, <1>n, <1>1, <1>6, <2>2 DEF Working, Proper, Between
    <3> QED
      BY SMTT(30), <1>2, <1>3, <3>1 DEF Deliveries, Present
  <2> QED
    BY Zenon, <2>1, <2>2
<1>f. ASSUME NEW x \in Msgs, Present(x)', NEW y \in store'[x].to
      PROVE  sent'[x][y] <= Slack' \/ \E v \in Workers : worker'[v].id = x /\ Between(v, y)'
  <2>1. y \in Rcpts /\ Present(x) /\ y \in store[x].to
    BY Zenon, <1>f, <1>n DEF Proper, Present
  <2>2. CASE x = m /\ y = r
    BY Zenon, <1>1, <2>2
  <2>3. CASE x # m \/ y # r
    <3>1. CASE sent[x][y] <= Slack
      BY Zenon, <1>2, <1>3, <2>1, <2>3, <3>1
    <3>2. ASSUME NEW v \in Workers, worker[v].id = x, Between(v, y)
          PROVE  worker'[v].id = x /\ Between(v, y)'
      BY Zenon, <1>r, <1>1, <3>2 DEF Between
    <3> QED
      BY Zenon, <2>1, <3>1, <3>2 DEF Deliveries
  <2> QED
    BY Zenon, <2>2, <2>3
<1> QED
  BY ZenonT(30), <1>3, <1>a, <1>b, <1>c, <1>d, <1>e, <1>f DEF Deliveries

\* Every step of a worker keeps Deliveries.
LEMMA WorkerDeliveries ==
    ASSUME Types, Types', Owned, Deliveries, NEW w \in Workers, WorkerStep(w) \/ WorkerDefer(w)
    PROVE  Deliveries'
<1>  StoreTyped /\ WorkTyped
  BY Zenon, Parts DEF Types
<1>m. PICK m \in Msgs : worker[w].id = m
  BY Zenon DEF WorkTyped, Job
<1>k. worker[w] \in Job /\ Sound(worker[w]) /\ worker[w].rcpt \subseteq Rcpts
  BY Zenon DEF WorkTyped, Job
<1> DEFINE Kept == UNCHANGED <<sent, sess, chan, sched, crashes, stale>>
           Others == \A v \in Workers \ {w} : worker'[v] = worker[v]
<1>f. ASSUME Kept, Fault PROVE Deliveries'
  BY Zenon, <1>f, FaultFew DEF Taken
<1>u. ASSUME UNCHANGED store PROVE Shorter
  BY Zenon, <1>u DEF Shorter, Present
\* A step of a worker that has nothing to say in the spool.
<1>q. ASSUME Kept, Others, UNCHANGED faults, Shorter, Working(w), worker[w].pc \notin {"notify", "checkpoint"},
             Working(w)' => /\ worker'[w].id = m /\ worker'[w].todo \subseteq worker[w].todo
                            /\ worker'[w].remaining \subseteq worker[w].remaining \cup worker[w].todo
      PROVE  Deliveries'
  <2>1. \A r : ~Between(w, r)
    BY ZenonT(30), <1>q DEF Between
  <2>2. Moves(w, m)
    BY ZenonT(30), <1>m, <1>q, <2>1 DEF Moves, Shorter
  <2> QED
    BY ZenonT(30), <1>q, <2>1, <2>2, WorkerFew
<1>i. Return(w) => Others /\ ~Working(w)'
  BY Zenon, ReturnWork, NoWorkType DEF Working
<1>1. ASSUME NEW r \in Rcpts, WorkerAttempt(w, r) PROVE Deliveries'
  <2>1. Kept /\ Working(w) /\ worker[w].pc = "loop"
    BY Zenon, <1>1 DEF WorkerAttempt, Busy, Working, world, bounds
  <2>2. CASE Fault
    BY Zenon, <1>f, <2>1, <2>2
  <2>3. CASE Lost(m, "queued") /\ Return(w)
    BY Zenon, <1>i, <1>q, <1>u, <2>1, <2>3 DEF Lost
  <2>4. CASE UNCHANGED <<store, faults>> /\ worker' = [worker EXCEPT ![w].pc = "deliver", ![w].rcpt = {r}]
    <3>1. Others /\ worker'[w].id = m /\ UNCHANGED <<worker[w].todo, worker[w].remaining>>
      BY Zenon, <1>m, <2>4 DEF WorkTyped, Job
    <3> QED
      BY Zenon, <1>q, <1>u, <2>1, <2>4, <3>1
  <2>5. CASE /\ Claim(m, "queued", "processing")
             /\ worker' = [worker EXCEPT ![w].pc = "deliver", ![w].rcpt = {r}, ![w].started = TRUE]
    <3>1. Others /\ worker'[w].id = m /\ UNCHANGED <<worker[w].todo, worker[w].remaining>>
      BY Zenon, <1>m, <2>5 DEF WorkTyped, Job
    <3>2. Shorter /\ UNCHANGED faults
      BY Zenon, <2>5, ClaimTo, ToShorter, ClaimSt
    <3> QED
      BY Zenon, <1>q, <2>1, <3>1, <3>2
  <2> QED
    BY Zenon, <1>1, <1>m, <2>2, <2>3, <2>4, <2>5 DEF WorkerAttempt
\* An attempt that gives the message to no remote server.
<1>a. ASSUME Kept, worker[w].pc = "deliver", NEW r \in worker[w].rcpt, UNCHANGED <<store, faults>>,
             Accepted(w, r) \/ \E ok \in BOOLEAN : Attempted(w, r, ok)
      PROVE  Deliveries'
  <2>1. r \in worker[w].todo /\ Working(w)
    BY Zenon, <1>a, <1>k DEF Sound, Working
  <2>2. /\ Others /\ worker'[w].id = m /\ worker'[w].todo \subseteq worker[w].todo
        /\ worker'[w].remaining \subseteq worker[w].remaining \cup worker[w].todo
    <3>1. CASE Accepted(w, r)
      BY Zenon, <1>m, <3>1, AcceptedWork
    <3>2. ASSUME NEW ok \in BOOLEAN, Attempted(w, r, ok)
          PROVE  /\ Others /\ worker'[w].id = m /\ worker'[w].todo \subseteq worker[w].todo
                 /\ worker'[w].remaining \subseteq worker[w].remaining \cup worker[w].todo
      <4>1. /\ Others /\ worker'[w].id = m /\ worker'[w].todo = worker[w].todo \ {r}
            /\ ok => worker'[w].remaining = worker[w].remaining
            /\ ~ok => worker'[w].remaining = worker[w].remaining \cup {r}
        BY <1>m, <3>2, AttemptedWork
      <4> QED
        BY Zenon, <2>1, <4>1
    <3> QED
      BY Zenon, <1>a, <3>1, <3>2
  <2> QED
    BY ZenonT(30), <1>a, <1>q, <1>u, <2>1, <2>2
<1>2. ASSUME Kept, worker[w].pc = "deliver", NEW r \in worker[w].rcpt, Bounce(w, r) PROVE Deliveries'
  BY ZenonT(30), <1>2, <1>a, <1>f DEF Bounce
<1>3. ASSUME WorkerSuppressed(w) PROVE Deliveries'
  BY Zenon, <1>2, <1>3 DEF WorkerSuppressed, Busy, bounds
<1>4. ASSUME WorkerLocal(w) PROVE Deliveries'
  BY Zenon, <1>a, <1>4 DEF WorkerLocal, Busy, bounds
<1>5. ASSUME WorkerRemote(w) PROVE Deliveries'
  <2>1. PICK r \in worker[w].rcpt :
          \/ sent' = [sent EXCEPT ![m][r] = Count(@)] /\ Accepted(w, r) /\ UNCHANGED <<store, faults>>
          \/ Attempted(w, r, FALSE) /\ UNCHANGED <<sent, store, faults>>
          \/ Bounce(w, r) /\ UNCHANGED sent
    BY Zenon, <1>5, <1>m DEF WorkerRemote
  <2>2. worker[w].pc = "deliver" /\ UNCHANGED <<sess, chan, sched, crashes, stale>>
    BY Zenon, <1>5 DEF WorkerRemote, Busy, bounds
  <2>3. CASE sent' = [sent EXCEPT ![m][r] = Count(@)] /\ Accepted(w, r) /\ UNCHANGED <<store, faults>>
    BY Zenon, <1>m, <2>2, <2>3, RemoteFew
  <2>4. CASE Attempted(w, r, FALSE) /\ UNCHANGED <<sent, store, faults>>
    BY Zenon, <1>a, <2>2, <2>4
  <2>5. CASE Bounce(w, r) /\ UNCHANGED sent
    BY Zenon, <1>2, <2>2, <2>5
  <2> QED
    BY Zenon, <2>1, <2>3, <2>4, <2>5
<1>6. ASSUME WorkerNotify(w) PROVE Deliveries'
  <2>1. PICK r \in worker[w].rcpt :
          \/ Notice(m, r, "SUCCESS") /\ Attempted(w, r, TRUE)
          \/ CallFails(m) /\ Attempted(w, r, FALSE)
    BY ZenonT(30), <1>6, <1>m DEF WorkerNotify
  <2>2. Kept /\ worker[w].pc = "notify" /\ Working(w)
    BY Zenon, <1>6 DEF WorkerNotify, Busy, Working, bounds
  <2>3. /\ r \in worker[w].todo /\ r \notin worker[w].remaining
        /\ \A x : Between(w, x) <=> x = r
    BY ZenonT(30), <1>k, <2>2 DEF Sound, Between
  <2>4. CASE Notice(m, r, "SUCCESS") /\ Attempted(w, r, TRUE)
    <3>1. /\ Others /\ worker'[w].id = m /\ worker'[w].pc = "checkpoint"
          /\ worker'[w].todo = worker[w].todo \ {r} /\ worker'[w].remaining = worker[w].remaining
      BY ZenonT(30), <1>m, <2>4, AttemptedWork
    <3>2. Between(w, r)'
      BY Zenon, <2>3, <3>1 DEF Between
    <3>3. Shorter /\ UNCHANGED faults
      BY Zenon, <2>4, NoticeSt, NoticeTo, ToShorter
    <3>4. Moves(w, m)
      BY Zenon, <1>m, <2>2, <2>3, <3>1, <3>3 DEF Moves, Shorter
    <3> QED
      BY ZenonT(30), <2>3, <3>1, <3>2, <3>3, <3>4, WorkerFew
  <2>5. CASE ~Present(m) /\ UNCHANGED <<store, faults>> /\ Attempted(w, r, FALSE)
    <3>1. /\ Others /\ worker'[w].id = m /\ worker'[w].todo = worker[w].todo \ {r}
      BY ZenonT(30), <1>m, <2>5, AttemptedWork
    <3>2. ~Present(m)' /\ Shorter
      BY ZenonT(30), <1>u, <2>5 DEF Present
    <3>3. Moves(w, m)
      BY Zenon, <1>m, <2>2, <2>3, <2>5, <3>1, <3>2 DEF Moves
    <3> QED
      BY ZenonT(30), <3>2, <3>3, WorkerFew
  <2> QED
    BY Zenon, <1>f, <2>1, <2>2, <2>4, <2>5 DEF CallFails
<1>7. ASSUME WorkerCheckpoint(w) \/ WorkerFinal(w) PROVE Deliveries'
  <2>1. PICK left \in SUBSET (worker[w].todo \cup worker[w].remaining), next \in {"loop", "finish", "retain"} :
          Checkpoint(w, left, next)
    <3>1. CASE WorkerCheckpoint(w)
      BY Zenon, <3>1 DEF WorkerCheckpoint
    <3>2. CASE WorkerFinal(w)
      BY Zenon, <3>2 DEF WorkerFinal
    <3> QED
      BY ZenonT(30), <1>7, <3>1, <3>2
  <2>2. Kept /\ Working(w) /\ worker[w].pc \in {"loop", "checkpoint", "final"}
    BY Zenon, <1>7 DEF WorkerCheckpoint, WorkerFinal, Busy, Checkpoint, Working, world, bounds
  <2>3. \A x \in worker[w].todo : ~Between(w, x)
    BY Zenon, <2>2 DEF Between
  <2>4. CASE Present(m) /\ Put(m, [store[m] EXCEPT !.to = left]) /\ worker' = [worker EXCEPT ![w].pc = next]
    <3>1. /\ Others /\ worker'[w].id = m
          /\ worker'[w].todo = worker[w].todo /\ worker'[w].remaining = worker[w].remaining
      BY Zenon, <1>m, <2>4, MovedWork
    <3>2. /\ store'[m].to = left /\ (\A x \in Msgs \ {m} : store'[x] = store[x]) /\ UNCHANGED faults
      BY Zenon, <2>4 DEF Put, StoreTyped, Entry
    <3>3. Present(m)
      BY Zenon, <2>4
    <3>4. Moves(w, m)
      BY ZenonT(30), <1>m, <2>2, <2>3, <3>1, <3>2, <3>3 DEF Moves
    <3>5. \A r \in store'[m].to : r \in worker[w].remaining \/ (r \in worker[w].todo /\ ~Between(w, r))
      BY ZenonT(30), <2>1, <2>3, <3>2
    <3> QED
      BY Zenon, <3>2, <3>3, <3>4, <3>5, CheckpointFew
  <2>5. CASE ~Present(m) /\ UNCHANGED <<store, faults>> /\ worker' = [worker EXCEPT ![w].pc = "retain"]
    <3>1. /\ Others /\ worker'[w].id = m /\ worker'[w].todo = worker[w].todo
      BY Zenon, <1>m, <2>5, MovedWork
    <3>2. ~Present(m)' /\ Shorter
      BY Zenon, <1>u, <2>5 DEF Present
    <3>3. Moves(w, m)
      BY Zenon, <1>m, <2>2, <2>3, <2>5, <3>1, <3>2 DEF Moves
    <3> QED
      BY Zenon, <3>2, <3>3, WorkerFew
  <2> QED
    BY Zenon, <1>m, <1>f, <2>1, <2>2, <2>4, <2>5 DEF Checkpoint, CallFails
<1>8. ASSUME Kept, Working(w), worker[w].pc \notin {"notify", "checkpoint"}, NEW st \in {"pending", "delivered"},
             SetStatus(m, st), Return(w)
      PROVE  Deliveries'
  BY Zenon, <1>i, <1>q, <1>8, SetStatusShorter DEF SetStatus, Put
<1>9. ASSUME WorkerRetain(w) \/ WorkerPreserved(w) PROVE Deliveries'
  <2>1. PICK st \in {"pending", "delivered"} : TrySetStatus(m, st) /\ Return(w)
    BY Zenon, <1>9, <1>m DEF WorkerRetain, WorkerPreserved
  <2>2. Kept /\ Working(w) /\ worker[w].pc \in {"retain", "preserved"}
    BY ZenonT(30), <1>9 DEF WorkerRetain, WorkerPreserved, Busy, Working, world, bounds
  <2>3. CASE UNCHANGED <<store, faults>>
    BY Zenon, <1>i, <1>q, <1>u, <2>1, <2>2, <2>3
  <2> QED
    BY Zenon, <1>f, <1>8, <2>1, <2>2, <2>3 DEF TrySetStatus, CallFails
<1>10. ASSUME WorkerFinish(w) PROVE Deliveries'
  <2>1. Kept /\ Working(w) /\ worker[w].pc = "finish"
    BY Zenon, <1>10 DEF WorkerFinish, Busy, Working, world, bounds
  <2>2. CASE SetStatus(m, "delivered") /\ Return(w)
    BY Zenon, <1>8, <2>1, <2>2
  <2>3. CASE UNCHANGED <<store, faults>> /\ worker' = [worker EXCEPT ![w].pc = "retain"]
    <3>1. Others /\ worker'[w].id = m /\ UNCHANGED <<worker[w].todo, worker[w].remaining>>
      BY Zenon, <1>m, <2>3, MovedWork
    <3> QED
      BY Zenon, <1>q, <1>u, <2>1, <2>3, <3>1
  <2> QED
    BY Zenon, <1>10, <1>m, <1>f, <2>1, <2>2, <2>3 DEF WorkerFinish, CallFails
<1>11. ASSUME WorkerPreserve(w) PROVE Deliveries'
  <2>1. Kept /\ Working(w) /\ worker[w].pc = "custody"
    BY Zenon, <1>11 DEF WorkerPreserve, Busy, Working, bounds
  <2>2. CASE UNCHANGED <<store, faults>> /\ worker' = [worker EXCEPT ![w].pc = "preserved"]
    <3>1. Others /\ worker'[w].id = m /\ UNCHANGED <<worker[w].todo, worker[w].remaining>>
      BY Zenon, <1>m, <2>2, MovedWork
    <3> QED
      BY Zenon, <1>q, <1>u, <2>1, <2>2, <3>1
  <2> QED
    BY Zenon, <1>11, <1>f, <2>1, <2>2 DEF WorkerPreserve
<1>12. ASSUME WorkerCustody(w) PROVE Deliveries'
  <2>1. Kept /\ Working(w) /\ worker[w].pc = "loop"
    BY Zenon, <1>12 DEF WorkerCustody, Busy, Working, world, bounds
  <2>2. CASE Claim(m, "queued", "processing") /\ worker' = [worker EXCEPT ![w].pc = "custody"]
    <3>1. Others /\ worker'[w].id = m /\ UNCHANGED <<worker[w].todo, worker[w].remaining>>
      BY Zenon, <1>m, <2>2, MovedWork
    <3>2. Shorter /\ UNCHANGED faults
      BY Zenon, <2>2, ClaimTo, ToShorter, ClaimSt
    <3> QED
      BY Zenon, <1>q, <2>1, <3>1, <3>2
  <2>3. CASE Lost(m, "queued") /\ Return(w)
    BY Zenon, <1>i, <1>q, <1>u, <2>1, <2>3 DEF Lost
  <2> QED
    BY Zenon, <1>12, <1>m, <1>f, <2>1, <2>2, <2>3 DEF WorkerCustody
<1>13. ASSUME WorkerPaused(w) PROVE Deliveries'
  <2>1. Kept /\ Working(w) /\ worker[w].pc = "loop"
    BY Zenon, <1>13 DEF WorkerPaused, Busy, Working, world, bounds
  <2>2. CASE Claim(m, "queued", "pending") /\ Return(w)
    <3>1. Shorter /\ UNCHANGED faults
      BY Zenon, <2>2, ClaimTo, ToShorter, ClaimSt
    <3> QED
      BY Zenon, <1>i, <1>q, <2>1, <2>2, <3>1
  <2>3. CASE Lost(m, "queued") /\ Return(w)
    BY Zenon, <1>i, <1>q, <1>u, <2>1, <2>3 DEF Lost
  <2>4. CASE /\ worker' = [worker EXCEPT ![w].pc = "final", ![w].todo = {},
                                         ![w].remaining = @ \cup worker[w].todo]
             /\ UNCHANGED <<store, faults>>
    <3>1. /\ Others /\ worker'[w].id = m /\ worker'[w].todo = {}
          /\ worker'[w].remaining = worker[w].remaining \cup worker[w].todo
      BY ZenonT(30), <1>m, <2>4 DEF WorkTyped, Job
    <3> QED
      BY Zenon, <1>q, <1>u, <2>1, <2>4, <3>1
  <2> QED
    BY Zenon, <1>13, <1>m, <1>f, <2>1, <2>2, <2>3, <2>4 DEF WorkerPaused, TryMove
<1>14. ASSUME NEW r \in Rcpts, WorkerThrottled(w, r) PROVE Deliveries'
  <2>1. Kept /\ Working(w) /\ worker[w].pc = "loop" /\ UNCHANGED <<store, faults>> /\ r \in worker[w].todo
    BY Zenon, <1>14 DEF WorkerThrottled, Busy, Working, world, bounds
  <2>2. /\ Others /\ worker'[w].id = m /\ worker'[w].todo = worker[w].todo \ {r}
        /\ worker'[w].remaining = worker[w].remaining \cup {r}
    BY Zenon, <1>m, <1>14 DEF WorkerThrottled, WorkTyped, Job
  <2> QED
    BY Zenon, <1>q, <1>u, <2>1, <2>2
<1> QED
  BY ZenonT(30), <1>1, <1>3, <1>4, <1>5, <1>6, <1>7, <1>9, <1>10, <1>11, <1>12, <1>13, <1>14, TakeFew
  DEF WorkerStep, WorkerDefer

\* Every step of the scheduler does.
LEMMA SchedulerDeliveries ==
    ASSUME Types, Types', Owned, Deliveries, Scheduler PROVE Deliveries'
<1>  StoreTyped /\ PassTyped /\ ChanTyped
  BY Zenon, Parts DEF Types
<1>n. Numbers /\ stale <= MaxCount /\ Proper
  BY Zenon, SlackType, Elements DEF Deliveries
<1>u. UNCHANGED <<worker, sess, sent, crashes>> /\ \A m \in Msgs : Taken(m) => Taken(m)'
  BY Zenon DEF Scheduler, RetryRelease, RetryList, RetrySkip, RetryClaim, RetryWarn, RetryRequeue, RetryBounce,
         RetryGiveUp, RetryUnbounced, RetryEnd, world, bounds, Taken
<1>f. ASSUME Fault, UNCHANGED stale PROVE Deliveries'
  BY Zenon, <1>f, <1>u, FaultFew
\* A step that gives nobody a recipient.
<1>q. ASSUME UNCHANGED <<chan, faults, stale>>, Shorter, sched'.cur \subseteq sched.cur PROVE Deliveries'
  <2>1. Slack <= Slack' /\ stale' <= MaxCount
    BY <1>n, <1>q, <1>u DEF Slack, Numbers
  <2>2. \A i \in DOMAIN chan' : \E j \in DOMAIN chan : chan[j] = chan'[i]
    BY Zenon, <1>q
  <2> QED
    BY Zenon, <1>q, <1>u, <2>1, <2>2, IdleFew
<1>s. ASSUME UNCHANGED store PROVE Shorter
  BY Zenon, <1>s DEF Shorter, Present
<1>c. Scan => sched'.cur = {}
  BY Zenon DEF Scan, PassTyped, Pass
<1>1. ASSUME NEW m \in Msgs, RetryRelease(m) PROVE Deliveries'
  <2>1. Shorter
    BY Zenon, <1>1, SetStatusShorter DEF RetryRelease
  <2> QED
    BY Zenon, <1>1, <1>q, <2>1 DEF RetryRelease, SetStatus, Put, bounds
<1>2. ASSUME RetryList \/ RetryEnd PROVE Deliveries'
  <2>1. sched'.cur = {}
    BY ZenonT(30), <1>2, NoPassType DEF RetryList, RetryEnd, NoPass
  <2> QED
    BY Zenon, <1>2, <1>q, <1>s, <2>1 DEF RetryList, RetryEnd, bounds
<1>3. ASSUME NEW e \in sched.list, RetrySkip(e) PROVE Deliveries'
  <2>1. sched'.cur = sched.cur /\ UNCHANGED <<chan, stale>>
    BY Zenon, <1>3 DEF RetrySkip, PassTyped, Pass, bounds
  <2> QED
    BY Zenon, <1>3, <1>f, <1>q, <1>s, <2>1 DEF RetrySkip, Lost
<1>4. ASSUME NEW e \in sched.list, RetryClaim(e) PROVE Deliveries'
  <2>1. PICK m \in Msgs, to \in SUBSET Rcpts : e.id = m /\ e.to = to
    BY Zenon, <1>n DEF Proper
  <2>2. Claim(m, "pending", "queued") /\ Outdated(m, to, e.att) /\ UNCHANGED <<chan, crashes>>
    BY Zenon, <1>4, <2>1 DEF RetryClaim
  <2>3. sched'.cur = {e}
    BY Zenon, <1>4 DEF RetryClaim, PassTyped, Pass
  <2>4. store[m].st = "pending" /\ UNCHANGED faults /\ Shorter
    BY Zenon, <2>2, ClaimSt, ClaimTo, ToShorter
  <2>5. Slack <= Slack' /\ stale' <= MaxCount /\ \A r \in to : Few(m, r)'
    BY Zenon, <1>u, <2>2, <2>4, ClaimFew
  <2>6. \A x \in sched'.cur : x \in sched.cur \/ \A r \in x.to : Few(x.id, r)'
    BY Zenon, <2>1, <2>3, <2>5
  <2>7. \A i \in DOMAIN chan' : \E j \in DOMAIN chan : chan[j] = chan'[i]
    BY Zenon, <2>2
  <2> QED
    BY Zenon, <1>u, <2>4, <2>5, <2>6, <2>7, IdleFew
<1>5. ASSUME NEW e \in sched.list, NEW r \in Rcpts, RetryWarn(e, r) PROVE Deliveries'
  <2>1. UNCHANGED <<chan, sched, stale>> /\ Notice(e.id, r, "DELAY") /\ e.id \in Msgs
    BY Zenon, <1>n, <1>5 DEF RetryWarn, Proper, bounds
  <2>2. Shorter /\ UNCHANGED faults
    BY Zenon, <2>1, NoticeSt, NoticeTo, ToShorter
  <2> QED
    BY Zenon, <1>q, <2>1, <2>2
<1>6. ASSUME RetryRequeue PROVE Deliveries'
  <2>1. PICK e \in sched.cur : Send(e.id, e.to)
    BY Zenon, <1>6 DEF RetryRequeue
  <2>2. sched'.cur = {} /\ UNCHANGED stale
    BY ZenonT(30), <1>c, <1>6 DEF RetryRequeue, bounds
  <2>3. e.id \in Msgs /\ e.to \in SUBSET Rcpts
    BY Zenon, <1>n DEF Proper
  <2>4. CASE chan' = Append(chan, [id |-> e.id, to |-> e.to]) /\ UNCHANGED <<store, faults>>
    <3>1. PICK n \in DOMAIN chan' :
            /\ DOMAIN chan' = DOMAIN chan \cup {n}
            /\ chan'[n] = [id |-> e.id, to |-> e.to] /\ \A i \in DOMAIN chan : chan'[i] = chan[i]
      BY Zenon, <2>3, <2>4, Appended
    <3>2. Slack' = Slack /\ Slack <= Slack' /\ stale' <= MaxCount /\ Shorter
      BY SMTT(30), <1>n, <1>u, <1>s, <2>2, <2>4 DEF Numbers, Slack
    <3>3. \A r \in e.to : sent[e.id][r] <= Slack
      BY Zenon DEF Deliveries
    <3>4. \A r \in chan'[n].to : Few(chan[n].id, r)'
      BY SMTT(30), <1>u, <3>1, <3>2, <3>3 DEF Few
    <3>5. \A i \in DOMAIN chan' : \/ \E j \in DOMAIN chan : chan[j] = chan'[i]
                                  \/ \A r \in chan'[i].to : Few(chan[i].id, r)'
      BY Zenon, <3>1, <3>4
    <3> QED
      BY Zenon, <1>u, <2>2, <3>2, <3>5, IdleFew
  <2>5. CASE SetStatus(e.id, "pending") /\ UNCHANGED chan
    <3>1. Shorter
      BY Zenon, <2>3, <2>5, SetStatusShorter
    <3> QED
      BY Zenon, <1>q, <2>2, <2>5, <3>1 DEF SetStatus, Put
  <2>6. CASE CallFails(e.id) /\ UNCHANGED chan
    BY Zenon, <1>f, <1>q, <1>s, <2>2, <2>6 DEF CallFails
  <2> QED
    BY Zenon, <2>1, <2>4, <2>5, <2>6 DEF Send, TrySetStatus
<1>7. ASSUME NEW r \in Rcpts, RetryBounce(r) PROVE Deliveries'
  <2>1. /\ sched'.cur = sched.cur /\ UNCHANGED <<chan, stale>>
        /\ UNCHANGED <<store, faults>> \/ Fault
    BY Zenon, <1>7 DEF RetryBounce, PassTyped, Pass, bounds
  <2> QED
    BY Zenon, <1>f, <1>q, <1>s, <2>1
<1>8. ASSUME RetryGiveUp \/ RetryUnbounced PROVE Deliveries'
  <2>1. PICK e \in sched.cur, st \in {"pending", "failed"} : TrySetStatus(e.id, st)
    BY Zenon, <1>8 DEF RetryGiveUp, RetryUnbounced
  <2>2. e.id \in Msgs /\ sched'.cur = {} /\ UNCHANGED <<chan, stale>>
    BY Zenon, <1>c, <1>n, <1>8 DEF Proper, RetryGiveUp, RetryUnbounced, bounds
  <2>3. CASE SetStatus(e.id, st)
    <3>1. Shorter
      BY Zenon, <2>2, <2>3, SetStatusShorter
    <3> QED
      BY Zenon, <1>q, <2>2, <2>3, <3>1 DEF SetStatus, Put
  <2> QED
    BY Zenon, <1>f, <1>q, <1>s, <2>1, <2>2, <2>3 DEF TrySetStatus, CallFails
<1> QED
  BY ZenonT(30), <1>1, <1>2, <1>3, <1>4, <1>5, <1>6, <1>7, <1>8 DEF Scheduler

\* Deliveries is inductive, given types and ownership.
LEMMA NextDeliveries == ASSUME Types, Owned, Deliveries, [Next]_vars PROVE Deliveries'
<1>t. Types'
  BY Zenon, NextTypes
<1>  StoreTyped /\ SessTyped
  BY Zenon, Parts DEF Types
<1>n. Numbers /\ stale <= MaxCount
  BY Zenon, SlackType DEF Deliveries
<1>q. ASSUME UNCHANGED <<sess, chan, worker, sched, sent, faults, crashes, stale>>, Shorter PROVE Deliveries'
  <2>1. Slack <= Slack' /\ stale' <= MaxCount
    BY <1>n, <1>q DEF Slack, Numbers
  <2>2. /\ \A i \in DOMAIN chan' : \E j \in DOMAIN chan : chan[j] = chan'[i]
        /\ \A m \in Msgs : Taken(m) => Taken(m)'
    BY Zenon, <1>q DEF Taken
  <2> QED
    BY Zenon, <1>t, <1>q, <2>1, <2>2, IdleFew
<1>1. ASSUME NEW m \in Msgs, OperatorDelete(m) PROVE Deliveries'
  <2>1. Shorter
    BY Zenon, <1>1, SetStatusShorter DEF OperatorDelete
  <2> QED
    BY Zenon, <1>1, <1>q, <2>1 DEF OperatorDelete, SetStatus, Put, bounds
<1>2. ASSUME NEW m \in Msgs, OperatorRevive(m) PROVE Deliveries'
  <2>1. /\ store'[m].to = store[m].to /\ \A x \in Msgs \ {m} : store'[x] = store[x]
        /\ Present(m)
    BY Zenon, <1>2 DEF OperatorRevive, Put, StoreTyped, Entry, Present
  <2>2. Shorter
    BY Zenon, <2>1 DEF Shorter, Present
  <2> QED
    BY Zenon, <1>2, <1>q, <2>2 DEF OperatorRevive, Put, world
<1>3. ASSUME NEW m \in Msgs, OperatorRelease(m) PROVE Deliveries'
  <2>1. Shorter
    BY Zenon, <1>3, SetStatusShorter DEF OperatorRelease
  <2> QED
    BY Zenon, <1>3, <1>q, <2>1 DEF OperatorRelease, SetStatus, Put, world, bounds
<1>4. CASE Shutdown \/ UNCHANGED vars
  <2>1. UNCHANGED <<store, sess, chan, worker, sched, sent, faults, crashes, stale>>
    BY Zenon, <1>4 DEF Shutdown, vars, world, bounds
  <2> QED
    BY Zenon, <1>q, <2>1 DEF Shorter, Present
<1>5. CASE Restart
  <2>1. UNCHANGED <<sent, faults, stale>> /\ crashes' = crashes + 1
    BY Zenon, <1>5 DEF Restart, world
  <2>2. Slack + 1 <= Slack' /\ stale' <= MaxCount
    BY <1>n, <2>1 DEF Slack, Numbers
  <2>3. \A m \in Msgs : Taken(m) => Taken(m)'
    BY Zenon, <1>5 DEF Restart, Taken
  <2> QED
    BY Zenon, <1>t, <2>1, <2>2, <2>3, MoreSlack
<1> QED
  BY ZenonT(30), <1>t, <1>1, <1>2, <1>3, <1>4, <1>5, SessionDeliveries, WorkerDeliveries, SchedulerDeliveries
  DEF Next, Operator

-----------------------------------------------------------------------------
(* The parts together, and the theorems.                                   *)

-----------------------------------------------------------------------------
(* The theorems.                                                           *)

\* The inductive invariant holds when the queue manager starts.
LEMMA InitInvariant == Init => IInv
<1> SUFFICES ASSUME Init PROVE IInv
  OBVIOUS
<1>1. TypeOK /\ Phases
  BY Zenon, InitTypes
<1>2. /\ chan = <<>> /\ sched.cur = {} /\ sched.list = {} /\ sched.pc = "idle" /\ deleted = {} /\ stale = 0
      /\ \A w \in Workers : ~Working(w) /\ ~Early(w) /\ worker[w].pc = "idle"
      /\ \A m \in Msgs : sess[m] = "new" /\ ~Taken(m) /\ ~Present(m) /\ store[m].st = "none" /\ store[m].att = 0
  BY SMTT(30), NoWorkType, NoPassType DEF Init, Working, Early, Taken, Present, Absent, NoPass
<1>3. Exclusive /\ Claimed /\ NoneStranded
  BY SMTT(30), <1>2 DEF Exclusive, Claimed, NoneStranded
<1>4. Lists
  BY SMTT(30), <1>2 DEF Lists
<1>5. Deliveries
  <2>1. \A m \in Msgs, r \in Rcpts : sent[m][r] = 0
    BY Zenon DEF Init
  <2>2. Slack = 0 /\ MaxCount \in Nat
    BY QueueAssumption DEF Init, Slack
  <2>3. stale <= MaxCount /\ \A m \in Msgs, r \in Rcpts : sent[m][r] <= MaxCount /\ sent[m][r] <= Slack + 1
    BY SMTT(30), <1>2, <2>1, <2>2
  <2> QED
    BY SMTT(30), <1>2, <2>1, <2>3 DEF Deliveries
<1>6. Attempts
  BY SMTT(30), <1>2, QueueAssumption DEF Attempts
<1>7. Marks
  BY <1>2 DEF Init, Marks
<1> QED
  BY SMTT(30), <1>1, <1>3, <1>4, <1>5, <1>6, <1>7 DEF IInv

\* The invariant is inductive: no step of a session, a worker, the scheduler
\* or the operator, no failed store call and no restart breaks it.
THEOREM QueueInvariant == Spec => []IInv
<1>1. ASSUME IInv, [Next]_vars PROVE IInv'
  <2>1. Types /\ Owned /\ Lists /\ Deliveries /\ Attempts /\ Marks
    BY Zenon, <1>1 DEF IInv, Types, Owned
  <2>2. stale <= MaxCount
    BY <2>1 DEF Deliveries
  <2>3. Types' /\ Owned' /\ Lists' /\ Deliveries' /\ Attempts' /\ Marks'
    BY Zenon, <1>1, <2>1, <2>2, NextTypes, NextOwned, NextLists, NextDeliveries, NextAttempts, NextMarks
  <2> QED
    BY Zenon, <2>3 DEF IInv, Types, Owned
<1> QED
  BY <1>1, InitInvariant, PTL DEF Spec

\* "Only one worker can own a pending attempt" (Transition, smtpd/queue.go and
\* smtpd/retry.go): Enqueue, the channel, the workers and the scheduler never
\* hold a message twice, what they hold is claimed in the spool, and as long as
\* no store call fails what is claimed is held.
THEOREM QueueOwners == Spec => []SingleOwner
<1>1. ASSUME IInv PROVE SingleOwner
  <2>1. ASSUME NEW m \in Msgs PROVE Cardinality(Holders(m)) <= 1
    <3>1. \A a, b \in Holders(m) : a = b
      BY <1>1 DEF IInv, Exclusive, Holders, Working
    <3>2. CASE Holders(m) = {}
      BY <3>2, FS_EmptySet
    <3>3. ASSUME NEW a \in Holders(m) PROVE Cardinality(Holders(m)) <= 1
      <4>1. Holders(m) = {a}
        BY Zenon, <3>1, <3>3
      <4> QED
        BY <4>1, FS_Singleton
    <3> QED
      BY SMTT(30), <3>2, <3>3
  <2>2. ASSUME NEW m \in Msgs PROVE Holders(m) # {} <=> Held(m)
    BY Zenon DEF Holders, Held, Working
  <2>3. ASSUME NEW m \in Msgs, Held(m) PROVE store[m].st \in {"queued", "processing"} \/ m \in deleted
    BY <1>1, <2>3 DEF IInv, Claimed, Held
  <2> QED
    BY Zenon, <1>1, <2>1, <2>2, <2>3 DEF IInv, NoneStranded, SingleOwner
<1> QED
  BY <1>1, QueueInvariant, PTL

\* No accepted recipient is forgotten by any interleaving of sessions, workers,
\* scheduler, failed store calls and restarts: still in the spool, reached, or
\* the whole message preserved or deleted (processMessage, retryLoop, Restore).
THEOREM QueueAccounts == Spec => []Accounted
<1>1. IInv => Accounted
  BY DEF IInv, Lists, Accounted, Left
<1> QED
  BY <1>1, QueueInvariant, PTL

\* A remote server is given a message more than once only for a restart, a
\* failed store call or a claim on an outdated copy (processMessage writes the
\* remaining recipients back after every attempt).
THEOREM QueueDuplicates == Spec => []DuplicatesExplained
<1>1. ASSUME IInv PROVE DuplicatesExplained
  <2>1. Numbers
    BY Zenon, <1>1, SlackType DEF IInv, Types
  <2>2. \A m \in Msgs, r \in Rcpts : sent[m][r] <= Slack + 1
    BY SMTT(30), <1>1 DEF IInv, Deliveries
  <2> QED
    BY <2>1, <2>2 DEF DuplicatesExplained, Slack, Numbers
<1> QED
  BY <1>1, QueueInvariant, PTL

\* StoreNotification commits mark and notice together: no warning, failure or
\* success notice about a recipient is stored twice, whoever retries it.
THEOREM QueueNotices == Spec => []NoticeOnce
<1>1. IInv => NoticeOnce
  BY Zenon DEF IInv, Marks, NoticeOnce
<1> QED
  BY <1>1, QueueInvariant, PTL

\* RetryPolicy.MaxAttempts is passed only by claims on an outdated copy of the
\* entry, once for each (scheduler and worker compare and count apart).
THEOREM QueueCounts == Spec => []CountsBounded
<1>1. IInv => CountsBounded
  BY Zenon DEF IInv, Attempts, AttemptsBounded, CountsBounded
<1> QED
  BY <1>1, QueueInvariant, PTL
=============================================================================

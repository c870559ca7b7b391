---------------------------- MODULE DeliveryQueue ----------------------------
(***************************************************************************)
(* The queue manager and retry scheduler of internal/smtpd: SMTP sessions  *)
(* that Enqueue, the in-memory channel, the workers that run               *)
(* processMessage, the scheduler that runs processRetries, the operator's  *)
(* deletions and dead-letter retries, and the death of the process.        *)
(*                                                                         *)
(* The message store appears as the table it implements (module Spool):    *)
(* every call is atomic, a call may fail and change nothing, and a restart *)
(* turns claimed messages into pending ones.  The five tiers differ only   *)
(* in buffer sizes and rate limits, so there is one channel.               *)
(***************************************************************************)
EXTENDS Naturals, Sequences, FiniteSets

CONSTANTS
    Msgs,           \* messages clients submit
    Rcpts,          \* envelope recipients of every message
    Local,          \* the recipients of local domains
    Suppressed,     \* the recipients the configuration suppresses
    Arrivals,       \* statuses Enqueue may store: pending, held, scheduled
    Notify,         \* notices the sender asked for: SUCCESS, DELAY
    Workers,        \* worker goroutines
    ChanCap,        \* capacity of the channel
    MaxAttempts,    \* RetryPolicy.MaxAttempts
    MaxFaults,      \* bound: store calls that fail
    MaxCrashes,     \* bound: deaths of the process
    MaxRevives,     \* bound: dead-letter retries
    MaxCount        \* bound: history counters stop here

ASSUME QueueAssumption ==
    /\ Local \subseteq Rcpts /\ Suppressed \subseteq Rcpts
    /\ Arrivals \subseteq {"pending", "held", "scheduled"}
    /\ Notify \subseteq {"SUCCESS", "DELAY"}
    /\ {ChanCap, MaxFaults, MaxCrashes, MaxRevives} \subseteq Nat
    /\ Msgs # {} /\ {MaxAttempts, MaxCount} \subseteq Nat \ {0}

VARIABLES
    store,      \* the spool: status, recipients, attempts and notices stored
    sess,       \* where Enqueue is for each message
    chan,       \* the channel: messages with the recipients they were sent with
    worker,     \* processMessage in each worker
    sched,      \* processRetries
    stopping,   \* Shutdown has cancelled the context
    mailbox,    \* local recipients that have the message in their mailbox
    sent,       \* history: times a remote server accepted the message
    bounced,    \* history: times a failure was settled by a notice to the sender
                \* (none is due to a null sender, or when not asked for)
    notices,    \* history: times each delivery notice was stored
    preserved,  \* history: messages moved to compliance custody
    deleted,    \* history: messages a person deleted or cancelled
    faults,     \* history: failed store calls
    crashes,    \* history: deaths of the process
    revives,    \* history: dead-letter retries
    stale       \* history: claims made with an outdated list of recipients

world == <<mailbox, sent, bounced, notices, preserved, deleted>>

bounds == <<crashes, revives, stale>>

vars == <<store, sess, chan, worker, sched, stopping, world, faults, bounds>>

\* A history counter goes up until its bound.
Count(n) == IF n < MaxCount THEN n + 1 ELSE n

-----------------------------------------------------------------------------
(* Calls of the message store.                                             *)

Told == Rcpts \X Notify

Absent == [st |-> "none", to |-> {}, att |-> 0, told |-> {}]

Present(m) == store[m].st # "none"

Put(m, e) == store' = [store EXCEPT ![m] = e] /\ UNCHANGED faults

\* A journal write fails and is rolled back.
Fault == faults < MaxFaults /\ faults' = faults + 1 /\ UNCHANGED store

\* Mutant: the status is set without the comparison.
ClaimAny(m, from, st) ==
    /\ Present(m)
    /\ Put(m, [store[m] EXCEPT !.st = st,
                               !.att = IF st = "processing" THEN @ + 1 ELSE @])

\* Transition: compare-and-set; the attempt is counted on entering processing.
Claim(m, from, st) ==
    /\ store[m].st = from
    /\ Put(m, [store[m] EXCEPT !.st = st,
                               !.att = IF st = "processing" THEN @ + 1 ELSE @])

Lost(m, from) == store[m].st # from /\ UNCHANGED <<store, faults>>

\* History: a claim is outdated when the claimant's copy is not the entry.
Outdated(m, to, att) ==
    stale' = IF <<to, att>> # <<store[m].to, store[m].att>> THEN Count(stale) ELSE stale

\* Transition whose result the caller ignores.
TryMove(m, from, st) == Claim(m, from, st) \/ Lost(m, from) \/ Fault

\* A call on a message that is gone fails, and so does one whose write fails.
CallFails(m) ==
    \/ ~Present(m) /\ UNCHANGED <<store, faults>>
    \/ Present(m) /\ Fault

\* Mutant: a finished message stays in the spool.
SetStatusKeeps(m, st) == Present(m) /\ Put(m, [store[m] EXCEPT !.st = st])

\* UpdateStatus; delivered and deleted messages leave the spool.
SetStatus(m, st) ==
    /\ Present(m)
    /\ Put(m, IF st \in {"delivered", "deleted"} THEN Absent
              ELSE [store[m] EXCEPT !.st = st])

\* UpdateStatus whose error the caller only logs.
TrySetStatus(m, st) == SetStatus(m, st) \/ CallFails(m)

\* Mutant: the notice is stored and its mark is not.
NoticeUnmarked(m, r, event) ==
    /\ Present(m) /\ <<r, event>> \notin store[m].told
    /\ notices' = [notices EXCEPT ![m][<<r, event>>] = Count(@)]
    /\ UNCHANGED <<store, faults>>

\* sendDSN: the notice and its mark on the source are one write, so a marked
\* notice is not stored again.
Notice(m, r, event) ==
    /\ Present(m)
    /\ \/ /\ <<r, event>> \in store[m].told
          /\ UNCHANGED <<store, faults, notices>>
       \/ /\ <<r, event>> \notin store[m].told
          /\ Put(m, [store[m] EXCEPT !.told = @ \cup {<<r, event>>}])
          /\ notices' = [notices EXCEPT ![m][<<r, event>>] = Count(@)]

-----------------------------------------------------------------------------
(* Enqueue.                                                                *)

\* The message is stored: for delivery, held in quarantine, or for later.
EnqueueStore(m) ==
    /\ sess[m] = "new"
    /\ \/ /\ \E st \in Arrivals :
                /\ Put(m, [Absent EXCEPT !.st = st, !.to = Rcpts])
                /\ sess' = [sess EXCEPT ![m] = IF st = "pending" THEN "stored" ELSE "done"]
       \/ /\ Fault
          /\ sess' = [sess EXCEPT ![m] = "rejected"]
    /\ UNCHANGED <<chan, worker, sched, world, stopping, bounds>>

\* The session claims what it stored; whoever loses leaves it to the other.
EnqueueClaim(m) ==
    /\ sess[m] = "stored"
    /\ \/ /\ Claim(m, "pending", "queued")
          /\ sess' = [sess EXCEPT ![m] = "claimed"]
          /\ Outdated(m, Rcpts, 0)
       \/ /\ Lost(m, "pending") \/ Fault
          /\ sess' = [sess EXCEPT ![m] = "done"]
          /\ UNCHANGED stale
    /\ UNCHANGED <<chan, worker, sched, world, stopping, crashes, revives>>

\* Mutant: the claim is kept when the channel is full.
SendForgets(m, to) ==
    /\ chan' = IF Len(chan) < ChanCap THEN Append(chan, [id |-> m, to |-> to]) ELSE chan
    /\ UNCHANGED <<store, faults>>

\* enqueueToChannel: send; after 100 ms of a full channel, or on shutdown, give
\* the claim back.
Send(m, to) ==
    \/ /\ Len(chan) < ChanCap
       /\ chan' = Append(chan, [id |-> m, to |-> to])
       /\ UNCHANGED <<store, faults>>
    \/ /\ Len(chan) >= ChanCap \/ stopping
       /\ TrySetStatus(m, "pending")
       /\ UNCHANGED chan

EnqueueSend(m) ==
    /\ sess[m] = "claimed"
    /\ Send(m, Rcpts)
    /\ sess' = [sess EXCEPT ![m] = "done"]
    /\ UNCHANGED <<worker, sched, world, stopping, bounds>>

-----------------------------------------------------------------------------
(* processMessage.                                                         *)

NoWork == [pc |-> "idle", id |-> CHOOSE m \in Msgs : TRUE, todo |-> {},
           rcpt |-> {}, remaining |-> {}, started |-> FALSE]

Busy(w, pc) == worker[w].pc = pc

\* Worker w returns from processMessage.
Return(w) == worker' = [worker EXCEPT ![w] = NoWork]

WorkerTake(w) ==
    /\ Busy(w, "idle") /\ chan # <<>>
    /\ worker' = [worker EXCEPT ![w] = [NoWork EXCEPT
                     !.pc = "loop", !.id = Head(chan).id, !.todo = Head(chan).to]]
    /\ chan' = Tail(chan)
    /\ UNCHANGED <<store, sess, sched, world, faults, stopping, bounds>>

\* A hold rule covers a message that none covered when it was enqueued: the
\* configuration has changed, which takes a restart.  The message is claimed,
\* copied to custody, and its queue entry closed.
WorkerCustody(w) ==
    LET m == worker[w].id IN
    /\ crashes > 0
    /\ Busy(w, "loop") /\ ~worker[w].started /\ worker[w].remaining = {}
    /\ \/ Claim(m, "queued", "processing") /\ worker' = [worker EXCEPT ![w].pc = "custody"]
       \/ (Lost(m, "queued") \/ Fault) /\ Return(w)
    /\ UNCHANGED <<sess, chan, sched, world, stopping, bounds>>

WorkerPreserve(w) ==
    /\ Busy(w, "custody")
    /\ \/ /\ preserved' = preserved \cup {worker[w].id}
          /\ worker' = [worker EXCEPT ![w].pc = "preserved"]
          /\ UNCHANGED <<store, faults>>
       \/ /\ Fault
          /\ worker' = [worker EXCEPT ![w].pc = "retain"]
          /\ UNCHANGED preserved
    /\ UNCHANGED <<sess, chan, sched, mailbox, sent, bounced, notices, deleted,
                   stopping, bounds>>

WorkerPreserved(w) ==
    /\ Busy(w, "preserved")
    /\ TrySetStatus(worker[w].id, "delivered")
    /\ Return(w)
    /\ UNCHANGED <<sess, chan, sched, world, stopping, bounds>>

\* The sender is paused by the mailstorm guard, or the rate limiter was
\* cancelled.  Before the first attempt the claim is given back; later the
\* untried recipients are kept.
WorkerPaused(w) ==
    LET k == worker[w] IN
    /\ Busy(w, "loop")
    /\ \/ /\ ~k.started /\ (k.todo # {} \/ k.remaining = {})
          /\ TryMove(k.id, "queued", "pending")
          /\ Return(w)
       \/ /\ k.started /\ k.todo # {}
          /\ worker' = [worker EXCEPT ![w].pc = "final", ![w].todo = {},
                                      ![w].remaining = @ \cup k.todo]
          /\ UNCHANGED <<store, faults>>
    /\ UNCHANGED <<sess, chan, sched, world, stopping, bounds>>

\* The destination throttle refuses a remote recipient.
WorkerThrottled(w, r) ==
    /\ Busy(w, "loop") /\ r \in worker[w].todo \ Local
    /\ worker' = [worker EXCEPT ![w].todo = @ \ {r}, ![w].remaining = @ \cup {r}]
    /\ UNCHANGED <<store, sess, chan, sched, world, faults, stopping, bounds>>

\* The next recipient is attempted; the first attempt claims the message and
\* a worker that cannot claim it drops it.
WorkerAttempt(w, r) ==
    LET k == worker[w] IN
    /\ Busy(w, "loop") /\ r \in k.todo
    /\ \/ /\ k.started /\ UNCHANGED <<store, faults>>
          /\ worker' = [worker EXCEPT ![w].pc = "deliver", ![w].rcpt = {r}]
       \/ /\ ~k.started /\ Claim(k.id, "queued", "processing")
          /\ worker' = [worker EXCEPT ![w].pc = "deliver", ![w].rcpt = {r},
                                      ![w].started = TRUE]
       \/ ~k.started /\ (Lost(k.id, "queued") \/ Fault) /\ Return(w)
    /\ UNCHANGED <<sess, chan, sched, world, stopping, bounds>>

\* The attempt on recipient r ends, with or without an error.
Attempted(w, r, ok) ==
    worker' = [worker EXCEPT ![w].pc = "checkpoint", ![w].rcpt = {},
                             ![w].todo = @ \ {r},
                             ![w].remaining = IF ok THEN @ ELSE @ \cup {r}]

\* The recipient was accepted: the SUCCESS notice is next if it was asked for.
Accepted(w, r) ==
    IF "SUCCESS" \in Notify
    THEN worker' = [worker EXCEPT ![w].pc = "notify"]
    ELSE Attempted(w, r, TRUE)

\* generateBounce for one recipient: a notice is stored, or the recipient stays.
Bounce(w, r) ==
    \/ /\ bounced' = [bounced EXCEPT ![worker[w].id][r] = Count(@)]
       /\ Attempted(w, r, TRUE) /\ UNCHANGED <<store, faults>>
    \/ Attempted(w, r, FALSE) /\ Fault /\ UNCHANGED bounced

WorkerSuppressed(w) ==
    \E r \in worker[w].rcpt \cap Suppressed :
        /\ Busy(w, "deliver")
        /\ Bounce(w, r)
        /\ UNCHANGED <<sess, chan, sched, mailbox, sent, notices, preserved, deleted,
                       stopping, bounds>>

\* deliverLocal: DeliverOnce stores at most one copy per message and recipient.
WorkerLocal(w) ==
    \E r \in worker[w].rcpt \cap (Local \ Suppressed) :
        /\ Busy(w, "deliver")
        /\ \/ /\ mailbox' = [mailbox EXCEPT ![worker[w].id] = @ \cup {r}]
              /\ Accepted(w, r)
           \/ Attempted(w, r, FALSE) /\ UNCHANGED mailbox
        /\ UNCHANGED <<store, sess, chan, sched, sent, bounced, notices, preserved,
                       deleted, faults, stopping, bounds>>

\* deliverRemote: accepted, temporary failure, or permanent failure, which is
\* settled by storing a bounce.
WorkerRemote(w) ==
    \E r \in worker[w].rcpt \ (Local \cup Suppressed) :
        /\ Busy(w, "deliver")
        /\ \/ /\ sent' = [sent EXCEPT ![worker[w].id][r] = Count(@)]
              /\ Accepted(w, r)
              /\ UNCHANGED <<bounced, store, faults>>
           \/ /\ Attempted(w, r, FALSE)
              /\ UNCHANGED <<sent, bounced, store, faults>>
           \/ Bounce(w, r) /\ UNCHANGED sent
        /\ UNCHANGED <<sess, chan, sched, mailbox, notices, preserved, deleted,
                       stopping, bounds>>

\* The SUCCESS notice; if it cannot be stored the recipient stays.
WorkerNotify(w) ==
    LET m == worker[w].id IN
    \E r \in worker[w].rcpt :
        /\ Busy(w, "notify")
        /\ \/ Notice(m, r, "SUCCESS") /\ Attempted(w, r, TRUE)
           \/ CallFails(m) /\ UNCHANGED notices /\ Attempted(w, r, FALSE)
        /\ UNCHANGED <<sess, chan, sched, mailbox, sent, bounced, preserved, deleted,
                       stopping, bounds>>

\* Mutant: what is left is not written.
CheckpointSkipped(w, left, next) ==
    /\ worker' = [worker EXCEPT ![w].pc = next]
    /\ UNCHANGED <<store, faults, sess, chan, sched, world, stopping, bounds>>

\* UpdateRecipients with what is left, after every attempt and at the end.
Checkpoint(w, left, next) ==
    LET k == worker[w] IN
    /\ \/ /\ Present(k.id) /\ Put(k.id, [store[k.id] EXCEPT !.to = left])
          /\ worker' = [worker EXCEPT ![w].pc = next]
       \/ /\ CallFails(k.id)
          /\ worker' = [worker EXCEPT ![w].pc = "retain"]
    /\ UNCHANGED <<sess, chan, sched, world, stopping, bounds>>

WorkerCheckpoint(w) ==
    /\ Busy(w, "checkpoint")
    /\ Checkpoint(w, worker[w].remaining \cup worker[w].todo, "loop")

\* Mutant: the message is finished whoever is left.
WorkerFinalAll(w) ==
    /\ Busy(w, "final") \/ (Busy(w, "loop") /\ worker[w].todo = {})
    /\ Checkpoint(w, worker[w].remaining, "finish")

WorkerFinal(w) ==
    /\ Busy(w, "final") \/ (Busy(w, "loop") /\ worker[w].todo = {})
    /\ Checkpoint(w, worker[w].remaining,
                  IF worker[w].remaining = {} THEN "finish" ELSE "retain")

\* finalizeDelivery with an error: back to pending.
WorkerRetain(w) ==
    /\ Busy(w, "retain")
    /\ TrySetStatus(worker[w].id, "pending")
    /\ Return(w)
    /\ UNCHANGED <<sess, chan, sched, world, stopping, bounds>>

\* finalizeDelivery without: the message is done, or kept if that fails.
WorkerFinish(w) ==
    LET m == worker[w].id IN
    /\ Busy(w, "finish")
    /\ \/ SetStatus(m, "delivered") /\ Return(w)
       \/ /\ CallFails(m)
          /\ worker' = [worker EXCEPT ![w].pc = "retain"]
    /\ UNCHANGED <<sess, chan, sched, world, stopping, bounds>>

-----------------------------------------------------------------------------
(* processRetries.                                                         *)

Copy == [id : Msgs, to : SUBSET Rcpts, att : Nat]

NoPass == [pc |-> "idle", list |-> {}, cur |-> {}, todo |-> {}]

\* FinishScheduled: a scheduled message that is due becomes pending, or held.
RetryRelease(m) ==
    /\ sched.pc = "idle" /\ ~stopping
    /\ store[m].st = "scheduled"
    /\ \E st \in {"pending", "held"} : SetStatus(m, st)
    /\ UNCHANGED <<sess, chan, worker, sched, world, stopping, bounds>>

\* The pending entries are copied (ListPending clones them).
RetryList ==
    /\ sched.pc = "idle" /\ ~stopping
    /\ \E m \in Msgs : store[m].st = "pending"
    /\ sched' = [NoPass EXCEPT !.pc = "scan",
                   !.list = {[id |-> m, to |-> store[m].to, att |-> store[m].att] :
                                m \in {x \in Msgs : store[x].st = "pending"}}]
    /\ UNCHANGED <<store, sess, chan, worker, world, faults, stopping, bounds>>

\* A DELAY notice for a recipient of an entry that was tried before.
RetryWarn(e, r) ==
    /\ sched.pc = "scan"
    /\ "DELAY" \in Notify /\ e.att \in 1 .. MaxAttempts - 1 /\ r \in e.to
    /\ Notice(e.id, r, "DELAY")
    /\ UNCHANGED <<sess, chan, worker, sched, mailbox, sent, bounced, preserved,
                   deleted, stopping, bounds>>

\* The next entry is not due, or it can no longer be claimed.
RetrySkip(e) ==
    /\ sched.pc = "scan"
    /\ \/ e.att < MaxAttempts /\ UNCHANGED <<store, faults>>
       \/ Lost(e.id, "pending")
       \/ Fault
    /\ sched' = [sched EXCEPT !.list = @ \ {e}]
    /\ UNCHANGED <<sess, chan, worker, world, stopping, bounds>>

\* Mutant: the limit is off by one.
RetryClaimOnce(e) ==
    /\ sched.pc = "scan"
    /\ Claim(e.id, "pending", "queued")
    /\ sched' = [sched EXCEPT !.list = @ \ {e}, !.cur = {e},
                   !.pc = IF e.att > MaxAttempts THEN "bounce" ELSE "requeue",
                   !.todo = IF e.att > MaxAttempts THEN e.to ELSE {}]
    /\ Outdated(e.id, e.to, e.att)
    /\ UNCHANGED <<sess, chan, worker, world, stopping, crashes, revives>>

\* The next entry is claimed, to be given up or to be sent again, with the
\* recipients and attempts of the copy.
RetryClaim(e) ==
    /\ sched.pc = "scan"
    /\ Claim(e.id, "pending", "queued")
    /\ sched' = [sched EXCEPT !.list = @ \ {e}, !.cur = {e},
                   !.pc = IF e.att >= MaxAttempts THEN "bounce" ELSE "requeue",
                   !.todo = IF e.att >= MaxAttempts THEN e.to ELSE {}]
    /\ Outdated(e.id, e.to, e.att)
    /\ UNCHANGED <<sess, chan, worker, world, stopping, crashes, revives>>

Scan == sched' = [sched EXCEPT !.pc = "scan", !.cur = {}, !.todo = {}]

RetryRequeue ==
    /\ sched.pc = "requeue"
    /\ \E e \in sched.cur : Send(e.id, e.to)
    /\ Scan
    /\ UNCHANGED <<sess, worker, world, stopping, bounds>>

\* generateBounce: one notice per recipient; a failure ends the loop.
RetryBounce(r) ==
    /\ sched.pc = "bounce" /\ r \in sched.todo
    /\ \E e \in sched.cur :
          \/ /\ bounced' = [bounced EXCEPT ![e.id][r] = Count(@)]
             /\ sched' = [sched EXCEPT !.todo = @ \ {r}]
             /\ UNCHANGED <<store, faults>>
          \/ /\ Fault
             /\ sched' = [sched EXCEPT !.pc = "unbounced"]
             /\ UNCHANGED bounced
    /\ UNCHANGED <<sess, chan, worker, mailbox, sent, notices, preserved, deleted,
                   stopping, bounds>>

RetryGiveUp ==
    /\ sched.pc = "bounce" /\ sched.todo = {}
    /\ \E e \in sched.cur : TrySetStatus(e.id, "failed")
    /\ Scan
    /\ UNCHANGED <<sess, chan, worker, world, stopping, bounds>>

RetryUnbounced ==
    /\ sched.pc = "unbounced"
    /\ \E e \in sched.cur : TrySetStatus(e.id, "pending")
    /\ Scan
    /\ UNCHANGED <<sess, chan, worker, world, stopping, bounds>>

RetryEnd ==
    /\ sched.pc = "scan" /\ sched.list = {}
    /\ sched' = NoPass
    /\ UNCHANGED <<store, sess, chan, worker, world, faults, stopping, bounds>>

-----------------------------------------------------------------------------
(* The operator and the process.                                           *)

\* The HTTP API deletes a message in any state: UpdateStatus(id, "deleted").
\* A scheduled message is cancelled by its sender the same way.
OperatorDelete(m) ==
    /\ SetStatus(m, "deleted")
    /\ deleted' = deleted \cup {m}
    /\ UNCHANGED <<sess, chan, worker, sched, mailbox, sent, bounced, notices,
                   preserved, stopping, bounds>>

\* RetryFromDLQ.
OperatorRevive(m) ==
    /\ revives < MaxRevives /\ revives' = revives + 1
    /\ store[m].st = "failed"
    /\ Put(m, [store[m] EXCEPT !.st = "pending", !.att = 0])
    /\ UNCHANGED <<sess, chan, worker, sched, world, stopping, crashes, stale>>

\* ReleaseHeld.
OperatorRelease(m) ==
    /\ store[m].st = "held"
    /\ SetStatus(m, "pending")
    /\ UNCHANGED <<sess, chan, worker, sched, world, stopping, bounds>>

\* Shutdown cancels the context; what is running finishes or is cut off.
Shutdown ==
    /\ crashes < MaxCrashes /\ ~stopping /\ stopping' = TRUE
    /\ UNCHANGED <<store, sess, chan, worker, sched, world, faults, bounds>>

\* Mutant: recover leaves claims as they are.
RestartKeepsClaims ==
    /\ crashes < MaxCrashes /\ crashes' = crashes + 1
    /\ sess' = [m \in Msgs |-> IF sess[m] \in {"new", "rejected"} THEN sess[m] ELSE "done"]
    /\ chan' = <<>>
    /\ worker' = [w \in Workers |-> NoWork]
    /\ sched' = NoPass
    /\ stopping' = FALSE
    /\ UNCHANGED <<store, world, faults, revives, stale>>

\* The process dies and is started again: recover makes claims pending.
Restart ==
    /\ crashes < MaxCrashes /\ crashes' = crashes + 1
    /\ store' = [m \in Msgs |-> IF store[m].st \in {"queued", "processing"}
                                THEN [store[m] EXCEPT !.st = "pending"] ELSE store[m]]
    /\ sess' = [m \in Msgs |-> IF sess[m] \in {"new", "rejected"} THEN sess[m] ELSE "done"]
    /\ chan' = <<>>
    /\ worker' = [w \in Workers |-> NoWork]
    /\ sched' = NoPass
    /\ stopping' = FALSE
    /\ UNCHANGED <<world, faults, revives, stale>>

Init ==
    /\ store = [m \in Msgs |-> Absent]
    /\ sess = [m \in Msgs |-> "new"]
    /\ chan = <<>>
    /\ worker = [w \in Workers |-> NoWork]
    /\ sched = NoPass
    /\ mailbox = [m \in Msgs |-> {}]
    /\ sent = [m \in Msgs |-> [r \in Rcpts |-> 0]]
    /\ bounced = [m \in Msgs |-> [r \in Rcpts |-> 0]]
    /\ notices = [m \in Msgs |-> [t \in Told |-> 0]]
    /\ preserved = {} /\ deleted = {}
    /\ stopping = FALSE
    /\ faults = 0 /\ crashes = 0 /\ revives = 0 /\ stale = 0

Session == \E m \in Msgs : EnqueueStore(m) \/ EnqueueClaim(m) \/ EnqueueSend(m)

WorkerStep(w) ==
    \/ WorkerTake(w)
    \/ \E r \in Rcpts : WorkerAttempt(w, r)
    \/ WorkerSuppressed(w)
    \/ WorkerLocal(w)
    \/ WorkerRemote(w)
    \/ WorkerNotify(w)
    \/ WorkerCheckpoint(w)
    \/ WorkerFinal(w)
    \/ WorkerRetain(w)
    \/ WorkerFinish(w)
    \/ WorkerPreserve(w)
    \/ WorkerPreserved(w)

WorkerDefer(w) ==
    \/ WorkerCustody(w)
    \/ WorkerPaused(w)
    \/ \E r \in Rcpts : WorkerThrottled(w, r)

Scheduler ==
    \/ \E m \in Msgs : RetryRelease(m)
    \/ RetryList
    \/ \E e \in sched.list : RetrySkip(e) \/ RetryClaim(e)
    \/ \E e \in sched.list, r \in Rcpts : RetryWarn(e, r)
    \/ RetryRequeue
    \/ \E r \in Rcpts : RetryBounce(r)
    \/ RetryGiveUp
    \/ RetryUnbounced
    \/ RetryEnd

Operator == \E m \in Msgs : OperatorDelete(m) \/ OperatorRevive(m) \/ OperatorRelease(m)

Next ==
    \/ Session
    \/ \E w \in Workers : WorkerStep(w) \/ WorkerDefer(w)
    \/ Scheduler
    \/ Operator
    \/ Shutdown
    \/ Restart

Spec == Init /\ [][Next]_vars

\* Goroutines keep running; a stopped server is started again.  A sender is
\* not paused, a destination not throttled, and an entry not found early, at
\* every single try: pauses and cooldowns end and retry times come.
Fairness ==
    /\ \A m \in Msgs :
          /\ WF_vars(EnqueueClaim(m) \/ EnqueueSend(m))
          /\ SF_vars(RetryRelease(m))
          /\ SF_vars(\E e \in sched.list : e.id = m /\ RetryClaim(e))
          /\ SF_vars(\E w \in Workers, r \in Rcpts : worker[w].id = m /\ WorkerAttempt(w, r))
          /\ SF_vars(\E w \in Workers : worker[w].id = m /\ WorkerFinal(w))
    /\ \A w \in Workers : WF_vars(WorkerStep(w))
    /\ WF_vars(Scheduler)
    /\ WF_vars(stopping /\ Restart)

FairSpec == Spec /\ Fairness

-----------------------------------------------------------------------------
(* Properties.                                                             *)

Entry == [st : {"none", "pending", "held", "scheduled", "queued", "processing", "failed"},
          to : SUBSET Rcpts, att : Nat, told : SUBSET Told]

Job == [pc : {"idle", "loop", "deliver", "notify", "checkpoint", "final", "retain",
              "finish", "custody", "preserved"},
        id : Msgs, todo : SUBSET Rcpts, rcpt : SUBSET Rcpts, remaining : SUBSET Rcpts,
        started : BOOLEAN]

Pass == [pc : {"idle", "scan", "requeue", "bounce", "unbounced"},
         list : SUBSET Copy, cur : SUBSET Copy, todo : SUBSET Rcpts]

\* Type invariant of the queue's state.
TypeOK ==
    /\ store \in [Msgs -> Entry]
    /\ sess \in [Msgs -> {"new", "rejected", "stored", "claimed", "done"}]
    /\ chan \in Seq([id : Msgs, to : SUBSET Rcpts])
    /\ worker \in [Workers -> Job]
    /\ sched \in Pass
    /\ stopping \in BOOLEAN
    /\ mailbox \in [Msgs -> SUBSET Rcpts]
    /\ sent \in [Msgs -> [Rcpts -> Nat]]
    /\ bounced \in [Msgs -> [Rcpts -> Nat]]
    /\ notices \in [Msgs -> [Told -> Nat]]
    /\ preserved \subseteq Msgs /\ deleted \subseteq Msgs
    /\ faults \in Nat /\ crashes \in Nat /\ revives \in Nat /\ stale \in Nat

\* Once Enqueue has stored the message its client was told it is accepted.
Taken(m) == sess[m] \notin {"new", "rejected"}

Reached(m, r) == r \in mailbox[m] \/ sent[m][r] > 0 \/ bounced[m][r] > 0

\* No accepted recipient is forgotten: at every instant, whatever worker,
\* scheduler, failed write or restart comes next, the spool still lists the
\* recipient, or it was delivered or bounced, or the whole message was
\* preserved by a compliance rule or deleted by a person.
Accounted ==
    \A m \in Msgs : Taken(m) =>
        \/ m \in deleted \cup preserved
        \/ \A r \in Rcpts : (Present(m) /\ r \in store[m].to) \/ Reached(m, r)

\* The goroutines that hold a message.
Holders(m) ==
    (IF sess[m] = "claimed" THEN {"session"} ELSE {})
        \cup {<<"channel", i>> : i \in {k \in DOMAIN chan : chan[k].id = m}}
        \cup {<<"worker", w>> : w \in {v \in Workers : worker[v].pc # "idle" /\ worker[v].id = m}}
        \cup (IF \E e \in sched.cur : e.id = m THEN {"scheduler"} ELSE {})

\* "Only one worker can own a pending attempt" (Transition): a message is in
\* at most one pair of hands, and a message in hand is claimed in the spool
\* unless it was deleted meanwhile.  If no store call failed, every claimed
\* message is in somebody's hands, so none is stranded.
SingleOwner ==
    \A m \in Msgs :
        /\ Cardinality(Holders(m)) <= 1
        /\ Holders(m) # {} => store[m].st \in {"queued", "processing"} \/ m \in deleted
        /\ faults = 0 /\ store[m].st \in {"queued", "processing"} => Holders(m) # {}

\* RetryPolicy.MaxAttempts is exceeded only by claims made on an outdated copy
\* of the entry: the scheduler compares its copy of the counter, a session that
\* claims what it stored compares nothing, and the worker counts later.
AttemptsBounded ==
    \A m \in Msgs : store[m].att <= MaxAttempts + stale \/ stale = MaxCount

\* A remote server is given a message twice only after a restart, a failed
\* store call or a claim on an outdated copy of the entry; a dead-letter
\* retry, a full channel, a throttled sibling or a pause never causes it.
DuplicatesExplained ==
    \A m \in Msgs, r \in Rcpts :
        sent[m][r] <= 1 + crashes + faults + stale \/ sent[m][r] = MaxCount

\* StoreNotification commits the mark and the notice together "so scheduler
\* restarts cannot create duplicate notices".
NoticeOnce == \A m \in Msgs, t \in Told : notices[m][t] <= 1

\* While every store call succeeds, accepted mail is settled: delivered,
\* bounced, dead-lettered, preserved, deleted, or held for a person.
Settles == \A m \in Msgs : Taken(m) ~> (store[m].st \in {"none", "failed", "held"})

\* A message whose session finds the channel full gets into the channel after
\* all or is given back to the retry scheduler, which only looks at pending
\* ones: "it is safe to return without blocking the SMTP session - the retry
\* scheduler will reprocess it from the store" (enqueueToChannel).
Reprocessed ==
    \A m \in Msgs :
        (sess[m] = "claimed" /\ Len(chan) >= ChanCap)
            ~> ((\E i \in DOMAIN chan : chan[i].id = m) \/ store[m].st # "queued")

-----------------------------------------------------------------------------
(* The inductive invariant of the safety properties.                       *)

\* Worker w has taken a message and not claimed it for processing.
Early(w) == worker[w].pc = "loop" /\ ~worker[w].started

Working(w) == worker[w].pc # "idle"

\* What the program counter says of the other variables of processMessage.
Sound(k) ==
    /\ k.todo \cap k.remaining = {}
    /\ k.pc \in {"deliver", "notify"} => k.rcpt \subseteq k.todo /\ \A a, b \in k.rcpt : a = b
    /\ k.pc = "notify" => "SUCCESS" \in Notify
    /\ k.pc \in {"deliver", "notify", "checkpoint"} => k.started
    /\ k.pc \in {"final", "finish"} => k.todo = {}
    /\ k.pc = "finish" => k.remaining = {}

Phases ==
    /\ \A w \in Workers : Sound(worker[w])
    /\ \A w \in Workers : worker[w].pc = "preserved" => worker[w].id \in preserved
    /\ sched.pc \in {"idle", "scan"} => sched.cur = {}

\* No two goroutines hold the same message.
Exclusive ==
    /\ \A i, j \in DOMAIN chan : chan[i].id = chan[j].id => i = j
    /\ \A v, w \in Workers : Working(v) /\ Working(w) /\ worker[v].id = worker[w].id => v = w
    /\ \A e, f \in sched.cur : e = f
    /\ \A i \in DOMAIN chan, w \in Workers : Working(w) => chan[i].id # worker[w].id
    /\ \A i \in DOMAIN chan, e \in sched.cur : chan[i].id # e.id
    /\ \A w \in Workers, e \in sched.cur : Working(w) => worker[w].id # e.id
    /\ \A i \in DOMAIN chan : sess[chan[i].id] # "claimed"
    /\ \A w \in Workers : Working(w) => sess[worker[w].id] # "claimed"
    /\ \A e \in sched.cur : sess[e.id] # "claimed"

\* What is held is claimed in the spool, unless it was deleted; what was
\* deleted or never stored is not there.
Claimed ==
    /\ \A m \in Msgs : sess[m] = "claimed" => store[m].st = "queued" \/ m \in deleted
    /\ \A i \in DOMAIN chan : store[chan[i].id].st = "queued" \/ chan[i].id \in deleted
    /\ \A e \in sched.cur : store[e.id].st = "queued" \/ e.id \in deleted
    /\ \A w \in Workers : Early(w) => store[worker[w].id].st = "queued" \/ worker[w].id \in deleted
    /\ \A w \in Workers : Working(w) =>
         store[worker[w].id].st \in {"queued", "processing"} \/ worker[w].id \in deleted
    /\ \A m \in deleted : store[m].st = "none"
    /\ \A m \in Msgs : ~Taken(m) => store[m].st = "none" /\ m \notin deleted

\* If no store call failed, what is claimed is held.
Held(m) ==
    \/ sess[m] = "claimed"
    \/ \E i \in DOMAIN chan : chan[i].id = m
    \/ \E w \in Workers : Working(w) /\ worker[w].id = m
    \/ \E e \in sched.cur : e.id = m

NoneStranded ==
    faults = 0 => \A m \in Msgs : store[m].st \in {"queued", "processing"} => Held(m)

\* Whoever is not in the list was reached.
Left(m, list) == \A r \in Rcpts \ list : Reached(m, r)

\* Every list of recipients in the spool or in somebody's hands, an outdated
\* one too, has all who were not reached; who left the spool was.
Lists ==
    /\ \A m \in Msgs : Present(m) => Left(m, store[m].to)
    /\ \A m \in Msgs : Taken(m) /\ ~Present(m) => m \in deleted \cup preserved \/ Left(m, {})
    /\ \A i \in DOMAIN chan : Left(chan[i].id, chan[i].to)
    /\ \A w \in Workers : Working(w) => Left(worker[w].id, worker[w].todo \cup worker[w].remaining)
    /\ \A w \in Workers : worker[w].pc = "notify" => \A r \in worker[w].rcpt : Reached(worker[w].id, r)
    /\ \A e \in sched.list \cup sched.cur : Left(e.id, e.to)

\* Every event that explains one more delivery.
Slack == crashes + faults + stale

\* Worker w has delivered to r and not yet said so in the spool.
Between(w, r) ==
    \/ worker[w].pc = "notify" /\ r \in worker[w].rcpt
    \/ worker[w].pc = "checkpoint" /\ r \notin worker[w].todo \cup worker[w].remaining

\* A recipient somebody may still try was given the message once for every
\* such event at most, any other once more.
Deliveries ==
    /\ stale <= MaxCount
    /\ \A m \in Msgs, r \in Rcpts : sent[m][r] <= MaxCount /\ sent[m][r] <= Slack + 1
    /\ \A m \in Msgs, r \in Rcpts : ~Taken(m) => sent[m][r] = 0
    /\ \A m \in Msgs : sess[m] = "claimed" => \A r \in Rcpts : sent[m][r] <= Slack
    /\ \A i \in DOMAIN chan : \A r \in chan[i].to : sent[chan[i].id][r] <= Slack
    /\ \A e \in sched.cur : \A r \in e.to : sent[e.id][r] <= Slack
    /\ \A w \in Workers : Working(w) =>
         /\ \A r \in worker[w].todo : ~Between(w, r) => sent[worker[w].id][r] <= Slack
         /\ Present(worker[w].id) =>
              \A r \in worker[w].remaining : sent[worker[w].id][r] <= Slack
    /\ \A m \in Msgs : Present(m) => \A r \in store[m].to :
         \/ sent[m][r] <= Slack
         \/ \E w \in Workers : worker[w].id = m /\ Between(w, r)

\* A message on its way to its next attempt has one left, but for claims on
\* outdated copies.
Attempts ==
    stale = MaxCount \/
    /\ \A m \in Msgs : store[m].att <= MaxAttempts + stale
    /\ \A m \in Msgs : sess[m] = "claimed" => store[m].att < MaxAttempts + stale
    /\ \A i \in DOMAIN chan : store[chan[i].id].att < MaxAttempts + stale
    /\ sched.pc = "requeue" => \A e \in sched.cur : store[e.id].att < MaxAttempts + stale
    /\ \A w \in Workers : Early(w) => store[worker[w].id].att < MaxAttempts + stale

\* A notice was stored at most once, and not at all if it is not marked.
Marks ==
    \A m \in Msgs, t \in Told :
        /\ notices[m][t] <= 1
        /\ Present(m) /\ t \notin store[m].told => notices[m][t] = 0
        /\ ~Taken(m) => notices[m][t] = 0

\* All of it: inductive for any messages, recipients, workers and bounds.
IInv ==
    /\ TypeOK /\ Phases /\ Exclusive /\ Claimed /\ NoneStranded
    /\ Lists /\ Deliveries /\ Attempts /\ Marks

\* AttemptsBounded with the inductive invariant: only a claim made on an
\* outdated copy of an entry (smtpd/retry.go, smtpd/queue.go) takes the count
\* of attempts past RetryPolicy.MaxAttempts.
CountsBounded == IInv /\ AttemptsBounded
=============================================================================

------------------------------- MODULE Custody -------------------------------
(***************************************************************************)
(* Acceptance of a message into the spool (QueueManager.Enqueue) under the *)
(* compliance rules, the life of the evidence they preserve, and the       *)
(* submissions of JMAP users with their receipts, schedules and            *)
(* cancellations.                                                          *)
(*                                                                         *)
(* The spool is the table of messages of module Spool: one operation of    *)
(* the message store is one step, and it is durable when it returns.       *)
(* pending stands for every status of a message on its way (pending,       *)
(* queued, processing), which module DeliveryQueue tells apart.            *)
(***************************************************************************)
EXTENDS Naturals, Sequences, FiniteSets, SequencesExt

CONSTANTS
    Ids,            \* transactions, one for every attempt of a client
    Officers,       \* users of the compliance API
    Rules,          \* Config.Rules, a sequence
    Grants,         \* Config.Access, a set
    Enforced,       \* Config.EnforceDomainAccess
    Envelopes,      \* what clients submit
    DomainOf,       \* domain: address -> domain
    Delay,          \* how long a delayed submission waits
    ReceiptAge,     \* SubmissionRetentionDays; 0 keeps receipts for ever
    MaxTime         \* bound of the clock

VARIABLES
    now,            \* time.Now
    txn,            \* the session that runs Enqueue
    evidence,       \* records of tier compliance
    queue,          \* status of messages and of released messages
    receipt,        \* records of tier jmap_submission
    officer,        \* requests being served by the compliance API
    sent,           \* history: messages that left the spool by delivery
    canceled,       \* history: submissions reported as canceled
    erased          \* history: evidence deleted at its end

vars == <<now, txn, evidence, queue, receipt, officer, sent, canceled, erased>>

-----------------------------------------------------------------------------
(* The rules.                                                              *)

\* Evaluate: the rules an envelope matches, by the domain of its sender, of
\* a recipient, or of either.
Evaluate(from, to) ==
    {i \in DOMAIN Rules :
        \/ Rules[i].match # "recipient" /\ DomainOf[from] = Rules[i].domain
        \/ Rules[i].match # "sender" /\ \E a \in to : DomainOf[a] = Rules[i].domain}

Holds(r) == r.mode \in {"hold", "reroute"}

Holding(from, to) == {i \in Evaluate(from, to) : Holds(Rules[i])}

\* The captures applyCompliance works through: 0 stands for the combined
\* record of all rules that hold the message, then come the others in order.
Captures(from, to) ==
    (IF Holding(from, to) = {} THEN <<>> ELSE <<0>>) \o
    SelectSeq([i \in DOMAIN Rules |-> i],
              LAMBDA i : i \in Evaluate(from, to) \ Holding(from, to))

\* Mutant: the first rule that holds decides on the retention.
FirstRetention(S) == Rules[CHOOSE i \in S : \A j \in S : i <= j].retention

\* The retention of a combined record: indefinite, written 0, if any rule's
\* is, and otherwise the longest.
CombinedRetention(S) ==
    IF \E i \in S : Rules[i].retention = 0 THEN 0
    ELSE CHOOSE n \in {Rules[i].retention : i \in S} :
            \A i \in S : Rules[i].retention <= n

Record(S, mode, to) ==
    [status |-> "compliance", mode |-> mode, to |-> to, at |-> now,
     domains |-> {Rules[i].domain : i \in S},
     hold |-> \E i \in S : Rules[i].hold, by |-> {},
     keep |-> CombinedRetention(S)]

\* The rules a record of transaction m stands for.
RulesOf(m, k) == IF k = 0 THEN Holding(txn[m].env.from, txn[m].env.to) ELSE {k}

\* captureCompliance
Capture(m, k) ==
    LET S == RulesOf(m, k)
    IN  Record(S, Rules[CHOOSE i \in S : \A j \in S : i <= j].mode, txn[m].to)

\* Mutant: a grant for one of the domains is enough.
AuthorizedOnce(who, domains, action) ==
    Enforced => \E d \in domains : \E g \in Grants :
        g.who = who /\ action \in g.actions /\ d \in g.domains

\* Authorized: a grant for every domain of the record.
Authorized(who, domains, action) ==
    Enforced => \A d \in domains : \E g \in Grants :
        g.who = who /\ action \in g.actions /\ d \in g.domains

-----------------------------------------------------------------------------
(* State.                                                                  *)

Cases == Ids \X (0 .. Len(Rules))
NoCase == [status |-> "none", mode |-> "none", to |-> {}, at |-> 0,
           domains |-> {}, hold |-> FALSE, by |-> {}, keep |-> 0]
\* by: released_by, which the model keeps when the case is deleted.
\* Messages in the spool: the transactions, and release-<id> of a case.
Items == Ids \cup Cases
NoReceipt == [undo |-> "none", at |-> 0, queued |-> FALSE]
AtRest == [pc |-> "idle", op |-> "none", case |-> <<>>]

Init ==
    /\ now = 0
    /\ txn \in [Ids -> {[pc |-> "new", env |-> e, to |-> e.to, todo |-> <<>>, due |-> 0] :
                           e \in Envelopes}]
    /\ evidence = [c \in Cases |-> NoCase]
    /\ queue = [i \in Items |-> "none"]
    /\ receipt = [m \in Ids |-> NoReceipt]
    /\ officer = [o \in Officers |-> AtRest]
    /\ sent = {} /\ canceled = {} /\ erased = {}

TypeOK ==
    /\ now \in 0 .. MaxTime
    /\ \A m \in Ids : txn[m].pc \in {"new", "audit", "store", "accepted", "refused", "lost"}
    /\ \A c \in Cases : evidence[c].status \in {"none", "compliance", "released"}
    /\ queue \in [Items -> {"none", "scheduled", "held", "pending"}]
    /\ \A m \in Ids : receipt[m].undo \in {"none", "pending", "final", "canceled"}
    /\ sent \subseteq Items /\ canceled \subseteq Ids /\ erased \subseteq Cases

-----------------------------------------------------------------------------
(* Enqueue.                                                                *)

Session(m, pc) == txn[m].pc = pc

\* SubmitAt and the head of Enqueue: a delayed submission that a rule would
\* preserve is refused; otherwise applyCompliance begins.
Submit(m) ==
    LET e == txn[m].env
    IN  /\ Session(m, "new")
        /\ now + Delay <= MaxTime   \* bound: a delayed message comes due
        /\ txn' = [txn EXCEPT ![m] =
             IF e.kind = "later" /\ Evaluate(e.from, e.to) # {}
             THEN [@ EXCEPT !.pc = "refused"]
             ELSE [@ EXCEPT !.pc = "audit", !.todo = Captures(e.from, e.to),
                            !.due = now + Delay]]
        /\ UNCHANGED <<now, evidence, queue, receipt, officer, sent, canceled, erased>>

Held(m) == Holding(txn[m].env.from, txn[m].env.to) # {}

\* The audit record that precedes a capture.  A bcc rule stores nothing: it
\* adds its address unless the message is held.
AuditCapture(m) ==
    /\ Session(m, "audit") /\ txn[m].todo # <<>>
    /\ LET k == Head(txn[m].todo)
       IN  txn' = [txn EXCEPT ![m] =
             IF k # 0 /\ Rules[k].mode = "bcc"
             THEN [@ EXCEPT !.todo = Tail(@),
                            !.to = IF Held(m) THEN @ ELSE @ \cup {Rules[k].bcc}]
             ELSE [@ EXCEPT !.pc = "store"]]
    /\ UNCHANGED <<now, evidence, queue, receipt, officer, sent, canceled, erased>>

StoreCapture(m) ==
    /\ Session(m, "store")
    /\ LET k == Head(txn[m].todo)
       IN  evidence' = [evidence EXCEPT ![<<m, k>>] = Capture(m, k)]
    /\ txn' = [txn EXCEPT ![m].pc = "audit", ![m].todo = Tail(@)]
    /\ UNCHANGED <<now, queue, receipt, officer, sent, canceled, erased>>

\* The entry's status: scheduled, held by quarantine, or pending.
EntryStatus(e) == IF e.kind = "later" THEN "scheduled"
                  ELSE IF e.quarantine THEN "held" ELSE "pending"

\* Mutant: the message is queued before its captures are stored.
AcceptEarly(m) ==
    LET e == txn[m].env
    IN  /\ Session(m, "audit")
        /\ queue' = [queue EXCEPT ![m] = IF Held(m) THEN @ ELSE EntryStatus(e)]
        /\ receipt' = receipt
        /\ txn' = [txn EXCEPT ![m].pc = "accepted"]
        /\ UNCHANGED <<now, evidence, officer, sent, canceled, erased>>

\* The end of Enqueue: a held message leaves only its receipt
\* (persistSubmissionReceipt); any other enters the spool together with its
\* receipt, in one record.
Accept(m) ==
    LET e == txn[m].env
    IN  /\ Session(m, "audit") /\ txn[m].todo = <<>>
        /\ queue' = [queue EXCEPT ![m] = IF Held(m) THEN @ ELSE EntryStatus(e)]
        /\ receipt' = [receipt EXCEPT ![m] =
             IF e.kind = "smtp" THEN @
             ELSE [undo |-> IF e.kind = "later" THEN "pending" ELSE "final",
                   at |-> now, queued |-> ~Held(m)]]
        /\ txn' = [txn EXCEPT ![m].pc = "accepted"]
        /\ UNCHANGED <<now, evidence, officer, sent, canceled, erased>>

\* A failing write ends Enqueue with an error; what it stored stays.
Refuse(m) ==
    /\ txn[m].pc \in {"audit", "store"}
    /\ txn' = [txn EXCEPT ![m].pc = "refused"]
    /\ UNCHANGED <<now, evidence, queue, receipt, officer, sent, canceled, erased>>

-----------------------------------------------------------------------------
(* Submissions.                                                            *)

\* Mutant: dispatch does not look at the receipt.
DispatchUnread(m) ==
    /\ Session(m, "accepted") /\ txn[m].env.kind = "later" /\ now >= txn[m].due
    /\ queue[m] \in {"scheduled", "none"} /\ m \notin sent
    /\ queue' = [queue EXCEPT ![m] = IF txn[m].env.quarantine THEN "held" ELSE "pending"]
    /\ receipt' = [receipt EXCEPT ![m].undo = "final"]
    /\ UNCHANGED <<now, txn, evidence, officer, sent, canceled, erased>>

\* Mutant: only a submission due this very moment is dispatched.
DispatchExact(m) ==
    /\ queue[m] = "scheduled" /\ receipt[m].undo = "pending" /\ now = txn[m].due
    /\ queue' = [queue EXCEPT ![m] = IF txn[m].env.quarantine THEN "held" ELSE "pending"]
    /\ receipt' = [receipt EXCEPT ![m].undo = "final"]
    /\ UNCHANGED <<now, txn, evidence, officer, sent, canceled, erased>>

\* FinishScheduled, called by the retry scheduler for every scheduled entry.
Dispatch(m) ==
    /\ queue[m] = "scheduled" /\ receipt[m].undo = "pending" /\ now >= txn[m].due
    /\ queue' = [queue EXCEPT ![m] = IF txn[m].env.quarantine THEN "held" ELSE "pending"]
    /\ receipt' = [receipt EXCEPT ![m].undo = "final"]
    /\ UNCHANGED <<now, txn, evidence, officer, sent, canceled, erased>>

\* FinishScheduled with cancel: the message is deleted with the same record.
Cancel(m) ==
    /\ queue[m] = "scheduled" /\ receipt[m].undo = "pending"
    /\ queue' = [queue EXCEPT ![m] = "none"]
    /\ receipt' = [receipt EXCEPT ![m].undo = "canceled"]
    /\ canceled' = canceled \cup {m}
    /\ UNCHANGED <<now, txn, evidence, officer, sent, erased>>

\* DestroySubmission: a receipt of a submission that is no longer pending.
Destroy(m) ==
    /\ receipt[m].undo \in {"final", "canceled"}
    /\ receipt' = [receipt EXCEPT ![m] = NoReceipt]
    /\ UNCHANGED <<now, txn, evidence, queue, officer, sent, canceled, erased>>

\* Receipts ExpireWorkflowRecords deletes: old, not pending, and without a
\* message in the spool.
Expired == {m \in Ids : /\ ReceiptAge > 0 /\ now - receipt[m].at >= ReceiptAge
                        /\ receipt[m].undo \in {"final", "canceled"}
                        /\ receipt[m].queued => queue[m] = "none"}

ExpireWorkflowRecords ==
    /\ Expired # {}
    /\ receipt' = [m \in Ids |-> IF m \in Expired THEN NoReceipt ELSE receipt[m]]
    /\ UNCHANGED <<now, txn, evidence, queue, officer, sent, canceled, erased>>

-----------------------------------------------------------------------------
(* The rest of the spool: delivery, release from quarantine, and the       *)
(* deletion of quarantined mail by Compact.                                *)

Deliver(i) ==
    /\ queue[i] = "pending"
    /\ queue' = [queue EXCEPT ![i] = "none"]
    /\ sent' = sent \cup {i}
    /\ UNCHANGED <<now, txn, evidence, receipt, officer, canceled, erased>>

LeaveQuarantine(i) ==
    /\ queue[i] = "held"
    /\ \E st \in {"pending", "none"} : queue' = [queue EXCEPT ![i] = st]
    /\ UNCHANGED <<now, txn, evidence, receipt, officer, sent, canceled, erased>>

-----------------------------------------------------------------------------
(* The compliance API.                                                     *)

Request(o, pc) == officer[o].pc = pc

Releasable(c) ==
    /\ evidence[c].status = "compliance" /\ ~evidence[c].hold
    /\ evidence[c].mode # "copy"

\* handleCompliance: the case exists and the officer may act on its domains;
\* for a release QueueManager.ReleaseCompliance also reads the record and
\* builds the outgoing message from it.
Begin(o, op, c) ==
    /\ Request(o, "idle")
    /\ evidence[c].status # "none"
    /\ Authorized(o, evidence[c].domains, op)
    /\ op = "release" => Releasable(c)
    /\ officer' = [officer EXCEPT ![o] = [pc |-> "read", op |-> op, case |-> c]]
    /\ UNCHANGED <<now, txn, evidence, queue, receipt, sent, canceled, erased>>

\* Audit comes first, before indexMu is taken.
AuditRequest(o) ==
    /\ Request(o, "read")
    /\ officer' = [officer EXCEPT ![o].pc = "audited"]
    /\ UNCHANGED <<now, txn, evidence, queue, receipt, sent, canceled, erased>>

\* Mutant: what was read before the lock is trusted.
ReleaseUnchecked(o) ==
    LET c == officer[o].case
    IN  /\ Request(o, "audited") /\ officer[o].op = "release"
        /\ evidence[c].status # "none"
        /\ evidence' = [evidence EXCEPT ![c].status = "released", ![c].by = {o}]
        /\ queue' = [queue EXCEPT ![c] = IF txn[c[1]].env.quarantine THEN "held" ELSE "pending"]
        /\ officer' = [officer EXCEPT ![o] = AtRest]
        /\ UNCHANGED <<now, txn, receipt, sent, canceled, erased>>

\* MessageStore.ReleaseCompliance: the decision and the outgoing message are
\* one record, made after the conditions are checked again.
ReleaseCompliance(o) ==
    LET c == officer[o].case
    IN  /\ Request(o, "audited") /\ officer[o].op = "release"
        /\ Releasable(c) /\ queue[c] = "none"
        /\ evidence' = [evidence EXCEPT ![c].status = "released", ![c].by = {o}]
        /\ queue' = [queue EXCEPT ![c] = IF txn[c[1]].env.quarantine THEN "held" ELSE "pending"]
        /\ officer' = [officer EXCEPT ![o] = AtRest]
        /\ UNCHANGED <<now, txn, receipt, sent, canceled, erased>>

SetComplianceHold(o) ==
    LET c == officer[o].case
    IN  /\ Request(o, "audited") /\ officer[o].op = "legal-hold"
        /\ evidence[c].status # "none"
        /\ \E hold \in BOOLEAN : evidence' = [evidence EXCEPT ![c].hold = hold]
        /\ officer' = [officer EXCEPT ![o] = AtRest]
        /\ UNCHANGED <<now, txn, queue, receipt, sent, canceled, erased>>

\* Mutant: an empty retention counts as expired.
DeleteUnretained(o) ==
    LET c == officer[o].case
    IN  /\ Request(o, "audited") /\ officer[o].op = "delete"
        /\ evidence[c].status # "none" /\ ~evidence[c].hold
        /\ now >= evidence[c].at + evidence[c].keep
        /\ evidence' = [evidence EXCEPT ![c] = [NoCase EXCEPT !.by = evidence[c].by]]
        /\ erased' = erased \cup {c}
        /\ officer' = [officer EXCEPT ![o] = AtRest]
        /\ UNCHANGED <<now, txn, queue, receipt, sent, canceled>>

DeleteCompliance(o) ==
    LET c == officer[o].case
    IN  /\ Request(o, "audited") /\ officer[o].op = "delete"
        /\ evidence[c].status # "none" /\ ~evidence[c].hold
        /\ evidence[c].keep # 0 /\ now >= evidence[c].at + evidence[c].keep
        /\ evidence' = [evidence EXCEPT ![c] = [NoCase EXCEPT !.by = evidence[c].by]]
        /\ erased' = erased \cup {c}
        /\ officer' = [officer EXCEPT ![o] = AtRest]
        /\ UNCHANGED <<now, txn, queue, receipt, sent, canceled>>

\* A condition or a write fails under the lock: the request ends.
Reject(o) ==
    /\ officer[o].pc \in {"read", "audited"}
    /\ officer' = [officer EXCEPT ![o] = AtRest]
    /\ UNCHANGED <<now, txn, evidence, queue, receipt, sent, canceled, erased>>

-----------------------------------------------------------------------------
(* The whole.                                                              *)

Tick ==
    /\ now < MaxTime /\ now' = now + 1
    /\ UNCHANGED <<txn, evidence, queue, receipt, officer, sent, canceled, erased>>

\* A restart: the store recovers its records, sessions and requests are gone.
Crash ==
    /\ \/ \E m \in Ids : txn[m].pc \in {"audit", "store"}
       \/ \E o \in Officers : officer[o] # AtRest
    /\ txn' = [m \in Ids |-> IF txn[m].pc \in {"audit", "store"}
                             THEN [txn[m] EXCEPT !.pc = "lost"] ELSE txn[m]]
    /\ officer' = [o \in Officers |-> AtRest]
    /\ UNCHANGED <<now, evidence, queue, receipt, sent, canceled, erased>>

Next ==
    \/ \E m \in Ids : \/ Submit(m) \/ AuditCapture(m) \/ StoreCapture(m)
                      \/ Accept(m) \/ Refuse(m)
                      \/ Dispatch(m) \/ Cancel(m) \/ Destroy(m)
    \/ \E i \in Items : Deliver(i) \/ LeaveQuarantine(i)
    \/ \E o \in Officers :
         \/ \E op \in {"release", "legal-hold", "delete"}, c \in Cases : Begin(o, op, c)
         \/ AuditRequest(o) \/ ReleaseCompliance(o) \/ SetComplianceHold(o)
         \/ DeleteCompliance(o) \/ Reject(o)
    \/ ExpireWorkflowRecords
    \/ Tick
    \/ Crash

Spec == Init /\ [][Next]_vars

\* The clock advances, the scheduler looks at scheduled entries on every
\* tick of its timer, and a pending message is eventually delivered.
FairSpec ==
    /\ Spec
    /\ WF_vars(Tick)
    /\ \A m \in Ids : WF_vars(Dispatch(m)) /\ WF_vars(Deliver(m))

-----------------------------------------------------------------------------
(* Properties.                                                             *)

\* Mail that a hold or reroute rule matches enters the queue only as the
\* release of its combined case, at most once, while the case says so, and
\* the officer who released it has a grant for the domain of every rule that
\* held it, though the API looked at the grants before the release.
\* (applyCompliance, handleCompliance, ReleaseCompliance)
OnlyReleased ==
    /\ \A m \in Ids : Held(m) => queue[m] = "none" /\ m \notin sent
    /\ \A c \in Cases : c \in sent \/ queue[c] # "none" =>
          /\ c \notin sent \/ queue[c] = "none"
          /\ evidence[c].status = "released" \/ c \in erased
          /\ \E o \in evidence[c].by : \A i \in RulesOf(c[1], c[2]) :
                Authorized(o, {Rules[i].domain}, "release")

\* What the client was told is accepted has been preserved under every rule
\* that asks for it, with every recipient the client named and no other than
\* those it is delivered to.  (Enqueue)
AcceptedPreserved ==
    \A m \in Ids : Session(m, "accepted") =>
        \A k \in 0 .. Len(Rules) :
            /\ \E i \in DOMAIN Captures(txn[m].env.from, txn[m].env.to) :
                   Captures(txn[m].env.from, txn[m].env.to)[i] = k
            /\ k = 0 \/ Rules[k].mode # "bcc"
            => \/ <<m, k>> \in erased
               \/ /\ evidence[<<m, k>>].status # "none"
                  /\ txn[m].env.to \subseteq evidence[<<m, k>>].to
                  /\ evidence[<<m, k>>].to \subseteq txn[m].to

\* No step releases a case under legal hold, or deletes one under legal hold
\* or before the retention of every rule it stands for has passed.
\* (SetComplianceHold racing ReleaseCompliance and DeleteCompliance)
CustodyStep ==
    \A c \in Cases :
     /\ evidence[c].status = "compliance" /\ evidence'[c].status # "compliance"
            => ~evidence[c].hold
     /\ evidence[c].status # "none" /\ evidence'[c].status = "none"
            => /\ ~evidence[c].hold
               /\ \A i \in RulesOf(c[1], c[2]) :
                    /\ Rules[i].retention # 0
                    /\ now >= evidence[c].at + Rules[i].retention

CustodyKept == [][CustodyStep]_vars

\* A submission reported as canceled is never sent, and one the receipt still
\* calls pending is still in the spool.  (FinishScheduled)
CanceledUnsent ==
    \A m \in Ids : /\ m \in canceled => queue[m] = "none" /\ m \notin sent
                   /\ receipt[m].undo = "pending" => queue[m] = "scheduled"
                   /\ queue[m] = "scheduled" => receipt[m].undo = "pending"

\* A delayed submission does not stay in the spool for ever: it is sent,
\* canceled, or waits in quarantine.  (processRetries, FinishScheduled)
ScheduleEnds ==
    \A m \in Ids : queue[m] = "scheduled" ~> m \in sent \cup canceled \/ txn[m].env.quarantine
=============================================================================

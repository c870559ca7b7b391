------------------------------ MODULE MCProgress ------------------------------
(***************************************************************************)
(* What must eventually happen, for three components that share no state:  *)
(* mail under compliance rules (Custody), arrivals of every kind in the    *)
(* queue (DeliveryQueue) and the processes of a pair of nodes (Takeover).  *)
(* Every behaviour is one of one component, the one focus names; the       *)
(* variables of the others hold 0 and never change.                        *)
(***************************************************************************)
EXTENDS Integers, Sequences, FiniteSets, TLC

CONSTANTS in, out, desk, far, d1, d2, d3, o1, o2, near, msg, w

VARIABLES
    focus,
    now, txn, evidence, queue, receipt, officer, sent, canceled, erased,
    store, sess, chan, worker, sched, stopping, mailbox, bounced, notices,
    preserved, deleted, faults, crashes, revives, stale,
    up, primary, moves, lease, activation, proc, lost, quit, asked, cfg,
    edits, replaced, act, signals, report

-----------------------------------------------------------------------------
(* Three domains, a rule of every mode.                                    *)
MCDomainOf == (in :> d1) @@ (out :> d2) @@ (desk :> d2) @@ (far :> d3)

Rule(domain, match, mode, retention, hold) ==
    [domain |-> domain, match |-> match, mode |-> mode, bcc |-> desk,
     retention |-> retention, hold |-> hold]

MCRules == <<Rule(d3, "recipient", "hold", 1, FALSE),
             Rule(d2, "sender", "bcc", 0, FALSE),
             Rule(d1, "either", "reroute", 2, FALSE),
             Rule(d2, "sender", "copy", 0, TRUE)>>

Mail(from, to, kind, quarantine) ==
    [from |-> from, to |-> to, kind |-> kind, quarantine |-> quarantine]

MCEnvelopes == {Mail(out, {in, far}, "smtp", FALSE), \* held for d1 and d3, copied
                Mail(in, {out}, "now", TRUE),        \* rerouted, in quarantine
                Mail(in, {out}, "later", FALSE),     \* refused
                Mail(out, {desk}, "now", FALSE),     \* copied and bcc
                Mail(far, {out}, "later", FALSE),    \* no rule matches
                Mail(far, {desk}, "later", TRUE)}

MCGrants == {[who |-> o1, actions |-> {"release", "delete", "legal-hold"}, domains |-> {d1, d2, d3}],
             [who |-> o2, actions |-> {"release", "legal-hold"}, domains |-> {d1}]}

C == INSTANCE Custody WITH
       Ids <- {msg}, Officers <- {o1, o2}, Rules <- MCRules, Grants <- MCGrants,
       Enforced <- TRUE, Envelopes <- MCEnvelopes, DomainOf <- MCDomainOf,
       Delay <- 1, ReceiptAge <- 1, MaxTime <- 2

Q == INSTANCE DeliveryQueue WITH
       Msgs <- {msg}, Rcpts <- {near, far}, Local <- {near}, Suppressed <- {far},
       Arrivals <- {"pending", "held", "scheduled"}, Notify <- {}, Workers <- {w},
       ChanCap <- 1, MaxAttempts <- 2, MaxFaults <- 0, MaxCrashes <- 1,
       MaxRevives <- 1, MaxCount <- 1

Pair == {"n1", "n2"}

T == INSTANCE Takeover WITH
       Nodes <- Pair, Stores <- {"a"}, MaxEdits <- 0, MaxMoves <- 2,
       MaxSignals <- 1, Resources <- {}, Mounts <- {}

-----------------------------------------------------------------------------
custody == <<now, txn, evidence, queue, receipt, officer, canceled, erased>>
delivery == <<sess, chan, worker, sched, stopping, mailbox, bounced, notices,
              preserved, deleted, faults, crashes, revives, stale>>
nodes == <<up, primary, moves, lease, activation, proc, lost, quit, asked, cfg,
           edits, replaced, act, signals>>

custodyVars == C!vars
queueVars == Q!vars
nodeVars == T!vars

allVars == <<custody, delivery, nodes, sent, store, report, focus>>

NoCustody ==
    /\ now = 0 /\ txn = 0 /\ evidence = 0 /\ queue = 0 /\ receipt = 0
    /\ officer = 0 /\ canceled = 0 /\ erased = 0

NoDelivery ==
    /\ sess = 0 /\ chan = 0 /\ worker = 0 /\ sched = 0 /\ stopping = 0
    /\ mailbox = 0 /\ bounced = 0 /\ notices = 0 /\ preserved = 0
    /\ deleted = 0 /\ faults = 0 /\ crashes = 0 /\ revives = 0
    /\ stale = 0

NoNodes ==
    /\ up = 0 /\ primary = 0 /\ moves = 0 /\ lease = 0 /\ activation = 0
    /\ proc = 0 /\ lost = 0 /\ quit = 0 /\ asked = 0 /\ cfg = 0
    /\ edits = 0 /\ replaced = 0 /\ act = 0 /\ signals = 0

MCInit ==
    /\ report = 0
    /\ \/ focus = "custody" /\ C!Init /\ NoDelivery /\ NoNodes /\ store = 0
       \/ focus = "queue" /\ Q!Init /\ NoCustody /\ NoNodes
       \/ focus = "nodes" /\ T!Init /\ NoCustody /\ NoDelivery /\ sent = 0

MCNext ==
    /\ UNCHANGED <<focus, report>>
    /\ \/ focus = "custody" /\ C!Next /\ UNCHANGED <<delivery, nodes, store>>
       \/ focus = "queue" /\ Q!Next /\ UNCHANGED <<custody, nodes>>
       \/ focus = "nodes" /\ T!Next /\ UNCHANGED <<custody, delivery, sent>>

-----------------------------------------------------------------------------
(* The fairness of the three specifications, each within its focus.        *)
MCSpec ==
    /\ MCInit /\ [][MCNext]_allVars
    /\ WF_custodyVars(focus = "custody" /\ C!Tick)
    /\ WF_custodyVars(focus = "custody" /\ C!Dispatch(msg))
    /\ WF_custodyVars(focus = "custody" /\ C!Deliver(msg))
    /\ WF_queueVars(focus = "queue" /\ (Q!EnqueueClaim(msg) \/ Q!EnqueueSend(msg)))
    /\ SF_queueVars(focus = "queue" /\ Q!RetryRelease(msg))
    /\ SF_queueVars(focus = "queue" /\ \E e \in sched.list : e.id = msg /\ Q!RetryClaim(e))
    /\ SF_queueVars(focus = "queue" /\ \E r \in {near, far} : worker[w].id = msg /\ Q!WorkerAttempt(w, r))
    /\ SF_queueVars(focus = "queue" /\ worker[w].id = msg /\ Q!WorkerFinal(w))
    /\ WF_queueVars(focus = "queue" /\ Q!WorkerStep(w))
    /\ WF_queueVars(focus = "queue" /\ Q!Scheduler)
    /\ WF_queueVars(focus = "queue" /\ stopping /\ Q!Restart)
    /\ \A n \in Pair :
         /\ WF_nodeVars(focus = "nodes" /\ T!Tick(n))
         /\ WF_nodeVars(focus = "nodes" /\ T!OwnershipLost(n))
         /\ WF_nodeVars(focus = "nodes" /\ T!TakeLease(n))
         /\ WF_nodeVars(focus = "nodes" /\ T!OpenStores(n))
         /\ WF_nodeVars(focus = "nodes" /\ T!Serve(n))

-----------------------------------------------------------------------------
(* Compliance (smtpd/compliance.go): nothing leaves custody but by a       *)
(* release by an officer with a grant for the domain of every rule that    *)
(* held it, what Enqueue accepted has its evidence with the envelope, and  *)
(* a submission reported as canceled is never sent.                        *)
MCCustodyTrue ==
    focus = "custody" => C!TypeOK /\ C!OnlyReleased /\ C!AcceptedPreserved /\ C!CanceledUnsent

(* A case under legal hold is neither released nor deleted, and none is    *)
(* deleted before the retention of every rule that preserved it ends.      *)
MCCustodyKept == [][focus = "custody" => C!CustodyStep]_allVars

(* A delayed submission is sent or canceled, or lies in quarantine         *)
(* (storage/submission_schedule.go).                                       *)
MCScheduleEnds ==
    (focus = "custody" /\ queue[msg] = "scheduled")
        ~> (focus = "custody" /\ (msg \in sent \cup canceled \/ txn[msg].env.quarantine))

(* A message Enqueue took, whether it arrived pending, held or scheduled,  *)
(* is settled, dead-lettered or held, with a crash and a revival between.  *)
MCSettles ==
    (focus = "queue" /\ Q!Taken(msg))
        ~> (focus = "queue" /\ store[msg].st \in {"none", "failed", "held"})

(* A process whose node lost the volume leaves service or gets the volume  *)
(* back, also when the loss happens while it starts (cmd/goemailservices,  *)
(* main.go:447).  A drain, which nothing limits, may go on.                *)
MCLossStops ==
    \A n \in Pair :
        (focus = "nodes" /\ proc[n] \in T!InService /\ primary # n)
            ~> (focus = "nodes" /\ (proc[n] \notin T!InService \/ primary = n))
=============================================================================

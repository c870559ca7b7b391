------------------------------ MODULE Takeover ------------------------------
(***************************************************************************)
(* The life of the mail service process (cmd/goemailservices) on the nodes *)
(* of an active/passive pair: ownership check and monitor (internal/ha),   *)
(* lease and fenced activation (internal/failover), signals, reload by     *)
(* process replacement, graceful drain.                                    *)
(*                                                                         *)
(* External, and modelled from how the code uses it: the replicated volume *)
(* (one primary at a time, which may lose quorum), the fencing device, the *)
(* shared lock of the lease file, the operator.                            *)
(***************************************************************************)
EXTENDS Naturals, FiniteSets, Sequences, SequencesExt

CONSTANTS Nodes,
          Stores,     \* the data directories a configuration may name
          MaxEdits,   \* bound: edits of a configuration file
          MaxMoves,   \* bound: changes of the volume's primary
          MaxSignals, \* bound: signals sent to a process
          Resources,  \* what drbdsetup may report of one resource
          Mounts      \* what findmnt may report of one mount

VARIABLES up, primary, moves,           \* node powered; the volume's primary
          lease, activation,            \* holders of the two lock files
          proc, lost, quit, asked,      \* process, its channels, a stop asked for
          cfg, edits, store, replaced,  \* file; directory opened; the one reloaded
          act, signals, report

vars == <<up, primary, moves, lease, activation, proc, lost, quit, asked,
          cfg, edits, store, replaced, act, signals>>

Nobody == "nobody"

(* "checked": ownership verified and monitored; "leased": lease held;      *)
(* "open": stores open, workers running; "serving": in the wait loop;      *)
(* "draining": shutting down; "exec": about to replace itself.             *)
Monitored == {"checked", "leased", "open", "serving", "draining", "replacing"}
Writing == {"open", "serving", "draining", "replacing"}
Starting == {"checked", "leased", "open"}
InService == {"open", "serving"}

Init ==
  /\ up = [n \in Nodes |-> TRUE]
  /\ primary \in Nodes /\ moves = 0
  /\ lease = Nobody /\ activation = Nobody
  /\ proc = [n \in Nodes |-> "off"]
  /\ lost = [n \in Nodes |-> FALSE]
  /\ quit = [n \in Nodes |-> "none"]
  /\ asked = [n \in Nodes |-> FALSE]
  /\ cfg \in [Nodes -> Stores] /\ \A m, n \in Nodes : cfg[m] = cfg[n]
  /\ edits = 0 /\ signals = 0
  /\ store = [n \in Nodes |-> "none"]
  /\ replaced = [n \in Nodes |-> "none"]
  /\ act = [n \in Nodes |-> "idle"]

(* The process ends: the system closes its files and with them the lease.  *)
Exit(n) ==
  /\ proc' = [proc EXCEPT ![n] = "off"]
  /\ lease' = IF lease = n THEN Nobody ELSE lease
  /\ lost' = [lost EXCEPT ![n] = FALSE]
  /\ quit' = [quit EXCEPT ![n] = "none"]
  /\ asked' = [asked EXCEPT ![n] = FALSE]
  /\ store' = [store EXCEPT ![n] = "none"]
  /\ replaced' = [replaced EXCEPT ![n] = "none"]

(* runMain loads the configuration and refuses to start unless the volume  *)
(* is this node's; then the monitor runs.                                  *)
Start(n) ==
  /\ up[n] /\ proc[n] \in {"off", "exec"}
  /\ IF primary = n
       THEN /\ proc' = [proc EXCEPT ![n] = "checked"]
            /\ store' = [store EXCEPT ![n] = cfg[n]]
            /\ UNCHANGED <<lease, lost, quit, asked, replaced>>
       ELSE proc[n] = "exec" /\ Exit(n)
  /\ UNCHANGED <<up, primary, moves, activation, cfg, edits, act, signals>>

TakeLeaseShared(n) ==
  /\ proc[n] = "checked"
  /\ proc' = [proc EXCEPT ![n] = "leased"]
  /\ lease' = n
  /\ UNCHANGED <<lost, quit, asked, store, replaced>>
  /\ UNCHANGED <<up, primary, moves, activation, cfg, edits, act, signals>>

TakeLease(n) ==
  /\ proc[n] = "checked"
  /\ IF lease = Nobody
       THEN /\ proc' = [proc EXCEPT ![n] = "leased"]
            /\ lease' = n
            /\ UNCHANGED <<lost, quit, asked, store, replaced>>
       ELSE Exit(n)
  /\ UNCHANGED <<up, primary, moves, activation, cfg, edits, act, signals>>

OpenStores(n) ==
  /\ proc[n] = "leased"
  /\ proc' = [proc EXCEPT ![n] = "open"]
  /\ UNCHANGED <<up, primary, moves, lease, activation, lost, quit, asked,
                 cfg, edits, store, replaced, act, signals>>

Serve(n) ==
  /\ proc[n] = "open"
  /\ proc' = [proc EXCEPT ![n] = "serving"]
  /\ UNCHANGED <<up, primary, moves, lease, activation, lost, quit, asked,
                 cfg, edits, store, replaced, act, signals>>

(* Any of the logger.Fatal calls of the start, or a listener that stops.   *)
Fatal(n) ==
  /\ proc[n] \in Starting \cup {"serving"}
  /\ Exit(n)
  /\ UNCHANGED <<up, primary, moves, activation, cfg, edits, act, signals>>

TickOnce(n) ==
  /\ proc[n] \in Starting /\ ~lost[n]
  /\ primary # n
  /\ lost' = [lost EXCEPT ![n] = TRUE]
  /\ UNCHANGED <<up, primary, moves, lease, activation, proc, quit, asked,
                 cfg, edits, store, replaced, act, signals>>

(* Monitor: the first failing check goes into the channel and ends it.     *)
Tick(n) ==
  /\ proc[n] \in Monitored /\ ~lost[n]
  /\ primary # n
  /\ lost' = [lost EXCEPT ![n] = TRUE]
  /\ UNCHANGED <<up, primary, moves, lease, activation, proc, quit, asked,
                 cfg, edits, store, replaced, act, signals>>

(* The three cases of the wait loop.                                       *)
OwnershipLost(n) ==
  /\ proc[n] = "serving" /\ lost[n]
  /\ Exit(n)
  /\ UNCHANGED <<up, primary, moves, activation, cfg, edits, act, signals>>

Stop(n) ==
  /\ proc[n] = "serving" /\ quit[n] = "term"
  /\ proc' = [proc EXCEPT ![n] = "draining"]
  /\ quit' = [quit EXCEPT ![n] = "none"]
  /\ UNCHANGED <<up, primary, moves, lease, activation, lost, asked,
                 cfg, edits, store, replaced, act, signals>>

(* Mutant: the new process is trusted to refuse an unacceptable file.      *)
AcceptableAny(n) == TRUE

(* ValidateReload: the store's directory may not change.                   *)
Acceptable(n) == cfg[n] = store[n]

(* SIGHUP, or the API's request: the file is validated against the         *)
(* running configuration, and an unacceptable one is ignored.              *)
Reload(n) ==
  /\ proc[n] = "serving" /\ quit[n] = "hup"
  /\ quit' = [quit EXCEPT ![n] = "none"]
  /\ IF Acceptable(n)
     THEN /\ proc' = [proc EXCEPT ![n] = "replacing"]
          /\ replaced' = [replaced EXCEPT ![n] = store[n]]
     ELSE UNCHANGED <<proc, replaced>>
  /\ UNCHANGED <<up, primary, moves, lease, activation, lost, asked,
                 cfg, edits, store, act, signals>>

(* The drain ends when every server and worker has stopped, for which two  *)
(* of the waits have no limit (GracefulStop, wg.Wait); the deferred calls  *)
(* close the stores and the lease.  A replacement keeps nothing.           *)
Drained(n) ==
  /\ \/ proc[n] = "draining" /\ Exit(n)
     \/ /\ proc[n] = "replacing"
        /\ proc' = [proc EXCEPT ![n] = "exec"]
        /\ lease' = IF lease = n THEN Nobody ELSE lease
        /\ lost' = [lost EXCEPT ![n] = FALSE]
        /\ quit' = [quit EXCEPT ![n] = "none"]
        /\ store' = [store EXCEPT ![n] = "none"]
        /\ UNCHANGED <<asked, replaced>>
  /\ UNCHANGED <<up, primary, moves, activation, cfg, edits, act, signals>>

(* A signal for a process past signal.Notify; one that finds the channel   *)
(* of capacity one full is dropped.                                        *)
Signal(n, s) ==
  /\ signals < MaxSignals
  /\ proc[n] \in {"serving", "draining", "replacing"}
  /\ signals' = signals + 1
  /\ quit' = [quit EXCEPT ![n] = IF @ = "none" THEN s ELSE @]
  /\ asked' = [asked EXCEPT ![n] = @ \/ s = "term"]
  /\ UNCHANGED <<up, primary, moves, lease, activation, proc, lost,
                 cfg, edits, store, replaced, act>>

EditConfig(n) ==
  /\ edits < MaxEdits
  /\ edits' = edits + 1
  /\ \E s \in Stores : cfg' = [cfg EXCEPT ![n] = s]
  /\ replaced' = [replaced EXCEPT ![n] = "none"]
  /\ UNCHANGED <<up, primary, moves, lease, activation, proc, lost, quit, asked,
                 store, act, signals>>

-----------------------------------------------------------------------------
(* The volume: a primary may lose quorum; a node that is up may become     *)
(* primary when there is none.                                             *)
LoseQuorum ==
  /\ moves < MaxMoves /\ primary # Nobody
  /\ primary' = Nobody /\ moves' = moves + 1
  /\ UNCHANGED <<up, lease, activation, proc, lost, quit, asked,
                 cfg, edits, store, replaced, act, signals>>

Promote(n) ==
  /\ up[n] /\ primary = Nobody
  /\ primary' = n
  /\ UNCHANGED <<up, moves, lease, activation, proc, lost, quit, asked,
                 cfg, edits, store, replaced, act, signals>>

Reboot(n) ==
  /\ ~up[n]
  /\ up' = [up EXCEPT ![n] = TRUE]
  /\ UNCHANGED <<primary, moves, lease, activation, proc, lost, quit, asked,
                 cfg, edits, store, replaced, act, signals>>

Peer(n) == CHOOSE m \in Nodes : m # n

To(n, at) == act' = [act EXCEPT ![n] = at]

(* mailhub-failover: activate, step by step.                               *)
Activate(n) ==
  /\ up[n] /\ act[n] = "idle" /\ activation = Nobody /\ moves < MaxMoves
  /\ activation' = n
  /\ To(n, "fence")
  /\ UNCHANGED <<up, primary, moves, lease, proc, lost, quit, asked,
                 cfg, edits, store, replaced, signals>>

Fence(n) ==
  /\ act[n] = "fence"
  /\ LET m == Peer(n) IN
       /\ up' = [up EXCEPT ![m] = FALSE]
       /\ primary' = IF primary = m THEN Nobody ELSE primary
       /\ moves' = moves + 1
       /\ Exit(m)
       /\ act' = [act EXCEPT ![n] = "verify", ![m] = "idle"]
  /\ UNCHANGED <<activation, cfg, edits, signals>>

GiveUp(n) ==
  /\ activation' = Nobody
  /\ To(n, "idle")
  /\ UNCHANGED <<up, primary, moves, lease, proc, lost, quit, asked,
                 cfg, edits, store, replaced, signals>>

VerifyFenced(n) ==
  /\ act[n] = "verify"
  /\ IF up[Peer(n)] THEN GiveUp(n)
     ELSE /\ To(n, "probe")
          /\ UNCHANGED <<up, primary, moves, lease, activation, proc, lost, quit,
                         asked, cfg, edits, store, replaced, signals>>

ProbeLease(n) ==
  /\ act[n] = "probe"
  /\ IF lease # Nobody THEN GiveUp(n)
     ELSE /\ To(n, "start")
          /\ UNCHANGED <<up, primary, moves, lease, activation, proc, lost, quit,
                         asked, cfg, edits, store, replaced, signals>>

(* The start program promotes the volume and has the process started; the  *)
(* ready program waits for it to serve.                                    *)
RunStart(n) ==
  /\ act[n] = "start"
  /\ primary' = IF primary = Nobody THEN n ELSE primary
  /\ To(n, "ready")
  /\ UNCHANGED <<up, moves, lease, activation, proc, lost, quit, asked,
                 cfg, edits, store, replaced, signals>>

RunReady(n) ==
  /\ act[n] = "ready"
  /\ proc[n] = "serving"
  /\ GiveUp(n)

(* Every step may fail; after the start a failure runs the stop program.   *)
ActivationFails(n) ==
  /\ act[n] # "idle"
  /\ activation' = Nobody
  /\ To(n, "idle")
  /\ IF act[n] = "ready" /\ proc[n] = "serving"
       THEN /\ quit' = [quit EXCEPT ![n] = IF @ = "none" THEN "term" ELSE @]
            /\ asked' = [asked EXCEPT ![n] = TRUE]
       ELSE UNCHANGED <<quit, asked>>
  /\ UNCHANGED <<up, primary, moves, lease, proc, lost,
                 cfg, edits, store, replaced, signals>>

Process(n) ==
  \/ TakeLease(n) \/ OpenStores(n) \/ Serve(n) \/ Tick(n) \/ OwnershipLost(n)
  \/ Stop(n) \/ Reload(n) \/ Drained(n)

Next ==
  \/ \E n \in Nodes :
       \/ Start(n) \/ Process(n) \/ Fatal(n)
       \/ Signal(n, "hup") \/ Signal(n, "term") \/ EditConfig(n)
       \/ Promote(n) \/ Reboot(n)
       \/ Activate(n) \/ Fence(n) \/ VerifyFenced(n) \/ ProbeLease(n)
       \/ RunStart(n) \/ RunReady(n) \/ ActivationFails(n)
  \/ LoseQuorum

(* The monitor has a ticker and main waits for its channel: a step of      *)
(* theirs that stays possible is taken.  A drain may never end.            *)
Fairness == \A n \in Nodes :
  /\ WF_vars(Tick(n)) /\ WF_vars(OwnershipLost(n))
  /\ WF_vars(TakeLease(n)) /\ WF_vars(OpenStores(n)) /\ WF_vars(Serve(n))

Spec == Init /\ [][Next]_vars /\ Fairness

(* Two processes never have the stores open together, whatever the volume, *)
(* the fencing, reboots and competing activations do, and the writer is    *)
(* the one that holds the lease.                                           *)
OneWriter ==
  \A n \in Nodes : proc[n] \in Writing => lease = n

(* A process whose node has lost the volume leaves service (or gets the    *)
(* volume back), also when the loss happens while it starts and nobody     *)
(* listens yet.  Of a process that drains nothing is claimed: it does not  *)
(* look at ownershipLost any more and nothing limits the drain.            *)
LossStops ==
  \A n \in Nodes :
    (proc[n] \in InService /\ primary # n) ~> (proc[n] \notin InService \/ primary = n)

(* A reload never opens another store (config/safety.go:86): the process   *)
(* that replaces another opens the directory the other had open, unless    *)
(* the file is edited once more after it was validated.                    *)
ReloadKeepsStore ==
  \A n \in Nodes :
    proc[n] \in Writing /\ replaced[n] # "none" => store[n] = replaced[n]

-----------------------------------------------------------------------------
(* DRBDProof: what mailhub-ha-check concludes from the two status reports. *)
(* A resource: ours - its name is the configured one; devices - how many;  *)
(* minor - its device is the configured one; primary, suspended, fresh     *)
(* (disk UpToDate), quorum; peer - some connection's peer is primary.      *)

ProofInit ==
  \E k \in 0 .. 2 : \E rs \in [1 .. k -> Resources], m \in Mounts :
    report = [resources |-> rs, mount |-> m]

Unknown == [refused |-> FALSE, found |-> FALSE, primary |-> FALSE, fresh |-> FALSE,
            quorum |-> FALSE]

ReadAny(p, r) ==
  IF p.refused \/ ~r.ours THEN p
  ELSE IF r.devices # 1 \/ ~r.minor \/ r.peer THEN [p EXCEPT !.refused = TRUE]
  ELSE [refused |-> FALSE, found |-> TRUE, primary |-> r.primary /\ ~r.suspended,
        fresh |-> r.fresh, quorum |-> r.quorum]

Read(p, r) ==
  IF p.refused \/ ~r.ours THEN p
  ELSE IF p.found \/ r.devices # 1 \/ ~r.minor \/ r.peer THEN [p EXCEPT !.refused = TRUE]
  ELSE [refused |-> FALSE, found |-> TRUE, primary |-> r.primary /\ ~r.suspended,
        fresh |-> r.fresh, quorum |-> r.quorum]

DRBDProof(s) ==
  LET p == FoldLeft(Read, Unknown, s.resources)
  IN  ~p.refused /\ p.found /\ p.primary /\ p.fresh /\ p.quorum
        /\ s.mount.target /\ s.mount.source /\ s.mount.rw

(* Ownership is proved exactly when one resource alone has the configured  *)
(* name and all that is reported of it and of the mount is safe.           *)
ProofExact ==
  DRBDProof(report) <=>
    /\ report.mount = [target |-> TRUE, source |-> TRUE, rw |-> TRUE]
    /\ \E i \in DOMAIN report.resources :
         /\ {j \in DOMAIN report.resources : report.resources[j].ours} = {i}
         /\ LET r == report.resources[i] IN
              /\ r.devices = 1 /\ r.minor /\ ~r.peer
              /\ r.primary /\ ~r.suspended /\ r.fresh /\ r.quorum
=============================================================================

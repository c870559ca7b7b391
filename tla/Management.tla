----------------------------- MODULE Management -----------------------------
(***************************************************************************)
(* The management API (internal/api): who may call what (the decision), a  *)
(* server that starts and stops (the life), and requests that change the   *)
(* system while others do and the process may die (the requests).          *)
(***************************************************************************)
EXTENDS Naturals, Sequences, FiniteSets

CONSTANTS
    Paths,              \* sequences of the parts of a path after /api/v1/
    KeySets,            \* configured keys: sets of [token, expired, permissions]
    Requests,           \* requests in flight
    Parts               \* what Start opens after the listener, in order

None == "none"

VARIABLES
    call,               \* the call decided on
    life,               \* what the server has open, and its flags
    outbox,             \* webhooks are configured: management events are kept
    request,            \* the requests and how far each one is
    held,               \* the status of a quarantined message
    account,            \* an account: its email and whether it is active
    audit,              \* durable: requests the audit store knows
    events,             \* durable: the outbox's management events
    effects,            \* history: requests whose change was made, in order
    up                  \* the process runs

requestVars == <<outbox, request, held, account, audit, events, effects, up>>

-----------------------------------------------------------------------------
(* Access.                                                                 *)

Methods == {"GET", "HEAD", "POST", "PUT", "PATCH", "DELETE"}
Reads == {"GET", "HEAD"}

Resources == {"extensions", "ha", "compliance", "bounce", "scim", "dmarc", "security", "dns", "greylisting",
              "config", "recipients", "mailboxes", "replication", "mailstorm", "quarantine", "policies"}

Evidence == {"export", "release", "delete", "legal-hold"}

\* A GET that changes something still needs write.
Legacy(path) ==
    \/ \E i \in 2 .. Len(path) - 1 : path[i] = "retry"
    \/ Len(path) > 1 /\ path[Len(path)] \in {"reload", "promote"}

\* Mutant: PATCH is not known as a change.
AccessOldMethods(path, method) ==
    IF method \in {"POST", "PUT", "DELETE"} \/ Legacy(path) THEN "write" ELSE "read"

Access(path, method) == IF method \in Reads /\ ~Legacy(path) THEN "read" ELSE "write"

\* requiredScope
requiredScope(path, method) ==
    IF path[1] = "compliance" /\ Len(path) = 3 /\ path[3] \in Evidence
    THEN <<"compliance", path[3]>>
    ELSE <<IF path[1] \in Resources THEN path[1] ELSE "queue", Access(path, method)>>

\* authorizeKey: the first configured key that matches and suffices.
authorizeKey(keys, token, scope) ==
    \E k \in keys : ~k.expired /\ k.token = token /\ (scope \in k.permissions \/ <<"*", "*">> \in k.permissions)

\* authMiddleware.  oauth says whether the bearer token is a valid access
\* token for the scope.
authMiddleware(c) ==
    LET scope == requiredScope(c.path, c.method)
        evidence == c.path[1] = "compliance"
    IN  IF c.ipRequired /\ ~c.ipAllowed THEN "denied"
        ELSE IF c.bearer = None THEN "unauthorized"
        ELSE IF c.oauthEnabled /\ (~c.complianceOnly \/ evidence) /\ c.tls /\ c.oauth THEN "next"
        ELSE IF evidence /\ c.requireOAuth THEN "unauthorized"
        ELSE IF authorizeKey(c.keys, c.bearer, scope) THEN "next"
        ELSE "refused"

\* recordMutation: the requests an event is kept of.
recordMutation(webhooks, path, method) ==
    /\ webhooks
    /\ path # <<"extensions", "webhooks", "retry">>
    /\ method \notin Reads \/ requiredScope(path, method)[2] = "write"

\* The routes whose handler changes something, and with which method.
Changes(path, method) ==
    \/ path[1] \in {"quarantine", "extensions", "dmarc"} /\ Len(path) = 3 /\ method = "POST"
    \/ path[1] = "mailstorm" /\ Len(path) = 2 /\ method = "POST"
    \/ path[1] = "compliance" /\ Len(path) = 3 /\ path[3] # "export" /\ method = "POST"
    \/ path[1] = "policies" /\ Len(path) = 1 /\ method = "POST"
    \/ path[1] = "policies" /\ Len(path) = 2 /\ path[2] # "stats"
          /\ (IF path[2] = "reload" THEN method = "POST" ELSE method \in {"POST", "PUT", "DELETE"})
    \/ path[1] = "dlq" /\ Len(path) = 3 /\ method = "POST"
    \/ path[1] = "message" /\ method = "DELETE"
    \/ path[1] \in {"replication", "config"} /\ path[2] \in {"promote", "reload"} /\ method = "POST"
    \/ path[1] = "mailboxes" /\ method \in (IF Len(path) = 1 THEN {"POST"} ELSE {"PUT", "DELETE"})
    \/ path[1] = "scim" /\ method \in (IF Len(path) = 3 THEN {"POST"} ELSE {"PUT", "PATCH", "DELETE"})

Calls ==
    [path : Paths, method : Methods, ipRequired : BOOLEAN, ipAllowed : BOOLEAN, bearer : {"k", "other", None},
     tls : BOOLEAN, oauthEnabled : BOOLEAN, complianceOnly : BOOLEAN, requireOAuth : BOOLEAN, oauth : BOOLEAN,
     keys : KeySets]

CallInit == call \in Calls

-----------------------------------------------------------------------------
(* Start and Shutdown, under lifecycleMu.                                  *)

LifeInit == life = [stopped |-> FALSE, http |-> FALSE, open |-> {}, waiting |-> FALSE]

\* Mutant: a failure of the last part leaves the outbox and its loop.
UnwoundPartly(opened) == opened \cap {"outbox"}

\* What stays open of what was opened when the next part fails.
Unwound(opened) == {}

\* Start: the listener, TLS, the outbox with its dispatcher, gRPC; the first
\* failure closes what was opened.
Start ==
    /\ ~life.stopped /\ ~life.http
    /\ \/ life' = [life EXCEPT !.http = TRUE, !.open = {Parts[i] : i \in DOMAIN Parts}]
       \/ \E n \in DOMAIN Parts :
            life' = [life EXCEPT !.open = @ \cup Unwound({Parts[i] : i \in 1 .. n - 1})]

\* Shutdown up to the wait for requests: the dispatcher and gRPC end, and
\* the listener closes.
Shutdown ==
    life' = [life EXCEPT !.stopped = TRUE, !.waiting = life.http, !.open = @ \ {"listener", "tls", "grpc"}]

\* The wait ends: everything is done, or the caller's deadline came first.
ShutdownDone == life.waiting /\ life' = [life EXCEPT !.waiting = FALSE, !.http = FALSE, !.open = {}]
ShutdownLate == life.waiting /\ life' = [life EXCEPT !.waiting = FALSE]

LifeNext == Start \/ Shutdown \/ ShutdownDone \/ ShutdownLate

-----------------------------------------------------------------------------
(* Requests.                                                               *)

Kinds == {"release", "delete", "pause", "policy", "patch", "put"}

\* The handlers that write an audit record before they act.
Audited == {"release", "delete", "pause", "policy"}

Emails == {"a", "b"}

Step(r, phase) == request' = [request EXCEPT ![r].phase = phase]

RequestInit ==
    /\ outbox \in BOOLEAN
    /\ request \in [Requests -> [kind : Kinds, phase : {"idle"}, snap : {None}]]
    /\ held = "held" /\ account = [email |-> "a", active |-> TRUE]
    /\ audit = {} /\ events = <<>> /\ effects = <<>> /\ up = TRUE

\* Begin persists the event or the request is refused; without an outbox
\* there is no event.
Begin(r) ==
    /\ up /\ request[r].phase = "idle"
    /\ \/ ~outbox /\ Step(r, "begun") /\ UNCHANGED events
       \/ outbox /\ Step(r, "begun") /\ events' = [x \in DOMAIN events \cup {r} |-> IF x = r THEN "open" ELSE events[x]]
       \/ outbox /\ Step(r, "done") /\ UNCHANGED events
    /\ UNCHANGED <<held, account, audit, effects, up, outbox>>

\* handleSCIM and handleMailbox read the account first.
Read(r) ==
    /\ up /\ request[r].phase = "begun" /\ request[r].kind \in {"patch", "put"}
    /\ request' = [request EXCEPT ![r].phase = "ready", ![r].snap = account.email]
    /\ UNCHANGED <<held, account, audit, events, effects, up, outbox>>

\* Mutant: the request goes on when the audit store refuses.
AuditLoosely(r) ==
    /\ up /\ request[r].phase = "begun" /\ request[r].kind \in Audited
    /\ Step(r, "ready")
    /\ \/ audit' = audit \cup {r}
       \/ UNCHANGED audit
    /\ UNCHANGED <<held, account, events, effects, up, outbox>>

\* Audit("…_requested") is durable, or the request is refused with 503.
Audit(r) ==
    /\ up /\ request[r].phase = "begun" /\ request[r].kind \in Audited
    /\ \/ Step(r, "ready") /\ audit' = audit \cup {r}
       \/ Step(r, "acted") /\ UNCHANGED audit
    /\ UNCHANGED <<held, account, events, effects, up, outbox>>

Made(r) == effects' = Append(effects, r)

\* The queue's ReleaseHeld first looks whether the message is held and has it
\* scanned again; it is refused without a scanner, or unless it is cleared.
Rescan(r) ==
    /\ up /\ request[r].phase = "ready" /\ request[r].kind = "release"
    /\ \/ held = "held" /\ Step(r, "scanned")
       \/ Step(r, "acted")
    /\ UNCHANGED <<held, account, audit, events, effects, up, outbox>>

\* Mutant: a release trusts the look before the scan.
StillHeldTrusted(r) == held = "held" \/ request[r].kind = "release"

StillHeld(r) == held = "held"

\* handleQuarantine: both actions are a compare-and-set on "held", which the
\* journal may refuse.
handleQuarantine(r) ==
    /\ request[r].kind \in {"release", "delete"}
    /\ \/ StillHeld(r) /\ held' = request[r].kind /\ Made(r)
       \/ UNCHANGED <<held, effects>>
    /\ UNCHANGED account

\* handleMailstorm and savePolicy: the change is made or refused.
handleSetting(r) ==
    /\ request[r].kind \in {"pause", "policy"}
    /\ Made(r) \/ UNCHANGED effects
    /\ UNCHANGED <<held, account>>

\* PATCH sets active and writes back the email it read.
handlePatch(r) ==
    /\ request[r].kind = "patch"
    /\ \E active \in BOOLEAN : account' = [email |-> request[r].snap, active |-> active]
    /\ Made(r) /\ UNCHANGED held

\* PUT of a mailbox: an email, or only the flag with the email it read.
handlePut(r) ==
    /\ request[r].kind = "put"
    /\ \/ \E e \in Emails : account' = [account EXCEPT !.email = e]
       \/ \E b \in BOOLEAN : account' = [email |-> request[r].snap, active |-> b]
    /\ Made(r) /\ UNCHANGED held

Act(r) ==
    /\ up /\ Step(r, "acted")
    /\ request[r].phase = IF request[r].kind = "release" THEN "scanned" ELSE "ready"
    /\ handleQuarantine(r) \/ handleSetting(r) \/ handlePatch(r) \/ handlePut(r)
    /\ UNCHANGED <<audit, events, up, outbox>>

\* Finish writes the outcome, or it is only logged that it could not.
Finish(r) ==
    /\ up /\ request[r].phase = "acted" /\ Step(r, "done")
    /\ \/ outbox /\ events' = [events EXCEPT ![r] = "finished"]
       \/ UNCHANGED events
    /\ UNCHANGED <<held, account, audit, effects, up, outbox>>

\* The process dies: what is durable stays.
Die ==
    /\ up /\ up' = FALSE
    /\ request' = [r \in Requests |-> [request[r] EXCEPT !.phase = "done"]]
    /\ UNCHANGED <<held, account, audit, events, effects, outbox>>

\* Restart: OpenOutbox gives every open event the outcome "unknown".
Restart ==
    /\ ~up /\ up' = TRUE
    /\ events' = [r \in DOMAIN events |-> IF events[r] = "open" THEN "unknown" ELSE events[r]]
    /\ UNCHANGED <<request, held, account, audit, effects, outbox>>

RequestNext ==
    \/ \E r \in Requests : Begin(r) \/ Read(r) \/ Audit(r) \/ Rescan(r) \/ Act(r) \/ Finish(r)
    \/ Die \/ Restart

-----------------------------------------------------------------------------
(* Properties.                                                             *)

\* Whatever changes something needs more than read access and, where webhooks
\* are configured, leaves a management event, and nothing reaches a handler by a key that lacks the
\* scope; when the configuration demands OAuth for evidence no key opens it.
\* (requiredScope, recordMutation, authMiddleware)
AccessExact ==
    /\ Changes(call.path, call.method) =>
         /\ requiredScope(call.path, call.method)[2] # "read"
         /\ recordMutation(TRUE, call.path, call.method) \/ call.path[1] = "extensions"
    /\ authMiddleware(call) = "next" /\ ~call.oauth =>
         /\ authorizeKey(call.keys, call.bearer, requiredScope(call.path, call.method))
         /\ ~(call.path[1] = "compliance" /\ call.requireOAuth)

\* A server that is not serving and not stopping has nothing open, however
\* often and wherever starting failed; only a missed deadline leaves parts.
\* (Start, Shutdown: "safe before Start or on repeat")
NothingLeft == ~life.http => life.open = {}

\* Every change made by a handler that promises an audit record has it, and
\* every change has its management event where webhooks are configured,
\* through a crash at any point.
\* (Audit before acting; recordMutation: "the durable intent already exists
\* before mutation")
ChangesAccounted ==
    \A i \in DOMAIN effects :
        /\ request[effects[i]].kind \in Audited => effects[i] \in audit
        /\ outbox => effects[i] \in DOMAIN events

\* A quarantined message is released or deleted by one request only, whatever
\* others do while it is scanned again.
\* (Transition and ReleaseHeld under the index lock)
HeldOnce == Cardinality({i \in DOMAIN effects : request[effects[i]].kind \in {"release", "delete"}}) <= 1
=============================================================================

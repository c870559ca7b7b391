------------------------------ MODULE Outbound -------------------------------
(***************************************************************************)
(* The way of one recipient's mail out of the system: the destination      *)
(* throttle (delivery.DestinationThrottle), the choice of next hops        *)
(* (selectRoute, LookupMailMX), MTA-STS with its policy cache, the         *)
(* connection to each host in turn and the SMTP transaction (MailDelivery).*)
(*                                                                         *)
(* Several workers deliver at the same time and share the throttle and the *)
(* policy cache.  A host that takes a message may lose its answer.         *)
(***************************************************************************)
EXTENDS Naturals, Sequences, FiniteSets, SequencesExt

CONSTANTS
    Workers,
    Domains,            \* domains of recipients
    Routes,             \* configured routes: a sequence of [domain, sender, priority, hops]
    Senders,            \* sender domains, "" for the null sender
    Matches,            \* Matches[p][d]: how specifically pattern p matches, -1 if not
    Mx,                 \* answers of LookupMailMX for each domain
    Published,          \* MTA-STS policies a domain may publish
    Valid,              \* hosts with a certificate that PKIX accepts
    Concurrency,        \* ThrottleConfig
    MaxDestinations,
    InitialBackoff,
    MaxBackoff,
    PolicyAge,          \* max_age of policies
    MaxTime,            \* bound of the clock
    MaxJobs             \* bound of the deliveries

VARIABLES
    now,
    dest,               \* DestinationThrottle.states
    sts,                \* MTASTSManager.cache: the policy of a domain
    stsFile,            \* the cache file
    job,                \* the worker's delivery
    jobs,               \* deliveries begun
    cool                \* history: the latest cooldown each domain was given

vars == <<now, dest, sts, stsFile, job, jobs, cool>>

-----------------------------------------------------------------------------
(* Choice of the next hops.                                                *)

\* Mutant: rules for a sender do not outrank general ones.
ScoreFlat(r, d) == 2 * Matches[r.domain][d]

\* Exact domains outrank suffixes, and those the star; at equal specificity a
\* rule for the sender outranks a general one.
Score(r, d) == 2 * Matches[r.domain][d] + (IF r.sender # "" THEN 1 ELSE 0)

Applies(r, d, s) == Matches[r.domain][d] >= 0 /\ r.sender \in {"", s}

\* selectRoute: the loop keeps the first of the best by score, then priority.
Best(d, s) ==
    LET C == {i \in DOMAIN Routes : Applies(Routes[i], d, s)}
    IN  {i \in C : \A j \in C :
            \/ Score(Routes[i], d) > Score(Routes[j], d)
            \/ /\ Score(Routes[i], d) = Score(Routes[j], d)
               /\ \/ Routes[i].priority < Routes[j].priority
                  \/ Routes[i].priority = Routes[j].priority /\ i <= j}

SelectRoute(d, s) == IF Best(d, s) = {} THEN <<>>
                     ELSE Routes[CHOOSE i \in Best(d, s) : TRUE].hops

\* sortMXRecords, stable.
SortMX(recs) == SortSeq(recs, LAMBDA x, y : x.pref < y.pref)

-----------------------------------------------------------------------------
(* The throttle.                                                           *)

NoDest == [active |-> 0, limit |-> Concurrency, failures |-> 0, until |-> 0, last |-> 0]

\* Mutant: any idle destination is dropped.
StaleIdle == {d \in DOMAIN dest : dest[d].active = 0}

Stale == {d \in DOMAIN dest : dest[d].active = 0 /\ now - dest[d].last > 2 * MaxBackoff}

\* The states Acquire works on: with a full table idle ones are dropped, and
\* a new one is made if there is room.
Known(d) ==
    IF d \in DOMAIN dest THEN dest
    ELSE LET kept == IF Cardinality(DOMAIN dest) >= MaxDestinations
                     THEN DOMAIN dest \ Stale ELSE DOMAIN dest
             in   == IF Cardinality(kept) >= MaxDestinations THEN kept ELSE kept \cup {d}
         IN  [x \in in |-> IF x = d THEN NoDest ELSE dest[x]]

Free(t, d) == d \in DOMAIN t /\ t[d].active < t[d].limit /\ now >= t[d].until

Backoff(n) == LET b == InitialBackoff * 2 ^ (n - 1) IN IF b > MaxBackoff THEN MaxBackoff ELSE b

\* Observe: multiplicative decrease, additive recovery.
Observe(t, d, outcome) ==
    [t EXCEPT ![d] =
       CASE outcome = "temporary" ->
              [@ EXCEPT !.failures = @ + 1,
                        !.limit = IF @ \div 2 < 1 THEN 1 ELSE @ \div 2,
                        !.until = now + Backoff(t[d].failures + 1), !.last = now]
         [] outcome = "success" /\ now >= t[d].until ->
              [@ EXCEPT !.failures = 0, !.last = now,
                        !.limit = IF @ < Concurrency THEN @ + 1 ELSE @]
         [] OTHER -> [@ EXCEPT !.last = now]]

-----------------------------------------------------------------------------
(* A delivery.                                                             *)

Idle == [pc |-> "idle", domain |-> "", from |-> "", whole |-> TRUE, hops |-> <<>>,
         explicit |-> FALSE, how |-> "none", result |-> "none", taken |-> 0, lost |-> 0,
         refused |-> FALSE, bound |-> {}, unsaved |-> FALSE]

At(w, pc) == job[w].pc = pc
Set(w, j) == job' = [job EXCEPT ![w] = j]

Init ==
    /\ now = 0 /\ dest = <<>> /\ jobs = 0
    /\ sts = [d \in Domains |-> [mode |-> "none", hosts |-> {}, until |-> 0]]
    /\ stsFile = sts
    /\ job = [w \in Workers |-> Idle]
    /\ cool = [d \in Domains |-> 0]

\* processMessage: a worker takes a recipient; Acquire refuses (the recipient
\* stays for a later attempt) or admits it.  whole says that the address has
\* a single at-sign, which groupByDomain requires.
Acquire(w, d, s, whole) ==
    /\ At(w, "idle") /\ jobs < MaxJobs /\ jobs' = jobs + 1
    /\ IF Free(Known(d), d)
       THEN /\ dest' = [Known(d) EXCEPT ![d].active = @ + 1, ![d].last = now]
            /\ Set(w, [Idle EXCEPT !.pc = "plan", !.domain = d, !.from = s, !.whole = whole])
       ELSE /\ dest' = IF d \in DOMAIN Known(d) THEN [Known(d) EXCEPT ![d].last = now]
                       ELSE Known(d)
            /\ UNCHANGED job
    /\ UNCHANGED <<now, sts, stsFile, cool>>

\* Deliver and the head of deliverToDomain.
Plan(w) ==
    /\ At(w, "plan")
    /\ LET j == job[w]
           route == SelectRoute(j.domain, j.from)
       IN  \/ ~j.whole /\ Set(w, [j EXCEPT !.pc = "done", !.result = "success"])
           \/ /\ j.whole /\ route # <<>>
              /\ Set(w, [j EXCEPT !.pc = "hop", !.hops = route, !.explicit = TRUE])
           \/ /\ j.whole /\ route = <<>>
              /\ \E a \in Mx[j.domain] :
                   IF a.err # "none"
                   THEN Set(w, [j EXCEPT !.pc = "done", !.result = a.err,
                                         !.refused = a.err = "permanent"])
                   ELSE Set(w, [j EXCEPT !.pc = "policy",
                                         !.hops = [i \in DOMAIN a.recs |-> SortMX(a.recs)[i].host]])
    /\ UNCHANGED <<now, dest, sts, stsFile, jobs, cool>>

\* The result of a loop over hosts that ends without success.
Exhausted(j) == [j EXCEPT !.pc = "done", !.result = "temporary", !.bound = {}]

Skip(j) == IF Len(j.hops) = 1 THEN Exhausted(j)
           ELSE [j EXCEPT !.pc = IF j.explicit THEN "hop" ELSE "policy", !.hops = Tail(@), !.bound = {}]

\* Mutant: a host the policy does not list is used without it.
AppliedLax(p, h) == IF p.mode = "enforce" /\ h \in p.hosts THEN "sts" ELSE "mx"

\* How the policy of a domain applies to a host (ShouldEnforceTLS).
Applied(p, h) == CASE p.mode # "enforce" -> "mx"
                   [] p.mode = "enforce" /\ h \in p.hosts -> "sts"
                   [] OTHER -> "unlisted"

Fresh(d) == now < sts[d].until

\* GetPolicy and ShouldEnforceTLS for the next MX: a live entry of the cache
\* decides; otherwise the policy is fetched and cached, with its file.  A
\* policy that cannot be fetched, or whose file cannot be written, is not
\* applied, and in the latter case it stays in the cache.  bound is history:
\* the policy to enforce that the cache holds when the way is chosen.
Policy(w) ==
    /\ At(w, "policy")
    /\ LET d == job[w].domain
           h == Head(job[w].hops)
           j == [job[w] EXCEPT !.bound = {p \in {sts'[d]} : now < p.until /\ p.mode = "enforce"}]
           Go(p) == IF Applied(p, h) = "unlisted" THEN Set(w, Skip(j))
                    ELSE Set(w, [j EXCEPT !.pc = "hop", !.how = Applied(p, h), !.unsaved = FALSE])
           Without(unsaved) == Set(w, [j EXCEPT !.pc = "hop", !.how = "mx", !.unsaved = unsaved])
       IN  \/ Fresh(d) /\ UNCHANGED <<sts, stsFile>> /\ Go(sts[d])
           \/ ~Fresh(d) /\ UNCHANGED <<sts, stsFile>> /\ Without(FALSE)
           \/ /\ ~Fresh(d)
              /\ \E p \in Published[d], saved \in BOOLEAN :
                   LET e == [p EXCEPT !.until = now + PolicyAge]
                   IN  /\ sts' = [sts EXCEPT ![d] = e]
                       /\ IF saved THEN stsFile' = sts' /\ Go(e)
                          ELSE UNCHANGED stsFile /\ Without(TRUE)
    /\ UNCHANGED <<now, dest, jobs, cool>>

\* dialSMTP or dialNextHop.  Whether a connection of a bare MX uses TLS is
\* the subject of module Dane; an enforced policy needs a valid certificate.
Dial(w) ==
    /\ At(w, "hop")
    /\ LET j == job[w]
       IN  \/ Set(w, Skip(j))
           \/ /\ j.how = "sts" => Head(j.hops) \in Valid
              /\ Set(w, [j EXCEPT !.pc = "mail"])
    /\ UNCHANGED <<now, dest, sts, stsFile, jobs, cool>>


\* smtpTransaction for one recipient: a permanent refusal of MAIL, RCPT or
\* DATA; a temporary one or a broken connection; acceptance; acceptance
\* whose answer is lost, which parseSMTPError takes for temporary.
Transaction(w) ==
    /\ At(w, "mail")
    /\ LET j == job[w]
       IN  \/ Set(w, [j EXCEPT !.pc = "done", !.result = "permanent", !.refused = TRUE])
           \/ Set(w, Skip(j))
           \/ Set(w, [j EXCEPT !.pc = "done", !.result = "success", !.taken = @ + 1])
           \/ Set(w, Skip([j EXCEPT !.taken = @ + 1, !.lost = @ + 1]))
    /\ UNCHANGED <<now, dest, sts, stsFile, jobs, cool>>

\* deliverRemote observes the outcome and processMessage releases the slot.
Finish(w) ==
    /\ At(w, "done")
    /\ LET d == job[w].domain
           t == Observe(dest, d, job[w].result)
       IN  /\ dest' = [t EXCEPT ![d].active = @ - 1, ![d].last = now]
           /\ cool' = [cool EXCEPT ![d] = IF t[d].until > @ THEN t[d].until ELSE @]
    /\ Set(w, Idle)
    /\ UNCHANGED <<now, sts, stsFile, jobs>>

Tick == now < MaxTime /\ now' = now + 1 /\ UNCHANGED <<dest, sts, stsFile, job, jobs, cool>>

\* A restart: the throttle starts afresh, policies come from the file
\* (SetCachePath); what the workers were doing is lost.
Restart ==
    /\ dest' = <<>> /\ cool' = [d \in Domains |-> 0] /\ sts' = stsFile
    /\ job' = [w \in Workers |-> Idle]
    /\ UNCHANGED <<now, stsFile, jobs>>

Next ==
    \/ \E w \in Workers : \/ \E d \in Domains, s \in Senders, whole \in BOOLEAN :
                               Acquire(w, d, s, whole)
                          \/ Plan(w) \/ Policy(w) \/ Dial(w) \/ Transaction(w) \/ Finish(w)
    \/ Tick
    \/ Restart

Spec == Init /\ [][Next]_vars

-----------------------------------------------------------------------------
(* Properties.                                                             *)

\* The outcome a recipient gets is the truth: success means that a host
\* acknowledged the message, and every further copy a host took is one whose
\* answer was lost; so a bounced or retried message was at most taken
\* without an answer.  (deliverToDomain going on to the next MX)
CopiesExplained ==
    \A w \in Workers : At(w, "done") /\ job[w].whole =>
        /\ job[w].taken = job[w].lost + (IF job[w].result = "success" THEN 1 ELSE 0)
        /\ job[w].result = "permanent" => job[w].refused

\* No mail leaves for a host that the policy the cache held when the way was
\* chosen does not list, or whose certificate is not valid: also when another
\* worker fetched it meanwhile, and after a failed save for the hosts and
\* deliveries that follow.  Only the one host the policy was fetched for is
\* tried without it when the cache file could not be written
\* (security/mta_sts.go:144, and 239, "don't enforce").
PolicyHonoured ==
    \A w \in Workers : At(w, "mail") /\ ~job[w].unsaved =>
        \A p \in job[w].bound : Head(job[w].hops) \in p.hosts \cap Valid

\* The throttle counts exactly the deliveries under way, admits no more than
\* Concurrency of them to a domain, and admits none before the end of the
\* latest cooldown, also when the domain's state was dropped in between.
\* (Acquire, Observe)
ThrottleKept ==
    /\ \A d \in Domains :
         LET n == Cardinality({w \in Workers : ~At(w, "idle") /\ job[w].domain = d})
         IN  /\ n = IF d \in DOMAIN dest THEN dest[d].active ELSE 0
             /\ n <= Concurrency
    /\ \A d \in Domains : now < cool[d] => ~Free(Known(d), d)

\* Of the routes that match, a more specific one always wins, and among
\* equally specific ones a route for the sender.  (selectRoute, by its comment)
RouteOrder ==
    \A d \in Domains, s \in Senders : \A i \in Best(d, s) : \A j \in DOMAIN Routes :
        Applies(Routes[j], d, s) =>
            /\ Matches[Routes[i].domain][d] >= Matches[Routes[j].domain][d]
            /\ Matches[Routes[i].domain][d] = Matches[Routes[j].domain][d] /\ Routes[j].sender # ""
                  => Routes[i].sender # ""
=============================================================================

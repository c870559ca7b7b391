------------------------------ MODULE Resolver -------------------------------
(***************************************************************************)
(* The DNS resolver (internal/dns): MX and TXT lookups through a bounded   *)
(* cache in front of a singleflight group, and the address resolution of   *)
(* SMTP (LookupMailMX).  LookupMX and LookupTXT are the same code over two *)
(* caches; the model has one of them.                                      *)
(*                                                                         *)
(* The flight of a domain runs under the context of the caller that began  *)
(* it, the others wait for its result.                                     *)
(***************************************************************************)
EXTENDS Naturals, FiniteSets, SequencesExt

CONSTANTS
    Callers,
    Names,              \* domain names
    Capacity,           \* 4096
    TTL,                \* cacheTTL
    NegativeTTL,        \* 30 s
    Timeout,
    MaxDepth,           \* 8 CNAMEs
    MaxTime             \* bound of the clock

VARIABLES
    now,
    zone,               \* what the servers say of a name
    cache,              \* mxCache or txtCache
    flight,             \* lookupGroup
    call                \* the callers

vars == <<now, zone, cache, flight, call>>

-----------------------------------------------------------------------------
(* LookupMailMX, over a zone: what the servers say of each name.           *)

\* The outcome of the address queries after an empty MX answer: an address
\* found with either query makes the name its own host.
Implicit(k) == CASE k \in {"address", "address6"} -> "hosts"
                 [] k = "broken" -> "temporary"        \* one query fails, the other is empty
                 [] OTHER -> "permanent"

\* Mutant: a server failure counts as an empty answer.
StepHasty(z, s) ==
    IF s.res # "go" THEN s
    ELSE IF s.name \in s.seen THEN [s EXCEPT !.res = "temporary"]
    ELSE LET a == z[s.name]
             t == [s EXCEPT !.seen = @ \cup {s.name}]
         IN  CASE a.kind \in {"nx", "null", "fail"} -> [t EXCEPT !.res = "permanent"]
               [] a.kind = "mixed" -> [t EXCEPT !.res = "temporary"]
               [] a.kind = "mx" -> [t EXCEPT !.res = "hosts"]
               [] a.kind = "cname" -> [t EXCEPT !.name = a.target]
               [] OTHER -> [t EXCEPT !.res = Implicit(a.kind)]

\* One turn of the loop.
Step(z, s) ==
    IF s.res # "go" THEN s
    ELSE IF s.name \in s.seen THEN [s EXCEPT !.res = "temporary"]
    ELSE LET a == z[s.name]
             t == [s EXCEPT !.seen = @ \cup {s.name}]
         IN  CASE a.kind \in {"nx", "null"} -> [t EXCEPT !.res = "permanent"]
               [] a.kind \in {"fail", "mixed"} -> [t EXCEPT !.res = "temporary"]
               [] a.kind = "mx" -> [t EXCEPT !.res = "hosts"]
               [] a.kind = "cname" -> [t EXCEPT !.name = a.target]
               [] OTHER -> [t EXCEPT !.res = Implicit(a.kind)]

LookupMailMX(z, d) ==
    LET end == FoldLeft(LAMBDA s, i : Step(z, s), [name |-> d, seen |-> {}, res |-> "go"],
                        [i \in 1 .. MaxDepth |-> i])
    IN  IF end.res = "go" THEN "temporary" ELSE end.res

Kinds == {"nx", "null", "fail", "mixed", "mx", "address", "address6", "broken", "empty"}
Answers == [kind : Kinds, target : {""}] \cup [kind : {"cname"}, target : Names]

-----------------------------------------------------------------------------
(* Cached lookups.  An entry or a result is [answer, born]: the answer and *)
(* when the servers gave it; until is the end of an entry.                 *)

Negative(a) == a.kind = "nx"
TTLOf(a) == IF Negative(a) THEN NegativeTTL ELSE TTL

Fresh(d) == d \in DOMAIN cache /\ now < cache[d].until

NoCall == [pc |-> "idle", name |-> "", age |-> 0, got |-> "none"]
NoFlight == [on |-> FALSE]

Flying(d) == flight[d].on

Got(c, a, born) == [pc |-> "done", name |-> c.name, age |-> now - born,
                    got |-> IF Negative(a) THEN "negative" ELSE "positive"]

\* The waiters of a name receive a result.
Deliver(d, Result(_)) ==
    call' = [c \in Callers |-> IF call[c].pc = "wait" /\ call[c].name = d
                               THEN Result(call[c]) ELSE call[c]]

Init ==
    /\ now = 0
    /\ zone \in [Names -> Answers]
    /\ cache = <<>>
    /\ flight = [d \in Names |-> NoFlight]
    /\ call = [c \in Callers |-> NoCall]

\* LookupMX: a live entry answers; otherwise the caller begins a flight or
\* joins the one under way.
Lookup(c, d) ==
    /\ call[c].pc = "idle"
    /\ IF Fresh(d)
       THEN /\ call' = [call EXCEPT ![c] = Got([@ EXCEPT !.name = d], cache[d].answer, cache[d].born)]
            /\ UNCHANGED flight
       ELSE /\ call' = [call EXCEPT ![c] = [@ EXCEPT !.pc = "wait", !.name = d]]
            /\ flight' = IF Flying(d) THEN flight
                         ELSE [flight EXCEPT ![d] = [on |-> TRUE, leader |-> c, alive |-> TRUE,
                                                     asked |-> FALSE, since |-> now]]
    /\ UNCHANGED <<now, zone, cache>>

\* The flight looks at the cache again, and then asks.
Ask(d) ==
    /\ Flying(d) /\ ~flight[d].asked
    /\ IF Fresh(d)
       THEN /\ Deliver(d, LAMBDA c : Got(c, cache[d].answer, cache[d].born))
            /\ flight' = [flight EXCEPT ![d] = NoFlight]
       ELSE /\ flight' = [flight EXCEPT ![d] = [on |-> TRUE, leader |-> @.leader, alive |-> @.alive,
                                                asked |-> TRUE, since |-> now, answer |-> zone[d]]]
            /\ UNCHANGED call
    /\ UNCHANGED <<now, zone, cache>>

\* Mutant: the cache grows without eviction.
InsertedAlways(d, e) == {[x \in DOMAIN cache \cup {d} |-> IF x = d THEN e ELSE cache[x]]}

\* The caches an insertion may leave: with a full cache some entry goes first.
Inserted(d, e) ==
    LET Put(K) == [x \in K \cup {d} |-> IF x = d THEN e ELSE cache[x]]
    IN  IF Cardinality(DOMAIN cache) >= Capacity
        THEN {Put(DOMAIN cache \ {x}) : x \in DOMAIN cache}
        ELSE {Put(DOMAIN cache)}

\* The answer arrives in time and is cached and shared.
Answered(d) ==
    /\ Flying(d) /\ flight[d].asked /\ flight[d].alive /\ flight[d].answer.kind # "fail"
    /\ LET a == flight[d].answer
       IN  /\ cache' \in Inserted(d, [answer |-> a, born |-> flight[d].since, until |-> now + TTLOf(a)])
           /\ Deliver(d, LAMBDA c : Got(c, a, flight[d].since))
    /\ flight' = [flight EXCEPT ![d] = NoFlight]
    /\ UNCHANGED <<now, zone>>

\* A failure of the servers, a timeout, or the end of the leader's context:
\* nothing is cached, and every waiter gets the error.
Failed(d) ==
    /\ Flying(d) /\ flight[d].asked
    /\ Deliver(d, LAMBDA c : [c EXCEPT !.pc = "done", !.got = "error"])
    /\ flight' = [flight EXCEPT ![d] = NoFlight]
    /\ UNCHANGED <<now, zone, cache>>

\* The context of a waiting caller ends.
Cancel(c) ==
    /\ call[c].pc = "wait"
    /\ call' = [call EXCEPT ![c].pc = "done", ![c].got = "error"]
    /\ flight' = [d \in Names |-> IF Flying(d) /\ flight[d].leader = c
                                  THEN [flight[d] EXCEPT !.alive = FALSE] ELSE flight[d]]
    /\ UNCHANGED <<now, zone, cache>>

Return(c) == call[c].pc = "done" /\ call' = [call EXCEPT ![c] = NoCall]
             /\ UNCHANGED <<now, zone, cache, flight>>

ClearCache == cache' = <<>> /\ UNCHANGED <<now, zone, flight, call>>

CleanupExpiredEntries ==
    /\ cache' = [d \in {x \in DOMAIN cache : now <= cache[x].until} |-> cache[d]]
    /\ UNCHANGED <<now, zone, flight, call>>

\* Time passes; no query outlives its timeout.
Tick ==
    /\ now < MaxTime /\ now' = now + 1
    /\ \A d \in Names : Flying(d) /\ flight[d].asked => now - flight[d].since < Timeout
    /\ UNCHANGED <<zone, cache, flight, call>>

Next ==
    \/ \E c \in Callers : Cancel(c) \/ Return(c) \/ \E d \in Names : Lookup(c, d)
    \/ \E d \in Names : Ask(d) \/ Answered(d) \/ Failed(d)
    \/ ClearCache \/ CleanupExpiredEntries \/ Tick

Spec == Init /\ [][Next]_vars

-----------------------------------------------------------------------------
(* Properties.                                                             *)

\* No caller is given an answer older than its lifetime and one query, be it
\* from the cache, from a flight it began or from one it joined, and the
\* cache keeps to its capacity and to what servers really answered.
\* (LookupMX and LookupTXT)
AnswersFresh ==
    /\ \A c \in Callers : call[c].pc = "done" =>
         /\ call[c].got = "positive" => call[c].age < TTL + Timeout
         /\ call[c].got = "negative" => call[c].age < NegativeTTL + Timeout
    /\ Cardinality(DOMAIN cache) <= Capacity
    /\ \A d \in DOMAIN cache : cache[d].answer = zone[d] /\ zone[d].kind # "fail"

\* The name at which the CNAMEs from d end within the depth of the search.
Terminal(z, d) ==
    {n \in Names : z[n].kind # "cname" /\ \E k \in 1 .. MaxDepth : \E p \in [1 .. k -> Names] :
        p[1] = d /\ p[k] = n /\ \A i \in 1 .. k - 1 : z[p[i]].kind = "cname" /\ z[p[i]].target = p[i + 1]}

\* Mail is bounced for good only if the servers say of the name the CNAMEs
\* lead to that it takes no mail, and it is sent only to hosts they give: a
\* failing server, a loop or a chain too long is always a reason to retry.
\* (LookupMailMX against MailDNSError)
PermanentProved ==
    \A d \in Names :
        /\ LookupMailMX(zone, d) = "permanent"
             <=> \E n \in Terminal(zone, d) : zone[n].kind \in {"nx", "null", "empty"}
        /\ LookupMailMX(zone, d) = "hosts"
             <=> \E n \in Terminal(zone, d) : zone[n].kind \in {"mx", "address", "address6"}
=============================================================================

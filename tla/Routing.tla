------------------------------ MODULE Routing -------------------------------
(***************************************************************************)
(* Where a message may go: the pure decisions taken on addresses, header   *)
(* fields, access restrictions, diversion and screening rules and regions, *)
(* and the cache of the mail groups those rules name.                      *)
(*                                                                         *)
(*   internal/auth/auth.go           alias expansion (ResolveAddress)      *)
(*   internal/smtpd/server.go        removeHeader                          *)
(*   internal/access/...             restriction lists, classes and maps   *)
(*   internal/routing/groups/...     mail groups and their cache           *)
(*   internal/routing/{divert,screen}/engine.go, routing/pipeline.go       *)
(*   internal/routing/global.go      choice of a region                    *)
(*                                                                         *)
(* A decision is a function of the input picked in the initial state.      *)
(* Letter case is folded: names that differ only by case are one name.     *)
(***************************************************************************)
EXTENDS Integers, Sequences, FiniteSets, FiniteSetsExt, SequencesExt, Functions

CONSTANTS
    AliasTables,       \* alias tables: name -> sequence of targets
    Mailboxes,         \* name -> e-mail of the enabled user it belongs to
    MaxSeen, MaxOut,   \* 20 and 1000 in the code
    HeaderBlocks,      \* sequences of lines, as [kind, name, id]
    Restrictions,      \* the restrictions that lists are made of
    MaxList,           \* length of a restriction list
    Clients,           \* what is known of a client and its envelope
    Messages, ScreenRules, DivertRules, MaxWatchers, Members,
    RegionLists,       \* healthy and other regions, in the order of the map
    Callers, Lists, MaxObjects, MaxEdits, MaxTime, TTL   \* mail groups

VARIABLES
    input,       \* the input picked

    \* mail groups, one name of them
    objects,     \* the group objects made so far: [type, members, cached, expiry]
    current,     \* the object the configuration names, 0 if none
    file,        \* the members in groups.yaml, or "none"
    clearing,    \* Reload has swapped the configuration, caches to be cleared
    calls,       \* caller -> its GetMembers call
    edits, now

groupVars == <<objects, current, file, clearing, calls, edits, now>>

(***************************************************************************)
(* ResolveAddress.                                                         *)
(***************************************************************************)

Fail == <<"fail">>

\* seen holds the names on the way from the address asked for to a.
BlockedEarly(a, seen) == a \in seen \/ Cardinality(seen) >= MaxSeen

Blocked(a, seen) == a \in seen \/ Cardinality(seen) > MaxSeen

\* Recipient: an enabled user, by e-mail or by user name.
Recipient(a) == IF a \in DOMAIN Mailboxes THEN <<Mailboxes[a]>> ELSE Fail

RECURSIVE Resolve(_, _, _)

\* The first target that fails, or the one that makes the list too long, ends it.
Resolve(aliases, a, seen) ==
    LET Add(out, target) ==
            LET v == Resolve(aliases, target, seen \cup {a})
            IN  IF out = Fail \/ v = Fail \/ Len(out) + Len(v) > MaxOut THEN Fail ELSE out \o v
    IN  IF Blocked(a, seen) THEN Fail
        ELSE IF a \in DOMAIN aliases THEN FoldLeft(Add, <<>>, aliases[a]) ELSE Recipient(a)

ResolveAddress(aliases, a) == Resolve(aliases, a, {})

AddressInit == input \in {[aliases |-> t, asked |-> a] : t \in AliasTables, a \in {"a", "ann"}}

\* The names met on a walk: w is the sequence of target positions taken, none
\* of them when the table has no such target.
Walked(aliases, a, w) ==
    LET Go(names, k) == IF names = <<>> \/ Last(names) \notin DOMAIN aliases
                             \/ k \notin DOMAIN aliases[Last(names)]
                        THEN <<>> ELSE Append(names, aliases[Last(names)][k])
    IN  FoldLeft(Go, <<a>>, w)

\* An address resolves exactly when no walk through the aliases from it meets a
\* name twice or passes more than MaxSeen + 1 names, every walk that cannot go on
\* ends at a mailbox, and no more than MaxOut of them do; it then resolves to one
\* entry per such walk, so that two aliases may share a target
\* (auth/auth.go: ResolveAddress, which unwinds seen on return).
AddressesExpand ==
    LET t == input.aliases
        walks == {v \in {Walked(t, input.asked, w) : w \in BoundedSeq({1, 2}, MaxSeen + 1)} :
                    v # <<>>}
        ends == {w \in BoundedSeq({1, 2}, MaxSeen + 1) :
                   LET v == Walked(t, input.asked, w) IN v # <<>> /\ Last(v) \notin DOMAIN t}
        To(e) == {w \in ends : LET n == Last(Walked(t, input.asked, w))
                               IN  n \in DOMAIN Mailboxes /\ Mailboxes[n] = e}
        sound == /\ \A v \in walks : Len(v) <= MaxSeen + 1 /\ IsInjective(v)
                 /\ \A w \in ends : Last(Walked(t, input.asked, w)) \in DOMAIN Mailboxes
                 /\ Cardinality(ends) <= MaxOut
        out == ResolveAddress(t, input.asked)
    IN  /\ (out # Fail) <=> sound
        /\ sound => \A e \in Range(Mailboxes) :
                      Cardinality({i \in DOMAIN out : out[i] = e}) = Cardinality(To(e))

(***************************************************************************)
(* removeHeader.  A line starts a field, continues one (space or tab),     *)
(* has no colon, or is blank; the body follows the first blank line.       *)
(***************************************************************************)

\* A continuation that is judged as a line of its own.
SkipsAlone(acc, line, name) == line.kind = "field" /\ line.name = name

Skips(acc, line, name) ==
    IF line.kind = "cont" THEN acc.skipping ELSE line.kind = "field" /\ line.name = name

RemoveLine(acc, line, name) ==
    IF acc.body \/ line.kind = "blank"
    THEN [acc EXCEPT !.body = TRUE, !.out = Append(@, line)]
    ELSE LET skip == Skips(acc, line, name)
         IN  [acc EXCEPT !.skipping = skip, !.out = IF skip THEN @ ELSE Append(@, line)]

removeHeader(raw, name) ==
    FoldLeft(LAMBDA acc, line : RemoveLine(acc, line, name),
             [out |-> <<>>, skipping |-> FALSE, body |-> FALSE], raw).out

HeaderInit == input \in [raw : HeaderBlocks]

\* removeHeader "changes only complete header fields, including continuations":
\* a line goes exactly when it is in the header and the last line up to it that
\* is no continuation starts a field of that name (smtpd/server.go).
FieldsWhole ==
    LET raw == input.raw
        inBody(i) == \E k \in 1 .. i : raw[k].kind = "blank"
        starts(i) == {k \in 1 .. i : raw[k].kind # "cont"}
        named(i) == /\ starts(i) # {}
                    /\ raw[Max(starts(i))].kind = "field"
                    /\ raw[Max(starts(i))].name = "Bcc"
    IN  Range(removeHeader(raw, "Bcc")) = {raw[i] : i \in {k \in DOMAIN raw : inBody(k) \/ ~named(k)}}

(***************************************************************************)
(* Access restrictions.  A map line is [keys, result, parses, clean]: the  *)
(* keys it matches, and whether what a regular expression leaves of a key  *)
(* still begins with the result.                                           *)
(***************************************************************************)

\* Lines that do not parse are skipped.
Loaded(m) == SelectSeq(m.lines, LAMBDA l : l.parses)

Hits(m, key) == {i \in DOMAIN Loaded(m) : key \in Loaded(m)[i].keys}

\* A later line of the same key replaces an earlier one.
LookupHash(m, key) ==
    IF Hits(m, key) = {} THEN "error" ELSE Loaded(m)[Max(Hits(m, key))].result

LookupCIDR(m, key) ==
    IF key # "ip" \/ Hits(m, key) = {} THEN "error" ELSE Loaded(m)[Min(Hits(m, key))].result

\* The matched part of the key is replaced; the rest of the key stays.
LookupRegexp(m, key) ==
    IF Hits(m, key) = {} THEN "error"
    ELSE LET l == Loaded(m)[Min(Hits(m, key))] IN IF l.clean THEN l.result ELSE "garbled"

LookupSimple(m, key) ==
    CASE m.type = "static" -> m.value
      [] m.type = "inline" -> LookupHash(m, key)
      [] m.type = "fail" -> "error"

Lookup(m, key) ==
    CASE m.type = "hash" -> LookupHash(m, key)
      [] m.type = "cidr" -> LookupCIDR(m, key)
      [] m.type = "regexp" -> LookupRegexp(m, key)
      [] m.type \in {"static", "inline", "fail"} -> LookupSimple(m, key)

\* 4xx and 5xx codes reject; a text that is no action decides nothing.
parseMapResult(result) ==
    CASE result \in {"OK", "REJECT", "DEFER", "DISCARD", "HOLD"} -> result
      [] result \in {"450", "554"} -> "REJECT"
      [] OTHER -> "DUNNO"

If(cond, verdict) == IF cond THEN verdict ELSE "DUNNO"

Unconditional == [permit |-> "OK", reject |-> "REJECT", defer |-> "DEFER"]

PermitMyNetworks(c) == If(c.mynetworks, "OK")

PermitSASLAuthenticated(c) == If(c.authenticated, "OK")

Authorised(c) == c.recipient \in {"local", "relay"}

RejectUnauthDestination(c) ==
    If(~c.authenticated /\ ~c.mynetworks /\ ~Authorised(c), "REJECT")

\* The domain of a sender or recipient that is empty or malformed is not looked up.
RejectUnknown(c, of) == If(c.unknown[of] = "yes", "REJECT")

RejectListed(c, of) == If(c.listed[of] = "yes", "REJECT")

CheckAccess(c, of, m) == parseMapResult(Lookup(m, c.key[of]))

\* The restriction a name stands for (parseRestriction), asked.  The policy
\* service and the deferred restrictions are not implemented and never decide.
CheckOne(r, c) ==
    CASE r.kind \in DOMAIN Unconditional -> Unconditional[r.kind]
      [] r.kind = "permit_mynetworks" -> PermitMyNetworks(c)
      [] r.kind = "permit_sasl_authenticated" -> PermitSASLAuthenticated(c)
      [] r.kind = "permit_auth_destination" -> If(Authorised(c), "OK")
      [] r.kind = "reject_unauth_destination" -> RejectUnauthDestination(c)
      [] r.kind = "reject_unknown" -> RejectUnknown(c, r.of)
      [] r.kind = "reject_listed" -> RejectListed(c, r.of)
      [] r.kind = "check_access" -> CheckAccess(c, r.of, r.map)
      [] r.kind \in {"check_policy_service", "defer_if_permit", "defer_if_reject"} -> "DUNNO"

FirstVerdict(verdicts, default) ==
    LET said == SelectSeq(verdicts, LAMBDA v : v # "DUNNO")
    IN  IF said = <<>> THEN default ELSE said[1]

ClassVerdictFinal(r, c) ==
    FirstVerdict([i \in DOMAIN r.restrictions |-> CheckOne(r.restrictions[i], c)], "OK")

\* RestrictionClassReference: without a verdict the list goes on.
ClassVerdict(r, c) ==
    FirstVerdict([i \in DOMAIN r.restrictions |-> CheckOne(r.restrictions[i], c)], "DUNNO")

Verdict(r, c) == IF r.kind = "class" THEN ClassVerdict(r, c) ELSE CheckOne(r, c)

Check(list, c) == FirstVerdict([i \in DOMAIN list |-> Verdict(list[i], c)], "OK")

AccessInit == input \in [list : BoundedSeq(Restrictions, MaxList), client : Clients]

\* A class stands for the restrictions in it, in place; and a client that is
\* let through past reject_unauth_destination is trusted, writes to a domain
\* that is served, or was permitted by an earlier restriction
\* (access/restrictions.go: Check; restriction_impls.go).
RestrictionsOrdered ==
    LET Parts(r) == IF r.kind = "class" THEN r.restrictions ELSE <<r>>
        flat == FlattenSeq([i \in DOMAIN input.list |-> Parts(input.list[i])])
        c == input.client
    IN  /\ Check(input.list, c) = Check(flat, c)
        /\ \A i \in DOMAIN flat :
             flat[i].kind = "reject_unauth_destination" /\ Check(input.list, c) = "OK" =>
               \/ c.authenticated \/ c.mynetworks \/ c.recipient \in {"local", "relay"}
               \/ \E k \in 1 .. i - 1 : Verdict(flat[k], c) = "OK"

(***************************************************************************)
(* Diversion and screening.  An address is [user, domains]: what follows   *)
(* its at signs.  Members maps a group to its members; a group that is     *)
(* not there is an error.                                                  *)
(***************************************************************************)

IsMember(group, address) ==
    IF group \in DOMAIN Members THEN IF address \in Members[group] THEN "yes" ELSE "no" ELSE "error"

Yes(cond) == IF cond THEN "yes" ELSE "no"

\* The divert engine takes the domain after the last at sign.
DivertMatches(rule, m) ==
    CASE ~rule.today -> "no"
      [] rule.type = "recipient" -> Yes(m.to = rule.value)
      [] rule.type = "sender" -> Yes(m.from = rule.value)
      [] rule.type = "group" -> IsMember(rule.value, m.to)
      [] rule.type = "domain" -> Yes(m.to.domains # <<>> /\ Last(m.to.domains) = rule.value)
      [] rule.type = "content" -> Yes(rule.value \in m.words)
      [] OTHER -> "error"

\* The screen engine takes it after the first one.  An error of a group counts
\* as no match when both directions are asked.
ScreenMatches(rule, m) ==
    LET Either(op(_)) == Yes(op(m.from) = "yes" \/ op(m.to) = "yes")
        Side(op(_)) == CASE rule.direction = "inbound" -> op(m.to)
                         [] rule.direction = "outbound" -> op(m.from)
                         [] OTHER -> Either(op)
    IN  CASE rule.type = "user" -> Side(LAMBDA a : Yes(a = rule.value))
          [] rule.type = "group" -> Side(LAMBDA a : IsMember(rule.value, a))
          [] rule.type = "sender" -> Yes(m.from = rule.value)
          [] rule.type = "domain" -> Yes(m.to.domains = <<rule.value>>)
          [] rule.type = "content" -> Yes(rule.value \in m.words)
          [] OTHER -> "error"

\* CheckDivert: the first enabled rule that matches; an error skips the rule.
DivertRulesHit(rules, m) == SelectSeq(rules, LAMBDA r : r.enabled /\ DivertMatches(r, m) = "yes")

CheckDivert(rules, m) ==
    LET hit == DivertRulesHit(rules, m) IN IF hit = <<>> THEN "none" ELSE hit[1].target

\* CheckScreen: the watchers of every enabled rule that matches, cut to MaxWatchers
\* in the order of a Go map, which is any.
WatchersOf(rules, m) ==
    UNION {rules[i].watchers : i \in {k \in DOMAIN rules :
             rules[k].enabled /\ ScreenMatches(rules[k], m) = "yes"}}

CheckScreen(rules, m) ==
    LET all == WatchersOf(rules, m)
    IN  IF Cardinality(all) <= MaxWatchers THEN {all} ELSE kSubset(MaxWatchers, all)

ProcessAfterScreen(i) ==
    {[watchers |-> w, to |-> IF i.screen /\ w # {} THEN "none"
                             ELSE IF i.divert THEN CheckDivert(i.divertRules, i.message) ELSE "none"] :
       w \in IF i.screen THEN CheckScreen(i.screenRules, i.message) ELSE {{}}}

\* Process: the possible decisions.  Screening goes first and does not end it;
\* composing the diverted message writes to memory only and cannot fail.
Process(i) ==
    {[watchers |-> w, to |-> IF i.divert THEN CheckDivert(i.divertRules, i.message) ELSE "none"] :
       w \in IF i.screen THEN CheckScreen(i.screenRules, i.message) ELSE {{}}}

PipelineInit ==
    input \in [screen : BOOLEAN, divert : BOOLEAN, message : Messages,
               screenRules : ScreenRules, divertRules : DivertRules]

\* Screening is transparent: whatever is watched, a message is diverted exactly
\* when an enabled rule matches it, to the target of the first one; and every
\* rule that matches is heard by at least one of its watchers unless the limit
\* cut them off (pipeline.go: Process; engine.go: CheckDivert, CheckScreen).
ScreeningTransparent ==
    LET i == input
        matching == {k \in DOMAIN i.divertRules : i.divertRules[k].enabled
                                                  /\ DivertMatches(i.divertRules[k], i.message) = "yes"}
    IN  \A d \in Process(i) :
          /\ IF i.divert /\ matching # {} THEN d.to = i.divertRules[Min(matching)].target
             ELSE d.to = "none"
          /\ Cardinality(d.watchers) <= MaxWatchers
          /\ i.screen /\ Cardinality(d.watchers) < MaxWatchers =>
               \A k \in DOMAIN i.screenRules :
                 i.screenRules[k].enabled /\ ScreenMatches(i.screenRules[k], i.message) = "yes" =>
                   i.screenRules[k].watchers \subseteq d.watchers

(***************************************************************************)
(* The choice of a region.  Load is in tenths; the factors of the score    *)
(* are scaled to integers: 12/10 near the sender, 8/10 with a long queue,  *)
(* a transfer cost of 0, 1/10 and 1.                                       *)
(***************************************************************************)

Healthy(regions) == SelectSeq(regions, LAMBDA r : r.healthy)

ChosenByMost(h, random) ==
    LET below == {k \in DOMAIN h : random <= FoldFunctionOnSet(+, 0, [j \in DOMAIN h |-> h[j].weight], 1 .. k)}
    IN  IF below = {} THEN 1 ELSE Min(below)

\* The loop of SelectRegionWeighted: the first region whose running total is
\* above the random number.
Chosen(h, random) ==
    LET below == {k \in DOMAIN h : random < FoldFunctionOnSet(+, 0, [j \in DOMAIN h |-> h[j].weight], 1 .. k)}
    IN  IF below = {} THEN 1 ELSE Min(below)

\* The random numbers it may draw with the position each chooses.
SelectRegionWeighted(regions) ==
    LET h == Healthy(regions)
        total == FoldFunction(+, 0, [j \in DOMAIN h |-> h[j].weight])
    IN  IF total = 0 THEN [random \in 0 .. Len(h) - 1 |-> random + 1]
        ELSE [random \in 0 .. total - 1 |-> Chosen(h, random)]

\* calculateTransferCost, plus one, in tenths.
TransferCost(r) == CASE r.cost = "same" -> 10 [] r.cost = "near" -> 11 [] r.cost = "far" -> 20

\* scoreRegion and the comparison of the sort, as numerator and denominator.
scoreRegion(r) ==
    [num |-> (10 - r.load) * 100 * (IF r.near THEN 12 ELSE 10) * (IF r.queue > 1000 THEN 8 ELSE 10),
     den |-> (100 + r.latency) * TransferCost(r)]

Better(r, s) == scoreRegion(r).num * scoreRegion(s).den > scoreRegion(s).num * scoreRegion(r).den

\* SelectRegion: the region a domain rule prefers if it is healthy, else any of
\* the best (the order of a Go map, and an unstable sort, break ties).
SelectRegion(regions, rule) ==
    LET h == Range(Healthy(regions))
        preferred == {r \in h : r.name = rule}
    IN  IF preferred # {} THEN preferred ELSE {r \in h : \A s \in h : ~Better(s, r)}

RegionInit == input \in [regions : RegionLists, rule : {"none", "r1"}]

\* The weighted choice gives every healthy region its weight of the random
\* numbers, an equal share if no weight is set; the scored choice is a healthy
\* region that no other beats on load with latency, transfer cost, proximity
\* and queue no worse, unless a domain rule names it (global.go).
RegionsFair ==
    LET h == Healthy(input.regions)
        draw == SelectRegionWeighted(input.regions)
        share(k) == Cardinality({x \in DOMAIN draw : draw[x] = k})
        flat == \A k \in DOMAIN h : h[k].weight = 0
        rank == [same |-> 0, near |-> 1, far |-> 2]
    IN  h # <<>> =>
          /\ \A k \in DOMAIN h : share(k) = IF flat THEN 1 ELSE h[k].weight
          /\ SelectRegion(input.regions, input.rule) # {}
          /\ \A r \in SelectRegion(input.regions, input.rule) :
               /\ r.healthy
               /\ r.name # input.rule =>
                    ~\E s \in Range(h) :
                       /\ s.load < r.load /\ s.latency <= r.latency /\ rank[s.cost] <= rank[r.cost]
                       /\ r.near => s.near
                       /\ s.queue > 1000 => r.queue > 1000

(***************************************************************************)
(* Mail groups.  GetMembers finds the group under the manager's lock and   *)
(* reads and writes its cache under the group's own; a reload swaps the    *)
(* configuration in between.                                               *)
(***************************************************************************)

None == <<"none">>

Object(type, members) == [type |-> type, members |-> members, cached |-> <<>>, expiry |-> 0]

Idle == [at |-> "idle", object |-> 0, members |-> <<>>, result |-> None, begun |-> None]

GroupInit ==
    /\ file \in Lists
    /\ objects = <<Object("static", file)>>
    /\ current = 1
    /\ clearing = FALSE
    /\ calls = [c \in Callers |-> Idle]
    /\ edits = 0
    /\ now = 1

\* What GetMembers must answer if it begins now.
Membership == IF current = 0 THEN None
              ELSE IF objects[current].type # "static" THEN None ELSE objects[current].members

\* The lookup under the manager's lock.
Find(c) ==
    /\ calls[c].at = "idle"
    /\ calls' = [calls EXCEPT ![c] =
                   [Idle EXCEPT !.at = IF current = 0 THEN "done" ELSE "found",
                                !.object = current, !.begun = Membership]]
    /\ UNCHANGED <<objects, current, file, clearing, edits, now>>

\* The cache, if it has not expired and holds a member; else the provider, of
\* which only the static one does not fail.
ReadCache(c) ==
    LET g == objects[calls[c].object]
        hit == now < g.expiry /\ g.cached # <<>>
    IN  /\ calls[c].at = "found"
        /\ calls' = [calls EXCEPT
             ![c].at = IF hit \/ g.type # "static" THEN "done" ELSE "fetched",
             ![c].result = IF hit THEN g.cached ELSE None,
             ![c].members = IF g.type = "static" THEN g.members ELSE <<>>]
        /\ UNCHANGED <<objects, current, file, clearing, edits, now>>

StoreCacheByName(c) ==
    /\ calls[c].at = "fetched"
    /\ calls' = [calls EXCEPT ![c].at = "done", ![c].result = calls[c].members]
    /\ objects' = IF current = 0 THEN objects
                  ELSE [objects EXCEPT ![current].cached = calls[c].members,
                                       ![current].expiry = now + TTL]
    /\ UNCHANGED <<current, file, clearing, edits, now>>

\* The members go into the cache of the object that was found.
StoreCache(c) ==
    /\ calls[c].at = "fetched"
    /\ calls' = [calls EXCEPT ![c].at = "done", ![c].result = calls[c].members]
    /\ objects' = [objects EXCEPT ![calls[c].object].cached = calls[c].members,
                                  ![calls[c].object].expiry = now + TTL]
    /\ UNCHANGED <<current, file, clearing, edits, now>>

Return(c) ==
    /\ calls[c].at = "done"
    /\ calls' = [calls EXCEPT ![c] = Idle]
    /\ UNCHANGED <<objects, current, file, clearing, edits, now>>

\* An operator edits groups.yaml.
EditFile(l) ==
    /\ edits < MaxEdits
    /\ file' = l
    /\ edits' = edits + 1
    /\ UNCHANGED <<objects, current, clearing, calls, now>>

\* Reload: new objects from the file are swapped in, then every cache of the
\* configuration is cleared.
Reload ==
    /\ ~clearing /\ Len(objects) < MaxObjects
    /\ objects' = IF file = None THEN objects ELSE Append(objects, Object("static", file))
    /\ current' = IF file = None THEN 0 ELSE Len(objects) + 1
    /\ clearing' = TRUE
    /\ UNCHANGED <<file, calls, edits, now>>

InvalidateCache ==
    /\ clearing
    /\ objects' = IF current = 0 THEN objects
                  ELSE [objects EXCEPT ![current].cached = <<>>, ![current].expiry = 0]
    /\ clearing' = FALSE
    /\ UNCHANGED <<current, file, calls, edits, now>>

AddGroup(type, l) ==
    /\ current = 0 /\ Len(objects) < MaxObjects
    /\ objects' = Append(objects, Object(type, l))
    /\ current' = Len(objects) + 1
    /\ UNCHANGED <<file, clearing, calls, edits, now>>

RemoveGroup ==
    /\ current # 0
    /\ current' = 0
    /\ UNCHANGED <<objects, file, clearing, calls, edits, now>>

Tick ==
    /\ now < MaxTime
    /\ now' = now + 1
    /\ UNCHANGED <<objects, current, file, clearing, calls, edits>>

GroupNext ==
    \/ \E c \in Callers : Find(c) \/ ReadCache(c) \/ StoreCache(c) \/ Return(c)
    \/ \E l \in Lists \cup {None} : EditFile(l)
    \/ \E l \in Lists, type \in {"static", "ldap"} : AddGroup(type, l)
    \/ Reload \/ InvalidateCache \/ RemoveGroup \/ Tick

\* A call answers with the members the group had when the call began: what an
\* earlier configuration said is never found in the cache of a later one, though
\* fetch and store are not under the lock that Reload takes
\* (groups.go: GetMembers, Reload).
MembersOfTheTime ==
    \A c \in Callers : calls[c].at = "done" => calls[c].result = calls[c].begun
=============================================================================

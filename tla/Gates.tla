-------------------------------- MODULE Gates --------------------------------
(***************************************************************************)
(* Three gates an arriving message passes, each a table kept in memory and *)
(* consulted by every SMTP session: the recipient quotas of senders and    *)
(* their domains (smtpd/operations.go), greylisting (internal/greylisting) *)
(* and the detection of outbreaks (security/spread_prevention.go).  The    *)
(* gates share nothing but the clock; each has a next-state relation of    *)
(* its own.                                                                *)
(***************************************************************************)
EXTENDS Naturals, FiniteSets, FiniteSetsExt, SequencesExt

CONSTANTS
    Users, Domain,      \* authenticated senders and the domain of each
    UserMax, DomainMax, \* recipients per hour
    Counts,             \* recipient counts of a message
    Hour,               \* ticks of an hour
    Triplets, Checks,   \* (ip, from, to) triplets; calls of Check under way
    RetryDelay, Expiry, WhitelistTTL,
    Bodies, BurstWindow, Threshold,
    MaxBurst,           \* bound on the messages of one body in a window
    MaxTime             \* bound of the clock

VARIABLES
    now,
    buckets,            \* quota buckets: level in 1/Hour of a recipient, and times
    spent,              \* history: recipients admitted per key and age in ticks
    triplets,           \* greylist entries
    white,              \* triplet -> end of its whitelisting
    check,              \* program counters of the calls of Check
    cleaner,            \* CleanupExpired between its two locks, and its time
    passed, met,        \* history: last pass, its promise, and first contact of a triplet
    verdict,            \* history: what the last Check answered
    seen,               \* times of each body, as the engine remembers them
    arrivals,           \* history: times of each body within the window
    held                \* history: the last answer of Evaluate

quota == <<buckets, spent>>
grey == <<triplets, white, check, cleaner, passed, met, verdict>>
spread == <<seen, arrivals, held>>
vars == <<now, quota, grey, spread>>

Put(m, k, v) == [x \in DOMAIN m \cup {k} |-> IF x = k THEN v ELSE m[x]]
Drop(m, K) == [x \in DOMAIN m \ K |-> m[x]]

Keys == Users \cup {Domain[u] : u \in Users}

Init ==
    /\ now = 0
    /\ buckets = <<>> /\ spent = [k \in Keys |-> [age \in 0 .. Hour |-> 0]]
    /\ triplets = <<>> /\ white = <<>> /\ check = [c \in Checks |-> [pc |-> "idle"]]
    /\ cleaner = [pc |-> "idle"]
    /\ passed = <<>> /\ met = <<>> /\ verdict = "none"
    /\ seen = <<>> /\ arrivals = [b \in Bodies |-> <<>>] /\ held = [body |-> FALSE]

-----------------------------------------------------------------------------
(* Quotas.  A bucket holds at most an hour's allowance and refills at that *)
(* rate.  Buckets idle for two hours are dropped on the next call.         *)

MaxOf(k) == IF k \in Users THEN UserMax ELSE DomainMax
Full(k) == MaxOf(k) * Hour

\* TokensAt(now), in 1/Hour of a recipient.
Tokens(bs, k) == Min({Full(k), bs[k].level + (now - bs[k].at) * MaxOf(k)})

\* Mutant: a bucket is dropped once it is idle at all.
KeptBrief == {k \in DOMAIN buckets : now - buckets[k].last = 0}

Kept == {k \in DOMAIN buckets : now - buckets[k].last <= 2 * Hour}

\* The bucket of k after the call looked at it: created full when absent, and
\* marked as used whether or not the message passes.
Touched(bs, k) ==
    IF k \in DOMAIN bs THEN Put(bs, k, [bs[k] EXCEPT !.last = now])
    ELSE Put(bs, k, [level |-> Full(k), at |-> now, last |-> now])

Spend(bs, k, n) == Put(bs, k, [level |-> Tokens(bs, k) - n * Hour, at |-> now, last |-> now])

\* abuseLimits.allow: the user's bucket, then the domain's; limits of zero are
\* no limits.  Only when each has enough is any debited.
Allow(u, n) ==
    LET keys == SelectSeq(<<u, Domain[u]>>, LAMBDA k : MaxOf(k) > 0)
        b0 == Drop(buckets, DOMAIN buckets \ Kept)
        short == {i \in DOMAIN keys :
                    Tokens(Touched(b0, keys[i]), keys[i]) < n * Hour}
        upto == IF short = {} THEN Len(keys) ELSE Min(short)
        b1 == FoldLeft(Touched, b0, SubSeq(keys, 1, upto))
    IN  /\ buckets' = IF short = {} THEN FoldLeft(LAMBDA bs, k : Spend(bs, k, n), b1, keys) ELSE b1
        /\ spent' = IF short = {}
                    THEN [k \in Keys |-> IF k \in ToSet(keys) THEN [spent[k] EXCEPT ![0] = @ + n] ELSE spent[k]]
                    ELSE spent
        /\ UNCHANGED <<now, grey, spread>>

QuotaTick ==
    /\ now < MaxTime
    /\ now' = now + 1
    /\ spent' = [k \in Keys |-> [age \in 0 .. Hour |-> IF age = 0 THEN 0 ELSE spent[k][age - 1]]]
    /\ UNCHANGED <<buckets, grey, spread>>

QuotaNext == QuotaTick \/ \E u \in Users, n \in Counts : Allow(u, n)

-----------------------------------------------------------------------------
(* Greylisting.  Check reads the whitelist under a read lock, gives it up, *)
(* deletes an expired entry under the write lock, and only then takes the  *)
(* lock of the triplets.                                                   *)

CheckWhite(c, t) ==
    /\ check[c].pc = "idle"
    /\ LET listed == t \in DOMAIN white
           fresh == listed /\ now < white[t]
       IN  /\ check' = [check EXCEPT ![c] =
                          IF fresh THEN [pc |-> "idle"]
                          ELSE [pc |-> IF listed THEN "expired" ELSE "grey", t |-> t]]
           /\ verdict' = IF fresh THEN "pass" ELSE "none"
    /\ UNCHANGED <<now, quota, spread, triplets, white, cleaner, passed, met>>

\* The promise of a pass ends when its entry is taken away.
Revoked(t) == IF t \in DOMAIN passed THEN [passed EXCEPT ![t].until = 0] ELSE passed

\* The entry is deleted even if another call renewed it in the gap.
DeleteWhite(c) ==
    /\ check[c].pc = "expired"
    /\ white' = Drop(white, {check[c].t})
    /\ check' = [check EXCEPT ![c].pc = "grey"]
    /\ verdict' = "none"
    /\ passed' = Revoked(check[c].t)
    /\ UNCHANGED <<now, quota, spread, triplets, cleaner, met>>

\* The part of Check under the lock of the triplets.
CheckGrey(c) ==
    /\ check[c].pc = "grey"
    /\ check' = [check EXCEPT ![c] = [pc |-> "idle"]]
    /\ LET t == check[c].t
           known == t \in DOMAIN triplets
           late == known /\ now - triplets[t].first >= RetryDelay
       IN  /\ triplets' = Put(triplets, t, [first |-> IF known THEN triplets[t].first ELSE now, last |-> now])
           /\ white' = IF late THEN Put(white, t, now + WhitelistTTL) ELSE white
           /\ verdict' = IF late THEN "pass" ELSE "retry"
           /\ passed' = IF late THEN Put(passed, t, [at |-> now, until |-> now + WhitelistTTL]) ELSE passed
           /\ met' = IF t \in DOMAIN met THEN met ELSE Put(met, t, now)
    /\ UNCHANGED <<now, quota, spread, cleaner>>

\* Mutant: entries are forgotten by the time of the first contact.
ForgottenFirst == {t \in DOMAIN triplets : now - triplets[t].first > Expiry}

Forgotten == {t \in DOMAIN triplets : now - triplets[t].last > Expiry}

\* CleanupExpired: the triplets under their lock, then the whitelist under
\* its own, by the time the cleanup began.
CleanupTriplets ==
    /\ cleaner.pc = "idle"
    /\ triplets' = Drop(triplets, Forgotten)
    /\ cleaner' = [pc |-> "white", now |-> now]
    /\ verdict' = "none"
    /\ UNCHANGED <<now, quota, spread, white, check, passed, met>>

\* Mutant: what expires soon is dropped as well.
CleanupWhiteEarly ==
    /\ cleaner.pc = "white"
    /\ white' = Drop(white, {t \in DOMAIN white : cleaner.now + 1 >= white[t]})
    /\ cleaner' = [pc |-> "idle"]
    /\ verdict' = "none"
    /\ UNCHANGED <<now, quota, spread, triplets, check, passed, met>>

CleanupWhite ==
    /\ cleaner.pc = "white"
    /\ white' = Drop(white, {t \in DOMAIN white : cleaner.now > white[t]})
    /\ cleaner' = [pc |-> "idle"]
    /\ verdict' = "none"
    /\ UNCHANGED <<now, quota, spread, triplets, check, passed, met>>

RemoveFromWhitelist(t) ==
    /\ white' = Drop(white, {t})
    /\ verdict' = "none"
    /\ passed' = Revoked(t)
    /\ UNCHANGED <<now, quota, spread, triplets, check, cleaner, met>>

GreyTick ==
    /\ now < MaxTime
    /\ now' = now + 1
    /\ verdict' = "none"
    /\ UNCHANGED <<quota, spread, triplets, white, check, cleaner, passed, met>>

GreyNext ==
    \/ GreyTick
    \/ CleanupTriplets \/ CleanupWhite
    \/ \E t \in Triplets : RemoveFromWhitelist(t)
    \/ \E c \in Checks :
        \/ \E t \in Triplets : CheckWhite(c, t)
        \/ DeleteWhite(c)
        \/ CheckGrey(c)

-----------------------------------------------------------------------------
(* Outbreaks: the arrivals of one body within a sliding window.            *)

\* Mutant: expired times are counted as well.
RecentAll(ts) == ts

Recent(ts) == SelectSeq(ts, LAMBDA t : now - t <= BurstWindow)

Evaluate(b) ==
    LET valid == Append(Recent(IF b \in DOMAIN seen THEN seen[b] ELSE <<>>), now)
    IN  /\ Len(valid) <= MaxBurst
        /\ seen' = Put(seen, b, valid)
        /\ arrivals' = [arrivals EXCEPT ![b] = Append(@, now)]
        /\ held' = [body |-> TRUE, b |-> b, quarantine |-> Len(valid) >= Threshold]
        /\ UNCHANGED <<now, quota, grey>>

\* cleanupTask
CleanupTask ==
    LET live == [b \in DOMAIN seen |-> Recent(seen[b])]
    IN  /\ seen' = Drop(live, {b \in DOMAIN live : live[b] = <<>>})
        /\ held' = [body |-> FALSE]
        /\ UNCHANGED <<now, arrivals, quota, grey>>

SpreadTick ==
    /\ now < MaxTime
    /\ now' = now + 1
    /\ held' = [body |-> FALSE]
    /\ arrivals' = [b \in Bodies |-> SelectSeq(arrivals[b], LAMBDA t : now + 1 - t <= BurstWindow)]
    /\ UNCHANGED <<seen, quota, grey>>

SpreadNext ==
    \/ SpreadTick
    \/ CleanupTask
    \/ \E b \in Bodies : Evaluate(b)

-----------------------------------------------------------------------------
\* Recipients admitted for a key within the last hour.
Used(k) == MapThenSumSet(LAMBDA age : spent[k][age], 0 .. Hour)

\* The quotas mean what they say (smtpd/operations.go:26): in no hour do more
\* recipients pass than the allowance saved up and the allowance of that hour,
\* also when buckets were dropped in between; and a refused message costs
\* nothing: a bucket lacks no more than what was really admitted.
QuotasExact ==
    \A k \in Keys :
        MaxOf(k) > 0 =>
            /\ Used(k) <= 2 * MaxOf(k)
            /\ k \in DOMAIN buckets => Tokens(buckets, k) + Used(k) * Hour >= Full(k)

\* Greylisting delays a sender once (greylisting.go:57), whichever calls and
\* cleanups race.  Who passed is not asked to retry within the memory of the
\* triplet; a call that begins within the whitelisting which the pass opened
\* passes, unless an operator or a call that had read the expired entry
\* before the pass took the new one away; and nobody passes before the delay
\* since the first contact is over.
DelayedStep ==
    /\ \A c \in Checks :
         /\ (CheckGrey(c) /\ verdict' = "retry") =>
               ~\E t \in DOMAIN passed : check[c].t = t /\ now - passed[t].at <= Expiry
         /\ \A t \in DOMAIN passed :
               (CheckWhite(c, t) /\ now < passed[t].until) => verdict' = "pass"
    /\ \A t \in DOMAIN passed' :
         (t \notin DOMAIN passed \/ passed'[t].at # passed[t].at) => passed'[t].at - met'[t] >= RetryDelay

\* As above, of every step.
DelayedOnce == [][DelayedStep]_vars

\* Evaluate (spread_prevention.go:41) holds a message exactly when the window
\* that ends with it holds Threshold messages of its body, whenever the
\* cleanup ran.
OutbreaksExact ==
    held.body => held.quarantine = (Len(arrivals[held.b]) >= Threshold)
=============================================================================

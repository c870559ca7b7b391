---------------------------------- MODULE MCMail -----------------------------------
(***************************************************************************)
(* The way of a message through the service, component by component, from  *)
(* the pre-mail proxy and the SMTP session over screening, Sieve and the   *)
(* policies to the relay and the reports.  The components share no state:  *)
(* every behaviour is one of the component that focus names.  The cells x1 *)
(* to x13 hold the variables of that component, in the order in which its  *)
(* module lists them.  A focus without an action is a pure algorithm; its  *)
(* initial states are the inputs.                                          *)
(***************************************************************************)
EXTENDS Integers, Sequences, FiniteSets, FiniteSetsExt, TLC

CONSTANTS w1, w2, c1, c2

VARIABLES
    focus,    \* the component this behaviour is one of
    x1, x2, x3, x4, x5, x6, x7, x8, x9, x10, x11, x12, x13    \* its variables

-----------------------------------------------------------------------------
(* SMTP sessions: one connection with every recipient, and three that      *)
(* compete for two slots.                                                  *)

Stages == {"reputation", "policy", "malware", "scanner", "plugin"}

Listener(role, required, present, enforce, proxy, filter, validate) ==
    [role |-> role, required |-> required, present |-> present, enforce |-> enforce,
     proxy |-> proxy, filter |-> filter, validate |-> validate]

SmtpConfigs == {
    Listener("edge", {}, {"policy"}, {}, FALSE, FALSE, "off"),
    Listener("edge", Stages, Stages, {"spf", "softfail", "dmarc", "zones"}, TRUE, TRUE, "store"),
    Listener("submission", {"auth", "tls", "policy", "malware"}, {"policy"}, {"spf"},
             FALSE, TRUE, "directory"),
    Listener("internal", {"arc", "scanner"}, {"scanner"}, {"dmarc"}, FALSE, TRUE, "store")}

SmtpAliases == ("team" :> <<"ann", "far">>) @@ ("both" :> <<"team", "bob">>)
               @@ ("loop" :> <<"pool">>) @@ ("pool" :> <<"loop">>)
SmtpLocal == {"ann", "bob", "team", "both", "rob", "gone", "loop", "pool"}
SmtpAccounts == ("ann" :> "ann") @@ ("bob" :> "bob") @@ ("rob" :> "bob")
SmtpDirectories == {<<>>, "ann" :> <<"ann">>, "ann" :> <<"far", "bob">>, "rob" :> <<"ann", "ann">>}

S == INSTANCE SmtpSession WITH
       cfg <- x1, slots <- x2, sess <- x3, queue <- x4,
       Conns <- {"c1"}, IPs <- {"i", "j"}, MaxTotal <- 2, MaxPerIP <- 1,
       MaxRecipients <- 2, Configs <- SmtpConfigs, Proxies <- {"j"}, Trusted <- {"j"},
       RelayNets <- {"j"}, LocalRcpt <- SmtpLocal, Accounts <- SmtpAccounts,
       Aliases <- SmtpAliases, Suppressed <- {"bob"},
       Directories <- SmtpDirectories, Rcpts <- {"ann", "far", "rob", "team", "both", "loop"}

SS == INSTANCE SmtpSession WITH
       cfg <- x1, slots <- x2, sess <- x3, queue <- x4,
       Conns <- {"c1", "c2", "c3"}, IPs <- {"i", "j"}, MaxTotal <- 2, MaxPerIP <- 1,
       MaxRecipients <- 2, Configs <- SmtpConfigs, Proxies <- {"j"}, Trusted <- {"j"},
       RelayNets <- {"j"}, LocalRcpt <- SmtpLocal, Accounts <- SmtpAccounts,
       Aliases <- SmtpAliases, Suppressed <- {"bob"},
       Directories <- {}, Rcpts <- {}

-----------------------------------------------------------------------------
(* SPF zones that include and redirect in circles, and DMARC verdicts.     *)

Term(q, mech, to) == [q |-> q, m |-> mech, to |-> to]
SpfTerms == {Term("+", "hit", ""), Term("-", "hit", ""), Term("~", "miss", ""),
             Term("+", "include", "b"), Term("-", "include", "a"),
             Term("?", "include", "c"), Term("+", "include", "")}
SpfShort == {<<>>} \cup {<<t>> : t \in SpfTerms}
SpfLong == SpfShort \cup {<<t, u>> : t \in SpfTerms, u \in SpfTerms}
SpfBroken == {[error |-> TRUE, records |-> <<>>], [error |-> FALSE, records |-> <<>>]}
SpfTwice == {[error |-> FALSE, records |-> <<r, r>>] :
               r \in {[terms |-> <<Term(q, "hit", "")>>, redirect |-> ""] : q \in {"+", "-"}}}
SpfOne(terms, redirects) ==
    {[error |-> FALSE, records |-> <<r>>] : r \in [terms : terms, redirect : redirects]}
SpfZones ==
    {[d \in {"a", "b", "c"} |-> CASE d = "a" -> x [] d = "b" -> y [] d = "c" -> z] :
       x \in SpfOne(SpfLong, {"", "c"}) \cup SpfBroken \cup SpfTwice,
       y \in SpfOne(SpfShort, {"", "a"}) \cup SpfBroken \cup SpfTwice,
       z \in SpfOne(SpfShort, {"", "a"}) \cup SpfBroken}

DmarcPolicy(p, sp, alignment, pct) ==
    [kind |-> "policy", p |-> p, sp |-> sp, aspf |-> alignment, adkim |-> alignment, pct |-> pct]

A == INSTANCE SenderAuth WITH
       zone <- x1, spf <- x2, mail <- x3, fate <- x4,
       Domains <- {"a", "b", "c"}, First <- "a", Zones <- SpfZones, MaxDepth <- 2,
       Froms <- {"org", "sub", "other"},
       Org <- [f \in {"org", "sub", "other"} |-> IF f = "sub" THEN "org" ELSE f],
       Records <- {[kind |-> "none"], [kind |-> "error"],
                   DmarcPolicy("reject", "absent", "r", 100),
                   DmarcPolicy("quarantine", "reject", "s", 1),
                   DmarcPolicy("none", "quarantine", "r", 0)},
       Buckets <- {0, 1}

-----------------------------------------------------------------------------
(* Quotas, greylisting and outbreaks.                                      *)

G == INSTANCE Gates WITH
       now <- x1, buckets <- x2, spent <- x3, triplets <- x4, white <- x5,
       check <- x6, cleaner <- x7, passed <- x8, met <- x9, verdict <- x10,
       seen <- x11, arrivals <- x12, held <- x13,
       Users <- {"u1", "u2"}, Domain <- [u \in {"u1", "u2"} |-> "d"],
       UserMax <- 2, DomainMax <- 3, Counts <- {1, 2}, Hour <- 2,
       Triplets <- {"t"}, Checks <- {"k1", "k2"}, RetryDelay <- 1, Expiry <- 2,
       WhitelistTTL <- 3, Bodies <- {"x", "y"}, BurstWindow <- 2, Threshold <- 3,
       MaxBurst <- 4, MaxTime <- 6

GG == INSTANCE Gates WITH
       now <- x1, buckets <- x2, spent <- x3, triplets <- x4, white <- x5,
       check <- x6, cleaner <- x7, passed <- x8, met <- x9, verdict <- x10,
       seen <- x11, arrivals <- x12, held <- x13,
       Users <- {"u1", "u2"}, Domain <- [u \in {"u1", "u2"} |-> "d"],
       UserMax <- 2, DomainMax <- 3, Counts <- {1, 2}, Hour <- 2,
       Triplets <- {"t"}, Checks <- {"k1", "k2"}, RetryDelay <- 1, Expiry <- 2,
       WhitelistTTL <- 3, Bodies <- {"x", "y"}, BurstWindow <- 2, Threshold <- 3,
       MaxBurst <- 4, MaxTime <- 8

-----------------------------------------------------------------------------
(* Plugins, malware and content scanners, reputation, retries, bounces.    *)

Headers(s) == [i \in DOMAIN s |-> [name |-> s[i], id |-> i]]
ArcNames == {"ARC-Authentication-Results", "ARC-Message-Signature", "ARC-Seal"}
ArcFirst == <<"ARC-Seal", "ARC-Message-Signature", "ARC-Authentication-Results", "Subject">>
At(names, v) == [n \in names |-> v]

ScanMessages == {Headers(<<"Subject">>), Headers(ArcFirst),
                 Headers(<<"X-Spam", "Subject", "X-Spam", "X-Spam">>)}
ScanSettings == [clam : BOOLEAN, malwareRequired : BOOLEAN, scanner : BOOLEAN,
                 scannerRequired : BOOLEAN, arc : BOOLEAN]
AllOn == [clam |-> TRUE, malwareRequired |-> TRUE, scanner |-> TRUE,
          scannerRequired |-> TRUE, arc |-> TRUE]
Answer == [transport |-> "ok", offset |-> "none", action |-> "no action",
           otherOps |-> FALSE, reject |-> "none", remove |-> At({}, 0),
           add |-> At(ArcNames, <<0>>), replacement |-> Headers(<<"Subject">>)]
Verdicts ==
    {[Answer EXCEPT !.transport = t, !.offset = o, !.action = a, !.otherOps = x, !.reject = j] :
       t \in {"ok", "error"}, o \in {"none", "bad", "good"},
       a \in {"no action", "greylist", "add header", "rewrite subject", "soft reject",
              "reject", "quarantine", "odd"},
       x \in BOOLEAN, j \in {"none", "", "reject", "quarantine", "odd"}}
Removals == {At({}, 0)} \cup [{"X-Spam"} -> -3 .. 3]
            \cup [{"X-Spam", "Subject"} -> {-1, 0, 2}] \cup [{"ARC-Seal"} -> {0, 1}]
Additions ==
    {At({}, <<0>>), At(ArcNames, <<0>>), At(ArcNames \cup {"X-Spam"}, <<0>>),
     At({"ARC-Authentication-Results", "ARC-Message-Signature", "arc-seal"}, <<0>>),
     At(ArcNames \cup {"X-Spam"}, <<0>>) @@ At({"Subject"}, <<2>>), At({"X-Spam"}, <<0, 1, 9>>),
     At({"X-Spam"}, <<-1>>), At(ArcNames \cup {"arc-seal", "Subject"}, <<0>>),
     At({"ARC-Seal"}, <<0, 0>>)}
Rewrites ==
    {[Answer EXCEPT !.offset = o, !.action = a, !.remove = r, !.add = d, !.replacement = p] :
       o \in {"none", "good"}, a \in {"no action", "add header", "rewrite subject", "quarantine"},
       r \in Removals, d \in Additions,
       p \in {Headers(<<"Subject">>), [i \in 1 .. 4 |-> [name |-> ArcFirst[i], id |-> 0]]}}
Clean == [clam |-> "done", infected |-> FALSE, size |-> 3]
MalwareScans == [clam : {"done"}, infected : BOOLEAN, size : 0 .. 5]
                \cup [clam : {"torn", "limit"}, infected : {TRUE}, size : {5}]
ScanGroups ==
    {[messages |-> {Headers(<<"Subject">>)}, scans |-> MalwareScans,
      settings |-> ScanSettings, answers |-> {Answer}],
     [messages |-> {Headers(<<"Subject">>)}, scans |-> {Clean}, answers |-> Verdicts,
      settings |-> {t \in ScanSettings : t.clam /\ t.malwareRequired}],
     [messages |-> ScanMessages, scans |-> {Clean}, answers |-> Rewrites,
      settings |-> {AllOn, [AllOn EXCEPT !.arc = FALSE]}]}

PluginChains ==
    UNION {[1 .. n -> [required : BOOLEAN,
                       reply : {"error", "odd", "allow", "reject", "defer", "quarantine"}]] :
             n \in 0 .. 3}

ReputationRows ==
    {<<>>} \cup {<<r>> : r \in [score : {-1, 0, 20, 80, 100, 101}, age : {0, 7, 8},
                                blocked : BOOLEAN, known : BOOLEAN,
                                expires : {"none", "past", "future"}]}

RetryBacklogs ==
    UNION {{[i \in 1 .. n |-> [domain |-> d[i], created |-> p[i]]] :
              d \in [1 .. n -> {"a", "b", "c"}], p \in Permutations(1 .. n)} : n \in 0 .. 4}

Texts == {<<>>, <<"char">>, <<"char", "char">>, <<"char", "control">>,
          <<"control", "char">>, <<"char", "blank">>}

N == INSTANCE Screening WITH
       case <- x1,
       Chains <- PluginChains, Groups <- ScanGroups, Chunk <- 2,
       Lookups <- [source : {"none", "premail", "service"}, row : ReputationRows,
                   required : BOOLEAN, threshold : {0, 1, 50}],
       Week <- 7, Backlogs <- RetryBacklogs, InitialDelay <- 1, MaxDelay <- 10,
       MaxAttempts <- 5, MaxHeaderBytes <- 2,
       Failures <- [code : {0, 250, 421, 450, 452, 499, 500, 550, 552, 554, 571},
                    mailbox : BOOLEAN, permanent : BOOLEAN,
                    action : {"", "delayed", "delivered", "relayed"}, envelope : Texts,
                    recipient : Texts, returnFull : BOOLEAN, fullMax : {0, 3},
                    size : {3, 4}, include : BOOLEAN, headerEnd : {2, 3}]

-----------------------------------------------------------------------------
(* Sieve scripts and site policies.                                        *)

Do(c, target, copy) == [c |-> c, target |-> target, copy |-> copy]
Away(text, handle) == [c |-> "vacation", target |-> text, handle |-> handle]
If(test, then, else) == [c |-> "if", test |-> test, then |-> then, else |-> else]
SieveScripts ==
    [s1 |-> <<Away("away", "h"), Do("redirect", "x", TRUE), Do("fileinto", "F", FALSE),
              Do("keep", "INBOX", FALSE), Do("discard", "", FALSE),
              If("t1", <<>>, <<Do("keep", "INBOX", FALSE)>>)>>,
     s2 |-> <<Away("away", ""),
              If("t1", <<Do("redirect", "y", FALSE), Do("stop", "", FALSE)>>,
                       <<Do("redirect", "x", TRUE)>>),
              Do("fileinto", "F", FALSE), Do("fileinto", "F", FALSE)>>,
     s3 |-> <<If("t1", <<Do("reject", "", FALSE)>>, <<>>), Do("redirect", "x", TRUE),
              If("t2", <<>>, <<>>), Away("later", "h")>>]

SieveMessage ==
    [x \in {"m1", "m2", "m3"} |->
       [from |-> "s", holds |-> IF x = "m1" THEN {"t1"} ELSE {},
        broken |-> IF x = "m3" THEN {"t2"} ELSE {}, quarantine |-> x = "m3", personal |-> TRUE]]

V == INSTANCE SieveDelivery WITH
       now <- x1, edits <- x2, script <- x3, plans <- x4, markers <- x5,
       intervals <- x6, job <- x7, tries <- x8, done <- x9, plain <- x10,
       copies <- x11, sent <- x12,
       Scripts <- SieveScripts, First <- "s1",
       Messages <- [x \in {"m1", "m2"} |-> SieveMessage[x]],
       MaxActions <- 5, Days <- 1, MaxEdits <- 1, MaxTime <- 1, MaxTries <- 3

VV == INSTANCE SieveDelivery WITH
       now <- x1, edits <- x2, script <- x3, plans <- x4, markers <- x5,
       intervals <- x6, job <- x7, tries <- x8, done <- x9, plain <- x10,
       copies <- x11, sent <- x12,
       Scripts <- SieveScripts, First <- "absent",
       Messages <- [x \in {"m1", "m3"} |-> SieveMessage[x]],
       MaxActions <- 5, Days <- 1, MaxEdits <- 2, MaxTime <- 0, MaxTries <- 3

Starlark(name, priority, scope, calls) ==
    [name |-> name, type |-> "starlark", enabled |-> TRUE, priority |-> priority,
     scope |-> scope, path |-> FALSE, script |-> calls]
Builtin(b, type) == [b |-> b, type |-> type]
AddHeader(h) == [b |-> "header", header |-> h]
Marks == Starlark("p", 1, "global", <<AddHeader("h1"), Builtin("inspect", ""), Builtin("lookup", "")>>)

P == INSTANCE Policies WITH
       list <- x1, file <- x2, doubt <- x3, ops <- x4, last <- x5,
       Templates <-
         {Marks,
          Starlark("p", 2, "inbound", <<Builtin("action", "reject"), Builtin("action", "accept")>>),
          Starlark("q", 1, "inbound", <<Builtin("lookup", ""), Builtin("lookup", "")>>),
          Starlark("q", 3, "global", <<Builtin("extended", "quarantine"), AddHeader("h2")>>),
          Starlark("r", 2, "global", <<Builtin("routing", "divert_to"), AddHeader("invalid")>>),
          Starlark("r", 1, "inbound", <<Builtin("action", "discard"), Builtin("raise", "")>>),
          [name |-> "s", type |-> "sieve", enabled |-> TRUE, priority |-> 2,
           scope |-> "inbound", path |-> FALSE, multi |-> TRUE, action |-> "keep"],
          [Starlark("q", 1, "global", <<Builtin("action", "reject")>>) EXCEPT !.enabled = FALSE]},
       Bootstrap <- <<[Marks EXCEPT !.path = TRUE],
                      [Starlark("t", 1, "global", <<>>) EXCEPT !.enabled = FALSE, !.path = TRUE]>>, Scopes <- {{"inbound"}, {"outbound"}},
       MaxLookups <- 1, MaxOps <- 3

-----------------------------------------------------------------------------
(* Relay: one domain with an MTA-STS policy and two hosts, one with routes;*)
(* a throttle table with room for one domain; DANE; the MX cache.          *)

Found(hosts) == [err |-> "none", recs |-> hosts]
Failing(e) == [err |-> e, recs |-> <<>>]
Mode(mode) == [mode |-> mode, hosts |-> {"h1"}, until |-> 0]
Route(domain, sender, priority, hops) ==
    [domain |-> domain, sender |-> sender, priority |-> priority, hops |-> hops]

O == INSTANCE Outbound WITH
       now <- x1, dest <- x2, sts <- x3, stsFile <- x4, job <- x5,
       jobs <- x6, cool <- x7,
       Workers <- {w1, w2}, Domains <- {"d", "e"}, Senders <- {"", "s"},
       Routes <- <<Route("*e", "", 1, <<"r1">>), Route("*e", "s", 2, <<"r2", "r1">>)>>,
       Matches <- [p \in {"*e"} |-> [d \in {"d", "e"} |-> IF d = "d" THEN -1 ELSE 1]],
       Mx <- [d \in {"d", "e"} |->
                IF d = "d" THEN {Found(<<[host |-> "h2", pref |-> 20], [host |-> "h1", pref |-> 10]>>),
                                 Failing("temporary"), Failing("permanent")}
                ELSE {Found(<<[host |-> "h1", pref |-> 10]>>)}],
       Published <- [d \in {"d", "e"} |-> IF d = "d" THEN {Mode("enforce"), Mode("testing")} ELSE {}],
       Valid <- {"h1", "r1"}, Concurrency <- 2, MaxDestinations <- 1, InitialBackoff <- 1,
       MaxBackoff <- 1, PolicyAge <- 1, MaxTime <- 1, MaxJobs <- 2

\* The throttle alone: backoff doubles, and idle destinations are dropped.
OO == INSTANCE Outbound WITH
        now <- x1, dest <- x2, sts <- x3, stsFile <- x4, job <- x5,
        jobs <- x6, cool <- x7,
        Workers <- {w1, w2}, Domains <- {"d", "e"}, Senders <- {""}, Routes <- <<>>,
        Matches <- <<>>, Mx <- [d \in {"d", "e"} |-> {Found(<<[host |-> "h1", pref |-> 10]>>)}],
        Published <- [d \in {"d", "e"} |-> {}], Valid <- {"h1"}, Concurrency <- 2,
        MaxDestinations <- 1, InitialBackoff <- 1, MaxBackoff <- 2, PolicyAge <- 2,
        MaxTime <- 6, MaxJobs <- 4

Tlsa(usage, data, wellformed) == [usage |-> usage, data |-> data, wellformed |-> wellformed]
Reply(rcode, proof, records) == [rcode |-> rcode, proof |-> proof, tlsa |-> records, ttl |-> 1]

D == INSTANCE Dane WITH
       now <- x1, zone <- x2, dnssec <- x3, tlsa <- x4, conn <- x5,
       Answers <- {Reply("ok", "ad", {Tlsa(3, "k1", TRUE)}),
                   Reply("ok", "signed", {Tlsa(2, "ca", TRUE), Tlsa(3, "k2", FALSE)}),
                   Reply("ok", "forged", {Tlsa(3, "k2", TRUE)}),
                   Reply("ok", "unsigned", {Tlsa(0, "k1", TRUE)}),
                   Reply("nxdomain", "ad", {}), Reply("servfail", "unsigned", {}),
                   Reply("ok", "ad", {Tlsa(4, "k1", TRUE)})},
       Chains <- {<<[data |-> "k1", ca |-> FALSE]>>,
                  <<[data |-> "k2", ca |-> FALSE], [data |-> "ca", ca |-> TRUE]>>},
       DefaultTTL <- 1, Strict <- FALSE, MaxTime <- 3

R == INSTANCE Resolver WITH
       now <- x1, zone <- x2, cache <- x3, flight <- x4, call <- x5,
       Callers <- {c1, c2}, Names <- {"a", "b"}, Capacity <- 1, TTL <- 2, NegativeTTL <- 1,
       Timeout <- 1, MaxDepth <- 2, MaxTime <- 2

RR == INSTANCE Resolver WITH
       now <- x1, zone <- x2, cache <- x3, flight <- x4, call <- x5,
       Callers <- {c1, c2}, Names <- {"a", "b", "c"}, Capacity <- 1, TTL <- 2,
       NegativeTTL <- 1, Timeout <- 1, MaxDepth <- 2, MaxTime <- 4

PlainZones == R!Init /\ \A d \in {"a", "b"} : x2[d].kind \in {"nx", "mx", "fail"}

-----------------------------------------------------------------------------
(* Mailstorm: pauses with every limit at one, and bursts over time.        *)

M == INSTANCE Mailstorm WITH
       now <- x1, buckets <- x2, circuits <- x3, disk <- x4, global <- x5,
       held <- x6, unsure <- x7, log <- x8, Keys <- {"a", "b"}, Prints <- {"f"},
       Batches <- {}, Window <- 1, Messages <- 1, Recipients <- 1, GlobalMessages <- 1,
       DuplicateLimit <- 1, TripAfter <- 1, Cooldown <- 1, MaxCooldown <- 1,
       BaselineWindows <- 1, MaxIdentities <- 1, Durations <- {2}, MaxTrips <- 2, MaxTime <- 2

MM == INSTANCE Mailstorm WITH
       now <- x1, buckets <- x2, circuits <- x3, disk <- x4, global <- x5,
       held <- x6, unsure <- x7, log <- x8, Keys <- {"a", "b"}, Prints <- {"f"},
       Batches <- {2}, Window <- 3, Messages <- 2, Recipients <- 3, GlobalMessages <- 4,
       DuplicateLimit <- 2, TripAfter <- 1, Cooldown <- 1, MaxCooldown <- 1,
       BaselineWindows <- 1, MaxIdentities <- 1, Durations <- {}, MaxTrips <- 1, MaxTime <- 3

-----------------------------------------------------------------------------
(* Aggregate reports, the pre-mail proxy, and AMP.                         *)

E == INSTANCE Reports WITH
       day <- x1, files <- x2, rec <- x3, wrote <- x4, snd <- x5, got <- x6,
       rounds <- x7, tfiles <- x8, trec <- x9, tsnd <- x10, tgot <- x11,
       tlost <- x12, tnext <- x13,
       Recorders <- {"r1"}, Kinds <- {"k1", "k2"}, MaxRows <- 1, Uris <- <<"a", "b">>,
       MaxDays <- 2, MaxRecords <- 3, MaxSends <- 2

EE == INSTANCE Reports WITH
       day <- x1, files <- x2, rec <- x3, wrote <- x4, snd <- x5, got <- x6,
       rounds <- x7, tfiles <- x8, trec <- x9, tsnd <- x10, tgot <- x11,
       tlost <- x12, tnext <- x13,
       Recorders <- {"r1", "r2"}, Kinds <- {"k1", "k2"}, MaxRows <- 1, Uris <- <<"a", "b">>,
       MaxDays <- 4, MaxRecords <- 3, MaxSends <- 2

PreMetrics ==
    [preBanner : BOOLEAN, invalid : 0 .. 1, helo : {"none", "ok", "malformed"},
     messages : {0, 6, 11}, quick : BOOLEAN, auth : BOOLEAN, failures : {0, 1, 4},
     recipients : {0, 51}, size : {"odd", "usual"}, steady : BOOLEAN, timings : {2, 3, 6},
     identical : BOOLEAN, hour : {1, 2, 6}, commands : {1}]
PreHistory(total, lately, class, blocked, top, recent) ==
    [total |-> total, lately |-> lately, fast |-> lately, class |-> class,
     blocked |-> blocked, top |-> top, recent |-> recent]
PreHistories == {PreHistory(0, FALSE, "unknown", FALSE, FALSE, FALSE),
                 PreHistory(200, TRUE, "clean", FALSE, TRUE, FALSE),
                 PreHistory(5, TRUE, "blocklisted", TRUE, FALSE, TRUE)}

B == INSTANCE Premail WITH
       card <- x1, conn <- x1, slots <- x2, tracked <- x3, lists <- x4,
       rows <- x5, now <- x6, file <- x1, versions <- x2, backups <- x3,
       task <- x4, saves <- x5, hurt <- x6,
       Metrics <- PreMetrics, Histories <- PreHistories, Conns <- {1, 2},
       Source <- [c \in {1, 2} |-> "i"], MaxConns <- 2, ScoreAfter <- 1, HalfHour <- 1,
       Hour <- 1, Day <- 1, MaxTime <- 1, Settings <- {"a", "b"}, Faulty <- FALSE,
       Seconds <- {0}, MaxSaves <- 3, MaxBackups <- 1

BB == INSTANCE Premail WITH
       card <- x1, conn <- x1, slots <- x2, tracked <- x3, lists <- x4,
       rows <- x5, now <- x6, file <- x1, versions <- x2, backups <- x3,
       task <- x4, saves <- x5, hurt <- x6,
       Metrics <- PreMetrics, Histories <- PreHistories, Conns <- {1, 2},
       Source <- [c \in {1, 2} |-> "i"], MaxConns <- 1, ScoreAfter <- 2, HalfHour <- 1,
       Hour <- 1, Day <- 1, MaxTime <- 1, Settings <- {"a", "b"}, Faulty <- TRUE,
       Seconds <- {0}, MaxSaves <- 3, MaxBackups <- 1

Login(key, n) == [did |-> "d", key |-> key, n |-> n]
Envelope(id, to, via) == [id |-> id, from |-> "d", to |-> to, signer |-> "k", via |-> via]

L == INSTANCE Amp WITH
       identities <- x1, held <- x2, changes <- x3, challenges <- x4,
       issued <- x5, login <- x6, tokens <- x7, now <- x8, delivery <- x9,
       queue <- x10, life <- x11, session <- x1,
       DIDs <- {"d", "e"}, Keys <- {"k", "k2"}, MaxNonces <- 2, Lifetime <- 1, MaxTime <- 2,
       Logins <- {Login("k", 1), Login("k2", 2)}, Messages <- {}, MaxStreams <- 1,
       MaxChanges <- 2, Addresses <- {"x", "y"}

LL == INSTANCE Amp WITH
       identities <- x1, held <- x2, changes <- x3, challenges <- x4,
       issued <- x5, login <- x6, tokens <- x7, now <- x8, delivery <- x9,
       queue <- x10, life <- x11, session <- x1,
       DIDs <- {"d", "e"}, Keys <- {"k", "k2"}, MaxNonces <- 2, Lifetime <- 1, MaxTime <- 0,
       Logins <- {}, Messages <- {Envelope(1, "e", "grpc"), Envelope(2, "e", "quic"),
                                  Envelope(3, "d", "quic")},
       MaxStreams <- 1, MaxChanges <- 2, Addresses <- {"x", "y"}

-----------------------------------------------------------------------------
(* Addresses, restrictions, routing rules, regions and mail groups.        *)

AliasNames == {"a", "b", "c"}
AliasTargets == UNION {[1 .. n -> {"a", "b", "c", "ann", "bob", "eve"}] : n \in 0 .. 1}
                \cup {<<"b", "c">>, <<"b", "b">>, <<"ann", "bob">>, <<"c", "ann">>}
AliasTables == UNION {[names -> AliasTargets] : names \in {{}, {"a"}, {"a", "b"}, AliasNames}}

HeaderLines == {[kind |-> "field", name |-> "Bcc"], [kind |-> "field", name |-> "To"],
                [kind |-> "cont", name |-> ""], [kind |-> "plain", name |-> ""],
                [kind |-> "blank", name |-> ""]}
HeaderBlocks ==
    {[i \in DOMAIN s |-> [kind |-> s[i].kind, name |-> s[i].name, id |-> i]] :
       s \in UNION {[1 .. n -> HeaderLines] : n \in 0 .. 4}}

Line(keys, result, parses, clean) ==
    [keys |-> keys, result |-> result, parses |-> parses, clean |-> clean]
AccessLines == <<Line({"ip"}, "HOLD", FALSE, TRUE), Line({"ip"}, "OK", TRUE, TRUE),
                 Line({"ip", "local"}, "554", TRUE, FALSE), Line({"other"}, "odd", TRUE, TRUE)>>
AccessMaps == {[type |-> t, lines |-> AccessLines, value |-> "DEFER"] :
                 t \in {"hash", "cidr", "regexp", "static", "inline", "fail"}}
Rule(kind) == [kind |-> kind]
MapRules == [kind : {"check_access"}, of : {"client"}, map : AccessMaps]
            \cup [kind : {"check_access"}, of : {"recipient"}, map : {m \in AccessMaps : m.type = "cidr"}]
Guard == Rule("reject_unauth_destination")
Class(list) == [kind |-> "class", restrictions |-> list]
AccessRules ==
    {Rule(k) : k \in {"permit", "reject", "defer", "permit_mynetworks", "defer_if_permit",
                      "permit_sasl_authenticated", "permit_auth_destination"}}
    \cup MapRules \cup {Guard, Class(<<>>), Class(<<Guard, Rule("permit")>>),
                        Class(<<Rule("permit_auth_destination"), Rule("permit_mynetworks")>>)}
    \cup [kind : {"reject_unknown", "reject_listed"}, of : {"client", "recipient"}]
AccessClients ==
    {[authenticated |-> a, mynetworks |-> n, recipient |-> r,
      unknown |-> [client |-> u, recipient |-> "no"], listed |-> [client |-> "no", recipient |-> u],
      key |-> [client |-> "ip", recipient |-> r]] :
       a \in BOOLEAN, n \in BOOLEAN, r \in {"local", "other", "none"}, u \in {"yes", "no"}}

Ann == [user |-> "ann", domains |-> <<"d1">>]
Bob == [user |-> "bob", domains |-> <<"d1", "d2">>]
Screen(enabled, type, value, direction, watchers) ==
    [enabled |-> enabled, type |-> type, value |-> value, direction |-> direction,
     watchers |-> watchers]
ScreenPool ==
    {Screen(TRUE, "user", Ann, "inbound", {"w1"}), Screen(TRUE, "group", "staff", "both", {"w2", "w3"}),
     Screen(TRUE, "group", "gone", "outbound", {"w1"}), Screen(TRUE, "domain", "d1", "", {"w3"}),
     Screen(FALSE, "sender", Ann, "", {"w1"}), Screen(TRUE, "content", "key", "", {"w2"}),
     Screen(TRUE, "sender", Bob, "", {"w1", "w2"}), Screen(TRUE, "odd", "", "", {"w3"})}
ScreenLists == {<<>>} \cup {<<r>> : r \in ScreenPool}
               \cup {<<Screen(TRUE, "domain", "d1", "", {"w3"}), Screen(TRUE, "sender", Bob, "", {"w1", "w2"})>>}
Divert(enabled, today, type, value, target) ==
    [enabled |-> enabled, today |-> today, type |-> type, value |-> value, target |-> target]
DivertPool ==
    {Divert(TRUE, TRUE, "recipient", Ann, "t1"), Divert(TRUE, TRUE, "domain", "d2", "t2"),
     Divert(FALSE, TRUE, "sender", Ann, "t3"), Divert(TRUE, FALSE, "sender", Ann, "t3"),
     Divert(TRUE, TRUE, "group", "staff", "t1"), Divert(TRUE, TRUE, "group", "gone", "t2"),
     Divert(TRUE, TRUE, "content", "key", "t3"), Divert(TRUE, TRUE, "odd", "", "t1")}
UpToTwo(pool) == UNION {[1 .. n -> pool] : n \in 0 .. 2}

Regions(n) == {[i \in 1 .. n |-> [name |-> <<"r1", "r2", "r3">>[i], healthy |-> h[i],
                                  weight |-> w[i], load |-> l[i], latency |-> t[i], near |-> i = 2,
                                  cost |-> <<"same", "near", "far">>[i], queue |-> q[i]]] :
                 h \in [1 .. n -> BOOLEAN], w \in [1 .. n -> {0, 1, 3}], l \in [1 .. n -> {2, 7}],
                 t \in [1 .. n -> {0, 150}], q \in {[i \in 1 .. n |-> 0], [i \in 1 .. n |-> i * 600]}}

W == INSTANCE Routing WITH
       input <- x1, objects <- x1, current <- x2, file <- x3,
       clearing <- x4, calls <- x5, edits <- x6, now <- x7,
       AliasTables <- AliasTables, MaxSeen <- 2, MaxOut <- 3,
       Mailboxes <- [ann |-> "ann@x", bob |-> "bob@x"], HeaderBlocks <- HeaderBlocks,
       Restrictions <- AccessRules, MaxList <- 2, Clients <- AccessClients,
       Messages <- [from : {Ann, Bob}, to : {Ann, Bob}, words : {{}, {"key"}}],
       ScreenRules <- ScreenLists, DivertRules <- UpToTwo(DivertPool), MaxWatchers <- 2,
       Members <- [staff |-> {Ann}], RegionLists <- Regions(1) \cup Regions(2),
       Callers <- {c1, c2}, Lists <- {<<>>, <<"ann">>},
       MaxObjects <- 2, MaxEdits <- 1, MaxTime <- 2, TTL <- 1

-----------------------------------------------------------------------------
(* The cells after the first k are not used.                               *)
Unused(k) ==
    /\ (k < 2 => x2 = 0) /\ (k < 3 => x3 = 0) /\ (k < 4 => x4 = 0)
    /\ (k < 5 => x5 = 0) /\ (k < 6 => x6 = 0) /\ (k < 7 => x7 = 0)
    /\ (k < 8 => x8 = 0) /\ (k < 9 => x9 = 0) /\ (k < 10 => x10 = 0)
    /\ (k < 11 => x11 = 0) /\ (k < 12 => x12 = 0) /\ (k < 13 => x13 = 0)

Untouched(k) ==
    /\ (k < 2 => x2' = x2) /\ (k < 3 => x3' = x3) /\ (k < 4 => x4' = x4)
    /\ (k < 5 => x5' = x5) /\ (k < 6 => x6' = x6) /\ (k < 7 => x7' = x7)
    /\ (k < 8 => x8' = x8) /\ (k < 9 => x9' = x9) /\ (k < 10 => x10' = x10)
    /\ (k < 11 => x11' = x11) /\ (k < 12 => x12' = x12)
    /\ (k < 13 => x13' = x13)

MCInit ==
    \/ focus = "session" /\ S!Init /\ Unused(4)
    \/ focus = "slots" /\ SS!Init /\ Unused(4)
    \/ focus = "spf" /\ A!SpfInit /\ Unused(4)
    \/ focus = "dmarc" /\ A!DmarcInit /\ Unused(4)
    \/ focus = "quota" /\ G!Init
    \/ focus = "grey" /\ GG!Init
    \/ focus = "spread" /\ G!Init
    \/ focus = "plugins" /\ N!PluginInit /\ Unused(1)
    \/ focus = "scans" /\ N!ScanInit /\ Unused(1)
    \/ focus = "lookup" /\ N!LookupInit /\ Unused(1)
    \/ focus = "backlog" /\ N!BacklogInit /\ Unused(1)
    \/ focus = "bounce" /\ N!FailureInit /\ Unused(1)
    \/ focus = "sieve" /\ V!Init /\ Unused(12)
    \/ focus = "junk" /\ VV!Init /\ Unused(12)
    \/ focus = "policies" /\ P!Init /\ Unused(5)
    \/ focus = "relay" /\ O!Init /\ Unused(7)
    \/ focus = "backoff" /\ OO!Init /\ Unused(7)
    \/ focus = "dane" /\ D!Init /\ Unused(5)
    \/ focus = "resolver" /\ PlainZones /\ Unused(5)
    \/ focus = "zones" /\ RR!Init /\ Unused(5)
    \/ focus = "pauses" /\ M!Init /\ Unused(8)
    \/ focus = "bursts" /\ MM!Init /\ Unused(8)
    \/ focus = "reports" /\ E!Init /\ Unused(13)
    \/ focus = "tlsReports" /\ EE!Init /\ Unused(13)
    \/ focus = "score" /\ B!ScoreInit /\ Unused(1)
    \/ focus = "proxy" /\ B!ProxyInit /\ Unused(6)
    \/ focus = "faults" /\ BB!ProxyInit /\ Unused(6)
    \/ focus = "tuning" /\ B!ConfigInit /\ Unused(6)
    \/ focus = "login" /\ L!AmpInit /\ Unused(11)
    \/ focus = "submit" /\ LL!AmpInit /\ Unused(11)
    \/ focus = "bridge" /\ L!SessionInit /\ Unused(1)
    \/ focus = "addresses" /\ W!AddressInit /\ Unused(1)
    \/ focus = "fields" /\ W!HeaderInit /\ Unused(1)
    \/ focus = "access" /\ W!AccessInit /\ Unused(1)
    \/ focus = "rules" /\ W!PipelineInit /\ Unused(1)
    \/ focus = "regions" /\ W!RegionInit /\ Unused(1)
    \/ focus = "groups" /\ W!GroupInit /\ Unused(7)

MCNext ==
    /\ \/ focus = "session" /\ S!Next /\ Untouched(4)
       \/ focus = "slots" /\ SS!Next /\ Untouched(4)
       \/ focus = "spf" /\ A!SpfNext /\ Untouched(4)
       \/ focus = "dmarc" /\ A!DmarcNext /\ Untouched(4)
       \/ focus = "quota" /\ G!QuotaNext
       \/ focus = "grey" /\ GG!GreyNext
       \/ focus = "spread" /\ G!SpreadNext
       \/ focus = "sieve" /\ V!Next /\ Untouched(12)
       \/ focus = "junk" /\ VV!Next /\ Untouched(12)
       \/ focus = "policies" /\ P!Next /\ Untouched(5)
       \/ focus = "relay" /\ O!Next /\ Untouched(7)
       \/ focus = "backoff" /\ OO!Next /\ Untouched(7)
       \/ focus = "dane" /\ D!Next /\ Untouched(5)
       \/ focus = "resolver" /\ R!Next /\ Untouched(5)
       \/ focus = "pauses" /\ M!Next /\ Untouched(8)
       \/ focus = "bursts" /\ MM!Next /\ Untouched(8)
       \/ focus = "reports" /\ E!DmarcNext /\ Untouched(13)
       \/ focus = "tlsReports" /\ EE!TLSNext /\ Untouched(13)
       \/ focus = "proxy" /\ B!ProxyNext /\ Untouched(6)
       \/ focus = "faults" /\ BB!ProxyNext /\ Untouched(6)
       \/ focus = "tuning" /\ B!ConfigNext /\ Untouched(6)
       \/ focus = "login" /\ L!AmpNext /\ Untouched(11)
       \/ focus = "submit" /\ LL!AmpNext /\ Untouched(11)
       \/ focus = "bridge" /\ L!SessionNext /\ Untouched(1)
       \/ focus = "groups" /\ W!GroupNext /\ Untouched(7)
    /\ UNCHANGED focus

allVars == <<focus, x1, x2, x3, x4, x5, x6, x7, x8, x9, x10, x11, x12, x13>>

MCSpec == MCInit /\ [][MCNext]_allVars

-----------------------------------------------------------------------------
(* Admission.  SMTP: a connection holds a slot while it is open and no     *)
(* longer, and a message in the queue passed every stage its listener      *)
(* requires (smtpd/server.go).  Quotas admit what the hour allows, and     *)
(* outbreaks hold exactly the bodies over the threshold.  A paused sender  *)
(* stays paused, and bursts keep to the limits (mailstorm/guard.go).  AMP  *)
(* gives tokens for signed challenges only, and answers a message with     *)
(* success only when it is queued; the bridge delivers what was named.     *)
(* Aliases expand to what they reach, and the restrictions of a stage      *)
(* decide in their order (auth.go, access/restrictions.go).                *)
Admitted ==
    /\ focus = "session" => S!SlotsKept /\ S!AcceptedChecked
    /\ focus = "slots" => SS!SlotsKept /\ SS!AcceptedChecked
    /\ focus = "quota" => G!QuotasExact
    /\ focus = "spread" => G!OutbreaksExact
    /\ focus = "pauses" => M!PausesHold /\ M!BurstsBounded
    /\ focus = "bursts" => MM!PausesHold /\ MM!BurstsBounded
    /\ focus = "login" => L!TokensExplained
    /\ focus = "submit" => LL!TakenIsQueued
    /\ focus = "bridge" => L!BridgedWhole
    /\ focus = "addresses" => W!AddressesExpand
    /\ focus = "access" => W!RestrictionsOrdered

(* Origin.  An SPF verdict is explained by a record that is reached within *)
(* the depth, whatever circles the zones form, and the DMARC disposition   *)
(* applied is the one reported.  The pre-mail proxy scores as its rules    *)
(* say, returns its slots, justifies its lists, keeps whole rows and backs *)
(* up a configuration before it replaces it; a source's reputation grows   *)
(* worse with its score.                                                   *)
OriginJudged ==
    /\ focus = "spf" => A!SpfExplained
    /\ focus = "dmarc" => A!DispositionTrue
    /\ focus = "score" => B!ScoringTrue
    /\ focus = "proxy" => B!SlotsReturned /\ B!ListsJustified /\ B!RowsWhole
    /\ focus = "faults" => BB!SlotsReturned /\ BB!ListsJustified /\ BB!RowsWhole
    /\ focus = "tuning" => B!ConfigBacked
    /\ focus = "lookup" => N!ReputationOrdered

(* Content.  No plugin's or scanner's refusal is overwritten by a later    *)
(* answer, ARC headers end up on top and in order, headers are removed as  *)
(* asked.  The policies in memory are those of the file after every        *)
(* operation, and a listener that requires them fails closed.  Removing a  *)
(* header takes its whole field, and what is watched never changes where a *)
(* message is diverted (smtpd/server.go, routing/pipeline.go).             *)
ContentScreened ==
    /\ focus = "plugins" => N!PluginsHeard
    /\ focus = "scans" => N!ScansHeard /\ N!SealOnTop /\ N!HeadersExact
    /\ focus = "policies" => P!FileDecides /\ P!RequiredHolds
    /\ focus = "fields" => W!FieldsWhole
    /\ focus = "rules" => W!ScreeningTransparent

(* Sieve.  A message is filed by one frozen plan however often delivery is *)
(* retried, vacation replies keep their interval, and no message is lost   *)
(* (smtpd/sieve_actions.go).                                               *)
FiledOnce ==
    /\ focus = "sieve" => V!PlanOnce /\ V!VacationsSpaced /\ V!MailKept
    /\ focus = "junk" => VV!PlanOnce /\ VV!VacationsSpaced /\ VV!MailKept


(* Reports.  Every observation is counted in one report and a report that  *)
(* was sent is never changed, TLS events stay until a destination took     *)
(* them, and a bounce says what happened.                                  *)
Reported ==
    /\ focus = "reports" => E!ObservationsCounted /\ E!ReportsFrozen
    /\ focus = "tlsReports" => EE!TLSEventsKept
    /\ focus = "bounce" => N!ReportsReadable

(* No step delays a sender that passed the greylist, accepts a challenge   *)
(* after its lifetime, or changes a version of the proxy's configuration   *)
(* that was written whole.                                                 *)
StepsKept ==
    [][/\ focus = "grey" => GG!DelayedStep
       /\ focus = "login" => L!ChecksTimely
       /\ focus = "tuning" => B!VersionsKept]_allVars
=============================================================================

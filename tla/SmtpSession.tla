----------------------------- MODULE SmtpSession -----------------------------
(***************************************************************************)
(* The receiving side of SMTP (smtpd/server.go, layered.go, recipients.go, *)
(* proxy.go, internal/filtering, internal/ipfilter, extensions/plugins.go):*)
(* connection slots, the session, the envelope, and the stages of Data.    *)
(* Each stage that asks a service (reputation, plugins, policy, scanners)  *)
(* is a step of its own, so sessions interleave between the stages.  A     *)
(* verdict of a service is an input; what the session does with it is the  *)
(* code's.  The command order is the one go-smtp enforces (external): MAIL *)
(* before RCPT before DATA, AUTH between transactions only, Reset after    *)
(* every DATA, and a fresh session after STARTTLS.                         *)
(***************************************************************************)
EXTENDS Naturals, FiniteSets, Sequences, SequencesExt

CONSTANTS
    Conns,              \* TCP connections
    IPs,
    MaxTotal, MaxPerIP, \* server.max_connections and max_per_ip; 0 is no limit
    MaxRecipients,
    Configs,            \* configurations, see Config below
    Proxies,            \* peers that speak the PROXY protocol, when it is on
    Trusted,            \* peers of the content filter proxy
    RelayNets,          \* peers allowed to relay
    LocalRcpt,          \* addresses in a local domain
    Accounts,           \* address -> address of the enabled account it names
    Directories,        \* what the recipient directory may say: address -> recipients
    Aliases,            \* address -> sequence of addresses
    Suppressed,
    Rcpts               \* addresses clients name in RCPT

\* A configuration says which requirements are switched on.
\*   role       "edge", "submission", "perimeter" or "internal"
\*   required   subset of {"auth", "tls", "reputation", "policy", "malware", "scanner", "plugin", "arc"}
\*   present    subset of {"reputation", "policy", "malware", "scanner", "plugin"}: configured services
\*   enforce    subset of {"spf", "softfail", "dmarc", "zones"}
\*   proxy      the PROXY protocol is on
\*   filter     the content filter proxy is enabled
\*   validate   where recipients are looked up: "store", "directory" or "off"

VARIABLES
    cfg,                \* the configuration, fixed
    slots,              \* connectionLimiter.byIP; total is its sum
    sess,               \* the session of each connection
    queue               \* history: the message the last step queued, if it did

vars == <<cfg, slots, sess, queue>>

NoMsg == [stage |-> "none"]
Closed == [open |-> FALSE, tls |-> FALSE]

Init ==
    /\ cfg \in Configs
    /\ slots = [i \in IPs |-> 0]
    /\ sess = [c \in Conns |-> Closed]
    /\ queue = NoMsg

Total == FoldLeft(LAMBDA n, i : n + slots[i], 0, SetToSeq(IPs))

-----------------------------------------------------------------------------
(* Connections.                                                            *)

\* connectionLimiter.acquire
Admits(ip) ==
    /\ MaxTotal > 0 => Total < MaxTotal
    /\ MaxPerIP > 0 => slots[ip] < MaxPerIP

\* ipfilter.Check: the deny list before the allow list before the zones.  An
\* answer outside 127/8 or within 127.255.255/24 is a failure of the zone.
FilterCode(deny, allow, zones, deferOnError) ==
    CASE deny -> 554
      [] ~deny /\ allow -> 0
      [] OTHER ->
            LET listed == {i \in DOMAIN zones : zones[i] = "listed"}
                failed == {i \in DOMAIN zones : zones[i] = "error"}
            IN  IF listed # {} THEN 554 ELSE IF failed # {} /\ deferOnError THEN 451 ELSE 0

TrustedFilter(peer) == cfg.filter /\ peer \in Trusted

\* The peer of a connection is the client itself, or a proxy that named it in
\* its PROXY header (lazyProxyConn.parse; peerIP).
PeerOf(ip, peer) == IF cfg.proxy THEN peer \in Proxies ELSE peer = ip

\* Whether the client passes the address filter and the EHLO check.  The zones
\* are not asked about the filter proxy itself.
Passes(ip, peer, deny, allow, zone, ehlo) ==
    /\ FilterCode(deny, allow, IF TrustedFilter(peer) /\ ip = peer THEN <<>> ELSE <<zone>>, "zones" \in cfg.enforce) = 0
    /\ ehlo

\* A session or a call of NewSession that holds a slot.
Holding(c) == "ip" \in DOMAIN sess[c]

\* Backend.NewSession takes the slot before it asks the filters.
NewSession(c, ip, peer) ==
    /\ ~Holding(c) /\ PeerOf(ip, peer)
    /\ cfg.role = "internal" => peer \in Trusted
    /\ Admits(ip)
    /\ slots' = [slots EXCEPT ![ip] = @ + 1]
    /\ sess' = [sess EXCEPT ![c] = [open |-> FALSE, tls |-> @.tls, ip |-> ip, peer |-> peer]]
    /\ queue' = NoMsg /\ UNCHANGED cfg

\* connectionLimiter.release
Released(ip) == [slots EXCEPT ![ip] = @ - 1]

\* Mutant: a client the filters refuse keeps its slot.
AnswerLeaks(c, pass) ==
    /\ Holding(c) /\ ~sess[c].open
    /\ sess' = [sess EXCEPT ![c] =
                  IF pass THEN [open |-> TRUE, ip |-> @.ip, peer |-> @.peer, tls |-> @.tls,
                                authed |-> FALSE, msg |-> NoMsg]
                  ELSE [open |-> FALSE, tls |-> @.tls]]
    /\ queue' = NoMsg /\ UNCHANGED <<cfg, slots>>

\* The rest of NewSession: the filters answer, while other connections are
\* served; a refusal gives the slot back.
Answer(c, pass) ==
    /\ Holding(c) /\ ~sess[c].open
    /\ sess' = [sess EXCEPT ![c] =
                  IF pass THEN [open |-> TRUE, ip |-> @.ip, peer |-> @.peer, tls |-> @.tls,
                                authed |-> FALSE, msg |-> NoMsg]
                  ELSE [open |-> FALSE, tls |-> @.tls]]
    /\ slots' = IF pass THEN slots ELSE Released(sess[c].ip)
    /\ queue' = NoMsg /\ UNCHANGED cfg

\* Session.Logout, called by go-smtp when the connection ends.
Logout(c) ==
    /\ sess[c].open
    /\ slots' = Released(sess[c].ip)
    /\ sess' = [sess EXCEPT ![c] = Closed]
    /\ queue' = NoMsg /\ UNCHANGED cfg

\* External: STARTTLS logs the session out; the EHLO after it needs a session,
\* and a slot, of its own.
StartTLS(c) ==
    /\ sess[c].open /\ sess[c].msg = NoMsg /\ ~sess[c].tls
    /\ slots' = Released(sess[c].ip)
    /\ sess' = [sess EXCEPT ![c] = [open |-> FALSE, tls |-> TRUE]]
    /\ queue' = NoMsg /\ UNCHANGED cfg

\* AuthMechanisms and authenticateUser with the right password; a wrong one
\* changes nothing here (see Lockout).
Auth(c) ==
    /\ sess[c].open /\ sess[c].msg = NoMsg /\ ~sess[c].authed
    /\ cfg.role \notin {"perimeter", "internal"}
    /\ sess' = [sess EXCEPT ![c].authed = TRUE]
    /\ queue' = NoMsg /\ UNCHANGED <<cfg, slots>>

-----------------------------------------------------------------------------
(* The envelope.                                                           *)

SpfRefused(spf) == \/ spf = "fail" /\ "spf" \in cfg.enforce
                   \/ spf = "softfail" /\ {"spf", "softfail"} \subseteq cfg.enforce

\* Session.Mail.  own: the authenticated user may send as this sender; an
\* unauthenticated one passes the whitelist.  SPF is looked at for
\* unauthenticated clients that are not the filter proxy.
Mail(c, own, spf) ==
    LET s == sess[c]
        checked == ~s.authed /\ ~TrustedFilter(s.peer)
        result == IF checked THEN spf ELSE "none"
    IN  /\ s.open /\ s.msg = NoMsg
        /\ "tls" \in cfg.required => s.tls
        /\ "auth" \in cfg.required => s.authed \/ (TrustedFilter(s.peer) /\ cfg.role # "submission")
        /\ own
        /\ ~SpfRefused(result)
        /\ sess' = [sess EXCEPT ![c].msg =
                      [stage |-> "rcpt", to |-> <<>>,
                       held |-> FALSE, seen |-> {}, authed |-> s.authed, relay |-> s.peer \in RelayNets,
                       redirected |-> FALSE]]
        /\ queue' = NoMsg /\ UNCHANGED <<cfg, slots>>

\* isRelayPermitted
RelayPermitted(c, a) == a \in LocalRcpt \/ sess[c].authed \/ sess[c].peer \in RelayNets

RECURSIVE Resolve(_, _, _)
\* resolveRecipient: the targets of an address, or <<"error">>.  An address met
\* again on the way, or more than 20 on it, is a loop.  A local address that is
\* no alias is looked up: in the directory, whose answer dir is taken as it
\* stands (an unknown address, a failed request and an invalid answer are
\* errors), or among the accounts.
Resolve(a, seen, dir) ==
    IF a \in seen \/ Cardinality(seen) > 20 THEN <<"error">>
    ELSE IF a \in DOMAIN Aliases
    THEN LET parts == [i \in DOMAIN Aliases[a] |-> Resolve(Aliases[a][i], seen \cup {a}, dir)]
         IN  IF \E i \in DOMAIN parts : parts[i] = <<"error">> THEN <<"error">>
             ELSE FlattenSeq(parts)
    ELSE IF a \notin LocalRcpt \/ cfg.validate = "off" THEN <<a>>
    ELSE IF cfg.validate = "directory" THEN IF a \in DOMAIN dir THEN dir[a] ELSE <<"error">>
    ELSE IF a \in DOMAIN Accounts THEN <<Accounts[a]>> ELSE <<"error">>

\* Mutant: the limit counts the commands, not what they expand to.
RcptAdmitsShort(m, targets) ==
    /\ MaxRecipients > 0 => Len(m.to) < MaxRecipients
    /\ ToSet(targets) \cap Suppressed = {}

\* The checks of Rcpt on the expanded recipients.
RcptAdmits(m, targets) ==
    /\ MaxRecipients > 0 => Len(m.to) + Len(targets) <= MaxRecipients
    /\ ToSet(targets) \cap Suppressed = {}

\* Session.Rcpt.  grey: what greylisting says; authenticated clients are not
\* asked.  dir: what the directory says.
Rcpt(c, a, grey, dir) ==
    LET s == sess[c]
        targets == Resolve(a, {}, dir)
    IN  /\ s.open /\ s.msg.stage = "rcpt"
        /\ RelayPermitted(c, a)
        /\ ~s.authed => ~grey
        /\ targets # <<"error">>
        /\ RcptAdmits(s.msg, targets)
        /\ sess' = [sess EXCEPT ![c].msg.to = @ \o targets]
        /\ queue' = NoMsg /\ UNCHANGED <<cfg, slots>>

-----------------------------------------------------------------------------
(* Data.  A verdict is <<stage, what the service said>>.                   *)

Order == <<"rate", "layer", "quota", "spread", "dmarc", "plugin", "policy", "malware", "scanner", "enqueue">>

Verdicts ==
    [rate |-> {"ok", "over"},
     layer |-> {"ok", "malformed", "foreign", "hops", "origin", "low", "down"},
     quota |-> {"ok", "over", "storm"},
     spread |-> {"ok", "outbreak"},
     dmarc |-> {"pass", "none", "reject", "quarantine", "sampled", "unrecorded"},
     plugin |-> {"allow", "reject", "defer", "quarantine", "down"},
     policy |-> {"keep", "reject", "defer", "discard", "redirect", "quarantine", "fileinto", "other", "several", "badheader", "down"},
     malware |-> {"clean", "found", "down"},
     scanner |-> {"no action", "reject", "soft reject", "quarantine", "discard", "add header", "subject", "badheader", "down", "unsealed"},
     enqueue |-> {"ok", "error"}]

\* Verdicts the history need not remember.
Harmless == {<<st, v>> : st \in DOMAIN Verdicts, v \in {"ok", "allow", "keep", "clean", "no action", "add header", "subject", "fileinto"}}

\* Whether the stage asks its service at all.
Asked(st, s) ==
    CASE st \in {"plugin", "policy", "malware", "scanner"} -> st \in cfg.present
      [] st = "dmarc" -> ~s.authed
      [] OTHER -> TRUE

\* A required service that is not configured refuses the message.  Required
\* plugins are configured ones.
Missing(st, s) ==
    \/ st \in {"policy", "malware", "scanner"} /\ st \in cfg.required /\ st \notin cfg.present
    \/ st = "layer" /\ "reputation" \in cfg.required \ cfg.present
    \/ st = "scanner" /\ st \notin cfg.present /\ "arc" \in cfg.required /\ ~s.msg.held

\* The verdicts that end Data with an error.
Refuses(st, v, s) ==
    CASE st = "layer" -> \/ v \in {"malformed", "hops"}
                         \/ v = "foreign" /\ s.authed           \* the visible From is not the user's
                         \/ v = "origin" /\ TrustedFilter(s.peer) \* the original client is refused
                         \/ v = "low" /\ "reputation" \in cfg.present
                         \/ v = "down" /\ "reputation" \in cfg.required
      [] st = "dmarc" -> v = "unrecorded" \/ (v = "reject" /\ "dmarc" \in cfg.enforce)
      [] st = "plugin" -> v \in {"reject", "defer"} \/ (v = "down" /\ "plugin" \in cfg.required)
      [] st = "policy" -> \/ v \in {"reject", "defer", "several", "badheader"}
                          \/ v \in {"down", "other"} /\ "policy" \in cfg.required
      [] st = "malware" -> v = "found" \/ (v = "down" /\ "malware" \in cfg.required)
      [] st = "scanner" -> \/ v \in {"reject", "soft reject", "badheader"}
                           \/ v = "subject" /\ "arc" \in cfg.required  \* to be rewritten here
                           \/ v = "down" /\ "scanner" \in cfg.required
                           \/ v \in {"unsealed", "down"} /\ "arc" \in cfg.required /\ ~s.msg.held
      [] OTHER -> v # "ok"

\* The verdicts after which the message is held.
Holds(st, v) ==
    \/ st = "dmarc" /\ v = "quarantine" /\ "dmarc" \in cfg.enforce
    \/ st \in {"plugin", "policy"} /\ v = "quarantine"
    \/ st = "scanner" /\ v \in {"quarantine", "discard"}

\* Session.Data begins.  marked: the filter proxy asks for quarantine; only the
\* proxy is listened to.
DataBegin(c, marked) ==
    LET s == sess[c]
    IN  /\ s.open /\ s.msg.stage = "rcpt" /\ s.msg.to # <<>>
        /\ sess' = [sess EXCEPT ![c].msg.stage = "rate", ![c].msg.held = marked /\ TrustedFilter(s.peer),
                                ![c].msg.seen = IF marked /\ TrustedFilter(s.peer) THEN {<<"marker", "true">>} ELSE {}]
        /\ queue' = NoMsg /\ UNCHANGED <<cfg, slots>>

\* External: whatever Data answered, go-smtp resets the session.
Reset(c) == sess' = [sess EXCEPT ![c].msg = NoMsg]

Following(st) == Order[(CHOOSE i \in DOMAIN Order : Order[i] = st) + 1]

\* One stage of Data.
DataStage(c, v) ==
    LET s == sess[c]
        st == s.msg.stage
        asked == Asked(st, s)
    IN  /\ s.open /\ st \in DOMAIN Verdicts /\ v \in Verdicts[st]
        /\ IF Missing(st, s) \/ (asked /\ Refuses(st, v, s)) \/ (st = "policy" /\ asked /\ v = "discard")
           THEN Reset(c) /\ queue' = NoMsg
           ELSE LET m == [s.msg EXCEPT !.held = @ \/ (asked /\ Holds(st, v)),
                                       !.seen = IF asked THEN @ \cup ({<<st, v>>} \ Harmless) ELSE @,
                                       !.redirected = @ \/ (asked /\ st = "policy" /\ v = "redirect")]
                IN  IF st = "enqueue" THEN Reset(c) /\ queue' = [m EXCEPT !.stage = "queued"]
                    ELSE sess' = [sess EXCEPT ![c].msg = [m EXCEPT !.stage = Following(st)]] /\ queue' = NoMsg
        /\ UNCHANGED <<cfg, slots>>

Next ==
    \E c \in Conns :
        \/ \E ip \in IPs, peer \in IPs \cup Proxies : NewSession(c, ip, peer)
        \/ \E deny, allow, ehlo \in BOOLEAN, zone \in {"clear", "listed", "error"} :
              Answer(c, Holding(c) /\ Passes(sess[c].ip, sess[c].peer, deny, allow, zone, ehlo))
        \/ Logout(c)
        \/ StartTLS(c)
        \/ Auth(c)
        \/ \E own \in BOOLEAN, spf \in {"pass", "fail", "softfail"} : Mail(c, own, spf)
        \/ \E a \in Rcpts, grey \in BOOLEAN, dir \in Directories : Rcpt(c, a, grey, dir)
        \/ \E marked \in BOOLEAN : DataBegin(c, marked)
        \/ \E v \in UNION {Verdicts[st] : st \in DOMAIN Verdicts} : DataStage(c, v)

-----------------------------------------------------------------------------
\* Slots and sessions agree (server.go:325): each session, open or waiting for
\* the filters, holds one slot of its address and nobody else does, so refused,
\* upgraded and ended connections leak none, and the limits bound the sessions.
SlotsKept ==
    /\ \A i \in IPs : slots[i] = Cardinality({c \in Conns : Holding(c) /\ sess[c].ip = i})
    /\ MaxTotal > 0 => Cardinality({c \in Conns : Holding(c)}) <= MaxTotal

\* What is queued passed every gate (server.go:670): no service that was
\* required was down when it was asked, nothing that refuses was said of it, a
\* message anybody asked to hold is held, and its recipients are neither
\* suppressed nor too many, and each was reached through a local address
\* unless the sender may relay.  A policy that redirects replaces the
\* recipients; those are the policy's.
AcceptedChecked ==
    queue # NoMsg =>
        LET said(st) == {v \in Verdicts[st] : <<st, v>> \in queue.seen}
        IN  /\ \A st \in {"policy", "malware", "scanner"} \cap cfg.required :
                   st \in cfg.present /\ "down" \notin said(st)
            /\ "plugin" \in cfg.required => "down" \notin said("plugin")
            /\ "reputation" \in cfg.required => "reputation" \in cfg.present /\ "down" \notin said("layer")
            /\ said("layer") \cap {"malformed", "hops"} = {} /\ "found" \notin said("malware")
            /\ \A st \in {"plugin", "policy", "scanner"} : said(st) \cap {"reject", "defer", "soft reject"} = {}
            /\ (\E e \in queue.seen : e[2] = "quarantine" /\ (e[1] = "dmarc" => "dmarc" \in cfg.enforce)) => queue.held
            /\ <<"marker", "true">> \in queue.seen => queue.held
            /\ "dmarc" \in cfg.enforce => "reject" \notin said("dmarc")
            /\ "auth" \in cfg.required /\ cfg.role = "submission" => queue.authed
            /\ ~queue.redirected =>
                 /\ ToSet(queue.to) \cap Suppressed = {}
                 /\ MaxRecipients > 0 => Len(queue.to) <= MaxRecipients
                 /\ \A t \in ToSet(queue.to) :
                        \/ queue.authed \/ queue.relay
                        \/ \E a \in LocalRcpt, dir \in Directories : t \in ToSet(Resolve(a, {}, dir))
=============================================================================

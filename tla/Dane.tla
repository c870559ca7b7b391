-------------------------------- MODULE Dane ---------------------------------
(***************************************************************************)
(* DANE for one MX host: the TLSA lookup through the DNSSEC cache of the   *)
(* resolver and the TLSA cache of the validator, the decision dialSMTP     *)
(* takes on it, and the TLS handshake, which looks the records up a second *)
(* time (internal/security/dane, internal/delivery).                       *)
(*                                                                         *)
(* A zone's answer is [rcode, proof, tlsa, ttl]: proof is what the answer  *)
(* carries (ad, signed, forged or unsigned) and tlsa the set of its TLSA   *)
(* records.  A record is [usage, data, wellformed] where data names the    *)
(* certificate (selector, hash and bytes together).                        *)
(***************************************************************************)
EXTENDS Naturals, FiniteSets

CONSTANTS
    Answers,        \* what the zone may publish
    Chains,         \* chains of certificates the host may present
    DefaultTTL,     \* 300 s and 3600 s of answers without records
    Strict,         \* strictMode
    MaxTime         \* bound of the clock

VARIABLES
    now,
    zone,           \* the answer the zone publishes now
    dnssec,         \* DNSSECResolver.cache, one entry
    tlsa,           \* DANEValidator.cache, one entry
    conn            \* the connection dialSMTP sets up

vars == <<now, zone, dnssec, tlsa, conn>>

NoEntry == [until |-> 0, used |-> FALSE]
Live(c) == c.used /\ now <= c.until

-----------------------------------------------------------------------------
(* Pure parts.                                                             *)

\* validateResponse and validateSignatures: the AD bit, else the signatures.
Validate(a) ==
    [authentic |-> a.proof \in {"ad", "signed"},
     bogus     |-> a.proof = "forged",
     insecure  |-> a.proof = "unsigned"]

\* TLSARecord.IsValid drops records with fields out of range or data of the
\* wrong length.
IsValid(r) == r.usage \in 0 .. 3 /\ r.wellformed

\* matchCertificateToTLSA: end-entity usages look at the first certificate,
\* trust-anchor usages at the chain, PKIX-TA only at its CAs.
MatchesRecord(chain, r) ==
    CASE r.usage \in {1, 3} -> chain[1].data = r.data
      [] r.usage = 0 -> \E i \in DOMAIN chain : chain[i].ca /\ chain[i].data = r.data
      [] r.usage = 2 -> \E i \in DOMAIN chain : chain[i].data = r.data

VerifyCertificate(chain, records) == \E r \in records : MatchesRecord(chain, r)

\* daneTLSRequirement
Requirement(res) ==
    IF res.err \/ res.bogus THEN "indeterminate"
    ELSE IF res.authentic /\ res.records # {} THEN "mandatory" ELSE "opportunistic"

-----------------------------------------------------------------------------
(* Lookups.  Each is a relation between the caches before and after it and *)
(* the result res.                                                         *)

Failed == [err |-> TRUE, bogus |-> FALSE, authentic |-> FALSE, insecure |-> FALSE, records |-> {}]

TTLOf(a) == IF a.tlsa # {} THEN a.ttl ELSE DefaultTTL

\* LookupTLSA after Query: what an answer with validation v comes to.
Parsed(a, v) ==
    IF v.bogus \/ a.rcode = "servfail"
    THEN [err |-> TRUE, bogus |-> v.bogus, authentic |-> v.authentic,
          insecure |-> v.insecure, records |-> {}]
    ELSE [err |-> FALSE, bogus |-> FALSE, authentic |-> v.authentic, insecure |-> v.insecure,
          records |-> IF a.rcode = "nxdomain" THEN {} ELSE {r \in a.tlsa : IsValid(r)}]

\* Mutant: the negative result of a failed lookup is cached as well.
KeepFailed(res, a) ==
    tlsa' = [until |-> now + TTLOf(a), used |-> TRUE, res |-> [res EXCEPT !.err = FALSE]]

\* DANEValidator.LookupTLSA caches results, not errors.
Keep(res, a) ==
    IF res.err THEN tlsa' = [tlsa EXCEPT !.used = Live(tlsa)]
    ELSE tlsa' = [until |-> now + TTLOf(a), used |-> TRUE, res |-> res]

\* DNSSECResolver.Query: a live entry answers with its flag validated alone;
\* otherwise the servers are asked and any answer is cached.
LookupTLSA(res) ==
    IF Live(tlsa) THEN res = tlsa.res /\ UNCHANGED <<dnssec, tlsa>>
    ELSE \/ /\ Live(dnssec)
            /\ LET v == [authentic |-> dnssec.validated, bogus |-> FALSE, insecure |-> FALSE]
               IN  res = Parsed(dnssec.answer, v)
            /\ Keep(res, dnssec.answer)
            /\ UNCHANGED dnssec
         \/ /\ ~Live(dnssec)
            /\ res = Parsed(zone, Validate(zone))
            /\ dnssec' = [until |-> now + TTLOf(zone), used |-> TRUE,
                          answer |-> zone, validated |-> Validate(zone).authentic]
            /\ Keep(res, zone)
         \/ /\ ~Live(dnssec)                     \* no server answers
            /\ res = Failed
            /\ UNCHANGED <<dnssec, tlsa>>

\* What LookupTLSA may return.
Results == {Failed} \cup {Parsed(a, Validate(a)) : a \in Answers}
           \cup {Parsed(a, [authentic |-> b, bogus |-> FALSE, insecure |-> FALSE]) :
                     a \in Answers, b \in BOOLEAN}

-----------------------------------------------------------------------------
(* dialSMTP.                                                               *)

NoConn == [pc |-> "idle", level |-> "none", chain |-> <<>>, first |-> Failed,
           second |-> Failed, tls |-> FALSE]

\* CheckDANEAvailability and daneTLSRequirement, after EHLO.  The server may
\* or may not offer STARTTLS.
Check ==
    /\ conn.pc = "idle"
    /\ \E res \in Results, starttls \in BOOLEAN :
         /\ LookupTLSA(res)
         /\ conn' = [conn EXCEPT
              !.first = res, !.level = Requirement(res),
              !.pc = CASE Requirement(res) = "indeterminate" -> "failed"
                       [] ~starttls /\ Requirement(res) = "mandatory" -> "failed"
                       [] ~starttls /\ Requirement(res) = "opportunistic" -> "ready"
                       [] OTHER -> "handshake"]
    /\ UNCHANGED <<now, zone>>

\* Mutant: a certificate that matches no record passes unless strict.
VerifiedLoosely(res, chain) ==
    /\ ~res.err
    /\ res.records # {} /\ Strict => VerifyCertificate(chain, res.records)

\* VerifyPeerCertificate of GetTLSConfig, by VerifyHostname: records must
\* match; without records there is nothing to match.
Verified(res, chain) ==
    /\ ~res.err
    /\ res.records # {} => VerifyCertificate(chain, res.records)

\* StartTLS with DANE.
HandshakeMandatory ==
    /\ conn.pc = "handshake" /\ conn.level = "mandatory"
    /\ \E res \in Results, chain \in Chains :
         /\ LookupTLSA(res)
         /\ conn' = [conn EXCEPT !.second = res, !.chain = chain, !.tls = TRUE,
                                 !.pc = IF Verified(res, chain) THEN "ready" ELSE "failed"]
    /\ UNCHANGED <<now, zone>>

\* Opportunistic STARTTLS: any certificate will do, a failed handshake ends
\* the connection.
HandshakeOpportunistic ==
    /\ conn.pc = "handshake" /\ conn.level = "opportunistic"
    /\ \E ok \in BOOLEAN :
         conn' = [conn EXCEPT !.tls = ok, !.pc = IF ok THEN "ready" ELSE "failed"]
    /\ UNCHANGED <<now, zone, dnssec, tlsa>>

Close ==
    /\ conn.pc \in {"ready", "failed"}
    /\ conn' = NoConn
    /\ UNCHANGED <<now, zone, dnssec, tlsa>>

Cleanup ==
    /\ \E c \in {dnssec, tlsa} : c.used /\ now > c.until
    /\ dnssec' = IF now > dnssec.until THEN NoEntry ELSE dnssec
    /\ tlsa' = IF now > tlsa.until THEN NoEntry ELSE tlsa
    /\ UNCHANGED <<now, zone, conn>>

Publish == \E a \in Answers : zone' = a /\ UNCHANGED <<now, dnssec, tlsa, conn>>

Tick == now < MaxTime /\ now' = now + 1 /\ UNCHANGED <<zone, dnssec, tlsa, conn>>

Init ==
    /\ now = 0 /\ zone \in Answers
    /\ dnssec = NoEntry /\ tlsa = NoEntry /\ conn = NoConn

Next == Check \/ HandshakeMandatory \/ HandshakeOpportunistic \/ Close \/ Cleanup
        \/ Publish \/ Tick

Spec == Init /\ [][Next]_vars

-----------------------------------------------------------------------------
(* Properties.                                                             *)

\* A connection on which DANE was found mandatory is used only over TLS with
\* a certificate that records of the domain match, unless the domain withdrew
\* its records before the handshake looked them up again.
\* (dialSMTP, GetTLSConfig)
MandatoryAuthenticated ==
    conn.pc = "ready" /\ conn.level = "mandatory" =>
        /\ conn.tls /\ ~conn.second.err
        /\ \/ VerifyCertificate(conn.chain, conn.second.records)
           \/ conn.second.records = {}

\* The TLSA cache only holds results of lookups that succeeded, it calls
\* authenticated only what an authenticated answer said, and no connection is
\* used after a failed lookup.  (DANEValidator.LookupTLSA, dialSMTP)
ResultsCached ==
    /\ tlsa.used => ~tlsa.res.err /\ ~tlsa.res.bogus
    /\ tlsa.used /\ tlsa.res.authentic => \E a \in Answers : /\ Validate(a).authentic
                                                            /\ tlsa.res.records \subseteq a.tlsa
    /\ conn.pc = "ready" => ~conn.first.err
=============================================================================

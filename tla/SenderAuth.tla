------------------------------ MODULE SenderAuth ------------------------------
(***************************************************************************)
(* What the server concludes about the sender of a message: SPF and DMARC  *)
(* (security/spf_dmarc.go), what Session.Data does with the conclusion and *)
(* what it writes into the aggregate report (smtpd/server.go).             *)
(* An SPF term either matches the client directly, does not, or refers to  *)
(* another domain: addresses, networks and host names are left out.        *)
(***************************************************************************)
EXTENDS Naturals, FiniteSets, FiniteSetsExt, SequencesExt

CONSTANTS
    Domains, First,     \* domains; the domain of the sender
    Zones,              \* contents of the DNS: functions on Domains
    MaxDepth,           \* nested lookups of one evaluation (10)
    Froms, Org,         \* From domains and the organizational domain of each
    Records,            \* DMARC records
    Buckets             \* sampling buckets of a message

VARIABLES
    zone,       \* domain -> [error, records]: the TXT records "v=spf1 ..."
    spf,        \* answer of VerifySPF, or "ask"
    mail,       \* what DMARC is asked about
    fate        \* what Data did, and what it reported

vars == <<zone, spf, mail, fate>>

-----------------------------------------------------------------------------
(* SPF.  A record is a sequence of terms with an optional redirect; a term *)
(* is a qualifier with a mechanism that hits, misses, includes a domain    *)
(* ("" when the value is missing) or is unknown and skipped.               *)

Qualified == [q \in {"+", "-", "~", "?"} |->
                CASE q = "+" -> "pass" [] q = "-" -> "fail" [] q = "~" -> "softfail" [] q = "?" -> "neutral"]

RECURSIVE EvaluateSPF(_, _), Terms(_, _, _)

\* evaluateSPFDomain: the first record counts, however many there are.
EvaluateSPFDomain(d, depth) ==
    IF zone[d].error THEN "temperror"
    ELSE IF zone[d].records = <<>> THEN "none"
    ELSE EvaluateSPF(zone[d].records[1], depth)

\* Mutant: any answer of an included domain but a failure is a match.
IncludedLoosely(result) == result \notin {"fail", "none", "temperror", "permerror"}

\* Whether the answer for an included domain makes the include match.
Included(result) == result = "pass"

\* The loop over the terms of record r from the i-th on.
Terms(r, i, depth) ==
    IF i > Len(r.terms)
    THEN IF r.redirect # "" THEN EvaluateSPFDomain(r.redirect, depth + 1) ELSE "neutral"
    ELSE LET t == r.terms[i]
         IN  IF t.m = "include" /\ t.to = "" THEN "permerror"
             ELSE IF \/ t.m = "hit"
                     \/ t.m = "include" /\ Included(EvaluateSPFDomain(t.to, depth + 1))
             THEN Qualified[t.q]
             ELSE Terms(r, i + 1, depth)

EvaluateSPF(r, depth) == IF depth > MaxDepth THEN "permerror" ELSE Terms(r, 1, depth)

VerifySPF(d) ==
    IF zone[d].error THEN "temperror"
    ELSE IF Len(zone[d].records) > 1 THEN "permerror"
    ELSE EvaluateSPFDomain(d, 0)

-----------------------------------------------------------------------------
(* DMARC *)

\* lookupDMARCRecord: the From domain, then its organizational domain; an
\* error or a record ends the search.
Found(m) ==
    IF m.record[m.from].kind # "none" THEN m.from ELSE Org[m.from]

\* domainsAlign
Align(from, d, strict) == IF strict THEN from = d ELSE Org[from] = Org[d]

\* EvaluateDMARCDetails: result, policy and share of mail it applies to.
EvaluateDMARC(m) ==
    LET at == Found(m)
        rec == m.record[at]
        policy == IF at = m.from \/ rec.sp = "absent" THEN rec.p ELSE rec.sp
        spfPass == m.spf = "pass" /\ Align(m.from, m.spfDomain, rec.aspf = "s")
        dkimPass == \E s \in m.dkim : s.pass /\ Align(m.from, s.domain, rec.adkim = "s")
    IN  IF rec.kind # "policy" THEN [result |-> "none", policy |-> "none", pct |-> 100]
        ELSE [result |-> IF spfPass \/ dkimPass THEN "pass" ELSE "fail", policy |-> policy, pct |-> rec.pct]

\* dmarcPolicyApplies
Applies(bucket, pct) == bucket < pct

\* What the report says of the message.
Disposition(m) ==
    LET e == EvaluateDMARC(m)
    IN  IF e.result # "fail" THEN [disposition |-> "none", reason |-> ""]
        ELSE IF ~m.enforce THEN [disposition |-> "none", reason |-> "local_policy"]
        ELSE IF ~Applies(m.bucket, e.pct) THEN [disposition |-> "none", reason |-> "sampled_out"]
        ELSE [disposition |-> e.policy, reason |-> ""]

\* Mutant: sampling is not considered when the policy is applied.
ActionAlways(m) ==
    LET e == EvaluateDMARC(m)
    IN  IF e.result = "fail" /\ m.enforce THEN e.policy ELSE "none"

\* What Data does with the message.
Action(m) ==
    LET e == EvaluateDMARC(m)
        policy == IF Applies(m.bucket, e.pct) THEN e.policy ELSE "none"
    IN  IF e.result = "fail" /\ m.enforce THEN policy ELSE "none"

Mails ==
    UNION {[from: {f}, record: [{f, Org[f]} -> Records], spf: {"pass", "softfail", "fail"},
            spfDomain: Froms,
            dkim: SUBSET [domain: Froms, pass: {TRUE}] \cup {{[domain |-> d, pass |-> FALSE]} : d \in Froms},
            enforce: BOOLEAN, bucket: Buckets] : f \in Froms}

-----------------------------------------------------------------------------
SpfInit == zone \in Zones /\ spf = "ask" /\ mail = <<>> /\ fate = <<>>
SpfNext == spf = "ask" /\ spf' = VerifySPF(First) /\ UNCHANGED <<zone, mail, fate>>

DmarcInit == zone = <<>> /\ spf = "ask" /\ mail \in Mails /\ fate = <<>>
DmarcNext ==
    /\ fate = <<>>
    /\ fate' = [did |-> Action(mail), told |-> Disposition(mail)]
    /\ UNCHANGED <<zone, spf, mail>>

-----------------------------------------------------------------------------
\* Domains whose record is asked next: by an include that would make the
\* whole pass, or by the redirect.
Refers(d) ==
    IF zone[d].error \/ zone[d].records = <<>> THEN {}
    ELSE LET r == zone[d].records[1]
         IN  (UNION {{t.to} : t \in {t \in ToSet(r.terms) : t.m = "include" /\ t.q = "+"}} \cup {r.redirect}) \ {""}

\* Domains within n references of d.
Within(d, n) ==
    LET W[k \in 0 .. n] == IF k = 0 THEN {d} ELSE W[k - 1] \cup UNION {Refers(x) : x \in W[k - 1]}
    IN  W[n]

\* Domains redirected to, in n steps.
Redirected(d, n) ==
    LET R[k \in 0 .. n] ==
          IF k = 0 THEN {d}
          ELSE R[k - 1] \cup ({zone[x].records[1].redirect :
                                 x \in {x \in R[k - 1] : ~zone[x].error /\ zone[x].records # <<>>}} \ {""})
    IN  R[n]

Says(d, q, ms) ==
    /\ ~zone[d].error /\ zone[d].records # <<>>
    /\ \E t \in ToSet(zone[d].records[1].terms) : t.q = q /\ t.m \in ms

\* SPF says no more than the records do (spf_dmarc.go:124): a client passes
\* only when a record reached through "+" includes and redirects names it with
\* "+"; it fails only when the sender's own record, or one it redirects to,
\* says "-"; two records, or a lookup that failed, never decide either way.
\* Records that refer to each other in a circle end the evaluation.
SpfExplained ==
    /\ spf = "pass" => \E d \in Within(First, MaxDepth) : Says(d, "+", {"hit"})
    /\ spf \in {"fail", "softfail"} =>
         \E d \in Redirected(First, MaxDepth) : Says(d, IF spf = "fail" THEN "-" ELSE "~", {"hit", "include"})
    /\ spf \in {"pass", "fail", "softfail", "neutral"} => ~zone[First].error /\ Len(zone[First].records) = 1

\* The aggregate report tells the domain's owner what was really done with the
\* message (server.go:804 and server.go:834 decide it separately); and a
\* message is acted upon only in enforce mode, by a published policy, and never
\* when SPF or a signature passed for the From domain itself.
DispositionTrue ==
    fate # <<>> =>
        /\ fate.told.disposition = fate.did
        /\ fate.did # "none" =>
             /\ mail.enforce
             /\ ~(mail.spf = "pass" /\ mail.spfDomain = mail.from)
             /\ \A s \in mail.dkim : ~(s.pass /\ s.domain = mail.from)
             /\ \E d \in {mail.from, Org[mail.from]} : mail.record[d].kind = "policy"
=============================================================================

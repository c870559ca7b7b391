----------------------------- MODULE Screening -----------------------------
(***************************************************************************)
(* What the hub decides about one message from answers it does not control *)
(* and what it tells the sender afterwards:                                *)
(*   - the admission plugins, called in turn (extensions/plugins.go);      *)
(*   - the malware scanner, fed in chunks (filtering/clamav.go), and the   *)
(*     content scanner with its header operations and ARC seals            *)
(*     (filtering/rspamd.go, headers.go), as Session.scanFinal uses them;  *)
(*   - the reputation of the sending address (filtering/premail.go,        *)
(*     http.go) as Session.layerChecks uses it;                            *)
(*   - the order and the time of retries (smtpd/retry.go);                 *)
(*   - the delivery report built for the sender and the reader that tracks *)
(*     incoming reports (bounce/bounce.go, report.go).                     *)
(* Every part is a decision: Init picks an input, nothing changes it, and  *)
(* an invariant compares the code's answer with what it stands for.  A     *)
(* header field is its name and an id; names are compared through Fold.    *)
(***************************************************************************)
EXTENDS Integers, Sequences, FiniteSets, FiniteSetsExt, SequencesExt, Functions

CONSTANTS
    Chains,        \* plugin chains: sequences of [required, reply]
    Groups,        \* sets of messages, malware scans, settings and scanner answers
    Chunk,         \* bytes of a full chunk sent to the malware scanner
    Lookups,       \* one reputation lookup and its settings
    Week,          \* age in days after which a stored reputation is not used
    Backlogs,      \* lists of pending entries, as [domain, created]
    InitialDelay, MaxDelay, MaxAttempts,   \* the retry policy; the factor is 2
    Failures,      \* one failed recipient with the settings of the report
    MaxHeaderBytes

VARIABLE case      \* the input picked

(***************************************************************************)
(* Admission plugins.                                                      *)
(***************************************************************************)

\* callPlugin: only the four known actions are an answer.
callPlugin(p) ==
    IF p.reply \in {"allow", "reject", "defer", "quarantine"} THEN p.reply ELSE "error"

\* The loop of runPlugins with one more plugin heard: out is the action so far,
\* ended says that the loop has returned.
HearLast(acc, p) ==
    LET d == callPlugin(p)
    IN  IF acc.ended \/ (d = "error" /\ ~p.required) THEN acc
        ELSE [ended |-> d \in {"error", "reject", "defer"}, out |-> d]

Hear(acc, p) ==
    LET d == callPlugin(p)
    IN  CASE acc.ended -> acc
          [] d = "error" -> IF p.required THEN [ended |-> TRUE, out |-> "error"] ELSE acc
          [] d \in {"reject", "defer"} -> [ended |-> TRUE, out |-> d]
          [] d = "quarantine" -> [acc EXCEPT !.out = d]
          [] OTHER -> acc

RunPlugins(chain) == FoldLeft(Hear, [ended |-> FALSE, out |-> "allow"], chain).out

PluginInit == case \in [chain : Chains]

\* The answer of the chain loses no plugin's: a plugin that rejects or defers, and
\* a required one that fails, decides unless an earlier one did; without one, a
\* quarantine asked for by any plugin stands whatever the later ones say.
PluginsHeard ==
    LET c == case.chain
        Deciding == {i \in DOMAIN c :
                        \/ callPlugin(c[i]) \in {"reject", "defer"}
                        \/ callPlugin(c[i]) = "error" /\ c[i].required}
    IN  RunPlugins(c) =
          IF Deciding # {} THEN callPlugin(c[Min(Deciding)])
          ELSE IF \E i \in DOMAIN c : callPlugin(c[i]) = "quarantine" THEN "quarantine"
          ELSE "allow"

(***************************************************************************)
(* The malware scanner.                                                    *)
(***************************************************************************)

\* The chunks ScanClamAV sends for n bytes, and the empty one that ends the stream.
ChunksShort(n) == [i \in 1 .. n \div Chunk |-> Chunk] \o <<0>>

Chunks(n) ==
    [i \in 1 .. (n + Chunk - 1) \div Chunk |->
        IF i * Chunk <= n THEN Chunk ELSE n - (i - 1) * Chunk] \o <<0>>

\* What the daemon has read when it meets the empty chunk.
Streamed(chunks) ==
    LET stop == Min({i \in DOMAIN chunks : chunks[i] = 0})
    IN  FoldLeft(LAMBDA a, b : a + b, 0, SubSeq(chunks, 1, stop))

\* ScanClamAV: an explicit clean line, an explicit finding, or an error.  The
\* scanner answers "infected" only when it has read the byte that matters, here
\* the last one.
ScanClamAV(s) ==
    LET whole == Streamed(Chunks(s.size)) = s.size
    IN  CASE s.clam = "torn" -> "error"
          [] s.clam = "limit" -> "error"
          [] s.infected /\ whole -> "found"
          [] OTHER -> "clean"

\* scanMalware: the code it returns, 0 when the message may go on.
scanMalware(s) ==
    IF ~s.set.clam THEN IF s.set.malwareRequired THEN 451 ELSE 0
    ELSE CASE ScanClamAV(s) = "error" -> IF s.set.malwareRequired THEN 451 ELSE 0
           [] ScanClamAV(s) = "found" -> 550
           [] OTHER -> 0

(***************************************************************************)
(* The content scanner.                                                    *)
(***************************************************************************)

Actions == {"no action", "add header", "rewrite subject", "reject", "soft reject",
            "greylist", "quarantine", "discard"}

\* Names in the order sort.Strings gives them; arc-seal is the same field name as
\* ARC-Seal in another case.
Names == <<"ARC-Authentication-Results", "ARC-Message-Signature", "ARC-Seal",
           "Subject", "X-Spam", "arc-seal">>

Fold(name) == IF name = "arc-seal" THEN "ARC-Seal" ELSE name

Arc == <<"ARC-Authentication-Results", "ARC-Message-Signature", "ARC-Seal">>

\* The answer is unusable: transport, size, offset, an unknown action, a milter
\* operation that is not supported, an odd custom rejection, or (without a
\* replacement) a header that is badly named, placed or folded.
Unusable(a) ==
    \/ a.transport # "ok" \/ a.offset = "bad"
    \/ a.action \notin Actions
    \/ a.otherOps
    \/ a.reject \notin {"none", "", "reject", "soft reject", "quarantine", "discard"}
    \/ /\ a.offset = "none"
       /\ \E n \in DOMAIN a.add : \E i \in DOMAIN a.add[n] : a.add[n][i] < 0

\* The action in force: the custom rejection of the milter block replaces it.
VerdictAction(a) == IF a.reject \in {"none", ""} THEN a.action ELSE a.reject

\* Moving one ARC name to the end of the keys.
MoveLast(keys, name) ==
    LET at == {i \in DOMAIN keys : Fold(keys[i]) = name}
    IN  IF at = {} THEN keys ELSE RemoveAt(keys, Min(at)) \o <<keys[Min(at)]>>

KeysSorted(add) == SelectSeq(Names, LAMBDA n : n \in DOMAIN add)

Keys(add) ==
    LET sorted == SelectSeq(Names, LAMBDA n : n \in DOMAIN add)
    IN  FoldLeft(MoveLast, sorted, Arc)

\* The headers to insert, in order, each with its position; none with a replacement.
Additions(a) ==
    IF a.offset = "good" THEN <<>>
    ELSE FlattenSeq([k \in DOMAIN Keys(a.add) |->
             [i \in DOMAIN a.add[Keys(a.add)[k]] |->
                 [name |-> Fold(Keys(a.add)[k]), order |-> a.add[Keys(a.add)[k]][i]]]])

(***************************************************************************)
(* ApplyHeaders.                                                           *)
(***************************************************************************)

Matches(fields, name) == SelectSeq([i \in DOMAIN fields |-> i], LAMBDA i : fields[i].name = name)

RemovedFront(fields, name, order) ==
    LET m == Matches(fields, name)
        k == IF order > 0 THEN order ELSE Len(m) + order
    IN  IF order = 0 THEN Range(m)
        ELSE IF k \in DOMAIN m THEN {m[k]} ELSE {}

\* The positions RemoveHeaders takes away for one name: all of them, the k-th from
\* the front or the k-th from the back.
Removed(fields, name, order) ==
    LET m == Matches(fields, name)
        k == IF order > 0 THEN order ELSE Len(m) + order + 1
    IN  IF order = 0 THEN Range(m)
        ELSE IF k \in DOMAIN m THEN {m[k]} ELSE {}

Without(fields, out) ==
    LET kept == SelectSeq([i \in DOMAIN fields |-> i], LAMBDA i : i \notin out)
    IN  [j \in DOMAIN kept |-> fields[kept[j]]]

\* The names of a removal differ in more than case, so the order of Go's map does
\* not matter.
RemoveAll(fields, remove) ==
    FoldLeft(LAMBDA f, n : Without(f, Removed(f, n, remove[n])),
             fields, SetToSeq(DOMAIN remove))

Insert(fields, h) ==
    LET at == IF h.order > Len(fields) THEN Len(fields) ELSE h.order
    IN  InsertAt(fields, at + 1, [name |-> h.name, id |-> 0])

ApplyHeaders(fields, remove, headers) ==
    FoldLeft(Insert, RemoveAll(fields, remove), headers)

(***************************************************************************)
(* Session.scanFinal.                                                      *)
(***************************************************************************)

Prepend(name, fields) == <<[name |-> name, id |-> 0]>> \o fields

countHeader(fields, name) == Len(Matches(fields, name))

\* What the verdict does to a message that has no replacement before its header
\* operations are applied.
Marked(s, action) ==
    CASE action = "add header" /\ ~s.set.arc -> Prepend("X-Spam", s.fields)
      [] action = "rewrite subject" ->
             Prepend("Subject", Without(s.fields, Range(Matches(s.fields, "Subject"))))
      [] OTHER -> s.fields

Refuse(code, s) == [code |-> code, quarantine |-> FALSE, fields |-> s.fields]

\* The switch on the verdict.
Judged(s) ==
    LET a == s.answer
        action == VerdictAction(a)
    IN  CASE action = "reject" -> Refuse(550, s)
          [] action \in {"soft reject", "greylist"} -> Refuse(451, s)
          [] action = "rewrite subject" /\ s.set.arc /\ a.offset = "none" -> Refuse(451, s)
          [] OTHER ->
               [code |-> 0,
                quarantine |-> action \in {"quarantine", "discard"},
                fields |-> IF a.offset = "good" THEN a.replacement
                           ELSE ApplyHeaders(Marked(s, action), a.remove, Additions(a))]

SealedAny(s, fields) == countHeader(fields, "ARC-Seal") > 0

\* ARC is required of what is not quarantined: one more seal than before, and as
\* many signatures and results as seals.
Sealed(s, fields) ==
    LET n == countHeader(fields, "ARC-Seal")
    IN  /\ n > countHeader(s.fields, "ARC-Seal")
        /\ \A k \in {1, 2} : countHeader(fields, Arc[k]) = n

scanFinal(s) ==
    LET judged ==
          IF ~s.set.scanner \/ Unusable(s.answer)
            THEN IF s.set.scannerRequired THEN Refuse(451, s)
                 ELSE [code |-> 0, quarantine |-> FALSE, fields |-> s.fields]
            ELSE Judged(s)
    IN  CASE scanMalware(s) # 0 -> Refuse(scanMalware(s), s)
          [] judged.code # 0 -> judged
          [] s.set.arc /\ ~judged.quarantine /\ ~Sealed(s, judged.fields) -> Refuse(451, s)
          [] OTHER -> judged

ScanInit ==
    \E g \in Groups : \E f \in g.messages, m \in g.scans, s \in g.settings, a \in g.answers :
        case = [fields |-> f, clam |-> m.clam, infected |-> m.infected, size |-> m.size,
                set |-> s, answer |-> a]

\* A message goes on only with the consent of both scanners: with a required one
\* only after its complete answer, never with malware that a whole scan finds,
\* never against a rejection, and in quarantine when the scanner says quarantine
\* or discard (ScanClamAV, "never become an implicit clean verdict").
ScansHeard ==
    LET r == scanFinal(case)
        heard == case.set.scanner /\ ~Unusable(case.answer)
        action == VerdictAction(case.answer)
    IN  r.code = 0 =>
          /\ case.set.malwareRequired => case.set.clam /\ case.clam = "done"
          /\ case.set.clam /\ case.clam = "done" => ~case.infected
          /\ case.set.scannerRequired => heard
          /\ heard => /\ action \notin {"reject", "soft reject", "greylist"}
                      /\ r.quarantine <=> action \in {"quarantine", "discard"}

\* A message that leaves for another hub under ARC carries one seal more than it
\* came with and as many signatures and results; when the scanner sends one
\* header of each and no positions, the new set stands on top, seal first, above
\* every other header (comment of ScanFinal: "Prepending in this order produces
\* Seal, Message-Signature, Auth-Results").
SealOnTop ==
    LET r == scanFinal(case)
        a == case.answer
    IN  (r.code = 0 /\ case.set.arc /\ ~r.quarantine) =>
          /\ Sealed(case, r.fields)
          /\ (a.offset = "none" /\ \A n \in DOMAIN a.add : a.add[n] = <<0>>) =>
                \A k \in 1 .. 3 : r.fields[k] = [name |-> Arc[4 - k], id |-> 0]

\* ApplyHeaders keeps what it was not asked to touch: the fields that came with
\* the message stay in their order, of each name exactly those are gone that the
\* removal counts from the front or from the back, and every added field is there.
HeadersExact ==
    LET a == case.answer
        out == ApplyHeaders(case.fields, a.remove, Additions(a))
        left == SelectSeq(out, LAMBDA f : f.id # 0)
        Gone(i) ==
            LET f == case.fields[i]
                before == Cardinality({j \in 1 .. i : case.fields[j].name = f.name})
                after == Cardinality({j \in i .. Len(case.fields) :
                                         case.fields[j].name = f.name})
            IN  f.name \in DOMAIN a.remove /\ a.remove[f.name] \in {0, before, -after}
        stay == SelectSeq([i \in DOMAIN case.fields |-> i], LAMBDA i : ~Gone(i))
    IN  ~Unusable(a) =>
          /\ left = [j \in DOMAIN stay |-> case.fields[stay[j]]]
          /\ Len(out) = Len(left) + Len(Additions(a))

(***************************************************************************)
(* Reputation.                                                             *)
(***************************************************************************)

\* PremailReputation.Lookup: a score where high is bad, from a row seen lately.
ScoreKept(row) == row.score

Score(row) ==
    IF row.blocked /\ row.expires # "past" THEN 0 ELSE 100 - row.score

Lookup(q) ==
    CASE q.row = <<>> -> [err |-> FALSE, known |-> FALSE, score |-> 50]
      [] q.row # <<>> /\ (q.row[1].score < 0 \/ q.row[1].score > 100) ->
             [err |-> TRUE, known |-> FALSE, score |-> 50]
      [] q.row # <<>> /\ q.row[1].age > Week -> [err |-> FALSE, known |-> FALSE, score |-> 50]
      [] OTHER -> [err |-> FALSE, known |-> TRUE, score |-> Score(q.row[1])]

\* LookupReputation: the service answers high for good and names its expiry.
LookupReputation(q) ==
    [err |-> q.row = <<>> \/ q.row[1].score < 0 \/ q.row[1].score > 100
             \/ q.row[1].expires # "future",
     known |-> q.row # <<>> /\ q.row[1].known,
     score |-> IF q.row = <<>> THEN 50 ELSE q.row[1].score]

\* The reputation part of layerChecks: 0, or the code it refuses with.
Reputation(q) ==
    LET r == IF q.source = "premail" THEN Lookup(q) ELSE LookupReputation(q)
    IN  CASE q.source = "none" \/ r.err -> IF q.required THEN 451 ELSE 0
          [] r.known /\ r.score < q.threshold -> 550
          [] OTHER -> 0

Rows == {q.row : q \in Lookups}

LookupInit == case \in Lookups

\* A sender is refused for its reputation only on a fresh and valid record, and a
\* worse record never fares better: with the perimeter's database, if a source is
\* refused then every fresh one with a higher perimeter score or a standing block
\* is refused too.
ReputationOrdered ==
    LET x == case.row
        Fresh(row) == row # <<>> /\ row[1].age <= Week /\ row[1].score \in 0 .. 100
        Blocked(row) == row[1].blocked /\ row[1].expires # "past"
    IN  (case.source = "premail" /\ Reputation(case) = 550) =>
          /\ Fresh(x)
          /\ \A y \in Rows :
               (/\ Fresh(y)
                /\ Blocked(y) \/ (y[1].score >= x[1].score /\ ~Blocked(x)))
               => Reputation([case EXCEPT !.row = y]) = 550

(***************************************************************************)
(* Retries.                                                                *)
(***************************************************************************)

\* calculateNextRetry.
Delay(attempts) ==
    IF InitialDelay * 2 ^ attempts > MaxDelay THEN MaxDelay
    ELSE InitialDelay * 2 ^ attempts

\* fairPending: entries by age, then one entry of each destination in turn, the
\* destinations in the order of their oldest entry.
Oldest(entries) == SortSeq(entries, LAMBDA a, b : a.created < b.created)

Order(sorted) ==
    FoldLeft(LAMBDA seen, e : IF e.domain \in Range(seen) THEN seen ELSE Append(seen, e.domain),
             <<>>, sorted)

Group(sorted, d) == SelectSeq(sorted, LAMBDA e : e.domain = d)

Round(sorted, k) ==
    LET served == SelectSeq(Order(sorted), LAMBDA d : k <= Len(Group(sorted, d)))
    IN  [i \in DOMAIN served |-> Group(sorted, served[i])[k]]

fairPendingGrouped(entries) ==
    LET sorted == Oldest(entries)
    IN  FlattenSeq([i \in DOMAIN Order(sorted) |-> Group(sorted, Order(sorted)[i])])

fairPending(entries) ==
    LET sorted == Oldest(entries)
    IN  FlattenSeq([k \in DOMAIN sorted |-> Round(sorted, k)])

BacklogInit == case \in [entries : Backlogs]

\* No destination waits behind another's backlog: every pending entry is offered
\* once, a destination's entries by age, and before the k-th entry of one
\* destination no other destination has had more than k; the waiting time grows
\* with every attempt and stays within the policy.
RetriesFair ==
    LET out == fairPending(case.entries)
        Rank(i) == Cardinality({j \in 1 .. i : out[j].domain = out[i].domain})
    IN  /\ Len(out) = Len(case.entries) /\ Range(out) = Range(case.entries)
        /\ \A i, j \in DOMAIN out : i < j =>
             /\ out[i].domain = out[j].domain => out[i].created < out[j].created
             /\ Rank(i) <= Rank(j)
        /\ \A n \in 0 .. MaxAttempts - 1 :
             /\ Delay(n) \in InitialDelay .. MaxDelay
             /\ Delay(n) <= Delay(n + 1)

(***************************************************************************)
(* Delivery reports.                                                       *)
(***************************************************************************)

\* GetEnhancedStatusCode as class, subject and detail.
GetEnhancedStatusCode(code, mailbox) ==
    CASE code = 550 -> IF mailbox THEN <<5, 1, 1>> ELSE <<5, 7, 1>>
      [] code = 551 -> <<5, 1, 6>>
      [] code = 552 -> <<5, 2, 2>>
      [] code = 553 -> <<5, 1, 3>>
      [] code = 554 -> <<5, 5, 0>>
      [] code = 450 -> <<4, 2, 0>>
      [] code = 451 -> <<4, 3, 0>>
      [] code = 452 -> <<4, 2, 2>>
      [] code = 421 -> <<4, 3, 2>>
      [] OTHER -> IF code >= 500 THEN <<5, 0, 0>> ELSE <<4, 0, 0>>

\* cleanField: control characters become blanks.
cleanField(text) == [i \in DOMAIN text |-> IF text[i] = "control" THEN "blank" ELSE text[i]]

\* The headers that go with a report: those of the message when its header ends
\* within the limit.
extractHeaders(f) ==
    IF ~f.include \/ f.headerEnd > MaxHeaderBytes THEN "nothing" ELSE "headers"

\* GenerateBounce: the kinds of the three parts and the fields of the status part.
GenerateBounceEmpty(f) ==
    LET action == IF f.action # "" THEN f.action ELSE IF f.permanent THEN "failed" ELSE "delayed"
    IN  <<[kind |-> "text"],
          [kind |-> "status", envelope |-> f.envelope, recipient |-> f.recipient,
           action |-> action, status |-> GetEnhancedStatusCode(f.code, f.mailbox)],
          [kind |-> "headers", content |-> extractHeaders(f)]>>

GenerateBounce(f) ==
    LET action == IF f.action # "" THEN f.action ELSE IF f.permanent THEN "failed" ELSE "delayed"
        full == f.returnFull /\ action = "failed" /\ f.fullMax > 0 /\ f.size <= f.fullMax
    IN  <<[kind |-> "text"],
          [kind |-> "status", envelope |-> cleanField(f.envelope),
           recipient |-> cleanField(f.recipient), action |-> action,
           status |-> GetEnhancedStatusCode(f.code, f.mailbox)],
          [kind |-> IF full THEN "message" ELSE "headers",
           content |-> IF full THEN "message" ELSE extractHeaders(f)]>>

\* A line break within a field ends it: the reader sees what comes before.
Field(text) ==
    LET breaks == {i \in DOMAIN text : text[i] = "control"}
    IN  IF breaks = {} THEN text ELSE SubSeq(text, 1, Min(breaks) - 1)

\* mail.ParseAddress gives back the same text for a plain address only.
PlainAddress(text) == text # <<>> /\ Range(text) \subseteq {"char"}

\* ParseReport on the parts: the report of the first status part, or an error.
ParseReport(parts) ==
    LET at == {i \in DOMAIN parts : i <= 10 /\ parts[i].kind = "status"}
        p == parts[Min(at)]
    IN  IF at = {} \/ ~PlainAddress(Field(p.recipient)) \/ p.status[1] \notin {2, 4, 5}
          THEN <<>>
          ELSE <<[recipient |-> Field(p.recipient), action |-> p.action,
                  status |-> p.status, envelope |-> Field(p.envelope)]>>

FailureInit == case \in Failures

\* The report about a failed or delayed recipient is one this hub itself can
\* track: the reader of incoming reports finds exactly that recipient with the
\* action and the status class of the failure, one envelope id, and the message
\* itself is returned only when the sender asked for it, delivery failed for
\* good and the size limit allows it.
ReportsReadable ==
    LET f == case
        parts == GenerateBounce(f)
        read == ParseReport(parts)
        failed == f.action = "" /\ f.permanent
    IN  /\ PlainAddress(f.recipient) =>
              /\ Len(read) = 1
              /\ read[1].recipient = f.recipient
              /\ read[1].action = (IF f.action # "" THEN f.action
                                   ELSE IF f.permanent THEN "failed" ELSE "delayed")
              /\ (f.code \in 400 .. 599) => read[1].status[1] = f.code \div 100
              /\ Len(read[1].envelope) = Len(f.envelope)
        /\ ~PlainAddress(f.recipient) => read = <<>>
        /\ parts[3].content = "message" => f.returnFull /\ failed /\ f.size <= f.fullMax

=============================================================================

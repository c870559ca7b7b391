------------------------------- MODULE Ledger --------------------------------
(***************************************************************************)
(* Two records of administration kept on disk: the hash chain of privileged *)
(* actions (internal/auditlog) and the outbox of the management webhooks    *)
(* (internal/extensions/webhooks.go) with the API middleware that fills it  *)
(* (api/extensions.go).                                                     *)
(***************************************************************************)
EXTENDS Naturals, FiniteSets, FiniteSetsExt, SequencesExt

CONSTANTS
    MaxLines,       \* bound: writes to the chain
    Hooks,          \* configured webhooks
    MaxAttempts,    \* deliveries of an event before it is dead (10)
    Retain,         \* ticks a delivered event is kept (7 days)
    Cap,            \* events of a full outbox (10000)
    MaxEvents,      \* bound: management requests
    MaxTime         \* bound of the clock

VARIABLES
    lines,          \* lines of the chain on disk
    log,            \* the Log in memory, or closed
    kept,           \* history: acknowledged records
    now,
    events,         \* table events
    rows,           \* table deliveries: <<event, hook>> -> row
    mutation,       \* handlers under way: event -> "begun" | "done" | "gone"
    batch,          \* Dispatch: the rows it selected and still has to send
    acked,          \* history: deliveries answered by 2xx
    restarted       \* history: events whose process ended before Finish

audit == <<lines, log, kept>>
outbox == <<now, events, rows, mutation, batch, acked, restarted>>
vars == <<audit, outbox>>

Put(m, k, v) == [x \in DOMAIN m \cup {k} |-> IF x = k THEN v ELSE m[x]]
Drop(m, K) == [x \in DOMAIN m \ K |-> m[x]]

Init ==
    /\ lines = <<>> /\ log = [open |-> TRUE, seq |-> 0, head |-> 0, failed |-> FALSE] /\ kept = {}
    /\ now = 0 /\ events = <<>> /\ rows = <<>> /\ mutation = <<>> /\ batch = <<>>
    /\ acked = {} /\ restarted = {}

-----------------------------------------------------------------------------
(* The chain.  A record's hash is its own number here: two records differ   *)
(* in time and contents.  A line is whole, or torn: without its newline.    *)

\* What a write of record r does to the file: it follows a torn line on the
\* same line, which then is no record.
Written(r, whole) ==
    IF lines # <<>> /\ Last(lines).state = "torn"
    THEN Append(Front(lines), [state |-> IF whole THEN "bad" ELSE "torn"])
    ELSE Append(lines, IF whole THEN r @@ [state |-> "whole"] ELSE [state |-> "torn"])

\* Verify: sequence and head of the chain, or the first bad line.
Chained(ls) ==
    \A i \in DOMAIN ls :
        /\ ls[i].state = "whole"
        /\ ls[i].seq = i
        /\ ls[i].prev = IF i = 1 THEN 0 ELSE ls[i - 1].hash

\* Mutant: a failed append does not close the log.
FailedForgets == log

\* After a failed append the log refuses every other.
Failed == [log EXCEPT !.failed = TRUE]

\* Append.  The write may be short; it may be whole and its sync, or that of
\* the directory, fail: then the caller is refused and the log stays closed.
AppendRecord ==
    /\ log.open /\ ~log.failed /\ Cardinality(kept) + Len(lines) < MaxLines
    /\ LET r == [seq |-> log.seq + 1, prev |-> log.head, hash |-> Len(lines) + Cardinality(kept) + 1]
       IN  \/ /\ lines' = Written(r, TRUE)
              /\ log' = [log EXCEPT !.seq = r.seq, !.head = r.hash]
              /\ kept' = kept \cup {r.hash}
           \/ /\ \E whole \in BOOLEAN : lines' = Written(r, whole)
              /\ log' = Failed
              /\ UNCHANGED kept
    /\ UNCHANGED outbox

\* The process ends; a record that was not acknowledged may be lost or torn.
\* Open refuses a file whose last line is torn and one that is not chained.
ReopenLog ==
    /\ \E ls \in {lines} \cup (IF lines # <<>> /\ Last(lines).state = "whole" /\ Last(lines).hash \notin kept
                               THEN {Front(lines), Append(Front(lines), [state |-> "torn"])} ELSE {}) :
          /\ lines' = ls
          /\ log' = IF Chained(ls)
                    THEN [open |-> TRUE, seq |-> Len(ls), failed |-> FALSE,
                          head |-> IF ls = <<>> THEN 0 ELSE Last(ls).hash]
                    ELSE [open |-> FALSE]
    /\ UNCHANGED <<kept, outbox>>

AuditNext == AppendRecord \/ ReopenLog

-----------------------------------------------------------------------------
(* The outbox *)

Delay(attempt) == 2 ^ Min({attempt, 12})
Undelivered(e) == \E h \in Hooks : <<e, h>> \in DOMAIN rows /\ rows[<<e, h>>].state # "sent"

\* Mutant: whatever is old is pruned.
PrunableOld(e) == events[e].created + Retain < now

Prunable(e) == events[e].created + Retain < now /\ ~Undelivered(e)

\* Begin, in one transaction: prune, refuse when full, then the event with a
\* delivery to every hook.  A refused transaction rolls the pruning back.
Begin(e) ==
    /\ e = Cardinality(DOMAIN mutation) + 1
    /\ LET old == {x \in DOMAIN events : Prunable(x)}
           left == Drop(events, old)
       IN  /\ Cardinality(DOMAIN left) < Cap
           /\ events' = Put(left, e, [ready |-> FALSE, outcome |-> "interrupted_or_unknown", created |-> now])
           /\ rows' = [k \in {k \in DOMAIN rows : k[1] \notin old} \cup ({e} \X Hooks) |->
                         IF k[1] = e THEN [attempts |-> 0, due |-> 0, state |-> "pending"] ELSE rows[k]]
    /\ mutation' = Put(mutation, e, "begun")
    /\ UNCHANGED <<audit, now, batch, acked, restarted>>

\* recordMutation after the handler returned; Finish may fail, and the intent
\* then waits for the next start.
Finish(e) ==
    /\ e \in DOMAIN mutation /\ mutation[e] = "begun"
    /\ mutation' = [mutation EXCEPT ![e] = "done"]
    /\ \/ events' = [events EXCEPT ![e].outcome = "completed", ![e].ready = TRUE]
       \/ UNCHANGED events
    /\ UNCHANGED <<audit, now, rows, batch, acked, restarted>>

Retry ==
    /\ \E k \in DOMAIN rows : rows[k].state = "dead"
    /\ rows' = [k \in DOMAIN rows |-> IF rows[k].state = "dead"
                                      THEN [attempts |-> 0, due |-> 0, state |-> "pending"] ELSE rows[k]]
    /\ UNCHANGED <<audit, now, events, mutation, batch, acked, restarted>>

\* Dispatch selects what is ready, pending and due, oldest first.
Select ==
    /\ batch = <<>>
    /\ LET due == {k \in DOMAIN rows : events[k[1]].ready /\ rows[k].state = "pending" /\ rows[k].due <= now}
       IN  /\ due # {}
           /\ batch' \in {[i \in DOMAIN s |-> [key |-> s[i], attempt |-> rows[s[i]].attempts, outcome |-> events[s[i][1]].outcome]] :
                            s \in {s \in SetToSeqs(due) : \A i, j \in DOMAIN s :
                                      i < j => events[s[i][1]].created <= events[s[j][1]].created}}
    /\ UNCHANGED <<audit, now, events, rows, mutation, acked, restarted>>

\* The row after an attempt.
After(attempt, sent) ==
    [attempts |-> attempt, due |-> now + Delay(attempt),
     state |-> IF sent THEN "sent" ELSE IF attempt >= MaxAttempts THEN "dead" ELSE "pending"]

\* One turn of the loop: post, then update the row.  The update may fail, which
\* ends the batch.
Post ==
    /\ batch # <<>>
    /\ LET v == Head(batch)
       IN  \E sent, saved \in BOOLEAN :
             /\ acked' = IF sent THEN acked \cup {v.key} ELSE acked
             /\ rows' = IF saved /\ v.key \in DOMAIN rows
                        THEN [rows EXCEPT ![v.key] = After(v.attempt + 1, sent)] ELSE rows
             /\ batch' = IF saved THEN Tail(batch) ELSE <<>>
    /\ UNCHANGED <<audit, now, events, mutation, restarted>>

\* A restart: OpenOutbox makes the interrupted intents ready.
Restart ==
    /\ events' = [e \in DOMAIN events |-> [events[e] EXCEPT !.ready = TRUE]]
    /\ restarted' = restarted \cup {e \in DOMAIN events : ~events[e].ready}
    /\ mutation' = [e \in DOMAIN mutation |-> "done"]
    /\ batch' = <<>>
    /\ <<events', mutation', batch'>> # <<events, mutation, batch>>
    /\ UNCHANGED <<audit, now, rows, acked>>

Tick == now < MaxTime /\ now' = now + 1 /\ UNCHANGED <<audit, events, rows, mutation, batch, acked, restarted>>

OutboxNext ==
    \/ Retry \/ Select \/ Post \/ Restart \/ Tick
    \/ \E e \in 1 .. MaxEvents : Begin(e) \/ Finish(e)

-----------------------------------------------------------------------------
\* An open log is the chain on disk (auditlog/audit.go:90): unless an append
\* failed, sequence and head are those of a verified file; and no record that
\* was acknowledged is ever missing from it, whatever failed or crashed.
ChainTrue ==
    /\ log.open /\ ~log.failed =>
         Chained(lines) /\ log.seq = Len(lines) /\ (lines = <<>> \/ log.head = Last(lines).hash)
    /\ \A h \in kept : \E i \in DOMAIN lines : lines[i].state = "whole" /\ lines[i].hash = h

\* Every management request that was let through is told to every hook or is
\* still in the outbox (webhooks.go:80, "never evict undelivered events"); a
\* row is "sent" only after an answer of 2xx; and a hook learns of an
\* interruption only when the outcome could not be stored before a restart.
OutboxKept ==
    /\ \A e \in DOMAIN mutation, h \in Hooks :
         <<e, h>> \in acked \/ (e \in DOMAIN events /\ <<e, h>> \in DOMAIN rows /\ rows[<<e, h>>].state # "sent")
    /\ \A i \in DOMAIN batch : batch[i].outcome = "completed" \/ batch[i].key[1] \in restarted
=============================================================================

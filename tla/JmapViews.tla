------------------------------- MODULE JmapViews -------------------------------
(***************************************************************************)
(* What a JMAP client can know of the server: EmailSubmission/get, /set    *)
(* and /changes (jmap/submission.go, jmap/query_sync.go), Email/query,     *)
(* /queryChanges and Thread/changes (jmap/read.go, jmap/thread.go), and    *)
(* the event streams (jmap/push.go).  A state token is the digest of the   *)
(* listed objects, here the list itself; the snapshots kept for the tokens *)
(* are those of storage/jmap_snapshots.go.                                 *)
(***************************************************************************)
EXTENDS Naturals, Sequences, FiniteSets, FiniteSetsExt, SequencesExt, Functions

CONSTANTS
    Ids,            \* submissions, numbered in the order of their ids
    Emails,         \* drafts a submission can name
    Calls,          \* EmailSubmission/set calls of the clients
    Limits,         \* values of maxChanges
    Keep,           \* snapshots kept of a kind (64)
    Msgs,           \* messages, numbered in the order of their ids
    DateOf,         \* [Msgs -> Nat]: date of a message
    ThreadOf,       \* [Msgs -> threads]
    Flaggable,      \* bound: messages whose keyword changes
    Queries,        \* queries: [flagged: filter on a keyword, collapse]
    Streams,        \* event streams
    OwnerOf,        \* [Streams -> users]
    MaxTotal,       \* event streams of the server (64)
    MaxPerUser,     \* event streams of one user (4)
    MaxEvents       \* bound: changes of the watched stores

VARIABLES
    receipts,       \* [Ids -> status], "none" before and "gone" after
    subject,        \* [Ids -> Emails]: the email a submission sends
    emails,         \* [Emails -> [here, keywords]]
    snaps,          \* [kind -> sequence of tokens], the newest last
    client,         \* the client's copy and its state tokens
    set,            \* the EmailSubmission/set that holds submissionMu
    mail,           \* [Msgs -> [at, flagged]]: "unborn", "here" or "gone"
    world,          \* [users -> [stores -> Nat]]: revisions of what a user can watch
    stream,         \* [Streams -> [open, last, told, read, whole, polled]]
    pushTotal, pushUsers

subVars == <<receipts, subject, emails, snaps, client, set>>
pushVars == <<world, stream, pushTotal, pushUsers>>

-----------------------------------------------------------------------------
(* Snapshots *)

\* SaveSnapshot: INSERT OR REPLACE, then all but the newest are deleted.
Save(s, kind, token) ==
    LET all == Append(SelectSeq(s[kind], LAMBDA t : t # token), token)
    IN  [s EXCEPT ![kind] = SubSeq(all, Max({1, Len(all) - Keep + 1}), Len(all))]

\* LoadSnapshot
Known(s, kind, token) == token \in Range(s[kind])

FirstOf(S, n) == {i \in S : Cardinality({j \in S : j < i}) < n}
Over(f, g) == [i \in DOMAIN f \cup DOMAIN g |-> IF i \in DOMAIN f THEN f[i] ELSE g[i]]
Without(f, S) == [i \in DOMAIN f \ S |-> f[i]]
Agree(f, g, i) == (i \in DOMAIN f <=> i \in DOMAIN g) /\ (i \in DOMAIN f => f[i] = g[i])

-----------------------------------------------------------------------------
(* Submissions *)

Listed == Restrict(receipts, {i \in Ids : receipts[i] \notin {"none", "gone"}})

Idle == [phase |-> "idle"]

\* submissionGet without ids, and with the ids the last changes named.
SubmissionGet ==
    /\ set = Idle
    /\ snaps' = Save(snaps, "receipts", Listed)
    /\ client' = [client EXCEPT !.token = Listed, !.cache = Listed, !.want = {}]
    /\ UNCHANGED <<receipts, subject, emails, set>>

SubmissionFetch ==
    /\ set = Idle /\ client.want # {}
    /\ snaps' = Save(snaps, "receipts", Listed)
    /\ client' = [client EXCEPT !.want = {},
                    !.cache = Over(Restrict(Listed, client.want \cap DOMAIN Listed),
                                   Without(@, client.want))]
    /\ UNCHANGED <<receipts, subject, emails, set>>

\* submissionChanges: one page, removed before created before updated.
Page(old, now, limit) ==
    LET gone == DOMAIN old \ DOMAIN now
        fresh == DOMAIN now \ DOMAIN old
        moved == {i \in DOMAIN now \cap DOMAIN old : now[i] # old[i]}
        removed == FirstOf(gone, limit)
        created == FirstOf(fresh, limit - Cardinality(removed))
        updated == FirstOf(moved, limit - Cardinality(removed \cup created))
    IN  [more |-> Cardinality(gone \cup fresh \cup moved) > limit,
         removed |-> removed, fetch |-> created \cup updated]

\* Mutant: a page that leaves some changes out answers the final state.
PageStateFinal(old, now, p) == now

\* The state after a page is what a client that applied the page has.
PageState(old, now, p) ==
    IF p.more THEN Over(Restrict(now, p.fetch), Without(old, p.removed)) ELSE now

SubmissionChanges(limit) ==
    LET old == client.token
        p == Page(old, Listed, limit)
        state == PageState(old, Listed, p)
        saved == Save(snaps, "receipts", Listed)
    IN  /\ set = Idle
        /\ Known(snaps, "receipts", old)
        /\ snaps' = IF p.more THEN Save(saved, "receipts", state) ELSE saved
        /\ client' = [client EXCEPT !.token = state, !.cache = Without(@, p.removed),
                        !.want = (@ \ p.removed) \cup p.fetch]
        /\ UNCHANGED <<receipts, subject, emails, set>>

\* createSubmission up to the hand-over to the SMTP path (verdict).
CreateSubmission(a, verdict) ==
    CASE ~a.shaped \/ a.email \notin Emails -> "invalidProperties"
      [] a.shaped /\ a.email \in Emails /\ ~emails[a.email].here -> "invalidProperties"
      [] OTHER ->
           CASE a.size = "large" -> "tooLarge"
             [] a.size # "large" /\ ~a.fromSelf -> "forbiddenFrom"
             [] a.size # "large" /\ a.fromSelf /\ a.to = 0 -> "noRecipients"
             [] OTHER -> verdict

\* submissionSet: the list is read and remembered before anything is done.
SetBegin(call) ==
    /\ set = Idle
    /\ snaps' = Save(snaps, "receipts", Listed)
    /\ (call.ifInState => client.token = Listed)
    /\ set' = [phase |-> "listed", call |-> call, list |-> Listed]
    /\ UNCHANGED <<receipts, subject, emails, client>>

\* The key a call gives to its creation; the other keys are submission ids.
Creation == 0

Unused == {i \in Ids : receipts[i] = "none"}

\* Mutant: an attempt counts as a success before its error is looked at.
SuccessesTried(call, tried, fresh, done) ==
    [k \in {Creation} \cup done |-> IF k = Creation THEN call.attempt.email ELSE subject[k]]

\* Mutant: every success stands for the email of the creation.
SuccessesOfCreation(call, tried, fresh, done) ==
    [k \in (IF tried = "ok" THEN {Creation} ELSE {}) \cup done |-> call.attempt.email]

\* Keys a success hook can name, with the email each stands for.
Successes(call, tried, fresh, done) ==
    [k \in (IF tried = "ok" THEN {Creation} ELSE {}) \cup done |->
        IF k = Creation THEN call.attempt.email ELSE subject[k]]

\* The creation, CancelSubmission and DestroySubmission of one call.
SetApply(verdict) ==
    LET call == set.call
        tried == IF ~call.create THEN "none" ELSE CreateSubmission(call.attempt, verdict)
        fresh == Min(Unused)
        owned == DOMAIN set.list
        canceled == {i \in call.cancel \cap owned : receipts[i] \in {"pending", "canceled"}}
        after == [i \in Ids |-> IF i \in canceled THEN "canceled" ELSE receipts[i]]
        destroyed == {i \in call.destroy \cap owned : after[i] \in {"final", "canceled"}}
        made == tried = "ok" /\ Unused # {}
        status == IF call.attempt.later THEN "pending" ELSE "final"
    IN  /\ set.phase = "listed"
        /\ call.create => Unused # {}
        /\ receipts' = [i \in Ids |-> IF i \in destroyed THEN "gone"
                                      ELSE IF made /\ i = fresh THEN status ELSE after[i]]
        /\ subject' = IF made THEN [subject EXCEPT ![fresh] = call.attempt.email] ELSE subject
        /\ LET kept == Without([i \in owned |-> IF i \in canceled THEN "canceled" ELSE set.list[i]],
                               destroyed)
           IN  set' = [phase |-> "applied", call |-> call, list |-> set.list,
                       remaining |-> IF made THEN Over([i \in {fresh} |-> status], kept) ELSE kept,
                       changed |-> canceled \cup destroyed \cup (IF made THEN {fresh} ELSE {}),
                       successful |-> Successes(call, tried, fresh, canceled \cup destroyed)]
        /\ UNCHANGED <<emails, snaps, client>>

\* Hooks on one email are merged; two that disagree make the update invalid.
Hooked(e) == {k \in DOMAIN set.call.hooks \cap DOMAIN set.successful : set.successful[k] = e}
Conflict(e) == \E j, k \in Hooked(e) : \E w \in DOMAIN set.call.hooks[j] \cap DOMAIN set.call.hooks[k] :
                  set.call.hooks[j][w] # set.call.hooks[k][w]
Doomed == {set.successful[k] : k \in set.call.hookDestroy \cap DOMAIN set.successful}

\* emailPatch and keywordPatch applied by Email/set.
Patched(e) ==
    LET value(w) == {set.call.hooks[k][w] : k \in {j \in Hooked(e) : w \in DOMAIN set.call.hooks[j]}}
    IN  {w \in emails[e].keywords : FALSE \notin value(w)}
            \cup UNION {{w \in DOMAIN set.call.hooks[k] : set.call.hooks[k][w]} : k \in Hooked(e)}

FollowUp ==
    [e \in Emails |->
        IF ~emails[e].here THEN emails[e]
        ELSE IF e \in Doomed THEN [emails[e] EXCEPT !.here = FALSE]
        ELSE IF Conflict(e) THEN emails[e]
        ELSE [emails[e] EXCEPT !.keywords = Patched(e)]]

\* Mutant: the new state is computed from a second look at the store.
NewStateReread == Listed

NewState == set.remaining

\* The new state is remembered if that works, and the follow-up Email/set run;
\* a client whose copy had the old state goes on from the new one.
SetEnd(remembered) ==
    /\ set.phase = "applied"
    /\ snaps' = IF remembered THEN Save(snaps, "receipts", NewState) ELSE snaps
    /\ emails' = FollowUp
    /\ client' = IF client.token # set.list \/ client.want # {} THEN client
                 ELSE [client EXCEPT !.token = NewState,
                         !.cache = Without(Over(Restrict(set.remaining, set.changed \cap DOMAIN set.remaining), @),
                                           set.changed \ DOMAIN set.remaining)]
    /\ set' = Idle
    /\ UNCHANGED <<receipts, subject>>

\* FinishScheduled by the dispatcher, and ExpireWorkflowRecords.
Dispatch(i) ==
    /\ receipts[i] = "pending"
    /\ receipts' = [receipts EXCEPT ![i] = "final"]
    /\ UNCHANGED <<subject, emails, snaps, client, set>>

ExpireReceipt(i) ==
    /\ receipts[i] \in {"final", "canceled"}
    /\ receipts' = [receipts EXCEPT ![i] = "gone"]
    /\ UNCHANGED <<subject, emails, snaps, client, set>>

\* pushState remembers the list of the moment without taking submissionMu.
PushRemembers ==
    /\ snaps' = Save(snaps, "receipts", Listed)
    /\ UNCHANGED <<receipts, subject, emails, client, set>>

SubmissionInit ==
    /\ receipts = [i \in Ids |-> "none"]
    /\ subject = [i \in Ids |-> CHOOSE e \in Emails : TRUE]
    /\ emails = [e \in Emails |-> [here |-> TRUE, keywords |-> {"draft"}]]
    /\ snaps = [k \in {"receipts"} |-> <<>>]
    /\ client = [token |-> <<>>, cache |-> <<>>, want |-> {}]
    /\ set = Idle

SubmissionNext ==
    \/ SubmissionGet \/ SubmissionFetch \/ PushRemembers
    \/ \E limit \in Limits : SubmissionChanges(limit)
    \/ \E call \in Calls : SetBegin(call)
    \/ \E verdict \in {"ok", "forbiddenToSend", "serverFail"} : SetApply(verdict)
    \/ \E remembered \in BOOLEAN : SetEnd(remembered)
    \/ \E i \in Ids : Dispatch(i) \/ ExpireReceipt(i)

(* A client that applies what /get, /changes and /set answer misses no       *)
(* change of a submission: where its state token agrees with the server, so  *)
(* does its copy (rememberSubmissions, submissionChanges, submissionSet).    *)
SubmissionsFollowed ==
    \A i \in Ids \ client.want :
        Agree(client.token, Listed, i) => Agree(client.cache, Listed, i)

(* The follow-up of EmailSubmission/set changes a draft only when the call   *)
(* really created, canceled or removed a submission of that draft            *)
(* (submissionSet, onSuccessUpdateEmail and onSuccessDestroyEmail).          *)
HooksFollowSuccess ==
    set.phase = "applied" =>
        \A e \in Emails : FollowUp[e] # emails[e] =>
            \E i \in set.changed : subject[i] = e

-----------------------------------------------------------------------------
(* Queries and threads *)

Later(a, b) == DateOf[a] > DateOf[b] \/ (DateOf[a] = DateOf[b] /\ a < b)
Here == {m \in Msgs : mail[m].at = "here"}

\* emailQuery: filter, newest first, one message of a thread when collapsed.
EmailQuery(q) ==
    LET match == {m \in Here : q.flagged => mail[m].flagged}
        shown == {m \in match : q.collapse =>
                    ~\E n \in match : ThreadOf[n] = ThreadOf[m] /\ Later(n, m)}
    IN  SetToSortSeq(shown, Later)

\* rememberQuery: the token also covers the state of the account.
QueryToken(q) == [query |-> q, mail |-> mail, ids |-> EmailQuery(q)]

\* threadSnapshot, oldest message first.
Threads ==
    [t \in {ThreadOf[m] : m \in Here} |->
        SetToSortSeq({m \in Here : ThreadOf[m] = t}, LAMBDA a, b : ~Later(a, b) /\ a # b)]

RunQuery(q) ==
    /\ snaps' = Save(snaps, "Email", QueryToken(q))
    /\ client' = [client EXCEPT !.token = QueryToken(q), !.list = EmailQuery(q)]
    /\ UNCHANGED mail

\* Another client's query of the same user: only its snapshot is seen here.
OtherQuery(q) ==
    /\ snaps' = Save(snaps, "Email", QueryToken(q))
    /\ UNCHANGED <<mail, client>>

\* Mutant: the index of an added id is its place among the added ones.
IndexAmongAdded(current, old, i) == Cardinality({j \in 1..i : current[j] \notin old})

AddedIndex(current, old, i) == i

\* What RFC 8620 tells a client to do with removed and added.
Splice(list, current, old) ==
    LET kept == SelectSeq(list, LAMBDA m : m \in Range(current))
        added == SelectSeq([i \in DOMAIN current |-> i], LAMBDA i : current[i] \notin old)
    IN  FoldLeft(LAMBDA s, i : LET at == Min({AddedIndex(current, old, i), Len(s) + 1})
                               IN  SubSeq(s, 1, at - 1) \o <<current[i]>> \o SubSeq(s, at, Len(s)),
                 kept, added)

\* queryChanges
QueryChanges(limit) ==
    LET t == client.token
        now == QueryToken(t.query)
        old == Range(t.ids)
        size == Cardinality((old \ Range(now.ids)) \cup (Range(now.ids) \ old))
    IN  /\ Known(snaps, "Email", t)
        /\ snaps' = Save(snaps, "Email", now)
        /\ size <= limit        \* otherwise tooManyChanges, and the client queries anew
        /\ client' = [client EXCEPT !.token = now, !.list = Splice(@, now.ids, old)]
        /\ UNCHANGED mail

\* threadChanges: the client forgets what is destroyed and wants the rest.
ThreadChanges(limit) ==
    LET p == Page(client.token, Threads, limit)
    IN  /\ Known(snaps, "Thread", client.token)
        /\ snaps' = Save(snaps, "Thread", Threads)
        /\ ~p.more              \* otherwise cannotCalculateChanges
        /\ client' = [client EXCEPT !.token = Threads, !.threads = Without(@, p.removed),
                        !.want = (@ \ p.removed) \cup p.fetch,
                        !.known = @ \cup p.fetch \cup p.removed]
        /\ UNCHANGED mail

\* threadGet answers the ids it is asked for, from a snapshot of its own: those
\* that changes named, or those a client that starts anew has seen in emails.
\* What comes with another state than the client's it asks for again later.
ThreadGet ==
    /\ client.want # {}
    /\ snaps' = Save(snaps, "Thread", Threads)
    /\ client' = [client EXCEPT !.want = IF Threads = client.token THEN {} ELSE @,
                    !.threads = Over(Restrict(Threads, client.want \cap DOMAIN Threads),
                                     Without(@, client.want))]
    /\ UNCHANGED mail

ThreadStart(ids) ==
    /\ snaps' = Save(snaps, "Thread", Threads)
    /\ client' = [token |-> Threads, threads |-> Restrict(Threads, ids \cap DOMAIN Threads),
                  want |-> {}, known |-> ids]
    /\ UNCHANGED mail

Deliver(m) ==
    /\ mail[m].at = "unborn"
    /\ mail' = [mail EXCEPT ![m].at = "here"]
    /\ UNCHANGED <<snaps, client>>

Change(m) ==
    /\ m \in Here
    /\ \/ mail' = [mail EXCEPT ![m].at = "gone"]
       \/ m \in Flaggable /\ mail' = [mail EXCEPT ![m].flagged = ~@]
    /\ UNCHANGED <<snaps, client>>

NoMail == mail = [m \in Msgs |-> [at |-> "unborn", flagged |-> FALSE]]

QueryInit ==
    /\ NoMail
    /\ snaps = [k \in {"Email"} |-> <<>>]
    /\ client = [token |-> QueryToken(CHOOSE q \in Queries : TRUE), list |-> <<>>]

QueryNext ==
    \/ \E q \in Queries : RunQuery(q) \/ OtherQuery(q)
    \/ \E limit \in Limits : QueryChanges(limit)
    \/ \E m \in Msgs : Deliver(m) \/ Change(m)

(* A client that splices removed and added into its list has the list its    *)
(* query state stands for (emailQuery, queryChanges), whatever queries of    *)
(* other clients let its snapshots expire.                                   *)
QueriesFollowed == client.list = client.token.ids

ThreadInit ==
    /\ NoMail
    /\ snaps = [k \in {"Thread"} |-> <<>>]
    /\ client = [token |-> <<>>, threads |-> <<>>, want |-> {}, known |-> {}]

ThreadNext ==
    \/ ThreadGet
    \/ \E ids \in SUBSET Range(ThreadOf) : ThreadStart(ids)
    \/ \E limit \in Limits : ThreadChanges(limit)
    \/ \E m \in Msgs : Deliver(m) \/ Change(m)

(* A client that applies Thread/changes and fetches what it names, in        *)
(* requests of their own between which mail arrives and goes, misses no      *)
(* change of a thread it has asked for: where its state token agrees with    *)
(* the server, so does its copy, the messages in order (threadSnapshot,      *)
(* threadGet, threadChanges).                                                *)
ThreadsFollowed ==
    \A t \in client.known \ client.want :
        Agree(client.token, Threads, t) => Agree(client.threads, Threads, t)

-----------------------------------------------------------------------------
(* Event streams *)

\* The stores pushState reads, one after another: the messages for Email and
\* EmailDelivery, again for Thread, then the mailboxes and the submissions.
Sources == <<"mail", "mail", "boxes", "submissions">>

Current(u) == [k \in DOMAIN Sources |-> world[u][Sources[k]]]

Closed(s) == [stream[s] EXCEPT !.open = FALSE, !.last = <<>>, !.read = <<>>, !.whole = FALSE,
                               !.polled = FALSE]

\* Mutant: a new stream takes the state of the moment as already told.
ResumedCurrent(s) == Current(OwnerOf[s])

\* The Last-Event-ID of the request: the last event this client received.
Resumed(s) == stream[s].told

\* acquirePush: both limits are checked under pushMu.
OpenStream(s) ==
    LET u == OwnerOf[s] IN
    /\ ~stream[s].open
    /\ pushTotal < MaxTotal /\ pushUsers[u] < MaxPerUser
    /\ pushTotal' = pushTotal + 1
    /\ pushUsers' = [pushUsers EXCEPT ![u] = @ + 1]
    /\ stream' = [stream EXCEPT ![s].open = TRUE, ![s].last = Resumed(s)]
    /\ UNCHANGED world

\* Mutant: a stream that fails to write leaves without giving its slot back.
ReleaseFailsLeaks(s, failed) ==
    /\ pushTotal' = IF failed THEN pushTotal ELSE pushTotal - 1
    /\ pushUsers' = IF failed THEN pushUsers ELSE [pushUsers EXCEPT ![OwnerOf[s]] = @ - 1]

Release(s, failed) ==
    /\ pushTotal' = pushTotal - 1
    /\ pushUsers' = [pushUsers EXCEPT ![OwnerOf[s]] = @ - 1]

\* One read of pushState; whole says that nothing changed since the first one.
PushState(s) ==
    LET r == stream[s].read IN
    /\ stream[s].open /\ Len(r) < Len(Sources)
    /\ stream' = [stream EXCEPT ![s].read = Append(r, world[OwnerOf[s]][Sources[Len(r) + 1]]),
                                ![s].whole = @ \/ r = <<>>]
    /\ UNCHANGED <<world, pushTotal, pushUsers>>

\* The rest of a turn of handleEvents: the event is written, or the write fails.
Poll(s, delivered, closeAfter) ==
    LET token == stream[s].read
        turned == [stream[s] EXCEPT !.read = <<>>, !.whole = FALSE,
                                    !.polled = @ \/ stream[s].whole]
    IN
    /\ stream[s].open /\ Len(token) = Len(Sources)
    /\ UNCHANGED world
    /\ IF token = stream[s].last
       THEN /\ stream' = [stream EXCEPT ![s] = turned]
            /\ UNCHANGED <<pushTotal, pushUsers>>
       ELSE IF ~delivered
       THEN stream' = [stream EXCEPT ![s] = Closed(s)] /\ Release(s, TRUE)
       ELSE IF closeAfter
       THEN stream' = [stream EXCEPT ![s] = [Closed(s) EXCEPT !.told = token]] /\ Release(s, FALSE)
       ELSE /\ stream' = [stream EXCEPT ![s] = [turned EXCEPT !.told = token, !.last = token]]
            /\ UNCHANGED <<pushTotal, pushUsers>>

\* The request ends, a read fails, the account is disabled, or the server
\* shuts down.
CloseStream(s) ==
    /\ stream[s].open
    /\ stream' = [stream EXCEPT ![s] = Closed(s)]
    /\ Release(s, FALSE)
    /\ UNCHANGED world

\* The triggers log a message with its mailboxes, or a mailbox alone; the
\* status of a submission is in the message store.
WorldChanges(u, stores) ==
    /\ FoldFunction(LAMBDA w, n : n + SumFunction(w), 0, world) < MaxEvents
    /\ world' = [world EXCEPT ![u] = [k \in DOMAIN @ |-> IF k \in stores THEN @[k] + 1 ELSE @[k]]]
    /\ stream' = [s \in Streams |-> IF OwnerOf[s] = u
                                    THEN [stream[s] EXCEPT !.polled = FALSE, !.whole = FALSE]
                                    ELSE stream[s]]
    /\ UNCHANGED <<pushTotal, pushUsers>>

PushInit ==
    /\ world = [u \in Range(OwnerOf) |-> [k \in Range(Sources) |-> 0]]
    /\ stream = [s \in Streams |-> [open |-> FALSE, last |-> <<>>, told |-> <<>>,
                                    read |-> <<>>, whole |-> FALSE, polled |-> FALSE]]
    /\ pushTotal = 0
    /\ pushUsers = [u \in Range(OwnerOf) |-> 0]

PushNext ==
    \/ \E s \in Streams : OpenStream(s) \/ PushState(s) \/ CloseStream(s)
    \/ \E s \in Streams, delivered, closeAfter \in BOOLEAN : Poll(s, delivered, closeAfter)
    \/ \E u \in DOMAIN world, stores \in {{"mail", "boxes"}, {"boxes"}, {"submissions"}} :
          WorldChanges(u, stores)

(* The client of an open stream that made a whole turn since the last change *)
(* was told the current states, whatever changed between the reads of        *)
(* earlier turns and at reconnections (pushState, handleEvents), and the     *)
(* slots in use are the open streams (acquirePush and its release).          *)
StreamsTold ==
    /\ \A s \in Streams :
         stream[s].open /\ stream[s].polled => stream[s].told = Current(OwnerOf[s])
    /\ pushTotal = Cardinality({s \in Streams : stream[s].open})
    /\ \A u \in DOMAIN pushUsers :
         pushUsers[u] = Cardinality({s \in Streams : stream[s].open /\ OwnerOf[s] = u})
=============================================================================

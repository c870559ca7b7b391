------------------------------ MODULE MailSync ------------------------------
(***************************************************************************)
(* The JMAP change logs of one account (internal/storage/email_sync.go,    *)
(* mailbox_sync.go).  SQLite triggers append an event to the log of emails *)
(* or of mailboxes inside every transaction that changes what a client can *)
(* see of one; a log keeps the last Retain events and its floor says how   *)
(* far back it reaches.  A client holds a state token for each log and a   *)
(* cache, and brings the cache up to date with pages of changes followed   *)
(* by fetches, while deliveries and other sessions go on.                  *)
(***************************************************************************)
EXTENDS Naturals, Sequences, FiniteSets

LOCAL INSTANCE FiniteSetsExt
LOCAL INSTANCE SequencesExt

CONSTANTS
    Emails,     \* msg_id values
    Boxes,      \* jmap_id values of mailboxes
    Inbox,      \* the mailbox every account starts with
    Retain,     \* events kept per account and log (10000 in the code)
    Limits,     \* maxChanges a client may ask for
    MaxSeq      \* bound on the sequence numbers of a log

ASSUME MailSyncAssumption ==
    /\ IsFiniteSet(Emails) /\ IsFiniteSet(Boxes) /\ Emails \cap Boxes = {}
    /\ Inbox \in Boxes
    /\ Retain \in Nat \ {0} /\ Limits \subseteq Nat \ {0} /\ MaxSeq \in Nat

\* An object that does not exist yet, and one that was destroyed: identifiers
\* are random, and never used again.
Absent == [state |-> "absent"]
Gone == [state |-> "gone"]

VARIABLES
    email,      \* message_flags: the mailbox and the seen flag of each message
    box,        \* mailbox_catalog: the attributes of each mailbox
    log,        \* email_events and mailbox_events with their *_sync rows
    token,      \* the client's state token for each log
    cache,      \* what the client believes each object to be
    pending     \* identifiers the client was told to fetch

vars == <<email, box, log, token, cache, pending>>

Kinds == {"Email", "Mailbox"}

Objects(t) == IF t = "Email" THEN Emails ELSE Boxes

In(b) == {m \in Emails : email[m].state = "live" /\ email[m].box = b}

\* What Email/get and Mailbox/get return: a mailbox is shown with its totals.
Value(t, id) ==
    CASE t = "Email" /\ email[id].state = "live" -> email[id]
      [] t = "Mailbox" /\ box[id].state = "live" ->
            [state |-> "live", name |-> box[id].name, total |-> Cardinality(In(id)),
             unread |-> Cardinality({m \in In(id) : ~email[m].seen})]
      [] OTHER -> Absent

Values(t) == [id \in Objects(t) |-> Value(t, id)]

-----------------------------------------------------------------------------
(* The logs.                                                               *)

\* Mutant: the log is never trimmed.
LoggedForever(l, evs) ==
    [events |-> l.events \cup {[seq |-> l.last + i, id |-> evs[i][1], kind |-> evs[i][2]] :
                                  i \in DOMAIN evs},
     last |-> l.last + Len(evs),
     revision |-> IF evs = <<>> THEN l.revision ELSE l.last + Len(evs),
     floor |-> l.floor]

\* The triggers append events, each a pair of an identifier and a kind; the
\* retention trigger raises the floor to the highest event it drops.
Logged(l, evs) ==
    LET all == l.events \cup {[seq |-> l.last + i, id |-> evs[i][1], kind |-> evs[i][2]] :
                                 i \in DOMAIN evs}
        kept == {e \in all : Cardinality({f \in all : f.seq > e.seq}) < Retain}
        dropped == {e.seq : e \in all \ kept}
    IN  [events |-> kept,
         last |-> l.last + Len(evs),
         revision |-> IF evs = <<>> THEN l.revision ELSE l.last + Len(evs),
         floor |-> IF dropped = {} THEN l.floor ELSE Max(dropped)]

Record(emailEvents, boxEvents) ==
    /\ log.Email.last + Len(emailEvents) <= MaxSeq
    /\ log.Mailbox.last + Len(boxEvents) <= MaxSeq
    /\ log' = [Email |-> Logged(log.Email, emailEvents),
               Mailbox |-> Logged(log.Mailbox, boxEvents)]

Later(l, n) == {e \in l.events : e.seq > n}

\* The event is the first of its object after n.
First(l, n, e) == ~ \E f \in Later(l, n) : f.id = e.id /\ f.seq < e.seq

\* A page ends before the event of one object too many.
Page(l, n, limit) ==
    {e \in Later(l, n) :
        Cardinality({f \in Later(l, n) : f.seq <= e.seq /\ First(l, n, f)}) <= limit}

HasMore(l, n, limit) == Page(l, n, limit) # Later(l, n)

\* Mutants: a page that is cut short counts as the last one, or moves nothing.
NewStateLast(l, n, limit) == l.revision
NewStateStuck(l, n, limit) == IF HasMore(l, n, limit) THEN n ELSE l.revision

NewState(l, n, limit) ==
    IF HasMore(l, n, limit) THEN Max({e.seq : e \in Page(l, n, limit)}) ELSE l.revision

FirstKind(page, id) ==
    (CHOOSE e \in page : e.id = id /\ \A f \in page : f.id = id => e.seq <= f.seq).kind

LastKind(page, id) ==
    (CHOOSE e \in page : e.id = id /\ \A f \in page : f.id = id => e.seq >= f.seq).kind

Changed(page) == {e.id : e \in page}

CreatedIn(page) ==
    {id \in Changed(page) : FirstKind(page, id) = "created" /\ LastKind(page, id) # "destroyed"}

DestroyedIn(page) ==
    {id \in Changed(page) : FirstKind(page, id) # "created" /\ LastKind(page, id) = "destroyed"}

UpdatedIn(page) ==
    {id \in Changed(page) : FirstKind(page, id) # "created" /\ LastKind(page, id) # "destroyed"}

-----------------------------------------------------------------------------
(* Writers: every protocol changes the same two tables.                    *)

Client == <<token, cache, pending>>

\* A message arrives unread, whatever other flags it has.
InsertMessage(m, b) ==
    /\ email[m] = Absent /\ box[b].state = "live"
    /\ email' = [email EXCEPT ![m] = [state |-> "live", box |-> b, seen |-> FALSE]]
    /\ Record(<<<<m, "created">>>>, <<<<b, "updated">>>>)
    /\ UNCHANGED box

SetSeen(m) ==
    /\ email[m].state = "live"
    /\ email' = [email EXCEPT ![m].seen = ~@]
    /\ Record(<<<<m, "updated">>>>, <<<<email[m].box, "updated">>>>)
    /\ UNCHANGED box

\* The totals of both mailboxes change.
MoveMessage(m, b) ==
    /\ email[m].state = "live" /\ email[m].box # b /\ box[b].state = "live"
    /\ email' = [email EXCEPT ![m].box = b]
    /\ Record(<<<<m, "updated">>>>, <<<<email[m].box, "updated">>, <<b, "updated">>>>)
    /\ UNCHANGED box

ExpungeMessage(m) ==
    /\ email[m].state = "live"
    /\ email' = [email EXCEPT ![m] = Gone]
    /\ Record(<<<<m, "destroyed">>>>, <<<<email[m].box, "updated">>>>)
    /\ UNCHANGED box

\* The identity trigger gives the row its identifier, which logs its creation.
CreateMailbox(b) ==
    /\ box[b] = Absent
    /\ box' = [box EXCEPT ![b] = [state |-> "live", name |-> 0]]
    /\ Record(<<>>, <<<<b, "created">>>>)
    /\ UNCHANGED email

\* One event of each kind for every message of a mailbox.
ForAll(b, kind) == [i \in 1..Cardinality(In(b)) |-> <<SetToSeq(In(b))[i], kind>>]
Repeated(b) == [i \in 1..Cardinality(In(b)) |-> <<b, "updated">>]

\* A rename rewrites the folder of every message; a subscription or a sort
\* order is the mailbox's own.
UpdateMailbox(b, rename) ==
    /\ box[b].state = "live"
    /\ box' = [box EXCEPT ![b].name = 1 - @]
    /\ IF rename THEN Record(ForAll(b, "updated"), <<<<b, "updated">>>> \o Repeated(b))
                 ELSE Record(<<>>, <<<<b, "updated">>>>)
    /\ UNCHANGED email

DeleteMailbox(b) ==
    /\ b # Inbox /\ box[b].state = "live"
    /\ email' = [m \in Emails |-> IF m \in In(b) THEN Gone ELSE email[m]]
    /\ box' = [box EXCEPT ![b] = Gone]
    /\ Record(ForAll(b, "destroyed"), Repeated(b) \o <<<<b, "destroyed">>>>)

\* Sequence numbers are shared with the other accounts.
OtherAccount(t) ==
    /\ log[t].last < MaxSeq
    /\ log' = [log EXCEPT ![t].last = @ + 1]
    /\ UNCHANGED <<email, box>>

Write ==
    /\ \/ \E m \in Emails, b \in Boxes : InsertMessage(m, b)
       \/ \E m \in Emails : SetSeen(m) \/ ExpungeMessage(m)
       \/ \E m \in Emails, b \in Boxes : MoveMessage(m, b)
       \/ \E b \in Boxes : CreateMailbox(b) \/ DeleteMailbox(b)
       \/ \E b \in Boxes, rename \in BOOLEAN : UpdateMailbox(b, rename)
       \/ \E t \in Kinds : OtherAccount(t)
    /\ UNCHANGED Client

-----------------------------------------------------------------------------
(* The client.                                                             *)

\* EmailSnapshot and MailboxSnapshot: everything, with the token it is good for.
Snapshot(t) ==
    /\ token' = [token EXCEPT ![t] = log[t].revision]
    /\ cache' = [cache EXCEPT ![t] = Values(t)]
    /\ pending' = [pending EXCEPT ![t] = {}]
    /\ UNCHANGED <<email, box, log>>

\* A token from before the floor is refused (cannotCalculateChanges).
Answerable(t) == log[t].floor <= token[t] /\ token[t] <= log[t].revision

\* Objects the client has, or is about to fetch.
Known(t) == pending[t] \cup {id \in Objects(t) : cache[t][id] # Absent}

\* One page.  The client drops what was destroyed, will fetch what was created
\* and, of what was updated, the objects it has.
Changes(t, limit) ==
    LET page == Page(log[t], token[t], limit)
    IN  /\ Answerable(t)
        /\ token[t] # log[t].revision
        /\ token' = [token EXCEPT ![t] = NewState(log[t], token[t], limit)]
        /\ cache' = [cache EXCEPT ![t] =
              [id \in Objects(t) |-> IF id \in DestroyedIn(page) THEN Absent ELSE @[id]]]
        /\ pending' = [pending EXCEPT ![t] =
              (@ \ DestroyedIn(page)) \cup CreatedIn(page) \cup (UpdatedIn(page) \cap Known(t))]
        /\ UNCHANGED <<email, box, log>>

\* The client fetches an object it was told of; it may be newer than the page.
Get(t, id) ==
    /\ id \in pending[t]
    /\ cache' = [cache EXCEPT ![t][id] = Value(t, id)]
    /\ pending' = [pending EXCEPT ![t] = @ \ {id}]
    /\ UNCHANGED <<email, box, log, token>>

\* SetEmailKeywords with ifInState: refused unless the token is the present
\* one; the client then knows its own change.
SetIfInState(m) ==
    /\ token.Email = log.Email.revision
    /\ SetSeen(m)
    /\ token' = [token EXCEPT !.Email = log'.Email.revision]
    /\ cache' = [cache EXCEPT !.Email[m] = email'[m]]
    /\ UNCHANGED pending

Catch(t) ==
    \/ \E limit \in Limits : Changes(t, limit)
    \/ ~Answerable(t) /\ Snapshot(t)

Fetch(t) == \E id \in pending[t] : Get(t, id)

-----------------------------------------------------------------------------
(* Specification.                                                          *)

Init ==
    /\ email = [m \in Emails |-> Absent]
    /\ box = [b \in Boxes |-> IF b = Inbox THEN [state |-> "live", name |-> 0] ELSE Absent]
    /\ log = [Email |-> [events |-> {}, last |-> 0, revision |-> 0, floor |-> 0],
              Mailbox |-> [events |-> {[seq |-> 1, id |-> Inbox, kind |-> "created"]},
                           last |-> 1, revision |-> 1, floor |-> 0]]
    /\ token = [t \in Kinds |-> 0]
    /\ cache = [t \in Kinds |-> [id \in Objects(t) |-> Absent]]
    /\ pending = [t \in Kinds |-> {}]

Next ==
    \/ Write
    \/ \E t \in Kinds : Catch(t) \/ Fetch(t)
    \/ \E m \in Emails : SetIfInState(m)

Spec == Init /\ [][Next]_vars

\* Clients poll again as long as there is something to learn.
FairSpec == Spec /\ \A t \in Kinds : WF_vars(Catch(t)) /\ WF_vars(Fetch(t))

-----------------------------------------------------------------------------
(* Properties.                                                             *)

Live == [state : {"live"}, box : Boxes, seen : BOOLEAN]
Folder == [state : {"live"}, name : {0, 1}]
Event(t) == [seq : 1..MaxSeq, id : Objects(t), kind : {"created", "updated", "destroyed"}]

\* Types; a log never holds more than the retained number of events (email_sync.go:28-32).
TypeOK ==
    /\ email \in [Emails -> Live \cup {Absent, Gone}]
    /\ box \in [Boxes -> Folder \cup {Absent, Gone}]
    /\ \A t \in Kinds :
          /\ log[t].events \subseteq Event(t)
          /\ Cardinality(log[t].events) <= Retain
          /\ log[t].floor <= log[t].revision /\ log[t].revision <= log[t].last
          /\ token[t] \in 0..MaxSeq
          /\ pending[t] \subseteq Objects(t)
          /\ DOMAIN cache[t] = Objects(t)

\* No change escapes the client: where its cache differs from the store, it has
\* been told to fetch the object, or the log after its token says so, or its
\* token will be refused.  So no page calls an object updated that is new to the
\* client, every change of a mailbox's totals is logged with the mailbox, and a
\* write accepted under ifInState meets objects the client has seen as they are.
NoLostChange ==
    \A t \in Kinds : \A id \in Objects(t) :
        \/ cache[t][id] = Value(t, id)
        \/ id \in pending[t]
        \/ \E e \in Later(log[t], token[t]) : e.id = id
        \/ token[t] < log[t].floor

\* Once the writers rest, the client's cache becomes and stays the store's,
\* whatever the page size and however far the floor has moved.
Converges == <>[](\A t \in Kinds : cache[t] = Values(t))

=============================================================================

---------------------------- MODULE ImapSessions ----------------------------
(* IMAP sessions of one user over the mailbox store: the handlers of        *)
(* internal/imapserver and internal/imap, the store's publication of        *)
(* changes (internal/storage/mailbox_updates.go) and the server loop that   *)
(* hands every change to the sessions that have the mailbox selected.       *)
(*                                                                          *)
(* Three waits meet here.  A writer holds deliveryMu until every session    *)
(* has written its update.  A session has one response writer, which a      *)
(* FETCH or LIST keeps from the moment it is accepted until its last item.  *)
(* And FETCH and LIST ask for deliveryMu while they are producing items.    *)
EXTENDS Integers, Sequences, SequencesExt, FiniteSets

CONSTANTS
  Sessions,   \* the connections that may be open
  Mta,        \* the local delivery path, a writer without a connection
  Folders,    \* the mailboxes of the user
  None,       \* no mailbox, nobody
  Commands,   \* session -> the commands its client uses
  Mute,       \* the sessions whose client may stop reading
  MaxMessages \* bound: how many messages are ever added

AllCommands == {"SELECT", "CLOSE", "UNSELECT", "LIST", "FETCH", "PEEK",
                "STORE", "EXPUNGE", "MOVE", "APPEND", "LOGOUT"}

ASSUME ImapAssumption ==
  /\ Mta \notin Sessions
  /\ None \notin Sessions \cup Folders \cup {Mta}
  /\ Commands \in [Sessions -> SUBSET AllCommands]
  /\ Mute \subseteq Sessions
  /\ MaxMessages \in Nat \ {0}

VARIABLES
  box,       \* folder -> the messages in it, in UID order
  made,      \* how many messages were added
  mu,        \* who holds deliveryMu, or None
  pc,        \* where each writer and each session is
  sel,       \* session -> ctx.Mailbox
  want,      \* session -> the folder its command is about
  left,      \* session -> the messages its command has still to treat
  fresh,     \* session -> those a FETCH found unread
  marks,     \* session -> pendingRead
  silent,    \* session -> conn.silent
  todo,      \* writer -> the updates it has still to publish
  queue,     \* protocolCh
  offers,    \* session -> updates waiting at ctx.Responses
  writer,    \* session -> its response writer: free, inside a FETCH or LIST
             \* response, or stuck in a write to a client that does not read
  view,      \* session -> what its client believes the mailbox holds
  astray     \* sessions that were not told of a change of their mailbox

vars == <<box, made, mu, pc, sel, want, left, fresh, marks, silent, todo,
          queue, offers, writer, view, astray>>

client == <<sel, want, left, fresh, marks, silent>>
bus    == <<queue, offers, writer, view>>
store  == <<box, made, mu, todo>>

Writers == Sessions \cup {Mta}

Message == [id: 1..MaxMessages, seen: BOOLEAN, deleted: BOOLEAN]

Ids(f) == [i \in DOMAIN box[f] |-> box[f][i].id]

Held(f) == Range(Ids(f))

Update(p, kind, f, n, ids) ==
  [by |-> p, kind |-> kind, folder |-> f, n |-> n, ids |-> ids]

-----------------------------------------------------------------------------
(* What a writer publishes after its commit.                                *)

Exists(p, f, ids) == Update(p, "EXISTS", f, Len(ids), ids)

ExpungesAscending(p, f, gone) ==
  LET before == Ids(f)
      hit    == SetToSortSeq({i \in DOMAIN before : before[i] \in gone},
                             LAMBDA i, j : i < j)
  IN  [k \in DOMAIN hit |->
         Update(p, "EXPUNGE", f, hit[k], <<before[hit[k]]>>)]

(* One EXPUNGE for each message of gone, from the last one to the first.    *)
Expunges(p, f, gone) ==
  LET before == Ids(f)
      hit    == SetToSortSeq({i \in DOMAIN before : before[i] \in gone},
                             LAMBDA i, j : i > j)
  IN  [k \in DOMAIN hit |->
         Update(p, "EXPUNGE", f, hit[k], <<before[hit[k]]>>)]

Flags(p, f, id) ==
  Update(p, "FETCH", f, CHOOSE i \in DOMAIN Ids(f) : Ids(f)[i] = id, <<id>>)

(* p commits new contents under deliveryMu and starts to publish.  The      *)
(* sessions between reading the status of a changed mailbox and answering   *)
(* SELECT are overtaken by the change.                                      *)
Commit(p, contents, updates) ==
  /\ mu = None
  /\ mu' = p
  /\ box' = contents
  /\ todo' = [todo EXCEPT ![p] = updates]
  /\ pc' = [pc EXCEPT ![p] = "publish"]
  /\ astray' = astray \cup
       {s \in Sessions : /\ pc[s] \in {"enter", "respond"}
                         /\ \E u \in Range(updates) :
                              u.folder = want[s] /\ u.kind # "FETCH"}
  /\ UNCHANGED bus

Publish(p) ==
  /\ pc[p] = "publish"
  /\ queue' = Append(queue, Head(todo[p]))
  /\ todo' = [todo EXCEPT ![p] = Tail(@)]
  /\ pc' = [pc EXCEPT ![p] = "await"]
  /\ UNCHANGED <<box, made, mu, client, offers, writer, view, astray>>

(* What a session does once its update has been written everywhere.        *)
Resumed(p) ==
  IF p = Mta THEN "idle"
  ELSE IF marks[p] # <<>> THEN "notice"
  ELSE IF left[p] # <<>> THEN "store" ELSE "idle"

(* The last recipient has written the update: Done is closed.               *)
Done(p) ==
  /\ pc[p] = "await"
  /\ \A i \in DOMAIN queue : queue[i].by # p
  /\ \A s \in Sessions : \A u \in offers[s] : u.by # p
  /\ pc' = [pc EXCEPT ![p] = IF todo[p] # <<>> THEN "publish" ELSE Resumed(p)]
  /\ mu' = IF mu = p /\ todo[p] = <<>> THEN None ELSE mu
  /\ silent' = [s \in Sessions |-> silent[s] /\ ~(s = p /\ pc'[p] = "idle")]
  /\ UNCHANGED <<box, made, todo, sel, want, left, fresh, marks, bus, astray>>

-----------------------------------------------------------------------------
(* The server loop and the response writers.                                *)

RecipientUnlessSilent(s, u) ==
  pc[s] # "out" /\ sel[s] = u.folder /\ ~silent[s]

Recipient(s, u) ==
  /\ pc[s] # "out"
  /\ sel[s] = u.folder
  /\ ~(silent[s] /\ u.kind = "FETCH")

Dispatch ==
  /\ queue # <<>>
  /\ offers' = [s \in Sessions |->
                  IF Recipient(s, Head(queue))
                  THEN offers[s] \cup {Head(queue)} ELSE offers[s]]
  /\ queue' = Tail(queue)
  /\ UNCHANGED <<store, client, pc, writer, view, astray>>

(* How a client takes an update in.                                         *)
Applied(v, u) ==
  CASE u.kind = "EXISTS" /\ u.n > Len(v)   -> v \o SubSeq(u.ids, Len(v) + 1, u.n)
    [] u.kind = "EXPUNGE" /\ u.n <= Len(v) -> RemoveAt(v, u.n)
    [] OTHER                               -> v

(* conn.send writes one response at a time.                                 *)
Send(s, p) ==
  /\ writer[s] = "free"
  /\ pc[s] # "out"
  /\ \E u \in offers[s] :
       /\ u.by = p
       /\ view' = [view EXCEPT ![s] = Applied(@, u)]
       /\ offers' = [offers EXCEPT ![s] = @ \ {u}]
  /\ UNCHANGED <<store, client, pc, queue, writer, astray>>

AbandonNever(s) == FALSE /\ UNCHANGED vars

(* The recipient logged out: the send is abandoned.                         *)
Abandon(s) ==
  /\ pc[s] = "out"
  /\ offers[s] # {}
  /\ offers' = [offers EXCEPT ![s] = {}]
  /\ UNCHANGED <<store, client, pc, queue, writer, view, astray>>

(* The client stops reading and keeps its connection: the socket's buffers  *)
(* fill and the writer stays in writeAndFlush, which has no deadline.       *)
Stall(s) ==
  /\ s \in Mute
  /\ writer[s] # "stuck"
  /\ pc[s] # "out"
  /\ writer' = [writer EXCEPT ![s] = "stuck"]
  /\ UNCHANGED <<store, client, pc, queue, offers, view, astray>>

(* The writer takes the FETCH or LIST response and keeps it.                *)
Stream(s) ==
  /\ pc[s] \in {"fetch", "list", "listed"}
  /\ writer[s] = "free"
  /\ writer' = [writer EXCEPT ![s] = "stream"]
  /\ UNCHANGED <<store, client, pc, queue, offers, view, astray>>

-----------------------------------------------------------------------------
(* Commands.  A command starts when its session is idle.  One that starts   *)
(* when the client no longer reads behaves as if the client had stopped     *)
(* right after the start; its answer is never written.                      *)

Start(s, c) == pc[s] = "idle" /\ c \in Commands[s] /\ writer[s] # "stuck"

Selected(s) == sel[s] # None

Goto(s, l) == pc' = [pc EXCEPT ![s] = l]

(* selectedIDs: the numbers of a command name messages by their place in    *)
(* the mailbox as it is now, not as the client last saw it.                 *)
Chosen(s, N) == SelectSeq(Ids(sel[s]), LAMBDA id :
                  \E i \in N : Ids(sel[s])[i] = id)

Select(s, f) ==
  /\ Start(s, "SELECT")
  /\ sel' = [sel EXCEPT ![s] = None]
  /\ want' = [want EXCEPT ![s] = f]
  /\ view' = [view EXCEPT ![s] = <<>>]
  /\ astray' = astray \ {s}
  /\ Goto(s, "open")
  /\ UNCHANGED <<store, left, fresh, marks, silent, queue, offers, writer>>

(* GetMailbox lists the folders under deliveryMu.                           *)
SelectOpen(s) ==
  /\ pc[s] = "open"
  /\ mu = None
  /\ Goto(s, "status")
  /\ UNCHANGED <<store, client, bus, astray>>

(* The messages are read here and the mailbox is set only afterwards.  An   *)
(* update of that mailbox still unpublished will come on top of what was    *)
(* read.                                                                    *)
SelectStatus(s) ==
  /\ pc[s] = "status"
  /\ left' = [left EXCEPT ![s] = Ids(want[s])]
  /\ astray' =
       IF \E p \in Writers : \E u \in Range(todo[p]) \cup Range(queue) :
             u.folder = want[s] /\ u.kind # "FETCH"
       THEN astray \cup {s} ELSE astray
  /\ Goto(s, "enter")
  /\ UNCHANGED <<store, sel, want, fresh, marks, silent, bus>>

SelectEnter(s) ==
  /\ pc[s] = "enter"
  /\ sel' = [sel EXCEPT ![s] = want[s]]
  /\ Goto(s, "respond")
  /\ UNCHANGED <<store, want, left, fresh, marks, silent, bus, astray>>

SelectRespond(s) ==
  /\ pc[s] = "respond"
  /\ writer[s] # "stuck"
  /\ view' = [view EXCEPT ![s] = left[s]]
  /\ left' = [left EXCEPT ![s] = <<>>]
  /\ want' = [want EXCEPT ![s] = None]
  /\ Goto(s, "idle")
  /\ UNCHANGED <<store, sel, fresh, marks, silent, queue, offers, writer, astray>>

(* CLOSE leaves the mailbox and then expunges it.                           *)
Close(s) ==
  /\ Start(s, "CLOSE") /\ Selected(s)
  /\ want' = [want EXCEPT ![s] = sel[s]]
  /\ sel' = [sel EXCEPT ![s] = None]
  /\ view' = [view EXCEPT ![s] = <<>>]
  /\ Goto(s, "close")
  /\ UNCHANGED <<store, left, fresh, marks, silent, queue, offers, writer, astray>>

Unselect(s) ==
  /\ Start(s, "UNSELECT") /\ Selected(s)
  /\ sel' = [sel EXCEPT ![s] = None]
  /\ view' = [view EXCEPT ![s] = <<>>]
  /\ UNCHANGED <<store, pc, want, left, fresh, marks, silent, queue, offers, writer, astray>>

Doomed(f) == {id \in Held(f) : \E m \in Range(box[f]) : m.id = id /\ m.deleted}

Without(f, gone) == SelectSeq(box[f], LAMBDA m : m.id \notin gone)

(* ExpungeDeleted; nothing is published when nothing was marked.            *)
ExpungeFolder(s, f) ==
  /\ Doomed(f) # {}
  /\ Commit(s, [box EXCEPT ![f] = Without(f, Doomed(f))],
            Expunges(s, f, Doomed(f)))
  /\ UNCHANGED made

(* The rows are gone, then a payload's tombstone cannot be written: the     *)
(* command fails and nobody is told.                                        *)
ExpungeUntold(s, f) ==
  /\ mu = None
  /\ Doomed(f) # {}
  /\ box' = [box EXCEPT ![f] = Without(f, Doomed(f))]
  /\ astray' = astray \cup
       {t \in Sessions : f = IF pc[t] \in {"enter", "respond"} THEN want[t] ELSE sel[t]}
  /\ Goto(s, "idle")
  /\ UNCHANGED <<made, mu, todo, bus>>

Expunge(s) ==
  /\ Start(s, "EXPUNGE") /\ Selected(s)
  /\ ExpungeFolder(s, sel[s]) \/ ExpungeUntold(s, sel[s])
  /\ UNCHANGED client

(* The last case: nothing was marked, or the rows could not be changed.     *)
CloseExpunge(s) ==
  /\ pc[s] = "close"
  /\ \/ ExpungeFolder(s, want[s])
     \/ ExpungeUntold(s, want[s])
     \/ /\ mu = None
        /\ Goto(s, "idle")
        /\ UNCHANGED <<store, bus, astray>>
  /\ want' = [want EXCEPT ![s] = None]
  /\ UNCHANGED <<sel, left, fresh, marks, silent>>

(* A new message: local delivery, APPEND, or COPY into the folder.          *)
Deliver(p, f) ==
  /\ IF p = Mta THEN pc[p] = "idle" ELSE Start(p, "APPEND")
  /\ made < MaxMessages
  /\ made' = made + 1
  /\ LET m == [id |-> made + 1, seen |-> FALSE, deleted |-> FALSE]
     IN  Commit(p, [box EXCEPT ![f] = Append(@, m)],
                <<Exists(p, f, Append(Ids(f), m.id))>>)
  /\ UNCHANGED client

(* STORE reads the mailbox, then changes one message after the other.       *)
Store(s, N, quiet) ==
  /\ Start(s, "STORE") /\ Selected(s)
  /\ N # {}
  /\ left' = [left EXCEPT ![s] = Chosen(s, N)]
  /\ silent' = [silent EXCEPT ![s] = quiet]
  /\ Goto(s, "store")
  /\ UNCHANGED <<store, sel, want, fresh, marks, bus, astray>>

Reflagged(f, id, flag, value) ==
  [box EXCEPT ![f] = [i \in DOMAIN @ |-> IF @[i].id = id THEN [@[i] EXCEPT ![flag] = value]
                                                         ELSE @[i]]]

StoreApply(s, deleted) ==
  /\ pc[s] = "store"
  /\ LET id == Head(left[s])
     IN  /\ id \in Held(sel[s])
         /\ Commit(s, Reflagged(sel[s], id, "deleted", deleted),
                   <<Flags(s, sel[s], id)>>)
  /\ left' = [left EXCEPT ![s] = Tail(@)]
  /\ UNCHANGED <<made, sel, want, fresh, marks, silent>>

(* The message is gone: the command ends with an error.                     *)
StoreFails(s) ==
  /\ pc[s] = "store"
  /\ mu = None
  /\ Head(left[s]) \notin Held(sel[s])
  /\ left' = [left EXCEPT ![s] = <<>>]
  /\ silent' = [silent EXCEPT ![s] = FALSE]
  /\ Goto(s, "idle")
  /\ UNCHANGED <<store, sel, want, fresh, marks, bus, astray>>

Move(s, N, g) ==
  /\ Start(s, "MOVE") /\ Selected(s)
  /\ N # {}
  /\ left' = [left EXCEPT ![s] = Chosen(s, N)]
  /\ want' = [want EXCEPT ![s] = g]
  /\ Goto(s, "move")
  /\ UNCHANGED <<store, sel, fresh, marks, silent, bus, astray>>

(* MoveMessageIDs: all of the messages or none.                             *)
MoveApply(s) ==
  /\ pc[s] = "move"
  /\ LET f     == sel[s]
         ids   == Range(left[s])
         moved == SelectSeq(box[f], LAMBDA m : m.id \in ids)
         gone  == [box EXCEPT ![f] = Without(f, ids)]
         after == [gone EXCEPT ![want[s]] = @ \o moved]
         shown == [i \in DOMAIN after[want[s]] |-> after[want[s]][i].id]
     IN  IF ids \subseteq Held(f)
         THEN /\ Commit(s, after, Append(Expunges(s, f, ids),
                                         Exists(s, want[s], shown)))
              /\ UNCHANGED made
         ELSE /\ mu = None
              /\ Goto(s, "idle")
              /\ UNCHANGED <<store, bus, astray>>
  /\ left' = [left EXCEPT ![s] = <<>>]
  /\ want' = [want EXCEPT ![s] = None]
  /\ UNCHANGED <<sel, fresh, marks, silent>>

-----------------------------------------------------------------------------
(* FETCH and LIST produce items while the writer consumes them.             *)

(* peek: BODY.PEEK or flags only; otherwise unread messages become read.    *)
Fetch(s, N, peek) ==
  /\ Start(s, IF peek THEN "PEEK" ELSE "FETCH") /\ Selected(s)
  /\ N # {}
  /\ left' = [left EXCEPT ![s] = Chosen(s, N)]
  /\ fresh' = [fresh EXCEPT ![s] =
       IF peek THEN {}
       ELSE {id \in Range(Chosen(s, N)) :
               \E m \in Range(box[sel[s]]) : m.id = id /\ ~m.seen}]
  /\ Goto(s, "fetch")
  /\ UNCHANGED <<store, sel, want, marks, silent, bus, astray>>

(* MarkMessageRead takes deliveryMu, publishes nothing and remembers the    *)
(* message for later.                                                       *)
FetchMark(s) ==
  /\ pc[s] = "fetch" /\ left[s] # <<>>
  /\ LET id == Head(left[s])
     IN  /\ id \in fresh[s]
         /\ mu = None
         /\ id \in Held(sel[s])
         /\ box' = Reflagged(sel[s], id, "seen", TRUE)
         /\ fresh' = [fresh EXCEPT ![s] = @ \ {id}]
         /\ marks' = [marks EXCEPT ![s] = Append(@, id)]
  /\ UNCHANGED <<made, mu, todo, pc, sel, want, left, silent, bus, astray>>

FetchItem(s) ==
  /\ pc[s] = "fetch" /\ left[s] # <<>>
  /\ Head(left[s]) \notin fresh[s]
  /\ writer[s] = "stream"
  /\ left' = [left EXCEPT ![s] = Tail(@)]
  /\ UNCHANGED <<store, pc, sel, want, fresh, marks, silent, bus, astray>>

AfterFetchKeeps(s) ==
  /\ Goto(s, IF marks[s] # <<>> THEN "notice" ELSE "idle")
  /\ left' = [left EXCEPT ![s] = <<>>]
  /\ fresh' = [fresh EXCEPT ![s] = {}]
  /\ UNCHANGED <<store, sel, want, marks, silent, bus, astray>>

(* After the response the messages that became read are announced.          *)
AfterFetch(s) ==
  /\ writer[s] # "stuck"
  /\ Goto(s, IF marks[s] # <<>> THEN "notice" ELSE "idle")
  /\ writer' = [writer EXCEPT ![s] = "free"]
  /\ left' = [left EXCEPT ![s] = <<>>]
  /\ fresh' = [fresh EXCEPT ![s] = {}]
  /\ UNCHANGED <<store, sel, want, marks, silent, queue, offers, view, astray>>

FetchEnd(s) ==
  /\ pc[s] = "fetch" /\ left[s] = <<>>
  /\ writer[s] = "stream"
  /\ AfterFetch(s)

(* The payload is gone, or the row of a message that is to be marked.       *)
FetchFails(s) ==
  /\ pc[s] = "fetch" /\ left[s] # <<>>
  /\ LET id == Head(left[s])
     IN  \/ \A f \in Folders : id \notin Held(f)
         \/ mu = None /\ id \in fresh[s] /\ id \notin Held(sel[s])
  /\ AfterFetch(s)

(* NotifyMessageRead computes the place of the message and publishes it     *)
(* without deliveryMu.                                                      *)
Notice(s) ==
  /\ pc[s] = "notice"
  /\ LET id == Head(marks[s])
     IN  IF id \in Held(sel[s])
         THEN /\ todo' = [todo EXCEPT ![s] = <<Flags(s, sel[s], id)>>]
              /\ Goto(s, "publish")
         ELSE /\ Goto(s, IF Len(marks[s]) > 1 THEN "notice" ELSE "idle")
              /\ UNCHANGED todo
  /\ marks' = [marks EXCEPT ![s] = Tail(@)]
  /\ UNCHANGED <<box, made, mu, sel, want, left, fresh, silent, bus, astray>>

List(s) ==
  /\ Start(s, "LIST")
  /\ Goto(s, "list")
  /\ UNCHANGED <<store, client, bus, astray>>

(* ListFolders takes deliveryMu.                                            *)
ListFolders(s) ==
  /\ pc[s] = "list"
  /\ mu = None
  /\ Goto(s, "listed")
  /\ UNCHANGED <<store, client, bus, astray>>

ListEnd(s) ==
  /\ pc[s] = "listed"
  /\ writer[s] = "stream"
  /\ writer' = [writer EXCEPT ![s] = "free"]
  /\ Goto(s, "idle")
  /\ UNCHANGED <<store, client, queue, offers, view, astray>>

(* The client leaves; its handler notices when it is not in a command.      *)
Logout(s) ==
  /\ Start(s, "LOGOUT")
  /\ Goto(s, "out")
  /\ UNCHANGED <<store, client, bus, astray>>

-----------------------------------------------------------------------------
Init ==
  /\ box = [f \in Folders |-> <<>>]
  /\ made = 0
  /\ mu = None
  /\ pc = [p \in Writers |-> "idle"]
  /\ sel \in [Sessions -> Folders \cup {None}]
  /\ want = [s \in Sessions |-> None]
  /\ left = [s \in Sessions |-> <<>>]
  /\ fresh = [s \in Sessions |-> {}]
  /\ marks = [s \in Sessions |-> <<>>]
  /\ silent = [s \in Sessions |-> FALSE]
  /\ todo = [p \in Writers |-> <<>>]
  /\ queue = <<>>
  /\ offers = [s \in Sessions |-> {}]
  /\ writer = [s \in Sessions |-> "free"]
  /\ view = [s \in Sessions |-> <<>>]
  /\ astray = {}

Numbers(s) == IF Selected(s) THEN SUBSET DOMAIN box[sel[s]] ELSE {}

(* Steps the server takes by itself once a command has started.             *)
Handle(s) ==
  \/ SelectOpen(s) \/ SelectStatus(s) \/ SelectEnter(s) \/ SelectRespond(s)
  \/ CloseExpunge(s) \/ (\E d \in BOOLEAN : StoreApply(s, d)) \/ StoreFails(s)
  \/ MoveApply(s) \/ FetchMark(s) \/ FetchItem(s) \/ FetchEnd(s)
  \/ FetchFails(s) \/ Notice(s) \/ ListFolders(s) \/ ListEnd(s)

Write(s) == (\E p \in Writers : Send(s, p)) \/ Abandon(s) \/ Stream(s) \/ Stall(s)

Request(s) ==
  \/ \E f \in Folders : Select(s, f) \/ Deliver(s, f)
  \/ Close(s) \/ Unselect(s) \/ Expunge(s) \/ List(s) \/ Logout(s)
  \/ \E N \in Numbers(s) :
       \/ \E b \in BOOLEAN : Store(s, N, b) \/ Fetch(s, N, b)
       \/ \E g \in Folders : Move(s, N, g)

Next ==
  \/ Dispatch
  \/ \E p \in Writers : Publish(p) \/ Done(p)
  \/ \E s \in Sessions : Handle(s) \/ Write(s) \/ Request(s)
  \/ \E f \in Folders : Deliver(Mta, f)

Spec == Init /\ [][Next]_vars

(* Every goroutine runs on.  deliveryMu goes to the longest waiter          *)
(* (sync.Mutex) and a channel serves its senders in order, so neither a     *)
(* handler nor a response is passed over for ever.  A write to a client     *)
(* that reads ends; clients owe nothing else, and may stop reading.         *)
Fairness ==
  /\ WF_vars(Dispatch)
  /\ \A p \in Writers : WF_vars(Publish(p)) /\ WF_vars(Done(p))
  /\ \A s \in Sessions :
       /\ SF_vars(Handle(s)) /\ SF_vars(Stream(s)) /\ WF_vars(Abandon(s))
       /\ \A p \in Writers : SF_vars(Send(s, p))

FairSpec == Spec /\ Fairness

-----------------------------------------------------------------------------
(* Beside the types: a writer is inside a response only while its session   *)
(* is in FETCH or LIST, and at most one update of each writer is queued.    *)
TypeOK ==
  /\ \A f \in Folders : Range(box[f]) \subseteq Message
  /\ made \in 0..MaxMessages
  /\ mu \in Writers \cup {None}
  /\ sel \in [Sessions -> Folders \cup {None}]
  /\ want \in [Sessions -> Folders \cup {None}]
  /\ writer \in [Sessions -> {"free", "stream", "stuck"}]
  /\ \A s \in Sessions : writer[s] = "stream" => pc[s] \in {"fetch", "list", "listed"}
  /\ \A s \in Sessions : fresh[s] \subseteq Range(left[s])
  /\ \A p \in Writers :
       Cardinality({i \in DOMAIN queue : queue[i].by = p}) <= 1

(* Sessions that have answered their SELECT and were told of every change.  *)
Settled == {s \in Sessions \ astray :
              sel[s] # None /\ pc[s] \notin {"respond", "out"}}

(* Whenever nobody holds deliveryMu, every session's client believes that   *)
(* its mailbox holds exactly the messages it holds, in the same order:      *)
(* deliveries, STORE, EXPUNGE, MOVE and CLOSE of the other sessions leave   *)
(* no ghost and hide no message.  Two cases are known to fail and excepted: *)
(* a change between the two halves of SELECT, and an expunge whose cleanup  *)
(* fails after its rows are gone.                                           *)
ViewsAgree == mu = None => \A s \in Settled : view[s] = Ids(sel[s])

(* The sequence number in every update published under deliveryMu names     *)
(* the same message to the session it is offered to, and an EXISTS never    *)
(* shrinks the mailbox.  NotifyMessageRead publishes without deliveryMu and *)
(* its numbers may be out of date; nothing is claimed of them.              *)
NumbersAgree ==
  \A s \in Settled : \A u \in offers[s] :
    u.by = mu =>
      IF u.kind = "EXISTS" THEN u.n >= Len(view[s])
      ELSE u.n <= Len(view[s]) /\ view[s][u.n] = Head(u.ids)

(* A session whose writer is taken by a command that waits for deliveryMu,  *)
(* which the writer of an update for this very session holds.               *)
Entangled(s) ==
  /\ writer[s] = "stream"
  /\ offers[s] # {}
  /\ mu # None
  /\ \/ pc[s] = "list"
     \/ pc[s] = "fetch" /\ left[s] # <<>> /\ Head(left[s]) \in fresh[s]

(* A session that p waits for and whose client no longer reads.             *)
Unheard(s, p) == writer[s] = "stuck" /\ \E u \in offers[s] : u.by = p

(* A publication always ends, recipients that log out included, unless a    *)
(* session is entangled or a recipient keeps its connection and does not    *)
(* read: no other order of steps keeps deliveryMu taken.                    *)
PublicationEnds ==
  \A p \in Writers :
    pc[p] = "await" ~>
      (pc[p] # "await" \/ \E s \in Sessions : Entangled(s) \/ Unheard(s, p))

(* Every FETCH ends: "arbitrarily large FETCH sets cannot block behind      *)
(* their own writer" (storage/mailbox_updates.go:70-72).                    *)
FetchCompletes == \A s \in Sessions : pc[s] = "fetch" ~> pc[s] # "fetch"
=============================================================================

---------------------------- MODULE JmapRequests ----------------------------
(***************************************************************************)
(* JMAP requests (internal/jmap) at the mail store (internal/storage):     *)
(* the bounded handlers and what their answers say of a store others       *)
(* change meanwhile; uploaded blobs; the batch of Mailbox/set; composing a *)
(* message from the parts of Email/set and reading its parts back; the     *)
(* page of a query's result.                                               *)
(***************************************************************************)
EXTENDS Integers, Sequences, FiniteSets, FiniteSetsExt, SequencesExt, Functions,
        TLC

CONSTANTS Boxes, Mails, Threads, \* mailboxes, messages, conversations
          Slots,                 \* maxJMAPConcurrent
          Handlers,              \* concurrent HTTP requests
          MaxChanges,            \* bound: changes of the store
          Sizes, MaxUploadCount, MaxUploadAccount, Lifetime, MaxTime,
          Catalogs, Batches,     \* inputs of Mailbox/set
          MaxPathDepth,          \* ten levels in the code
          Compositions,          \* inputs of composeMIME, a sequence of sets
          Pages, MaxObjects,     \* inputs of queryPage, maxJMAPObjects
          MaxMIMEParts, MaxMIMEDepth, MaxBytes

VARIABLES place, thread, unread, \* the store: mailbox ("none" when gone), ...
          revision, boxRev, mailRev, \* change journals, latest entry per object
          handler, sem, client,  \* requests, semaphore, what clients keep
          uploads, made, now,    \* a user's blobs, oldest first
          batch, part

storeVars == <<place, thread, unread, revision, boxRev, mailRev>>
requestVars == <<storeVars, handler, sem, client>>
uploadVars == <<uploads, made, now>>

(***************************************************************************)
(* Requests.  handleJMAPAPI and handleUpload take one of Slots without     *)
(* waiting.  Mailbox/get reads the mailboxes and their state, then, in a   *)
(* second transaction, the messages it counts conversations from;          *)
(* Email/get reads the messages and their state, then each payload.        *)
(***************************************************************************)
In(b) == {m \in Mails : place[m] = b}

Idle == [at |-> "idle"]

RequestInit ==
  /\ place \in [Mails -> Boxes \cup {"none"}]
  /\ thread \in [Mails -> Threads]
  /\ unread = {m \in Mails : place[m] # "none"}
  /\ revision = 0
  /\ boxRev = [b \in Boxes |-> 0] /\ mailRev = [m \in Mails |-> 0]
  /\ handler = [h \in Handlers |-> Idle] /\ sem = 0
  /\ client = [kind |-> "nothing"]

(* The store's writers (the triggers log the message and its mailboxes).   *)
Logged(m, boxes) ==
  /\ revision < MaxChanges
  /\ revision' = revision + 1
  /\ mailRev' = [mailRev EXCEPT ![m] = revision']
  /\ boxRev' = [b \in Boxes |-> IF b \in boxes THEN revision' ELSE boxRev[b]]
  /\ UNCHANGED <<thread, handler, sem, client>>

Move(m, b) ==
  /\ place[m] \notin {"none", b}
  /\ place' = [place EXCEPT ![m] = b]
  /\ UNCHANGED unread
  /\ Logged(m, {place[m], b})

Read(m) ==
  /\ place[m] # "none" /\ m \in unread
  /\ unread' = unread \ {m}
  /\ UNCHANGED place
  /\ Logged(m, {place[m]})

Expunge(m) ==
  /\ place[m] # "none"
  /\ place' = [place EXCEPT ![m] = "none"]
  /\ unread' = unread \ {m}
  /\ Logged(m, {place[m]})

Deliver(m, b) ==
  /\ place[m] = "none" /\ mailRev[m] = 0
  /\ place' = [place EXCEPT ![m] = b]
  /\ unread' = unread \cup {m}
  /\ Logged(m, {b})

Write ==
  \E m \in Mails : \/ Read(m) \/ Expunge(m)
                   \/ \E b \in Boxes : Move(m, b) \/ Deliver(m, b)

(* A request that finds no free slot is refused with 429.                  *)
Accept(h) ==
  /\ handler[h] = Idle /\ sem < Slots
  /\ \E k \in {"mailboxGet", "emailGet"} :
        handler' = [handler EXCEPT ![h] = [at |-> k]]
  /\ sem' = sem + 1
  /\ UNCHANGED <<storeVars, client>>

(* What MailboxSnapshot and emailSnapshot contribute to a mailbox object.  *)
Counts == [b \in Boxes |-> [total |-> Cardinality(In(b)),
                            unread |-> Cardinality(In(b) \cap unread)]]
ThreadCounts ==
  [b \in Boxes |->
     [threads |-> Cardinality({thread[m] : m \in In(b)}),
      unreadThreads |-> Cardinality({thread[m] : m \in In(b) \cap unread})]]
Object(counts, threads) == [b \in Boxes |-> counts[b] @@ threads[b]]

(* durableMailboxGet: the mailboxes and their state first.                 *)
MailboxSnapshot(h) ==
  /\ handler[h].at = "mailboxGet"
  /\ handler' = [handler EXCEPT ![h] =
       [at |-> "threads", state |-> revision, counts |-> Counts]]
  /\ UNCHANGED <<storeVars, sem, client>>

Answer(h, answer) ==
  /\ client' = answer
  /\ handler' = [handler EXCEPT ![h] = Idle]
  /\ sem' = sem - 1
  /\ UNCHANGED storeVars

ThreadsEarly(h) ==
  /\ handler[h].at = "threads"
  /\ Answer(h, [kind |-> "boxes", state |-> revision,
                boxes |-> Object(handler[h].counts, ThreadCounts)])

MailboxThreads(h) ==
  /\ handler[h].at = "threads"
  /\ Answer(h, [kind |-> "boxes", state |-> handler[h].state,
                boxes |-> Object(handler[h].counts, ThreadCounts)])

(* handleEmailGet: state and metadata, then the payloads; one that cannot  *)
(* be fetched any more is notFound.  An expunged payload can be fetched    *)
(* until it is cleaned up.                                                 *)
EmailSnapshot(h) ==
  /\ handler[h].at = "emailGet"
  /\ handler' = [handler EXCEPT ![h] =
       [at |-> "fetch", state |-> revision,
        owned |-> [m \in {x \in Mails : place[x] # "none"} |-> place[m]]]]
  /\ UNCHANGED <<storeVars, sem, client>>

Fetch(h) ==
  /\ handler[h].at = "fetch"
  /\ LET owned == handler[h].owned
         expunged == {m \in DOMAIN owned : place[m] = "none"}
     IN \E cleaned \in SUBSET expunged :
          Answer(h, [kind |-> "mails", state |-> handler[h].state,
                     list |-> [m \in DOMAIN owned \ cleaned |-> owned[m]],
                     notFound |-> Mails \ (DOMAIN owned \ cleaned)])

RequestNext ==
  \/ Write
  \/ \E h \in Handlers : \/ Accept(h) \/ MailboxSnapshot(h) \/ MailboxThreads(h)
                         \/ EmailSnapshot(h) \/ Fetch(h)

(* The answer to Mailbox/get or Email/get (mailbox.go:48-55,               *)
(* server.go:473-500): whatever another session changes between the two    *)
(* reads of one answer, everything in which the answer differs from the    *)
(* store is reported by /changes since the state it came with, so a client *)
(* that asks for changes never keeps a wrong count, a moved or a vanished  *)
(* message.  Requests in progress never exceed the advertised limit.       *)
AnswersFollowed ==
  /\ client.kind = "boxes" =>
       \A b \in Boxes :
         client.boxes[b] # Object(Counts, ThreadCounts)[b] => boxRev[b] > client.state
  /\ client.kind = "mails" =>
       /\ \A m \in DOMAIN client.list :
            client.list[m] # place[m] => mailRev[m] > client.state
       /\ \A m \in client.notFound :
            place[m] # "none" => mailRev[m] > client.state
  /\ sem = Cardinality({h \in Handlers : handler[h] # Idle})
  /\ sem <= Slots

(***************************************************************************)
(* UploadBlob: expired blobs go, then the owner's oldest until count and   *)
(* bytes leave room for the new one.                                       *)
(***************************************************************************)
UploadInit == uploads = <<>> /\ made = 0 /\ now = 0

Bytes(s) == FoldLeft(LAMBDA n, u : n + u.size, 0, s)
FitsLoosely(s, n) == Bytes(s) + n <= MaxUploadAccount

Fits(s, n) == Len(s) < MaxUploadCount /\ Bytes(s) + n <= MaxUploadAccount

Room(s, n) ==
  LET drops == {k \in 0..Len(s) : Fits(SubSeq(s, k + 1, Len(s)), n)}
  IN SubSeq(s, Min(drops) + 1, Len(s))

Alive(u) == u.expires > now

UploadBlob(n) ==
  /\ made < MaxTime + MaxUploadCount
  /\ made' = made + 1
  /\ uploads' = Append(Room(SelectSeq(uploads, Alive), n),
                       [id |-> made', size |-> n, expires |-> now + Lifetime])
  /\ UNCHANGED now

Elapse == now < MaxTime /\ now' = now + 1 /\ UNCHANGED <<uploads, made>>

GetBlob(i) == \E k \in 1..Len(uploads) : uploads[k].id = i /\ Alive(uploads[k])

UploadNext == Elapse \/ \E n \in Sizes : UploadBlob(n)

(* UploadBlob (email_import.go:40): an account never holds more than the   *)
(* permitted number or bytes of uploads, the blob just uploaded can be     *)
(* read at once, and the readable uploads are always the most recent ones: *)
(* no blob outlives one uploaded after it.                                 *)
UploadsBounded ==
  /\ Len(uploads) <= MaxUploadCount /\ Bytes(uploads) <= MaxUploadAccount
  /\ made > 0 => uploads[Len(uploads)].id = made
  /\ \A i \in 1..made : GetBlob(i) => \A j \in i..made : GetBlob(j)

(***************************************************************************)
(* Mailbox/set.  A catalog gives each mailbox identifier its path, a       *)
(* sequence of names; a batch has `create' (patches by creation key),      *)
(* `update' (patches by identifier), `destroy', the mailboxes with mail    *)
(* and the objects whose reads or transaction fail.  A patch has a name    *)
(* and a parent: "" for the top level, an identifier, or "#k" for what     *)
(* creation k makes; "-" when it is left out.                              *)
(***************************************************************************)
Keep == "-"
Refs == [k |-> "#k", l |-> "#l"]
Fresh == [k |-> "new-k", l |-> "new-l"]
Inbox == <<"INBOX">>

Paths(cat) == {cat[i] : i \in DOMAIN cat}
Below(path, cat) ==
  {i \in DOMAIN cat : Len(cat[i]) > Len(path) /\ SubSeq(cat[i], 1, Len(path)) = path}

(* patchedMailboxPath: the path a patch asks for, or why it cannot.        *)
Path(cat, old, p) ==
  LET parent == IF p.parent = Keep THEN (IF old = <<>> THEN <<>> ELSE Front(old))
                ELSE IF p.parent = "" THEN <<>> ELSE cat[p.parent]
      name == IF p.name = Keep THEN Last(old) ELSE p.name
  IN Append(parent, name)

PathError(cat, old, p) ==
  LET known == p.parent \in {Keep, ""} \cup DOMAIN cat
      path == Path(cat, old, p)
  IN IF p.name = Keep /\ old = <<>> THEN "invalidProperties"
     ELSE IF ~known \/ Len(path) > MaxPathDepth THEN "invalidProperties"
     ELSE IF old # <<>> /\ IsPrefix(old, Front(path)) THEN "invalidProperties"
     ELSE IF old = Inbox /\ path # old THEN "forbidden"
     ELSE ""

(* A creation reference is replaced by the identifier made for it.         *)
RefOf(p) == {k \in DOMAIN Refs : Refs[k] = p.parent}
Resolved(p, created) ==
  IF RefOf(p) = {} THEN p
  ELSE [p EXCEPT !.parent = created[CHOOSE k \in RefOf(p) : TRUE]]

(* One creation on the state of the batch so far.                          *)
CreateOne(s, k, patch, fails) ==
  LET p == Resolved(patch, s.created)
      free == Path(s.cat, <<>>, p) \notin Paths(s.cat)
  IN IF \/ RefOf(patch) # {} /\ RefOf(patch) \cap DOMAIN s.created = {}
        \/ PathError(s.cat, <<>>, p) # ""
        \/ ~free
        \/ k \in fails                        \* serverFail
     THEN [s EXCEPT !.notCreated = @ \cup {k}]
     ELSE [s EXCEPT !.created = @ @@ (k :> Fresh[k]),
                    !.cat = @ @@ (Fresh[k] :> Path(s.cat, <<>>, p))]

(* The rounds of SetMailboxes: a creation waits for the pending one it     *)
(* refers to; a round without progress refuses the rest.                   *)
RECURSIVE CreateRounds(_, _, _)
CreateRounds(s, b, pending) ==
  LET ready(left) == {k \in left : RefOf(b.create[k]) \cap left = {}}
      pass == FoldLeft(LAMBDA t, k :
                 IF k \in ready(t.left)
                 THEN [s |-> CreateOne(t.s, k, b.create[k], b.fails), left |-> t.left \ {k}]
                 ELSE t,
               [s |-> s, left |-> pending], <<"k", "l">>)
  IN IF pending = {} THEN s
     ELSE IF pass.left = pending THEN [s EXCEPT !.notCreated = @ \cup pending]
     ELSE CreateRounds(pass.s, b, pass.left)

(* renameFolder moves the mailbox and everything below it.                 *)
RenamedAlone(cat, i, path) == [cat EXCEPT ![i] = path]

Renamed(cat, i, path) ==
  [j \in DOMAIN cat |->
     IF j = i \/ j \in Below(cat[i], cat)
     THEN path \o SubSeq(cat[j], Len(cat[i]) + 1, Len(cat[j])) ELSE cat[j]]

UpdateOne(s, i, patch, doomed, fails) ==
  LET p == Resolved(patch, s.created)
      path == Path(s.cat, s.cat[i], p)
      tooDeep == \E j \in Below(s.cat[i], s.cat) :
                    Len(path) + Len(s.cat[j]) - Len(s.cat[i]) > MaxPathDepth
  IN IF \/ i \in doomed
        \/ RefOf(patch) # {} /\ RefOf(patch) \cap DOMAIN s.created = {}
        \/ i \notin DOMAIN s.cat
        \/ PathError(s.cat, s.cat[i], p) # ""
        \/ path # s.cat[i] /\ (path \in Paths(s.cat) \/ tooDeep)
        \/ i \in fails
     THEN [s EXCEPT !.notUpdated = @ \cup {i}]
     ELSE [s EXCEPT !.updated = @ \cup {i}, !.cat = Renamed(@, i, path)]

(* Children before parents: longest path first.                            *)
DestroyAnyway(s, i, mail, fails) ==
  IF s.cat[i] = Inbox \/ Below(s.cat[i], s.cat) # {} \/ i \in fails
  THEN [s EXCEPT !.notDestroyed = @ \cup {i}]
  ELSE [s EXCEPT !.destroyed = @ \cup {i}, !.cat = Restrict(@, DOMAIN @ \ {i})]

DestroyOne(s, i, mail, fails) ==
  IF s.cat[i] = Inbox \/ Below(s.cat[i], s.cat) # {} \/ i \in mail \cup fails
  THEN [s EXCEPT !.notDestroyed = @ \cup {i}]
  ELSE [s EXCEPT !.destroyed = @ \cup {i}, !.cat = Restrict(@, DOMAIN @ \ {i})]

DestroyOrderAsked(cat, ids) == SetToSortSeq(ids, LAMBDA a, b : Len(cat[a]) < Len(cat[b]))

DestroyOrder(cat, ids) == SetToSortSeq(ids, LAMBDA a, b : Len(cat[a]) > Len(cat[b]))

SetMailboxes(cat, b) ==
  LET start == [cat |-> cat, created |-> <<>>, notCreated |-> {}, updated |-> {},
                notUpdated |-> {}, destroyed |-> {}, notDestroyed |-> {}]
      made1 == CreateRounds(start, b, DOMAIN b.create)
      moved == FoldLeft(LAMBDA s, i : IF i \in DOMAIN b.update
                                      THEN UpdateOne(s, i, b.update[i], b.destroy, b.fails)
                                      ELSE s,
                        made1, b.order)
      known == b.destroy \cap DOMAIN moved.cat
  IN FoldLeft(LAMBDA s, i : DestroyOne(s, i, b.mail, b.fails),
              [moved EXCEPT !.notDestroyed = b.destroy \ known],
              DestroyOrder(moved.cat, known))

BatchInit == batch \in Catalogs \X Batches

(* What a patch promises of the mailbox it was applied to, afterwards.     *)
Applied(r, i, patch) ==
  LET p == Resolved(patch, r.created)
  IN /\ p.name # Keep => Last(r.cat[i]) = p.name
     /\ p.parent \notin {Keep, ""} =>
          p.parent \in DOMAIN r.cat /\ Front(r.cat[i]) = r.cat[p.parent]
     /\ p.parent = "" => Len(r.cat[i]) = 1

(* SetMailboxes (mailbox_write.go:94), whatever mix of creations that      *)
(* refer to each other, renames of parents and children, and removals one  *)
(* request holds and whichever of them fail in the database: every object  *)
(* is answered exactly once; the mailboxes stay a tree of distinct paths;  *)
(* every success is still true when the batch ends (a later rename of its  *)
(* parent carries it along); only what was renamed has another name.  A    *)
(* mailbox is destroyed exactly when it is asked for, is not INBOX, its    *)
(* removal does not fail and its whole subtree is empty of mail and        *)
(* destroyed too: no other mailbox disappears.                             *)
BatchExact ==
  LET cat == batch[1] b == batch[2]
  IN \A r \in {SetMailboxes(cat, b)} :
       /\ DOMAIN r.created \cup r.notCreated = DOMAIN b.create
       /\ DOMAIN r.created \cap r.notCreated = {}
       /\ r.updated \cup r.notUpdated = DOMAIN b.update
       /\ r.updated \cap r.notUpdated = {}
       /\ r.destroyed \cup r.notDestroyed = b.destroy
       /\ r.destroyed \cap r.notDestroyed = {}
       /\ \A i, j \in DOMAIN r.cat : i # j => r.cat[i] # r.cat[j]
       /\ \A i \in DOMAIN r.cat : Len(r.cat[i]) > 1 => Front(r.cat[i]) \in Paths(r.cat)
       /\ \A k \in DOMAIN r.created : Applied(r, Fresh[k], b.create[k])
       /\ \A i \in r.updated : Applied(r, i, b.update[i])
       /\ \A i \in (DOMAIN cat \cap DOMAIN r.cat) \ r.updated : Last(r.cat[i]) = Last(cat[i])
       /\ DOMAIN r.cat =
            (DOMAIN cat \ r.destroyed) \cup {Fresh[k] : k \in DOMAIN r.created}
       /\ \A i \in r.destroyed : cat[i] # Inbox /\ i \notin b.mail \cup b.fails
       /\ \A i \in r.notDestroyed \cap DOMAIN r.cat :
            \/ r.cat[i] = Inbox \/ i \in b.mail \cup b.fails \/ Below(r.cat[i], r.cat) # {}

(***************************************************************************)
(* Composing and reading MIME.  A part is a leaf ("text", "html" or "bin") *)
(* or a multipart ("multi") with `kids'.  A leaf's content `ref' is a text *)
(* of bodyValues when `inlined' and a blob otherwise.  A composition gives *)
(* either the structure or the convenience lists, the body values and the  *)
(* blobs the user can read.                                                *)
(***************************************************************************)
Multi(kids) == [type |-> "multi", disp |-> "", name |-> FALSE, cid |-> "",
                inlined |-> FALSE, ref |-> "", kids |-> kids]
EmptyText == [Multi(<<>>) EXCEPT !.type = "text", !.inlined = TRUE, !.ref = "empty"]

(* A part with a name and no disposition ("nil", or the empty string)      *)
(* becomes an attachment.                                                  *)
Disposition(p) ==
  IF p.disp \notin {"nil", ""} THEN p.disp ELSE IF p.name THEN "attachment" ELSE ""

(* The tree composeMIME builds from the lists: alternative bodies, related *)
(* inline parts, mixed attachments.                                        *)
Root(c) ==
  LET list(d) == SelectSeq(c.attachments, LAMBDA p : (p.disp = "inline") = d)
      asked == [k \in 1..Len(list(FALSE)) |->
                  [list(FALSE)[k] EXCEPT !.disp = IF @ = "nil" THEN "attachment" ELSE @]]
      bodies == IF c.textBody \o c.htmlBody = <<>> THEN <<EmptyText>>
                ELSE c.textBody \o c.htmlBody
      body == IF Len(bodies) > 1 THEN Multi(bodies) ELSE bodies[1]
      related == IF list(TRUE) = <<>> THEN body ELSE Multi(<<body>> \o list(TRUE))
  IN IF c.structured THEN c.structure
     ELSE IF asked = <<>> THEN related ELSE Multi(<<related>> \o asked)

Values(c) ==
  c.values \cup (IF ~c.structured /\ c.textBody \o c.htmlBody = <<>>
                 THEN {"empty"} ELSE {})

(* Every part with its depth, in the order both walks visit them.          *)
RECURSIVE Preorder(_, _)
Preorder(p, depth) ==
  <<[part |-> p, depth |-> depth]>> \o
    FlattenSeq([k \in 1..Len(p.kids) |-> Preorder(p.kids[k], depth + 1)])

LeavesOf(p) ==
  LET all == Preorder(p, 1)
  IN SelectSeq([k \in 1..Len(all) |-> all[k].part], LAMBDA q : q.type # "multi")

(* prepare, one part: the first error ends the walk.                       *)
Prepared(s, x, c) ==
  LET p == x.part
      size == s.size + (IF p.inlined \/ p.ref \in c.blobs THEN 1 ELSE 0)
      invalid == [s EXCEPT !.kind = "invalidProperties"]
      named == [s EXCEPT !.nodes = @ + 1, !.cids = @ \cup ({p.cid} \ {""})]
  IN IF s.kind # "" THEN s
     ELSE IF s.nodes + 1 > MaxMIMEParts \/ x.depth > MaxMIMEDepth \/ p.cid \in s.cids
     THEN invalid
     ELSE IF p.type = "multi" THEN (IF p.kids = <<>> THEN invalid ELSE named)
     ELSE IF p.inlined /\ (p.ref \in s.used \/ p.type = "bin" \/ p.ref \notin Values(c))
     THEN invalid
     ELSE IF size > MaxBytes THEN [s EXCEPT !.kind = "tooLarge"]
     ELSE [named EXCEPT !.size = size,
             !.used = @ \cup (IF p.inlined THEN {p.ref} ELSE {}),
             !.missing = @ \cup (IF p.inlined THEN {} ELSE {p.ref} \ c.blobs)]

composeMIME(c) ==
  LET start == [kind |-> "", nodes |-> 0, size |-> 0, used |-> {}, cids |-> {},
                missing |-> {}]
      s == FoldLeft(LAMBDA t, x : Prepared(t, x, c), start, Preorder(Root(c), 1))
  IN IF s.kind # "" THEN s.kind
     ELSE IF s.used # Values(c) THEN "invalidProperties"
     ELSE IF s.missing # {} THEN "blobNotFound" ELSE ""

(* ParseMIME: the same bounds, leaves numbered depth first.                *)
NumberedByType(s) ==
  [k \in 1..Len(s) |-> [leaf |-> s[k],
     number |-> Cardinality({j \in 1..k : s[j].type = s[k].type})]]

Numbered(s) == [k \in 1..Len(s) |-> [leaf |-> s[k], number |-> k]]

Readable(p) ==
  LET all == Preorder(p, 1)
  IN Len(all) <= MaxMIMEParts /\ \A k \in 1..Len(all) : all[k].depth <= MaxMIMEDepth

ParseMIME(p) == Numbered(LeavesOf(p))

MIMEBlob(parts, n) ==
  LET found == SelectSeq(parts, LAMBDA x : x.number = n)
  IN IF found = <<>> THEN "none" ELSE found[1].leaf.ref

(* addMIMEObjects: where each leaf is listed.                              *)
ListedIn(leaf) ==
  IF leaf.type = "bin" \/ Disposition(leaf) = "attachment" THEN "attachments"
  ELSE IF leaf.type = "html" THEN "htmlBody" ELSE "textBody"

addMIMEObjects(parts, list) == SelectSeq(parts, LAMBDA x : ListedIn(x.leaf) = list)

ComposeInit == \E k \in DOMAIN Compositions : part \in Compositions[k]

Refs1(s) == [k \in 1..Len(s) |-> s[k].leaf.ref]
Contents(s) == [k \in 1..Len(s) |-> s[k].ref]

(* composeMIME, ParseMIME, addMIMEObjects (compose_mime.go:28, mime.go:32, *)
(* mime_read.go:15): whatever is accepted for creation can be read back    *)
(* within the reader's limits; each part given is read back as exactly one *)
(* part, in the order given, whose blob identifier fetches the content     *)
(* that was given; and a message made from the convenience lists lists its *)
(* text, HTML and attachments where they were given, unless a part's own   *)
(* disposition, name or type says otherwise (an attachment given the empty *)
(* disposition and no name is listed by its type).                         *)
ComposedReadable ==
  composeMIME(part) = "" =>
    LET root == Root(part)
        parts == ParseMIME(root)
        given == part.textBody \o part.htmlBody \o part.attachments
    IN /\ Readable(root)
       /\ Refs1(parts) = Contents(LeavesOf(root))
       /\ \A k \in 1..Len(parts) : MIMEBlob(parts, parts[k].number) = parts[k].leaf.ref
       /\ ~part.structured =>
            /\ {parts[k].leaf.ref : k \in 1..Len(parts)} \ {"empty"} =
                 {given[k].ref : k \in 1..Len(given)}
            /\ \A k \in 1..Len(part.textBody) :
                 Disposition(part.textBody[k]) # "attachment" =>
                   part.textBody[k].ref = Refs1(addMIMEObjects(parts, "textBody"))[1]
            /\ \A k \in 1..Len(part.attachments) :
                 LET a == part.attachments[k]
                 IN (a.ref \in ToSet(Refs1(addMIMEObjects(parts, "attachments")))) <=>
                      \/ a.type = "bin" \/ a.disp \in {"nil", "attachment"}
                      \/ a.disp = "" /\ a.name

(***************************************************************************)
(* The page of a query.  The arguments are records: `ok' says that a value *)
(* is a number the code accepts.  Positions count from zero.               *)
(***************************************************************************)
Invalid(kind) == [position |-> 0, start |-> 0, end |-> 0, kind |-> kind]

(* An argument that is absent is the largest page.                         *)
numericLimit(q) == IF q.limit.given THEN q.limit.n ELSE MaxObjects

(* The slice for a position, with the limit the code applies.              *)
SliceClamped(q, wanted) ==
  LET position == IF wanted < 0 THEN 0 ELSE IF wanted > Len(q.ids) THEN Len(q.ids) ELSE wanted
      limit == Min({numericLimit(q), MaxObjects})
  IN [position |-> position, start |-> position,
      end |-> position + Min({limit, Len(q.ids) - position}), kind |-> ""]

Slice(q, wanted) ==
  LET position == IF wanted < 0 THEN 0 ELSE wanted
      limit == Min({numericLimit(q), MaxObjects})
      start == IF position > Len(q.ids) THEN Len(q.ids) ELSE position
  IN [position |-> position, start |-> start,
      end |-> start + Min({limit, Len(q.ids) - start}), kind |-> ""]

queryPage(q) ==
  LET at == {i \in DOMAIN q.ids : q.ids[i] = q.anchor}
  IN IF q.anchor # "none" /\ (q.anchor = "" \/ ~q.offset.ok) THEN Invalid("invalidArguments")
     ELSE IF q.anchor # "none" /\ at = {} THEN Invalid("anchorNotFound")
     ELSE IF (q.anchor = "none" /\ ~q.position.ok) \/ (q.limit.given /\ ~q.limit.ok)
     THEN Invalid("invalidArguments")
     ELSE IF q.anchor # "none" THEN Slice(q, Min(at) - 1 + q.offset.n)
     ELSE Slice(q, IF q.position.n < 0 THEN q.position.n + Len(q.ids) ELSE q.position.n)

PageInit == part \in Pages

(* queryPage (query_page.go:8): a page is what its position and limit say, *)
(* whatever the arguments: the position reported is the one asked for even *)
(* beyond the end (comment: "must not be rewritten to the total"), counted *)
(* from the end when negative; an anchored page starts the given distance  *)
(* from the anchor; and a client that asks for the position after the last *)
(* id it got reads on without a gap or a repetition.                       *)
PagesExact ==
  LET q == part
      r == queryPage(q)
      Ids(p) == SubSeq(q.ids, p.start + 1, p.end)
      next == queryPage([q EXCEPT !.anchor = "none",
                           !.position = [ok |-> TRUE, n |-> r.position + Len(Ids(r))]])
  IN r.kind = "" =>
       /\ ToSet(Ids(r)) = {q.ids[i] : i \in {j \in DOMAIN q.ids :
              r.position < j /\ (q.limit.given => j <= r.position + q.limit.n)
              /\ j <= r.position + MaxObjects}}
       /\ q.anchor = "none" =>
            r.position = IF q.position.n >= 0 THEN q.position.n
                         ELSE Max({0, Len(q.ids) + q.position.n})
       /\ (q.anchor # "none" /\ r.position > 0) => q.ids[r.position - q.offset.n + 1] = q.anchor
       /\ IsPrefix(Ids(r) \o Ids(next), SubSeq(q.ids, r.position + 1, Len(q.ids)))

=============================================================================

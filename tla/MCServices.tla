-------------------------------- MODULE MCServices ---------------------------------
(***************************************************************************)
(* The control plane and the clients' protocols, component by component:   *)
(* accounts, the registries and the management interface, the operator's   *)
(* tools and the pair of nodes, JMAP and IMAP.  As in MCMail every         *)
(* behaviour is one of the component that focus names, whose variables the *)
(* cells x1 to x16 hold, and a focus without an action is a pure algorithm *)
(* whose initial states are the inputs.                                    *)
(***************************************************************************)
EXTENDS Integers, Sequences, FiniteSets, TLC

CONSTANTS s1, s2, mta, none, inbox, trash

VARIABLES
    focus,    \* the component this behaviour is one of
    x1, x2, x3, x4, x5, x6, x7, x8, x9, x10, x11, x12, x13, x14, x15, x16    \* its variables

-----------------------------------------------------------------------------
(* Accounts, logins and the registries.                                    *)

A == INSTANCE Accounts WITH
       users <- x1, table <- x2, owned <- x3, grants <- x4, ids <- x5,
       req <- x6, doubt <- x7, split <- x8,
       Users <- {"u", "v"}, Domains <- {"d"}, Requests <- {"r"}, MaxIds <- 2

K == INSTANCE Lockout WITH
       now <- x1, byName <- x2, byIP <- x3, login <- x4, tries <- x5,
       Users <- {"u"}, IPs <- {"i", "j"}, Logins <- {"l1", "l2"}, MaxFailures <- 2,
       IPFactor <- 2, Lock <- 1, MaxLock <- 3, FailureWindow <- 2, MaxTime <- 3

FilterBody(type, config) == [named |-> TRUE, type |-> type, config |-> config]
ListenerBody(port, tls, pair) == [address |-> TRUE, port |-> port, tls |-> tls, pair |-> pair]

R == INSTANCE Registry WITH
       filters <- x1, chains <- x2, listeners <- x3, interfaces <- x4,
       deleted <- x5, tenants <- x1, aliases <- x2, homes <- x3,
       FilterIds <- {"f", "g"}, ChainIds <- {"c"}, ListenerIds <- {"l"}, InterfaceIds <- {"i"},
       FilterBodies <- {FilterBody("spf", "empty"), FilterBody("rbl", "set"),
                        FilterBody("dkim", "nil")},
       ListenerBodies <- {ListenerBody(p, t, FALSE) : p \in {0, 25}, t \in BOOLEAN}
                         \cup {ListenerBody(65535, TRUE, TRUE)},
       TenantIds <- {"t", "u"}, AliasIds <- {"a", "b"}, Sources <- {"s", "r"},
       Destinations <- {"d", "e"}

-----------------------------------------------------------------------------
(* The management interface: who may call what, start and shutdown, the    *)
(* requests; the audit log and the outbox of webhooks.                     *)

ManagementPaths ==
    {<<"ha", "status">>, <<"extensions">>, <<"extensions", "webhooks", "retry">>,
     <<"queue", "stats">>, <<"policies">>, <<"policies", "p">>, <<"policies", "p", "test">>,
     <<"policies", "stats">>, <<"policies", "reload">>, <<"dlq", "list">>,
     <<"dlq", "retry", "m">>, <<"message", "m">>, <<"replication", "status">>,
     <<"replication", "promote">>, <<"mailboxes">>, <<"mailboxes", "u">>, <<"mailstorm">>,
     <<"mailstorm", "pause">>, <<"quarantine">>, <<"quarantine", "m", "release">>,
     <<"compliance">>, <<"compliance", "config">>, <<"compliance", "m", "export">>,
     <<"compliance", "m", "release">>, <<"compliance", "m", "legal-hold">>,
     <<"bounce", "config">>, <<"recipients", "a">>, <<"scim", "v2", "Users">>,
     <<"scim", "v2", "Users", "i">>, <<"dmarc", "reports">>, <<"dmarc", "reports", "send">>,
     <<"dns", "stats">>, <<"config", "reload">>}

ApiKey(expired, permissions) ==
    [token |-> "k", expired |-> expired, permissions |-> permissions]

M == INSTANCE Management WITH
       call <- x1, life <- x1, request <- x1, held <- x2, account <- x3,
       audit <- x4, events <- x5, effects <- x6, up <- x7, outbox <- x8,
       Paths <- ManagementPaths,
       KeySets <- {{}, {ApiKey(FALSE, {<<"*", "*">>})},
                   {ApiKey(TRUE, {<<"*", "*">>}),
                    ApiKey(FALSE, {<<"queue", "read">>, <<"compliance", "write">>,
                                   <<"policies", "read">>})}},
       Requests <- {1, 2}, Parts <- <<"listener", "tls", "outbox", "grpc">>

E == INSTANCE Ledger WITH
       lines <- x1, log <- x2, kept <- x3, now <- x4, events <- x5,
       rows <- x6, mutation <- x7, batch <- x8, acked <- x9,
       restarted <- x10,
       MaxLines <- 8, Hooks <- {"h1"}, MaxAttempts <- 2, Retain <- 1, Cap <- 2,
       MaxEvents <- 3, MaxTime <- 3

EE == INSTANCE Ledger WITH
       lines <- x1, log <- x2, kept <- x3, now <- x4, events <- x5,
       rows <- x6, mutation <- x7, batch <- x8, acked <- x9,
       restarted <- x10,
       MaxLines <- 8, Hooks <- {"h1", "h2"}, MaxAttempts <- 2, Retain <- 1, Cap <- 2,
       MaxEvents <- 2, MaxTime <- 1

-----------------------------------------------------------------------------
(* The supervisor of services, the LDAP pool and the indexer.              *)

B == INSTANCE Background WITH
       file <- x1, edits <- x2, config <- x3, lastHash <- x4,
       services <- x5, active <- x6, listeners <- x7, load <- x8,
       failed <- x9, idle <- x1, connCount <- x2, caller <- x3, uses <- x4,
       dead <- x5, events <- x1, bulk <- x2, stats <- x3, closed <- x4,
       Names <- {"n1", "n2"}, Addresses <- {"a", "b"}, MaxEdits <- 2,
       Callers <- {"c1", "c2", "c3"}, MaxConnections <- 2, MaxUses <- 8, Capacity <- 3,
       MaxEvents <- 9

-----------------------------------------------------------------------------
(* The operator's tools and the pair of nodes.                             *)

Record(user, link, from, to, mailbox, held) ==
    [user |-> user, link |-> link, from |-> from, to |-> to, mailbox |-> mailbox, held |-> held]
CaseRecords ==
    {Record(TRUE, 2, FALSE, {}, FALSE, FALSE), Record(TRUE, 1, FALSE, {}, FALSE, FALSE),
     Record(FALSE, 0, FALSE, {"other"}, FALSE, FALSE),
     Record(FALSE, 0, FALSE, {"me", "other"}, FALSE, FALSE),
     Record(FALSE, 0, TRUE, {"other"}, FALSE, TRUE),
     Record(FALSE, 0, FALSE, {"me"}, FALSE, FALSE), Record(TRUE, 0, FALSE, {"me"}, TRUE, FALSE)}

Leafless == [x \in {} |-> 0]
Scalar(v) == [kind |-> "scalar", v |-> v, at |-> Leafless]
Node(kind, at) == [kind |-> kind, v |-> 0, at |-> at]
Over(S) == {Node("map", f) : f \in [{"a", "b"} -> S] \cup [{"a"} -> S] \cup {Leafless}}
           \cup {Node("list", f) : f \in [{"0"} -> S] \cup [{"0", "1"} -> S] \cup {Leafless}}
ConfigDocuments ==
    Over({Scalar(1), Scalar(2)})
    \cup Over({Scalar(1), Node("map", [n \in {"a"} |-> Scalar(1)]),
               Node("list", [n \in {"0"} |-> Scalar(1)])})

O == INSTANCE Maintenance WITH
       file <- x1, ed <- x2, saved <- x3, docLock <- x4, put <- x5,
       raced <- x6, owner <- x1, data <- x2, tool <- x3, archives <- x4,
       snapshots <- x5, edited <- x6, instants <- x7, index <- x1,
       tables <- x2, script <- x3, identity <- x4, try <- x5, claims <- x6,
       due <- x7, shelf <- x1, input <- x1,
       Editors <- {"e1", "e2", "e3"}, Hands <- {"h1", "h2"},
       Parts <- <<"mailbox", "policies", "spool">>, Database <- "mailbox",
       Backups <- {"b1"}, Edits <- {"d1"}, MaxWrites <- 2, Records <- CaseRecords,
       Ids <- {1, 2, 3}, MaxTries <- 3, Times <- {1, 2, 3},
       Entries <- [name : {"a", "b", "manifest"}, digest : {1, 2}, size : {1, 2}],
       Manifests <- UNION {[S -> {1, 2}] : S \in SUBSET {"a", "b"}}, MaxBytes <- 4,
       Documents <- ConfigDocuments,
       Pointers <- UNION {[1 .. n -> {"a", "b", "0", "1"}] : n \in 1 .. 3}

DrbdResource(ours, devices, minor, primary, suspended, fresh, quorum, peer) ==
    [ours |-> ours, devices |-> devices, minor |-> minor, primary |-> primary,
     suspended |-> suspended, fresh |-> fresh, quorum |-> quorum, peer |-> peer]
SafeResource == DrbdResource(TRUE, 1, TRUE, TRUE, FALSE, TRUE, TRUE, FALSE)
\* At most two things are wrong with a resource.
DrbdResources ==
    {r \in [ours : BOOLEAN, devices : {1, 2}, minor : BOOLEAN, primary : BOOLEAN,
            suspended : BOOLEAN, fresh : BOOLEAN, quorum : BOOLEAN, peer : BOOLEAN] :
       Cardinality({f \in DOMAIN r : r[f] # SafeResource[f]}) <= 2}

T == INSTANCE Takeover WITH
       up <- x1, primary <- x2, moves <- x3, lease <- x4, activation <- x5,
       proc <- x6, lost <- x7, quit <- x8, asked <- x9, cfg <- x10,
       edits <- x11, store <- x12, replaced <- x13, act <- x14,
       signals <- x15, report <- x1,
       Nodes <- {"n1", "n2"}, Stores <- {"a", "b"}, MaxEdits <- 1, MaxMoves <- 2,
       MaxSignals <- 2,
       Resources <- DrbdResources,
       Mounts <- [target : BOOLEAN, source : BOOLEAN, rw : BOOLEAN]

-----------------------------------------------------------------------------
(* JMAP: submissions, queries, threads and push streams.                   *)

Attempt(email, later, fromSelf, to) ==
    [email |-> email, shaped |-> TRUE, size |-> "small", fromSelf |-> fromSelf, to |-> to,
     later |-> later]
NoAttempt == [email |-> "", shaped |-> FALSE, size |-> "small", fromSelf |-> TRUE, to |-> 0,
              later |-> FALSE]
Set(ifInState, create, attempt, cancel, destroy, hooks, hookDestroy) ==
    [ifInState |-> ifInState, create |-> create, attempt |-> attempt, cancel |-> cancel,
     destroy |-> destroy, hooks |-> hooks, hookDestroy |-> hookDestroy]
Sent == [w \in {"draft"} |-> FALSE]
Kept == [w \in {"draft"} |-> TRUE]
SetCalls(other, second) ==
    {Set(FALSE, TRUE, Attempt("e1", TRUE, TRUE, 1), {}, {}, [k \in {0} |-> Sent], {}),
     Set(TRUE, TRUE, Attempt(other, FALSE, TRUE, 1), {1}, {2},
         [k \in {0, 1} |-> IF k = 1 THEN second ELSE Sent], {}),
     Set(FALSE, TRUE, Attempt("e1", FALSE, FALSE, 1), {}, {1}, <<>>, {0}),
     Set(FALSE, TRUE, Attempt("e1", FALSE, TRUE, 0), {}, {}, <<>>, {0})}
CancelCall == Set(FALSE, FALSE, NoAttempt, {1, 2}, {3}, [k \in {1} |-> Sent], {2})
MsgDate == [x \in 1 .. 3 |-> IF x = 3 THEN 2 ELSE x]
MsgThread == [x \in 1 .. 3 |-> IF x = 2 THEN 2 ELSE 1]
StreamOwner == [s \in 1 .. 3 |-> IF s = 3 THEN "v" ELSE "u"]

J == INSTANCE JmapViews WITH
       snaps <- x1, client <- x2, receipts <- x3, subject <- x4,
       emails <- x5, set <- x6, mail <- x3, world <- x1, stream <- x2,
       pushTotal <- x3, pushUsers <- x4,
       Ids <- {1, 2, 3}, Emails <- {"e1", "e2"}, Calls <- SetCalls("e2", Sent), Limits <- {1, 2}, Keep <- 2,
       Msgs <- {1, 2, 3}, DateOf <- MsgDate, ThreadOf <- MsgThread, Flaggable <- {1},
       Queries <- {[flagged |-> FALSE, collapse |-> TRUE], [flagged |-> TRUE, collapse |-> FALSE]},
       Streams <- {1, 2, 3}, OwnerOf <- StreamOwner, MaxTotal <- 2, MaxPerUser <- 1,
       MaxEvents <- 2

JJ == INSTANCE JmapViews WITH
       snaps <- x1, client <- x2, receipts <- x3, subject <- x4,
       emails <- x5, set <- x6, mail <- x3, world <- x1, stream <- x2,
       pushTotal <- x3, pushUsers <- x4,
       Ids <- {1, 2}, Emails <- {"e1"}, Calls <- SetCalls("e1", Kept) \cup {CancelCall}, Limits <- {1, 2}, Keep <- 2,
       Msgs <- {1, 2, 3}, DateOf <- MsgDate, ThreadOf <- MsgThread, Flaggable <- {1},
       Queries <- {[flagged |-> FALSE, collapse |-> TRUE], [flagged |-> TRUE, collapse |-> FALSE]},
       Streams <- {1, 2, 3}, OwnerOf <- StreamOwner, MaxTotal <- 2, MaxPerUser <- 1,
       MaxEvents <- 2

-----------------------------------------------------------------------------
(* JMAP: answers to reads, uploads, batches, composed messages and pages.  *)

BoxCatalogs == {("i" :> <<"INBOX">>) @@ ("m" :> <<"a">>) @@ ("n" :> <<"a", "b">>),
                ("i" :> <<"INBOX">>) @@ ("m" :> <<"a">>) @@ ("n" :> <<"b">>)}
NewBoxes == [name : {"a", "b"}, parent : {"", "i", "m", "n", "#k", "#l", "?"}]
BoxChanges == [name : {"a", "b", "-"}, parent : {"-", "", "m", "n", "#k"}]
OneNew == [{"k"} -> NewBoxes] \cup {<<>>}
OneChange == [{"m"} -> BoxChanges] \cup [{"n"} -> BoxChanges]
BoxBatch(creates, updates, mails, fails) ==
    [create : creates, update : updates, destroy : SUBSET {"i", "m", "n"},
     mail : mails, order : {<<"m", "n">>}, fails : fails]
BoxBatches ==
    BoxBatch(OneNew \cup [{"k", "l"} -> NewBoxes], {<<>>}, {{}}, {{}, {"k"}})
    \cup BoxBatch({<<>>}, OneChange \cup [{"m", "n"} -> BoxChanges], SUBSET {"m"}, {{}, {"m"}})
    \cup BoxBatch(OneNew, OneChange, SUBSET {"m"}, {{}, {"n"}})

Leaves(types, disps, names, cids, inlined, refs) ==
    [type : types, disp : disps, name : names, cid : cids, inlined : inlined, ref : refs,
     kids : {<<>>}]
Multi(kids) == [type |-> "multi", disp |-> "", name |-> FALSE, cid |-> "", inlined |-> FALSE,
                ref |-> "", kids |-> kids]
Disps == {"nil", "", "inline", "attachment"}
UpToOne(S) == {<<>>} \cup {<<x>> : x \in S}
Attached == {a \in Leaves({"text", "bin"}, Disps, BOOLEAN, {""}, {FALSE}, {"f", "g"}) :
               ~a.name \/ a.disp \in {"nil", ""}}
ListedMails ==
    [structured : {FALSE}, structure : {Multi(<<>>)},
     textBody : UpToOne(Leaves({"text"}, Disps, BOOLEAN, {""}, {TRUE}, {"v"})),
     htmlBody : UpToOne(Leaves({"html"}, {"nil", "attachment"}, {FALSE}, {""}, {TRUE}, {"w"})),
     attachments : UpToOne(Attached)
                   \cup {<<x, y>> : x \in {a \in Attached : a.ref = "f"},
                                    y \in {a \in Attached : a.ref = "g"}},
     values : {{}, {"v"}, {"v", "w"}}, blobs : {{"f"}, {"f", "g"}}]
Shallow ==
    Leaves({"text", "bin"}, {""}, {FALSE}, {"", "c"}, {TRUE}, {"v"})
    \cup Leaves({"text", "bin"}, {""}, {FALSE}, {"", "c"}, {FALSE}, {"f"}) \cup {Multi(<<>>)}
Nested == Shallow \cup {Multi(<<x>>) : x \in Shallow} \cup {Multi(<<x, y>>) : x, y \in Shallow}
Deep == Nested \cup {Multi(<<x>>) : x \in Nested}
        \cup {Multi(<<x, y>>) : x \in Shallow, y \in Nested}
Deeper == Deep \cup {Multi(<<x>>) : x \in Deep}
StructuredMails ==
    [structured : {TRUE}, structure : Deeper \cup {Multi(<<x>>) : x \in Deeper \ Deep},
     textBody : {<<>>}, htmlBody : {<<>>}, attachments : {<<>>}, values : {{}, {"v"}},
     blobs : {{"f"}}]

Ints == [ok : {TRUE}, n : -4 .. 4] \cup {[ok |-> FALSE, n |-> 0]}

H == INSTANCE JmapRequests WITH
       place <- x1, thread <- x2, unread <- x3, revision <- x4,
       boxRev <- x5, mailRev <- x6, handler <- x7, sem <- x8, client <- x9,
       uploads <- x1, made <- x2, now <- x3, batch <- x1, part <- x1,
       Boxes <- {"b1", "b2"}, Mails <- {"e1", "e2"}, Threads <- {"t1", "t2"}, Slots <- 1,
       Handlers <- {"h1", "h2"}, MaxChanges <- 2, Sizes <- {1, 2, 3}, MaxUploadCount <- 3,
       MaxUploadAccount <- 6, Lifetime <- 2, MaxTime <- 4, Catalogs <- BoxCatalogs,
       Batches <- BoxBatches, MaxPathDepth <- 3,
       Pages <- [ids : {SubSeq(<<"p", "q", "r">>, 1, n) : n \in 0 .. 3},
                 anchor : {"none", "", "p", "q", "r", "z"}, offset : Ints, position : Ints,
                 limit : [given : BOOLEAN, ok : BOOLEAN, n : 0 .. 4]],
       MaxObjects <- 3, Compositions <- <<ListedMails, StructuredMails>>,
       MaxMIMEParts <- 7, MaxMIMEDepth <- 4, MaxBytes <- 4

-----------------------------------------------------------------------------
(* IMAP: one client reads while the other one moves and expunges between   *)
(* two folders, or stores and appends in one; mail arrives.                *)

ImapMoves == [s \in {s1, s2} |-> IF s = s1 THEN {"SELECT", "FETCH"}
                                 ELSE {"EXPUNGE", "MOVE", "CLOSE"}]
ImapStores == [s \in {s1, s2} |-> IF s = s1 THEN {"SELECT", "FETCH", "LIST"}
                                  ELSE {"STORE", "EXPUNGE", "CLOSE", "APPEND"}]

I == INSTANCE ImapSessions WITH
       box <- x1, made <- x2, mu <- x3, pc <- x4, sel <- x5, want <- x6,
       left <- x7, fresh <- x8, marks <- x9, silent <- x10, todo <- x11,
       queue <- x12, offers <- x13, writer <- x14, view <- x15,
       astray <- x16,
       Sessions <- {s1, s2}, Mta <- mta, Folders <- {inbox, trash}, None <- none,
       Commands <- ImapMoves, Mute <- {}, MaxMessages <- 2

II == INSTANCE ImapSessions WITH
       box <- x1, made <- x2, mu <- x3, pc <- x4, sel <- x5, want <- x6,
       left <- x7, fresh <- x8, marks <- x9, silent <- x10, todo <- x11,
       queue <- x12, offers <- x13, writer <- x14, view <- x15,
       astray <- x16,
       Sessions <- {s1, s2}, Mta <- mta, Folders <- {inbox}, None <- none,
       Commands <- ImapStores, Mute <- {}, MaxMessages <- 2

-----------------------------------------------------------------------------
(* The cells after the first k are not used.                               *)
Unused(k) ==
    /\ (k < 2 => x2 = 0) /\ (k < 3 => x3 = 0) /\ (k < 4 => x4 = 0)
    /\ (k < 5 => x5 = 0) /\ (k < 6 => x6 = 0) /\ (k < 7 => x7 = 0)
    /\ (k < 8 => x8 = 0) /\ (k < 9 => x9 = 0) /\ (k < 10 => x10 = 0)
    /\ (k < 11 => x11 = 0) /\ (k < 12 => x12 = 0) /\ (k < 13 => x13 = 0)
    /\ (k < 14 => x14 = 0) /\ (k < 15 => x15 = 0) /\ (k < 16 => x16 = 0)

Untouched(k) ==
    /\ (k < 2 => x2' = x2) /\ (k < 3 => x3' = x3) /\ (k < 4 => x4' = x4)
    /\ (k < 5 => x5' = x5) /\ (k < 6 => x6' = x6) /\ (k < 7 => x7' = x7)
    /\ (k < 8 => x8' = x8) /\ (k < 9 => x9' = x9) /\ (k < 10 => x10' = x10)
    /\ (k < 11 => x11' = x11) /\ (k < 12 => x12' = x12)
    /\ (k < 13 => x13' = x13) /\ (k < 14 => x14' = x14)
    /\ (k < 15 => x15' = x15) /\ (k < 16 => x16' = x16)

MCInit ==
    \/ focus = "accounts" /\ A!Init /\ Unused(8)
    \/ focus = "logins" /\ K!Init /\ Unused(5)
    \/ focus = "wiring" /\ R!WiringInit /\ Unused(5)
    \/ focus = "names" /\ R!NameInit /\ Unused(3)
    \/ focus = "access" /\ M!CallInit /\ Unused(1)
    \/ focus = "lifecycle" /\ M!LifeInit /\ Unused(1)
    \/ focus = "requests" /\ M!RequestInit /\ Unused(8)
    \/ focus = "outbox" /\ E!Init /\ Unused(10)
    \/ focus = "hooks" /\ EE!Init /\ Unused(10)
    \/ focus = "auditLog" /\ E!Init /\ Unused(10)
    \/ focus = "master" /\ B!MasterInit /\ Unused(9) /\ \A n \in DOMAIN x3 : x3[n].limit < 2
    \/ focus = "pool" /\ B!PoolInit /\ Unused(5)
    \/ focus = "index" /\ B!IndexInit /\ Unused(4)
    \/ focus = "editing" /\ O!EditInit /\ Unused(6)
    \/ focus = "offline" /\ O!OfflineInit /\ Unused(7)
    \/ focus = "case" /\ O!CaseInit /\ Unused(7)
    \/ focus = "archive" /\ O!ArchiveInit /\ Unused(1)
    \/ focus = "extract" /\ O!ExtractInit /\ Unused(1)
    \/ focus = "setting" /\ O!SetInit /\ Unused(1)
    \/ focus = "nodes" /\ T!Init /\ Unused(15)
    \/ focus = "proof" /\ T!ProofInit /\ Unused(1)
    \/ focus = "submissions" /\ J!SubmissionInit /\ Unused(6)
    \/ focus = "cancels" /\ JJ!SubmissionInit /\ Unused(6)
    \/ focus = "queries" /\ J!QueryInit /\ Unused(3)
    \/ focus = "threads" /\ J!ThreadInit /\ Unused(3)
    \/ focus = "push" /\ J!PushInit /\ Unused(4)
    \/ focus = "answers" /\ H!RequestInit /\ Unused(9)
    \/ focus = "uploads" /\ H!UploadInit /\ Unused(3)
    \/ focus = "batches" /\ H!BatchInit /\ Unused(1)
    \/ focus = "compose" /\ H!ComposeInit /\ Unused(1)
    \/ focus = "pages" /\ H!PageInit /\ Unused(1)
    \/ focus = "imapMoves" /\ I!Init /\ Unused(16)
    \/ focus = "imapStores" /\ II!Init /\ Unused(16)

MCNext ==
    /\ \/ focus = "accounts" /\ A!Next /\ Untouched(8)
       \/ focus = "logins" /\ K!Next /\ Untouched(5)
       \/ focus = "wiring" /\ R!WiringNext /\ Untouched(5)
       \/ focus = "names" /\ R!NameNext /\ Untouched(3)
       \/ focus = "lifecycle" /\ M!LifeNext /\ Untouched(1)
       \/ focus = "requests" /\ M!RequestNext /\ Untouched(8)
       \/ focus = "outbox" /\ E!OutboxNext /\ Untouched(10)
       \/ focus = "hooks" /\ EE!OutboxNext /\ Untouched(10)
       \/ focus = "auditLog" /\ E!AuditNext /\ Untouched(10)
       \/ focus = "master" /\ B!MasterNext /\ Untouched(9)
       \/ focus = "pool" /\ B!PoolNext /\ Untouched(5)
       \/ focus = "index" /\ B!IndexNext /\ Untouched(4)
       \/ focus = "editing" /\ O!EditNext /\ Untouched(6)
       \/ focus = "offline" /\ O!OfflineNext /\ Untouched(7)
       \/ focus = "case" /\ O!CaseNext /\ Untouched(7)
       \/ focus = "archive" /\ O!ArchiveNext /\ Untouched(1)
       \/ focus = "nodes" /\ T!Next /\ Untouched(15)
       \/ focus = "submissions" /\ J!SubmissionNext /\ Untouched(6)
       \/ focus = "cancels" /\ JJ!SubmissionNext /\ Untouched(6)
       \/ focus = "queries" /\ J!QueryNext /\ Untouched(3)
       \/ focus = "threads" /\ J!ThreadNext /\ Untouched(3)
       \/ focus = "push" /\ J!PushNext /\ Untouched(4)
       \/ focus = "answers" /\ H!RequestNext /\ Untouched(9)
       \/ focus = "uploads" /\ H!UploadNext /\ Untouched(3)
       \/ focus = "imapMoves" /\ I!Next /\ Untouched(16)
       \/ focus = "imapStores" /\ II!Next /\ Untouched(16)
    /\ UNCHANGED focus

allVars == <<focus, x1, x2, x3, x4, x5, x6, x7, x8, x9, x10, x11, x12, x13, x14, x15,
             x16>>

MCSpec == MCInit /\ [][MCNext]_allVars

-----------------------------------------------------------------------------
(* Accounts.  Memory and the repository hold the same accounts and, until  *)
(* a write fails, the same entitlements; the guesses at a name within a    *)
(* window are bounded though check and record are two steps (auth.go).     *)
(* The registries keep filters a chain names, explain every binding, and   *)
(* resolve an alias only in its tenant.                                    *)
AccountsKept ==
    /\ focus = "accounts" => A!AccountsPersist /\ A!GrantsAgree /\ A!AInv
    /\ focus = "logins" => K!GuessesBounded
    /\ focus = "wiring" => R!ChainsWhole /\ R!BindingsExplained
    /\ focus = "names" => R!AliasesHome

(* No request with an old SCIM identity removes the account that took over *)
(* its user name (DeleteSCIM).                                             *)
OwnersKept == [][focus = "accounts" => A!StaleHarmless]_allVars

(* Management.  A call is let through exactly when its key or token allows *)
(* it, a failed start leaves nothing open, a change is audited before it   *)
(* is made and announced after, a held message is released once; the audit *)
(* chain has no gap, and an event that was promised to a webhook stays in  *)
(* the outbox until it was taken or given up (api/, auditlog/, webhooks).  *)
ChangesAudited ==
    /\ focus = "access" => M!AccessExact
    /\ focus = "lifecycle" => M!NothingLeft
    /\ focus = "requests" => M!ChangesAccounted /\ M!HeldOnce
    /\ focus = "outbox" => E!OutboxKept
    /\ focus = "hooks" => EE!OutboxKept
    /\ focus = "auditLog" => E!ChainTrue

(* Operation.  A reload restarts exactly the services whose enabling,      *)
(* addresses or mode changed, the LDAP pool stays within its size, every   *)
(* event is indexed or counted, but for those in the channel when the      *)
(* indexer is closed.  No change of the configuration is lost, but for one *)
(* by hand between a tool's last comparison and its rename; offline tools  *)
(* never work beside the service, a privacy case claims what it did, a     *)
(* receipt names the bytes kept, an archive unpacks to its manifest.  One  *)
(* node writes, after a proof that admits nothing else, and a reload opens *)
(* the store it validated.                                                 *)
OperationsWhole ==
    /\ focus = "master" => B!ReloadExact
    /\ focus = "pool" => B!PoolBounded
    /\ focus = "index" => B!EventsCounted
    /\ focus = "editing" => O!ChangesKept
    /\ focus = "offline" => O!OfflineWhole
    /\ focus = "case" => O!CaseHonest
    /\ focus = "archive" => O!ReceiptTrue
    /\ focus = "extract" => O!ArchivesExact
    /\ focus = "setting" => O!SettersAgree
    /\ focus = "nodes" => T!OneWriter /\ T!ReloadKeepsStore
    /\ focus = "proof" => T!ProofExact

(* JMAP views.  A client that applies what changes, queryChanges and the   *)
(* push stream tell it knows the submissions, query results and threads    *)
(* the server has; a hook runs only for a submission that succeeded.       *)
ClientsFollow ==
    /\ focus = "submissions" => J!SubmissionsFollowed /\ J!HooksFollowSuccess
    /\ focus = "cancels" => JJ!SubmissionsFollowed /\ JJ!HooksFollowSuccess
    /\ focus = "queries" => J!QueriesFollowed
    /\ focus = "threads" => J!ThreadsFollowed
    /\ focus = "push" => J!StreamsTold

(* JMAP requests.  Whatever in an answer differs from the store is         *)
(* reported as a change since the answer's state, uploads stay within the  *)
(* account's limits, a batch does what its operations say in any order and *)
(* nothing else, a composed message is read back as it was written, and    *)
(* pages are the ones the standard describes.                              *)
RequestsExact ==
    /\ focus = "answers" => H!AnswersFollowed
    /\ focus = "uploads" => H!UploadsBounded
    /\ focus = "batches" => H!BatchExact
    /\ focus = "compose" => H!ComposedReadable
    /\ focus = "pages" => H!PagesExact

(* IMAP.  The view of a selected session is its folder whenever nobody     *)
(* holds the mailbox lock, and the sequence numbers published under that   *)
(* lock mean the same message on both sides; not for sessions whose SELECT *)
(* a change overtook or whose folder an expunge changed and then failed.   *)
ImapViewsAgree ==
    /\ focus = "imapMoves" => I!TypeOK /\ I!ViewsAgree /\ I!NumbersAgree
    /\ focus = "imapStores" => II!TypeOK /\ II!ViewsAgree /\ II!NumbersAgree
=============================================================================

---------------------------- MODULE Maintenance ----------------------------
(***************************************************************************)
(* The administration commands that work on a deployment's files:          *)
(*   - gemsads-conf config/file edit (internal/confadmin): editors that    *)
(*     hold a file lock beside people who write the file by hand;          *)
(*   - the commands that need a stopped service (db edit and maintain,     *)
(*     mailhub-backup): they take the owner lock of the message store;     *)
(*   - mailhub-backup restore and the check of an archive;                 *)
(*   - mailhub-privacy delete (internal/privacy), stopped anywhere and     *)
(*     tried again;                                                        *)
(*   - mailhub-preserve (internal/preservation);                           *)
(*   - the JSON pointer assignment of `config set`.                        *)
(* A document's content is the set of changes it holds; a database or a    *)
(* file of the data directory is the number of its writes.  An action that *)
(* may fail leaves the file system as the failing call leaves it, and a    *)
(* crash is a failure: the operating system releases both locks.           *)
(***************************************************************************)
EXTENDS Naturals, Sequences, FiniteSets, FiniteSetsExt, SequencesExt

CONSTANTS Editors,    \* runs of an edit command, each named after its change
          Hands,      \* changes written by hand, without the lock
          Parts,      \* the files of the data directory, in WalkDir's order
          Database,   \* the one of them `db edit` works on
          Backups,    \* runs of mailhub-backup create
          Edits,      \* runs of db edit and db maintain
          MaxWrites,  \* bound: writes of the service to each part
          Records,    \* the records a message of the account may have
          Ids,        \* message ids: 1 .. n, in the order of the sort
          MaxTries,   \* bound: runs of mailhub-privacy delete
          Times,      \* retention dates, as numbers
          Entries,    \* entries of an archive: name, digest of the bytes, size
          Manifests,  \* what a manifest may list: a function from names
          MaxBytes,   \* the byte limit of an extraction
          Documents,  \* documents `config set` is given
          Pointers    \* and the paths it is to assign

VARIABLES file, ed, saved, docLock, put, raced,
          owner, data, tool, archives, snapshots, edited, instants,
          index, tables, script, identity, try, claims, due,
          shelf, input

docVars == <<file, ed, saved, docLock, put, raced>>
offVars == <<owner, data, tool, archives, snapshots, edited, instants>>
caseVars == <<index, tables, script, identity, try, claims, due>>

Nobody == "nobody"

-----------------------------------------------------------------------------
(* Editing a document.                                                     *)

EditInit ==
  /\ file = {} /\ saved = {} /\ docLock = Nobody
  /\ put = {} /\ raced = {}
  /\ ed = [e \in Editors |-> [at |-> "new", old |-> {}]]

Move(e, at) == ed' = [ed EXCEPT ![e].at = at]

(* Every early return of Replace closes the lock file.                     *)
Abandon(e) ==
  /\ Move(e, "failed")
  /\ docLock' = IF docLock = e THEN Nobody ELSE docLock
  /\ UNCHANGED <<file, saved, put, raced>>

Fail(e) ==
  /\ ed[e].at \in {"inspected", "locked", "compared", "validated", "backed",
                   "rechecked", "renamed"}
  /\ Abandon(e)

(* Reads the document, makes the candidate from it and validates that.     *)
Inspect(e) ==
  /\ ed[e].at = "new"
  /\ ed' = [ed EXCEPT ![e] = [at |-> "inspected", old |-> file]]
  /\ UNCHANGED <<file, saved, docLock, put, raced>>

LockAnyway(e) ==
  /\ ed[e].at = "inspected"
  /\ docLock' = e
  /\ Move(e, "locked")
  /\ UNCHANGED <<file, saved, put, raced>>

Lock(e) ==
  /\ ed[e].at = "inspected"
  /\ IF docLock = Nobody
       THEN /\ docLock' = e
            /\ Move(e, "locked")
            /\ UNCHANGED <<file, saved, put, raced>>
       ELSE Abandon(e)

Compare(e, from, to) ==
  /\ ed[e].at = from
  /\ IF file = ed[e].old
       THEN Move(e, to) /\ UNCHANGED <<file, saved, docLock, put, raced>>
       ELSE Abandon(e)

Validate(e) ==
  /\ ed[e].at = "compared"
  /\ Move(e, "validated")
  /\ UNCHANGED <<file, saved, docLock, put, raced>>

SaveBackup(e) ==
  /\ ed[e].at = "validated"
  /\ saved' = saved \cup {ed[e].old}
  /\ Move(e, "backed")
  /\ UNCHANGED <<file, docLock, put, raced>>

(* The defect of a Replace that trusts its first comparison.               *)
RecheckTrusts(e) ==
  /\ ed[e].at = "backed"
  /\ Move(e, "rechecked")
  /\ UNCHANGED <<file, saved, docLock, put, raced>>

Recheck(e) == Compare(e, "backed", "rechecked")

Rename(e) ==
  /\ ed[e].at = "rechecked"
  /\ file' = ed[e].old \cup {e}
  /\ put' = put \cup {e}
  /\ Move(e, "renamed")
  /\ UNCHANGED <<saved, docLock, raced>>

SyncDir(e) ==
  /\ ed[e].at = "renamed"
  /\ Move(e, "saved")
  /\ docLock' = Nobody
  /\ UNCHANGED <<file, saved, put, raced>>

(* Somebody writes the file without the utility.  raced collects what they *)
(* write between an editor's last comparison and its rename.               *)
WriteByHand(h) ==
  /\ h \notin put
  /\ file' = file \cup {h}
  /\ put' = put \cup {h}
  /\ raced' = IF \E e \in Editors : ed[e].at = "rechecked"
                THEN raced \cup {h} ELSE raced
  /\ UNCHANGED <<ed, saved, docLock>>

EditNext ==
  \/ \E e \in Editors :
       \/ Inspect(e) \/ Lock(e) \/ Compare(e, "locked", "compared")
       \/ Validate(e) \/ SaveBackup(e) \/ Recheck(e) \/ Rename(e)
       \/ SyncDir(e) \/ Fail(e)
  \/ \E h \in Hands : WriteByHand(h)

(* Replace (files.go:263): no change is lost.  Whatever was put in the     *)
(* file is still there, except a change written by hand in the moment      *)
(* between the second comparison and the rename of an editor that did not  *)
(* know it (no utility's change is ever lost, though line 261 speaks of    *)
(* all concurrent changes); and what an editor replaced is in a backup.    *)
ChangesKept ==
  /\ \A h \in put \ file : h \in raced /\ \E e \in Editors \cap put : h \notin ed[e].old
  /\ \A e \in Editors \cap put : ed[e].old \in saved

-----------------------------------------------------------------------------
(* Commands that need the service stopped: the service and the tools take  *)
(* one lock, .owner.lock of the message store, without waiting.            *)

Names == {Parts[i] : i \in DOMAIN Parts}

Tools == Backups \cup Edits \cup {"service"}

OfflineInit ==
  /\ owner = Nobody
  /\ data = [p \in Names |-> 0]
  /\ tool = [t \in Tools |-> [at |-> "off", copy |-> [p \in Names |-> 0]]]
  /\ archives = {} /\ snapshots = {} /\ edited = {}
  /\ instants = {data}

At(t, at) == tool' = [tool EXCEPT ![t].at = at]

AcquireShared(t, at) ==
  /\ owner' = t
  /\ At(t, at)

Acquire(t, at) ==
  /\ owner = Nobody
  /\ owner' = t
  /\ At(t, at)

Open(t) ==
  /\ tool[t].at = "off"
  /\ Acquire(t, IF t \in Backups THEN "copy1" ELSE "open")
  /\ UNCHANGED <<data, archives, snapshots, edited, instants>>

Quit(t) ==
  /\ tool[t].at # "off"
  /\ owner' = IF owner = t THEN Nobody ELSE owner
  /\ tool' = [tool EXCEPT ![t] = [at |-> IF t = "service" THEN "off" ELSE "done",
                                  copy |-> [p \in Names |-> 0]]]
  /\ UNCHANGED <<data, archives, snapshots, edited, instants>>

Write(p) ==
  /\ tool["service"].at = "open"
  /\ data[p] < MaxWrites
  /\ data' = [data EXCEPT ![p] = @ + 1]
  /\ instants' = instants \cup {data'}
  /\ UNCHANGED <<owner, tool, archives, snapshots, edited>>

Step(i) == IF i = 1 THEN "copy1" ELSE IF i = 2 THEN "copy2" ELSE "copy3"

(* backup.Create copies the files one after another ...                    *)
Copy(b, i) ==
  /\ i \in DOMAIN Parts
  /\ tool[b].at = Step(i)
  /\ tool' = [tool EXCEPT ![b].copy[Parts[i]] = data[Parts[i]],
                          ![b].at = IF i = Len(Parts) THEN "link" ELSE Step(i + 1)]
  /\ UNCHANGED <<owner, data, archives, snapshots, edited, instants>>

(* ... and publishes the archive with a hard link.                         *)
Link(b) ==
  /\ tool[b].at = "link"
  /\ archives' = archives \cup {tool[b].copy}
  /\ owner' = IF owner = b THEN Nobody ELSE owner
  /\ tool' = [tool EXCEPT ![b] = [at |-> "done", copy |-> [p \in Names |-> 0]]]
  /\ UNCHANGED <<data, snapshots, edited, instants>>

(* db edit and db maintain first make a verified copy of the database.     *)
BackupDB(d) ==
  /\ tool[d].at = "open" /\ d \in Edits
  /\ snapshots' = snapshots \cup {data[Database]}
  /\ At(d, "copied")
  /\ UNCHANGED <<owner, data, archives, edited, instants>>

(* One statement in a transaction.  A violated foreign key rolls it back   *)
(* (Quit); MaintainDB rebuilds and changes no content (Quit).              *)
EditDB(d) ==
  /\ tool[d].at = "copied"
  /\ edited' = edited \cup {data[Database]}
  /\ data' = [data EXCEPT ![Database] = @ + 1]
  /\ instants' = instants \cup {data'}
  /\ At(d, "edited")
  /\ UNCHANGED <<owner, archives, snapshots>>

OfflineNext ==
  \/ \E t \in Tools : Open(t) \/ Quit(t)
  \/ \E p \in Names : Write(p)
  \/ \E b \in Backups : Link(b) \/ \E i \in DOMAIN Parts : Copy(b, i)
  \/ \E d \in Edits : BackupDB(d) \/ EditDB(d)

(* A published archive is the data directory as it stood at one instant,   *)
(* though it is copied file by file, and every content a db edit replaced  *)
(* is in a copy made before: the service and the commands exclude each     *)
(* other through the owner lock.                                           *)
OfflineWhole ==
  /\ archives \subseteq instants
  /\ edited \subseteq snapshots

-----------------------------------------------------------------------------
(* Deleting an account.  A record: user - the account is its metadata's    *)
(* username; link - the queue id its metadata names, or 0; from - the      *)
(* account's address is the sender; to - which of "me" and "other" it is   *)
(* addressed to; mailbox - its tier; held - compliance evidence.           *)

NoRecord == [user |-> FALSE, link |-> 0, from |-> FALSE, to |-> {},
             mailbox |-> FALSE, held |-> FALSE]

Live == {i \in Ids : index[i] # NoRecord}

Knows == identity # "gone"      \* else the address is the account's name

Linked == {index[i].link : i \in {j \in Live : index[j].user}} \ {0}

Mine(i) == Knows /\ index[i].from

Owned(i) ==
  LET r == index[i] IN
  \/ r.user \/ i \in Linked
  \/ ~r.mailbox /\ (Mine(i) \/ (Knows /\ r.to = {"me"}))

PersonalRecords ==
  {i \in Live : Owned(i) \/ Mine(i) \/ (Knows /\ "me" \in index[i].to)}

(* A submission receipt's id, "jmap-submission-...", sorts after the queue  *)
(* id it names, a UUID.                                                    *)
CaseInit ==
  /\ index \in {f \in [Ids -> Records \cup {NoRecord}] : \A i \in Ids : f[i].link < i}
  /\ tables = TRUE /\ script = TRUE
  /\ identity \in {"enabled", "disabled"}
  /\ try = [at |-> "idle", todo |-> {}, owned |-> {}, count |-> 0]
  /\ claims = {} /\ due = {}

Disable ==
  /\ identity = "enabled"
  /\ identity' = "disabled"
  /\ UNCHANGED <<index, tables, script, try, claims, due>>

(* Delete refuses an enabled account, takes the inventory and creates a    *)
(* new case file.                                                          *)
Delete ==
  /\ try.at = "idle" /\ try.count < MaxTries
  /\ identity # "enabled"
  /\ LET owned == {i \in PersonalRecords : Owned(i)} IN
       /\ try' = [at |-> "mail", todo |-> PersonalRecords, owned |-> owned,
                  count |-> try.count + 1]
       /\ due' = due \cup {i \in owned : ~index[i].held}
  /\ UNCHANGED <<index, tables, script, identity, claims>>

FirstLast == Max(try.todo)

First == Min(try.todo)

(* The records in the order of their ids: an owned one is deleted, a       *)
(* shared queued one loses the account's address.                          *)
DeleteRecord ==
  /\ try.at = "mail" /\ try.todo # {}
  /\ LET i == First
         r == index[i]
     IN  /\ index' = [index EXCEPT ![i] =
              IF i \in try.owned /\ ~r.held THEN NoRecord
              ELSE IF ~r.held /\ ~r.mailbox /\ Knows THEN [r EXCEPT !.to = @ \ {"me"}]
              ELSE r]
         /\ try' = [try EXCEPT !.todo = @ \ {i}]
  /\ UNCHANGED <<tables, script, identity, claims, due>>

Claim(at, status, next) ==
  /\ try.at = at
  /\ claims' = claims \cup {status}
  /\ try' = [try EXCEPT !.at = next]
  /\ UNCHANGED <<index, tables, script, identity, due>>

DeleteTables ==
  /\ try.at = "tables"
  /\ tables' = FALSE
  /\ try' = [try EXCEPT !.at = "script"]
  /\ UNCHANGED <<index, script, identity, claims, due>>

RemoveScript ==
  /\ try.at = "script"
  /\ script' = FALSE
  /\ try' = [try EXCEPT !.at = "local"]
  /\ UNCHANGED <<index, tables, identity, claims, due>>

SecureDeleteUser ==
  /\ try.at = "identity"
  /\ identity' = "gone"
  /\ try' = [try EXCEPT !.at = "last"]
  /\ UNCHANGED <<index, tables, script, claims, due>>

(* Any step may fail, or the process may be stopped.                       *)
Interrupt ==
  /\ try.at # "idle"
  /\ try' = [try EXCEPT !.at = "idle", !.todo = {}, !.owned = {}]
  /\ UNCHANGED <<index, tables, script, identity, claims, due>>

CaseNext ==
  \/ Disable \/ Delete \/ DeleteRecord
  \/ try.todo = {} /\ Claim("mail", "mail_payloads_deleted", "tables")
  \/ DeleteTables \/ RemoveScript
  \/ Claim("local", "local_mail_data_deleted_identity_disabled", "identity")
  \/ SecureDeleteUser
  \/ Claim("last", "local_deletion_complete", "idle")
  \/ Interrupt

(* A case file never claims more than has been done, however often the     *)
(* deletion was interrupted and repeated, and the identity goes last.  A   *)
(* run finds the account's records through its receipts, which earlier     *)
(* runs deleted: still, a completed deletion has removed every record that *)
(* any of its runs found to be the account's own.                          *)
CaseHonest ==
  /\ claims # {} => \A i \in Live : Owned(i) => index[i].held
  /\ claims \ {"mail_payloads_deleted"} # {} \/ identity = "gone" =>
       /\ "mail_payloads_deleted" \in claims
       /\ ~tables /\ ~script
  /\ "local_deletion_complete" \in claims => identity = "gone" /\ due \cap Live = {}

-----------------------------------------------------------------------------
(* mailhub-preserve: the artifact is copied (its two halves may belong to  *)
(* different versions of a file that changes), the copy is put in the      *)
(* bucket and read back.  The object store is external; it may ignore the  *)
(* lock it was asked for and may lose its answer.                          *)

ArchiveInit ==
  \E until \in Times, hold \in BOOLEAN :
    shelf = [at |-> "start", source |-> 1, copy |-> <<>>, until |-> until,
             hold |-> hold, object |-> [kept |-> FALSE], receipt |-> [given |-> FALSE]]

ChangeSource ==
  /\ shelf.source < 3
  /\ shelf' = [shelf EXCEPT !.source = @ + 1]

CopySource ==
  /\ shelf.at = "start"
  /\ shelf' = [shelf EXCEPT !.copy = Append(@, shelf.source),
                            !.at = IF Len(shelf.copy) = 1 THEN "copied" ELSE "start"]

PutObject ==
  /\ shelf.at = "copied"
  /\ \E mode \in {"COMPLIANCE", "none"}, until \in Times, hold \in BOOLEAN :
       shelf' = [shelf EXCEPT !.at = "put",
                   !.object = [kept |-> TRUE, content |-> shelf.copy, mode |-> mode,
                               until |-> until, hold |-> hold]]

VerifiedLoosely(o) == o.mode = "COMPLIANCE" /\ o.hold = shelf.hold

Verified(o) ==
  /\ o.mode = "COMPLIANCE" /\ o.hold = shelf.hold
  /\ o.until >= shelf.until

HeadObject ==
  /\ shelf.at = "put"
  /\ shelf' = IF Verified(shelf.object)
                THEN [shelf EXCEPT !.at = "done",
                        !.receipt = [given |-> TRUE, digest |-> shelf.copy,
                                     until |-> shelf.object.until]]
                ELSE [shelf EXCEPT !.at = "failed"]

GiveUp ==
  /\ shelf.at \in {"start", "copied", "put"}
  /\ shelf' = [shelf EXCEPT !.at = "failed"]

ArchiveNext == ChangeSource \/ CopySource \/ PutObject \/ HeadObject \/ GiveUp

(* A receipt names an object that exists, holds exactly the bytes of the   *)
(* digest and is locked at least as long as was asked for.                 *)
ReceiptTrue ==
  shelf.receipt.given =>
    /\ shelf.object.kept
    /\ shelf.object.content = shelf.receipt.digest
    /\ shelf.object.mode = "COMPLIANCE"
    /\ shelf.object.until >= shelf.until
    /\ shelf.object.hold = shelf.hold

-----------------------------------------------------------------------------
(* backup.Verify and Restore accept an archive after reading it entry by   *)
(* entry into a staging directory.  The reader's state: what it extracted, *)
(* the manifest it met, the bytes it counted, whether it refused.          *)

ExtractInit ==
  \E n \in 0 .. 3 : \E es \in [1 .. n -> Entries], m \in Manifests, extra \in BOOLEAN :
    input = [entries |-> es, manifest |-> m, extra |-> extra]

Empty == [f \in {} |-> 0]

Entry(r, e) ==
  IF r.refused \/ e.size > MaxBytes - r.total THEN [r EXCEPT !.refused = TRUE]
  ELSE IF e.name = "manifest"
         THEN IF r.met THEN [r EXCEPT !.refused = TRUE]
              ELSE [r EXCEPT !.met = TRUE, !.total = @ + e.size]
  ELSE IF e.name \in DOMAIN r.files THEN [r EXCEPT !.refused = TRUE]
  ELSE [r EXCEPT !.total = @ + e.size,
                 !.files = [f \in DOMAIN @ \cup {e.name} |->
                              IF f = e.name THEN e.digest ELSE @[f]]]

MatchesListed(files, m) == \A f \in DOMAIN files : f \in DOMAIN m /\ m[f] = files[f]

Matches(files, m) ==
  /\ Cardinality(DOMAIN m) = Cardinality(DOMAIN files)
  /\ \A f \in DOMAIN files : f \in DOMAIN m /\ m[f] = files[f]

extract(a) ==
  LET r == FoldLeft(Entry, [refused |-> FALSE, met |-> FALSE, total |-> 0, files |-> Empty],
                    a.entries)
  IN  ~r.refused /\ ~a.extra /\ r.met /\ Matches(r.files, a.manifest)

(* An archive is accepted exactly if it is what Create writes: one         *)
(* manifest, every file it lists once with the digest listed, nothing      *)
(* else, within the limit.                                                 *)
ArchivesExact ==
  LET es == input.entries
      listed(f) == {i \in DOMAIN es : es[i].name = f}
  IN  extract(input) <=>
        /\ ~input.extra
        /\ Cardinality(listed("manifest")) = 1
        /\ \A f \in DOMAIN input.manifest :
             \E i \in DOMAIN es : listed(f) = {i} /\ es[i].digest = input.manifest[f]
        /\ \A i \in DOMAIN es : es[i].name \in DOMAIN input.manifest \cup {"manifest"}
        /\ MapThenSumSet(LAMBDA i : es[i].size, DOMAIN es) <= MaxBytes

-----------------------------------------------------------------------------
(* `config set`: a node of a document is a scalar, or a map or list whose  *)
(* children are at names (a list's are "0", "1", ...).  The YAML and the   *)
(* JSON form of the command have an implementation each.                   *)

SetInit ==
  \E d \in Documents, p \in Pointers, v \in Documents :
    input = [doc |-> d, path |-> p, value |-> v]

Refused == [kind |-> "refused", v |-> 0, at |-> Empty]

Put(node, name, child) ==
  [node EXCEPT !.at = [n \in DOMAIN @ \cup {name} |->
                         IF n = name THEN child ELSE @[n]]]

(* setJSON descends, and rebuilds each raw message on the way back.        *)
RECURSIVE setJSON(_, _, _)
setJSON(doc, path, value) ==
  IF path = <<>> THEN value
  ELSE LET name == Head(path)
           known == name \in DOMAIN doc.at
           next == IF known THEN setJSON(doc.at[name], Tail(path), value) ELSE value
       IN  IF \/ doc.kind = "scalar"
              \/ ~known /\ (doc.kind = "list" \/ Len(path) > 1)
              \/ next = Refused
             THEN Refused
             ELSE Put(doc, name, next)

(* Every node of a document: its path, its kind and its value.             *)
RECURSIVE Nodes(_)
Nodes(doc) ==
  {<<<<>>, doc.kind, doc.v>>} \cup
  UNION {{<<<<n>> \o x[1], x[2], x[3]>> : x \in Nodes(doc.at[n])} : n \in DOMAIN doc.at}

MissingInList(nodes, path, i) ==
  /\ i = Len(path)
  /\ \E x \in nodes : x[1] = SubSeq(path, 1, i - 1) /\ x[2] # "scalar"

(* A missing name is added at the end of the path only, in a map only.     *)
Missing(nodes, path, i) ==
  /\ i = Len(path)
  /\ \E x \in nodes : x[1] = SubSeq(path, 1, i - 1) /\ x[2] = "map"

(* Set walks the YAML nodes and assigns in place: nil when it refuses.     *)
Set(nodes, path, new) ==
  IF \A i \in DOMAIN path :
       (\E x \in nodes : x[1] = SubSeq(path, 1, i)) \/ Missing(nodes, path, i)
  THEN {x \in nodes : ~IsPrefix(path, x[1])}
         \cup {<<path \o x[1], x[2], x[3]>> : x \in new}
  ELSE {}

(* The two implementations accept the same paths and give the same         *)
(* document.                                                               *)
SettersAgree ==
  LET r == setJSON(input.doc, input.path, input.value)
  IN  Set(Nodes(input.doc), input.path, Nodes(input.value)) =
        IF r = Refused THEN {} ELSE Nodes(r)
=============================================================================

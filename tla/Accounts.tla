------------------------------ MODULE Accounts -------------------------------
(***************************************************************************)
(* The accounts (internal/auth): users in memory and in the repository,    *)
(* SCIM identities and requests, and the right to send from a domain.      *)
(***************************************************************************)
EXTENDS Naturals, FiniteSets

CONSTANTS
    Users,              \* user names
    Domains,
    Requests,           \* SCIM requests that may be under way at a time
    MaxIds              \* bound of the SCIM identities

VARIABLES
    users,              \* UserStore.users
    table,              \* the repository's table of users, with their SCIM identities
    owned,              \* Validator.domainOwnership
    grants,             \* the repository's table of entitlements
    ids,                \* history: SCIM identities given out, and to whom
    req,                \* SCIM requests that found their account: its identity and
                        \* name, and (history) whether it was deleted since
    doubt,              \* history: accounts a write of which was reported as failed and
                        \* took place, since the last start
    split               \* history: a write of an entitlement failed, or an account
                        \* was deleted that had some, since the last start

vars == <<users, table, owned, grants, ids, req, doubt, split>>

-----------------------------------------------------------------------------
Put(m, k, v) == [x \in DOMAIN m \cup {k} |-> IF x = k THEN v ELSE m[x]]
Drop(m, K) == [x \in DOMAIN m \ K |-> m[x]]

User(enabled, id) == [enabled |-> enabled, id |-> id]

\* What a write of the repository does: a commit whose answer is lost is an
\* error to the caller.
Outcomes == {"ok", "failed", "unknown"}

Init ==
    /\ users = <<>> /\ table = <<>> /\ owned = {} /\ grants = {} /\ ids = <<>>
    /\ req = <<>> /\ doubt = {} /\ split = FALSE

\* SaveUser: a row keeps the identity it has, and takes no second one (the
\* unique user name of scim_identities).
Row(u, v) == IF v.id = 0 /\ u \in DOMAIN table THEN User(v.enabled, table[u].id) ELSE v
Refused(u, v) == v.id # 0 /\ u \in DOMAIN table /\ table[u].id \notin {0, v.id}

\* Mutant: memory is changed whether or not the repository took the change.
SavedAnyway(u, v, out) ==
    LET took == out # "failed" /\ ~Refused(u, v)
    IN  /\ table' = IF took THEN Put(table, u, Row(u, v)) ELSE table
        /\ users' = Put(users, u, v)
        /\ doubt' = IF took /\ out # "ok" THEN doubt \cup {u} ELSE doubt

\* SaveUser before the change is published.
Saved(u, v, out) ==
    LET took == out # "failed" /\ ~Refused(u, v)
    IN  /\ table' = IF took THEN Put(table, u, Row(u, v)) ELSE table
        /\ users' = IF took /\ out = "ok" THEN Put(users, u, v) ELSE users
        /\ doubt' = IF took /\ out # "ok" THEN doubt \cup {u} ELSE doubt

AddUser(u, out) ==
    /\ u \notin DOMAIN users
    /\ Saved(u, User(TRUE, 0), out)
    /\ UNCHANGED <<owned, grants, ids, req, split>>

\* uuid.NewString
Fresh(u) == Cardinality(DOMAIN ids) + 1

\* ProvisionSCIM: an account with a fresh identity.
ProvisionSCIM(u, active, out) ==
    /\ u \notin DOMAIN users /\ Cardinality(DOMAIN ids) < MaxIds
    /\ Saved(u, User(active, Fresh(u)), out)
    /\ ids' = Put(ids, Fresh(u), u)
    /\ UNCHANGED <<owned, grants, req, split>>

\* UpdateEmail and UpdateAccount.
UpdateAccount(u, enabled, out) ==
    /\ u \in DOMAIN users
    /\ Saved(u, [users[u] EXCEPT !.enabled = enabled], out)
    /\ UNCHANGED <<owned, grants, ids, req, split>>

\* The row goes first, and its entitlements with it; what memory knows of
\* the entitlements stays.  strict: a missing row is an error (DeleteSCIM).
\* pending are the requests that go on.
Erase(u, out, strict, pending) ==
    LET took == out # "failed" /\ u \in DOMAIN table
        gone == out = "ok" /\ (took \/ ~strict)
    IN  /\ table' = IF took THEN Drop(table, {u}) ELSE table
        /\ grants' = IF took THEN {g \in grants : g[1] # u} ELSE grants
        /\ users' = IF gone THEN Drop(users, {u}) ELSE users
        /\ req' = [r \in DOMAIN pending |->
                     [pending[r] EXCEPT !.gone = @ \/ (gone /\ pending[r].name = u)]]
        /\ doubt' = IF took /\ ~gone THEN doubt \cup {u} ELSE doubt
        /\ split' = (split \/ (took /\ \E d \in Domains : <<u, d>> \in owned))
        /\ UNCHANGED <<owned, ids>>

DeleteUser(u, out) == u \in DOMAIN users /\ Erase(u, out, FALSE, req)

\* handleSCIM lists the accounts and looks for the identity; only then does it
\* read the body and act.
FindSCIM(r, u) ==
    /\ r \notin DOMAIN req /\ u \in DOMAIN users /\ users[u].id # 0
    /\ req' = Put(req, r, [id |-> users[u].id, name |-> u, gone |-> FALSE])
    /\ UNCHANGED <<users, table, owned, grants, ids, doubt, split>>

Named(id) == {u \in DOMAIN users : users[u].id = id}

\* ErrUserNotFound, or a body that is refused.
FailSCIM(r) ==
    /\ r \in DOMAIN req
    /\ req' = Drop(req, {r})
    /\ UNCHANGED <<users, table, owned, grants, ids, doubt, split>>

UpdateSCIM(r, active, out) ==
    /\ r \in DOMAIN req
    /\ \E u \in Named(req[r].id) : Saved(u, [users[u] EXCEPT !.enabled = active], out)
    /\ req' = Drop(req, {r})
    /\ UNCHANGED <<owned, grants, ids, split>>

\* Mutant: the name found with the identity is deleted.
DeleteSCIMByName(r, out) ==
    /\ r \in DOMAIN req
    /\ \E u \in {req[r].name} \cap DOMAIN users : Erase(u, out, TRUE, Drop(req, {r}))

\* The identity is resolved again under the write lock.
DeleteSCIM(r, out) ==
    /\ r \in DOMAIN req
    /\ \E u \in Named(req[r].id) : Erase(u, out, TRUE, Drop(req, {r}))

\* GrantDomainEntitlement, whose row needs that of the user.
Recorded(u, d, out) == out # "failed" /\ u \in DOMAIN table

\* GrantDomainAccess: nothing is written for a domain memory already has.
Grant(u, d, out) ==
    /\ <<u, d>> \notin owned
    /\ owned' = owned \cup {<<u, d>>}
    /\ grants' = IF Recorded(u, d, out) THEN grants \cup {<<u, d>>} ELSE grants
    /\ split' = (split \/ out # "ok" \/ u \notin DOMAIN table)
    /\ UNCHANGED <<users, table, ids, req, doubt>>

\* RevokeDomainAccess
Revoke(u, d, out) ==
    /\ owned' = owned \ {<<u, d>>}
    /\ grants' = IF out # "failed" THEN grants \ {<<u, d>>} ELSE grants
    /\ split' = (split \/ out # "ok")
    /\ UNCHANGED <<users, table, ids, req, doubt>>

\* A restart: SetRepository and LoadDomainEntitlements.
Reload ==
    /\ users' = table /\ owned' = grants /\ req' = <<>> /\ doubt' = {} /\ split' = FALSE
    /\ UNCHANGED <<table, grants, ids>>

Next ==
    \/ \E u \in Users, out \in Outcomes :
         \/ AddUser(u, out) \/ DeleteUser(u, out)
         \/ \E b \in BOOLEAN : ProvisionSCIM(u, b, out) \/ UpdateAccount(u, b, out)
         \/ \E d \in Domains : Grant(u, d, out) \/ Revoke(u, d, out)
    \/ \E r \in Requests :
         \/ FailSCIM(r) \/ \E u \in Users : FindSCIM(r, u)
         \/ \E out \in Outcomes :
              DeleteSCIM(r, out) \/ \E b \in BOOLEAN : UpdateSCIM(r, b, out)
    \/ Reload

Spec == Init /\ [][Next]_vars

-----------------------------------------------------------------------------
(* Properties.                                                             *)

\* Memory and the repository hold the same accounts whatever writes fail, so
\* a restart brings back exactly the accounts that were in use, but for those
\* a write of which took place and was reported as failed; and an identity
\* given out once never names another account, before or after a restart.
\* (UserStore, SaveUser first)
AccountsPersist ==
    /\ \A u \in Users \ doubt :
         /\ u \in DOMAIN users <=> u \in DOMAIN table
         /\ u \in DOMAIN users => users[u] = table[u]
    /\ \A u \in DOMAIN users : users[u].id # 0 => ids[users[u].id] = u
    /\ \A u \in DOMAIN table : table[u].id # 0 => ids[table[u].id] = u

\* A SCIM request whose account was deleted after the request had found it
\* changes and removes no account, whoever has the user name by then.
\* (handleSCIM; DeleteSCIM "must never delete a newly created account reusing
\* the same username")
StaleHarmless ==
    \A r \in DOMAIN req :
        req[r].gone /\ r \notin DOMAIN req' =>
            table' = table /\ grants' = grants /\ (users' = users \/ Reload)

\* As above, of every step.
StaleRequests == [][StaleHarmless]_vars

\* Memory and the repository also agree on who may send from which domain,
\* until a write of an entitlement fails or an account that has some is
\* deleted: only then may the next start change them.  (GrantDomainAccess,
\* RevokeDomainAccess, DeleteUser)
GrantsAgree == split \/ owned = grants

\* Accounts are records, and the identity of each was given out to its name.
Wellformed(m) ==
    /\ m = [u \in DOMAIN m |-> m[u]]
    /\ DOMAIN m \subseteq Users
    /\ \A u \in DOMAIN m :
         /\ m[u] = User(m[u].enabled, m[u].id)
         /\ m[u].id # 0 => m[u].id \in DOMAIN ids /\ ids[m[u].id] = u

\* The inductive invariant: the identities given out are 1 to their number,
\* and that of a request whose account was deleted names nobody.
AInv ==
    /\ Wellformed(users) /\ Wellformed(table)
    /\ IsFiniteSet(DOMAIN ids) /\ DOMAIN ids = 1 .. Cardinality(DOMAIN ids)
    /\ owned \cup grants \subseteq Users \X Domains
    /\ \A u \in Users \ doubt :
         /\ u \in DOMAIN users <=> u \in DOMAIN table
         /\ u \in DOMAIN users => users[u] = table[u]
    /\ \A r \in DOMAIN req :
         /\ req[r] = [id |-> req[r].id, name |-> req[r].name, gone |-> req[r].gone]
         /\ req[r].id \in DOMAIN ids /\ ids[req[r].id] = req[r].name
         /\ req[r].gone \in BOOLEAN
         /\ req[r].gone => \A u \in DOMAIN users : users[u].id # req[r].id
    /\ GrantsAgree
=============================================================================

---------------------------- MODULE AccountsProofs ----------------------------
(***************************************************************************)
(* The accounts in memory and in the repository agree, for any number of   *)
(* users, domains, identities and requests under way, and a SCIM request   *)
(* never reaches an account that took over a user name.                    *)
(***************************************************************************)
EXTENDS Accounts, FiniteSetTheorems, TLAPS

\* A fresh identity is one more than those given out.
LEMMA OneMore ==
    ASSUME NEW S, IsFiniteSet(S), S = 1 .. Cardinality(S), NEW T,
           T = S \cup {Cardinality(S) + 1}
    PROVE  /\ Cardinality(S) + 1 \notin S
           /\ IsFiniteSet(T) /\ T = 1 .. Cardinality(T)
<1>1. Cardinality(S) \in Nat
  BY FS_CardinalityType
<1>2. Cardinality(S) + 1 \notin S
  BY <1>1
<1>3. IsFiniteSet(T) /\ Cardinality(T) = Cardinality(S) + 1
  BY <1>2, FS_AddElement
<1>4. ASSUME NEW c \in Nat PROVE (1 .. c) \cup {c + 1} = 1 .. c + 1
  OBVIOUS
<1>5. T = 1 .. Cardinality(S) + 1
  BY <1>1, <1>4
<1> QED
  BY <1>2, <1>3, <1>5

\* The identities given out do not include that of accounts without one.
LEMMA NoZero == ASSUME AInv PROVE 0 \notin DOMAIN ids
<1>1. Cardinality(DOMAIN ids) \in Nat
  BY FS_CardinalityType DEF AInv
<1> QED
  BY <1>1 DEF AInv

\* No account, no identity and no entitlement to begin with.
LEMMA InitAInv == Init => AInv
<1> SUFFICES ASSUME Init PROVE AInv
  OBVIOUS
<1>1. DOMAIN ids = {} /\ DOMAIN users = {} /\ DOMAIN table = {} /\ DOMAIN req = {} /\ 1 .. 0 = {}
  BY DEF Init
<1>2. Wellformed(users) /\ Wellformed(table)
  BY <1>1 DEF Init, Wellformed
<1> QED
  BY <1>1, <1>2, FS_EmptySet DEF Init, AInv, GrantsAgree

\* Writing an account before publishing it (Saved) touches no other account,
\* gives this one no identity but that of its row or the one it is written
\* with, and leaves memory and the repository alike unless it is in doubt.
LEMMA SavedKeeps ==
    ASSUME AInv, NEW u \in Users, NEW b, NEW i, NEW out \in Outcomes,
           Saved(u, User(b, i), out), u \in DOMAIN users => users[u].id = i
    PROVE  /\ users' = [v \in DOMAIN users' |-> users'[v]] /\ DOMAIN users' \subseteq Users
           /\ table' = [v \in DOMAIN table' |-> table'[v]] /\ DOMAIN table' \subseteq Users
           /\ \A v \in DOMAIN users' :
                \/ v \in DOMAIN users /\ users'[v] = users[v]
                \/ v = u /\ users'[v] = User(b, i)
           /\ \A v \in DOMAIN table' :
                \/ v \in DOMAIN table /\ table'[v] = table[v]
                \/ v = u /\ table'[v] = User(b, i)
                \/ v = u /\ v \in DOMAIN table /\ table'[v] = User(b, table[v].id)
           /\ \A v \in Users \ doubt' :
                /\ v \in DOMAIN users' <=> v \in DOMAIN table'
                /\ v \in DOMAIN users' => users'[v] = table'[v]
<1> DEFINE took == out # "failed" /\ ~Refused(u, User(b, i))
<1>1. /\ table' = IF took THEN Put(table, u, Row(u, User(b, i))) ELSE table
      /\ users' = IF took /\ out = "ok" THEN Put(users, u, User(b, i)) ELSE users
      /\ doubt' = IF took /\ out # "ok" THEN doubt \cup {u} ELSE doubt
  BY DEF Saved
<1>2. User(b, i).id = i /\ User(b, i).enabled = b
  BY DEF User
<1>3. \/ Row(u, User(b, i)) = User(b, i)
      \/ u \in DOMAIN table /\ i = 0 /\ Row(u, User(b, i)) = User(b, table[u].id)
  BY <1>2 DEF Row
<1>4. u \notin doubt => Row(u, User(b, i)) = User(b, i)
  BY <1>3 DEF AInv
<1> HIDE DEF took
<1>5. CASE ~took
  BY <1>1, <1>5 DEF AInv, Wellformed
<1>6. CASE took /\ out = "ok"
  BY <1>1, <1>3, <1>4, <1>6 DEF AInv, Wellformed, Put
<1>7. CASE took /\ out # "ok"
  BY <1>1, <1>3, <1>7 DEF AInv, Wellformed, Put
<1> QED
  BY <1>5, <1>6, <1>7

\* Writing an account with its own identity, a fresh one or none keeps the
\* invariant (AddUser, ProvisionSCIM, UpdateAccount, UpdateSCIM).
LEMMA SavedAInv ==
    ASSUME AInv, NEW u \in Users, NEW b, NEW i, NEW out \in Outcomes,
           Saved(u, User(b, i), out), u \in DOMAIN users => users[u].id = i,
           UNCHANGED <<owned, grants, split>>,
           IsFiniteSet(DOMAIN ids'), DOMAIN ids' = 1 .. Cardinality(DOMAIN ids'),
           \A k \in DOMAIN ids : k \in DOMAIN ids' /\ ids'[k] = ids[k],
           i # 0 => i \in DOMAIN ids' /\ ids'[i] = u /\ (i \in DOMAIN ids => u \in DOMAIN users),
           \A r \in DOMAIN req' : r \in DOMAIN req /\ req'[r] = req[r]
    PROVE  AInv'
<1>0. User(b, i).id = i /\ User(b, i).enabled = b
  BY DEF User
<1>a. /\ users' = [v \in DOMAIN users' |-> users'[v]] /\ DOMAIN users' \subseteq Users
      /\ \A v \in DOMAIN users' :
           \/ v \in DOMAIN users /\ users'[v] = users[v]
           \/ v = u /\ users'[v] = User(b, i)
  BY SavedKeeps
<1>b. \A v \in Users \ doubt' :
        /\ v \in DOMAIN users' <=> v \in DOMAIN table'
        /\ v \in DOMAIN users' => users'[v] = table'[v]
  BY SavedKeeps
<1>1. Wellformed(users)'
  BY <1>0, <1>a DEF AInv, Wellformed
<1>2. ASSUME NEW v \in DOMAIN table'
      PROVE  /\ table'[v] = User(table'[v].enabled, table'[v].id)
             /\ table'[v].id # 0 => table'[v].id \in DOMAIN ids' /\ ids'[table'[v].id] = v
  <2>1. CASE v \in DOMAIN table /\ table'[v] = table[v]
    BY <2>1 DEF AInv, Wellformed
  <2>2. CASE v = u /\ table'[v] = User(b, i)
    BY <1>0, <2>2
  <2>3. CASE v \in DOMAIN table /\ table'[v] = User(b, table[v].id)
    <3>1. table'[v].id = table[v].id /\ table'[v].enabled = b
      BY <2>3 DEF User
    <3> QED
      BY <2>3, <3>1 DEF AInv, Wellformed
  <2> QED
    BY <2>1, <2>2, <2>3, SavedKeeps
<1>3. Wellformed(table)'
  BY <1>2, SavedKeeps DEF Wellformed
<1>4. ASSUME NEW r \in DOMAIN req', req'[r].gone PROVE \A v \in DOMAIN users' : users'[v].id # req'[r].id
  <2>1. /\ r \in DOMAIN req /\ req'[r] = req[r]
        /\ req[r].id \in DOMAIN ids /\ 0 \notin DOMAIN ids
        /\ \A v \in DOMAIN users : users[v].id # req[r].id
    BY <1>4, NoZero DEF AInv
  <2> SUFFICES ASSUME NEW v \in DOMAIN users', users'[v].id = req[r].id PROVE FALSE
    BY <2>1
  <2>2. v \in DOMAIN users => users[v].id # req[r].id
    BY <2>1
  <2>3. v = u /\ i = req[r].id /\ u \notin DOMAIN users
    BY <1>0, <1>a, <2>2
  <2> QED
    BY <2>1, <2>3
<1>5. ASSUME NEW r \in DOMAIN req'
      PROVE  /\ req'[r] = [id |-> req'[r].id, name |-> req'[r].name, gone |-> req'[r].gone]
             /\ req'[r].id \in DOMAIN ids' /\ ids'[req'[r].id] = req'[r].name
             /\ req'[r].gone \in BOOLEAN
  BY <1>5 DEF AInv
<1>6. GrantsAgree'
  BY DEF AInv, GrantsAgree
<1>7. owned' \cup grants' \subseteq Users \X Domains
  BY DEF AInv
<1> QED
  BY <1>b, <1>1, <1>3, <1>4, <1>5, <1>6, <1>7, Zenon DEF AInv

\* Deleting the row first and then the account in memory keeps the invariant,
\* also when the answer of the deletion is lost (DeleteUser, DeleteSCIM).
LEMMA EraseAInv ==
    ASSUME AInv, NEW u \in Users, NEW out \in Outcomes, NEW strict \in BOOLEAN, NEW pending,
           \A r \in DOMAIN pending : r \in DOMAIN req /\ pending[r] = req[r],
           Erase(u, out, strict, pending)
    PROVE  AInv'
<1> DEFINE took == out # "failed" /\ u \in DOMAIN table
           gone == out = "ok" /\ (took \/ ~strict)
<1>1. /\ table' = IF took THEN Drop(table, {u}) ELSE table
      /\ grants' = IF took THEN {g \in grants : g[1] # u} ELSE grants
      /\ users' = IF gone THEN Drop(users, {u}) ELSE users
      /\ req' = [r \in DOMAIN pending |->
                   [pending[r] EXCEPT !.gone = @ \/ (gone /\ pending[r].name = u)]]
      /\ doubt' = IF took /\ ~gone THEN doubt \cup {u} ELSE doubt
      /\ split' = (split \/ (took /\ \E d \in Domains : <<u, d>> \in owned))
      /\ owned' = owned /\ ids' = ids
  BY DEF Erase
<1>2. gone => u \notin DOMAIN table'
  BY <1>1 DEF Drop, Outcomes
<1> HIDE DEF took, gone
<1>3. /\ users' = [v \in DOMAIN users' |-> users'[v]] /\ table' = [v \in DOMAIN table' |-> table'[v]]
      /\ \A v \in DOMAIN users' : v \in DOMAIN users /\ users'[v] = users[v]
      /\ \A v \in DOMAIN table' : v \in DOMAIN table /\ table'[v] = table[v]
      /\ \A v \in DOMAIN users : v # u \/ ~gone => v \in DOMAIN users'
      /\ \A v \in DOMAIN table : v # u \/ ~took => v \in DOMAIN table'
      /\ gone => u \notin DOMAIN users'
  BY <1>1 DEF AInv, Wellformed, Drop
<1>a. ids' = ids /\ doubt' = (IF took /\ ~gone THEN doubt \cup {u} ELSE doubt)
  BY <1>1
<1>4. Wellformed(users)' /\ Wellformed(table)'
  <2>1. DOMAIN users \subseteq Users /\ DOMAIN table \subseteq Users
    BY DEF AInv, Wellformed
  <2>2. ASSUME NEW v \in DOMAIN users
        PROVE  /\ users[v] = User(users[v].enabled, users[v].id)
               /\ users[v].id # 0 => users[v].id \in DOMAIN ids /\ ids[users[v].id] = v
    BY DEF AInv, Wellformed
  <2>3. ASSUME NEW v \in DOMAIN table
        PROVE  /\ table[v] = User(table[v].enabled, table[v].id)
               /\ table[v].id # 0 => table[v].id \in DOMAIN ids /\ ids[table[v].id] = v
    BY DEF AInv, Wellformed
  <2>4. Wellformed(users)'
    BY <1>a, <1>3, <2>1, <2>2 DEF Wellformed
  <2>5. Wellformed(table)'
    BY <1>a, <1>3, <2>1, <2>3 DEF Wellformed
  <2> QED
    BY <2>4, <2>5
<1>5. ASSUME NEW v \in Users \ doubt'
      PROVE  /\ v \in DOMAIN users' <=> v \in DOMAIN table'
             /\ v \in DOMAIN users' => users'[v] = table'[v]
  <2>1. v \notin doubt
    BY <1>a
  <2>2. /\ v \in DOMAIN users <=> v \in DOMAIN table
        /\ v \in DOMAIN users => users[v] = table[v]
    BY <2>1 DEF AInv
  <2>3. CASE v = u /\ gone
    BY <1>2, <1>3, <2>3
  <2>4. CASE v # u \/ ~gone
    <3>1. v = u => ~took
      BY <1>a, <2>4
    <3> QED
      BY <1>3, <2>2, <2>4, <3>1
  <2> QED
    BY <2>3, <2>4
<1>6. ASSUME NEW r \in DOMAIN req'
      PROVE  /\ req'[r] = [id |-> req'[r].id, name |-> req'[r].name, gone |-> req'[r].gone]
             /\ req'[r].id \in DOMAIN ids' /\ ids'[req'[r].id] = req'[r].name
             /\ req'[r].gone \in BOOLEAN
             /\ req'[r].gone => \A v \in DOMAIN users' : users'[v].id # req'[r].id
  <2>1. r \in DOMAIN req /\ pending[r] = req[r]
    BY <1>1
  <2>2. req[r] = [id |-> req[r].id, name |-> req[r].name, gone |-> req[r].gone]
    BY <2>1 DEF AInv
  <2>3. req'[r] = [id |-> req[r].id, name |-> req[r].name,
                   gone |-> req[r].gone \/ (gone /\ req[r].name = u)]
    BY <1>1, <2>1, <2>2
  <2>4. req'[r].id = req[r].id /\ req'[r].name = req[r].name
    BY <2>3
  <2>5. req'[r].gone = (req[r].gone \/ (gone /\ req[r].name = u))
    BY <2>3
  <2>6. req[r].id \in DOMAIN ids /\ ids[req[r].id] = req[r].name /\ 0 \notin DOMAIN ids
    BY <2>1, NoZero DEF AInv
  <2>7. CASE req[r].gone
    <3>1. \A v \in DOMAIN users : users[v].id # req[r].id
      BY <2>1, <2>7 DEF AInv
    <3>2. \A v \in DOMAIN users' : users'[v].id # req'[r].id
      BY <1>3, <2>4, <3>1
    <3>3. req'[r].gone \in BOOLEAN
      BY <2>5, Zenon
    <3> QED
      BY <1>a, <2>3, <2>4, <2>6, <3>2, <3>3
  <2>8. CASE gone /\ req[r].name = u
    <3>1. \A v \in DOMAIN users : users[v].id = req[r].id => v = u
      BY <2>6, <2>8 DEF AInv, Wellformed
    <3>2. \A v \in DOMAIN users' : users'[v].id # req'[r].id
      BY <1>3, <2>4, <2>8, <3>1
    <3> QED
      BY <1>1, <2>3, <2>4, <2>5, <2>6, <3>2
  <2>9. CASE ~req[r].gone /\ ~(gone /\ req[r].name = u)
    <3>1. ~req'[r].gone
      BY <2>5, <2>9, Zenon
    <3>2. req'[r].gone \in BOOLEAN
      BY <2>5, Zenon
    <3> QED
      BY <1>1, <2>3, <2>4, <2>6, <3>1, <3>2
  <2> QED
    BY <2>7, <2>8, <2>9
<1>7. owned' \cup grants' \subseteq Users \X Domains
  BY <1>1 DEF AInv
<1>8. GrantsAgree'
  <2>1. took /\ (\A d \in Domains : <<u, d>> \notin owned) /\ owned = grants => grants' = grants
    BY <1>1 DEF AInv
  <2>2. ~took => grants' = grants
    BY <1>1
  <2> QED
    BY <1>1, <2>1, <2>2, Zenon DEF AInv, GrantsAgree
<1> QED
  BY <1>1, <1>4, <1>5, <1>6, <1>7, <1>8 DEF AInv

\* Every step keeps the invariant: one case per operation.
LEMMA NextAInv == AInv /\ [Next]_vars => AInv'
<1> SUFFICES ASSUME AInv, [Next]_vars PROVE AInv'
  OBVIOUS
<1>0. IsFiniteSet(DOMAIN ids) /\ DOMAIN ids = 1 .. Cardinality(DOMAIN ids)
  BY DEF AInv
<1>a. \A v \in DOMAIN users : v \in Users /\ users[v] = User(users[v].enabled, users[v].id)
  BY DEF AInv, Wellformed
<1>b. ASSUME NEW u \in DOMAIN users, NEW b \in BOOLEAN, NEW out \in Outcomes,
             Saved(u, [users[u] EXCEPT !.enabled = b], out),
             UNCHANGED <<owned, grants, ids, split>>,
             \A r \in DOMAIN req' : r \in DOMAIN req /\ req'[r] = req[r]
      PROVE  AInv'
  <2>1. [users[u] EXCEPT !.enabled = b] = User(b, users[u].id)
    BY <1>a DEF User
  <2>2. users[u].id # 0 => users[u].id \in DOMAIN ids /\ ids[users[u].id] = u
    BY DEF AInv, Wellformed
  <2> DEFINE i == users[u].id
  <2>3. Saved(u, User(b, i), out)
    BY <1>b, <2>1
  <2>4. ids' = ids
    BY <1>b
  <2> HIDE DEF i
  <2> QED
    BY <1>0, <1>a, <1>b, <2>2, <2>3, <2>4, SavedAInv DEF i
<1>1. ASSUME NEW u \in Users, NEW out \in Outcomes, AddUser(u, out)
      PROVE  AInv'
  BY <1>0, <1>1, SavedAInv DEF AddUser
<1>2. ASSUME NEW u \in Users, NEW out \in Outcomes, NEW b \in BOOLEAN, ProvisionSCIM(u, b, out)
      PROVE  AInv'
  <2>1. /\ Saved(u, User(b, Fresh(u)), out) /\ ids' = Put(ids, Fresh(u), u)
        /\ u \notin DOMAIN users /\ UNCHANGED <<owned, grants, req, split>>
    BY <1>2 DEF ProvisionSCIM
  <2>2. /\ Fresh(u) \notin DOMAIN ids /\ DOMAIN ids' = DOMAIN ids \cup {Fresh(u)}
        /\ IsFiniteSet(DOMAIN ids') /\ DOMAIN ids' = 1 .. Cardinality(DOMAIN ids')
    BY <1>0, <2>1, OneMore DEF Put, Fresh
  <2>3. /\ ids'[Fresh(u)] = u
        /\ \A k \in DOMAIN ids : k \in DOMAIN ids' /\ ids'[k] = ids[k]
    BY <2>1, <2>2 DEF Put
  <2> QED
    BY <2>1, <2>2, <2>3, SavedAInv
<1>3. ASSUME NEW u \in Users, NEW out \in Outcomes, DeleteUser(u, out)
      PROVE  AInv'
  BY <1>3, EraseAInv DEF DeleteUser
<1>4. ASSUME NEW r \in DOMAIN req, NEW u \in DOMAIN users, NEW out \in Outcomes,
             Erase(u, out, TRUE, Drop(req, {r}))
      PROVE  AInv'
  <2>1. \A q \in DOMAIN Drop(req, {r}) : q \in DOMAIN req /\ Drop(req, {r})[q] = req[q]
    BY DEF Drop
  <2> QED
    BY <1>4, <1>a, <2>1, EraseAInv
<1>5. ASSUME NEW r \in Requests, FailSCIM(r) \/ \E u \in Users : FindSCIM(r, u)
      PROVE  AInv'
  <2>1. UNCHANGED <<users, table, owned, grants, ids, doubt, split>>
    BY <1>5 DEF FindSCIM, FailSCIM
  <2>2. ASSUME NEW q \in DOMAIN req'
        PROVE  \/ q \in DOMAIN req /\ req'[q] = req[q]
               \/ \E u \in DOMAIN users : users[u].id # 0
                    /\ req'[q] = [id |-> users[u].id, name |-> u, gone |-> FALSE]
    BY <1>5, <2>2 DEF FindSCIM, FailSCIM, Put, Drop
  <2>3. ASSUME NEW q \in DOMAIN req'
        PROVE  /\ req'[q] = [id |-> req'[q].id, name |-> req'[q].name, gone |-> req'[q].gone]
               /\ req'[q].id \in DOMAIN ids' /\ ids'[req'[q].id] = req'[q].name
               /\ req'[q].gone \in BOOLEAN
               /\ req'[q].gone => \A v \in DOMAIN users' : users'[v].id # req'[q].id
    <3>1. CASE q \in DOMAIN req /\ req'[q] = req[q]
      BY <2>1, <3>1 DEF AInv
    <3>2. ASSUME NEW u \in DOMAIN users, users[u].id # 0,
                 req'[q] = [id |-> users[u].id, name |-> u, gone |-> FALSE]
          PROVE  /\ req'[q].id = users[u].id /\ req'[q].name = u /\ ~req'[q].gone
                 /\ req'[q].gone \in BOOLEAN /\ users[u].id \in DOMAIN ids
                 /\ ids[users[u].id] = u
      BY <3>2 DEF AInv, Wellformed
    <3> QED
      BY <2>1, <2>2, <2>3, <3>1, <3>2
  <2> QED
    BY <2>1, <2>3 DEF AInv, Wellformed, GrantsAgree
<1>6. ASSUME NEW u \in Users, NEW d \in Domains, NEW out \in Outcomes,
             Grant(u, d, out) \/ Revoke(u, d, out)
      PROVE  AInv'
  <2>1. UNCHANGED <<users, table, ids, req, doubt>>
    BY <1>6 DEF Grant, Revoke
  <2>2. owned' \cup grants' \subseteq Users \X Domains
    BY <1>6 DEF Grant, Revoke, AInv
  <2>3. GrantsAgree'
    <3>1. CASE Grant(u, d, out)
      <4>1. ~split' => ~split /\ out = "ok" /\ u \in DOMAIN table
        BY <3>1, Zenon DEF Grant
      <4>2. out = "ok" /\ u \in DOMAIN table /\ owned = grants => owned' = grants'
        BY <3>1 DEF Grant, Recorded
      <4> QED
        BY <4>1, <4>2, Zenon DEF AInv, GrantsAgree
    <3>2. CASE Revoke(u, d, out)
      <4>1. ~split' => ~split /\ out = "ok"
        BY <3>2, Zenon DEF Revoke
      <4>2. out = "ok" /\ owned = grants => owned' = grants'
        BY <3>2 DEF Revoke
      <4> QED
        BY <4>1, <4>2, Zenon DEF AInv, GrantsAgree
    <3> QED
      BY <1>6, <3>1, <3>2
  <2> QED
    BY <2>1, <2>2, <2>3 DEF AInv, Wellformed, Named
<1>7. ASSUME Reload PROVE AInv'
  <2>1. DOMAIN req' = {}
    BY <1>7 DEF Reload
  <2> QED
    BY <1>7, <2>1 DEF Reload, AInv, Wellformed, GrantsAgree
<1>8. CASE UNCHANGED vars
  BY <1>8 DEF vars, AInv, Wellformed, Named, GrantsAgree
<1>9. ASSUME NEW u \in Users, NEW out \in Outcomes, NEW b \in BOOLEAN, UpdateAccount(u, b, out)
      PROVE  AInv'
  BY <1>9, <1>b DEF UpdateAccount
<1>10. ASSUME NEW r \in Requests, NEW out \in Outcomes, NEW b \in BOOLEAN, UpdateSCIM(r, b, out)
       PROVE  AInv'
  <2>1. \A q \in DOMAIN req' : q \in DOMAIN req /\ req'[q] = req[q]
    BY <1>10 DEF UpdateSCIM, Drop
  <2>2. PICK u \in DOMAIN users : Saved(u, [users[u] EXCEPT !.enabled = b], out)
    BY <1>10 DEF UpdateSCIM, Named
  <2> QED
    BY <1>10, <1>b, <2>1, <2>2 DEF UpdateSCIM
<1>11. ASSUME NEW r \in Requests, NEW out \in Outcomes, DeleteSCIM(r, out)
       PROVE  AInv'
  BY <1>11, <1>4 DEF DeleteSCIM, Named
<1> QED
  BY <1>1, <1>2, <1>3, <1>5, <1>6, <1>7, <1>8, <1>9, <1>10, <1>11 DEF Next

\* What memory holds is what a restart finds, but for accounts a write of
\* which took place and was reported as failed, and an identity given out once
\* names no other account (UserStore: SaveUser before the change is published).
THEOREM AccountsSafe == Spec => []AccountsPersist
<1>1. AInv => AccountsPersist
  BY DEF AInv, Wellformed, AccountsPersist
<1> QED
  BY <1>1, InitAInv, NextAInv, PTL DEF Spec

\* Entitlements in memory and in the repository agree until a write fails or
\* an account that has some is deleted (GrantDomainAccess, RevokeDomainAccess).
THEOREM GrantsSafe == Spec => []GrantsAgree
<1>1. AInv => GrantsAgree
  BY DEF AInv
<1> QED
  BY <1>1, InitAInv, NextAInv, PTL DEF Spec

\* A SCIM request whose account was deleted after the request had found it
\* changes and removes no account, whoever has the user name by then: the
\* identity is resolved again under the write lock, and it was given out only
\* once (handleSCIM, DeleteSCIM, UpdateSCIM, ProvisionSCIM).
THEOREM StaleSafe == Spec => StaleRequests
<1>1. AInv /\ [Next]_vars => [StaleHarmless]_vars
  <2> SUFFICES ASSUME AInv, Next, NEW r \in DOMAIN req, req[r].gone, r \notin DOMAIN req'
               PROVE  table' = table /\ grants' = grants /\ (users' = users \/ Reload)
    BY DEF StaleHarmless
  <2>1. Named(req[r].id) = {}
    BY DEF AInv, Named
  <2>2. CASE \E u \in Users, out \in Outcomes :
               \/ AddUser(u, out) \/ DeleteUser(u, out)
               \/ \E b \in BOOLEAN : ProvisionSCIM(u, b, out) \/ UpdateAccount(u, b, out)
               \/ \E d \in Domains : Grant(u, d, out) \/ Revoke(u, d, out)
    <3>1. DOMAIN req' = DOMAIN req
      BY <2>2 DEF AddUser, DeleteUser, Erase, ProvisionSCIM, UpdateAccount, Grant, Revoke
    <3> QED
      BY <3>1
  <2>3. CASE \E q \in Requests : FailSCIM(q) \/ \E u \in Users : FindSCIM(q, u)
    BY <2>3 DEF FailSCIM, FindSCIM
  <2>4. ASSUME NEW q \in Requests, NEW out \in Outcomes,
               DeleteSCIM(q, out) \/ \E b \in BOOLEAN : UpdateSCIM(q, b, out)
        PROVE  FALSE
    <3>1. Named(req[q].id) # {} /\ DOMAIN req' = DOMAIN req \ {q}
      BY <2>4 DEF DeleteSCIM, UpdateSCIM, Erase, Drop
    <3>2. q = r
      BY <3>1
    <3> QED
      BY <2>1, <3>1, <3>2
  <2>5. CASE Reload
    BY <2>5 DEF Reload
  <2> QED
    BY <2>2, <2>3, <2>4, <2>5, Zenon DEF Next
<1> QED
  BY <1>1, InitAInv, NextAInv, PTL DEF Spec, StaleRequests
=============================================================================

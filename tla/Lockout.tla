------------------------------- MODULE Lockout -------------------------------
(***************************************************************************)
(* The lockout of names and addresses after failed logins (internal/auth). *)
(* A login is three steps, as AuthenticateWithIP takes its locks one after *)
(* the other: it looks at the failure records, it verifies the password,   *)
(* and it records the outcome with the time of its first step.             *)
(***************************************************************************)
EXTENDS Integers, FiniteSets, Sequences

CONSTANTS
    Users,              \* user names
    IPs,
    Logins,             \* logins that may be under way at a time
    MaxFailures,        \* 5
    IPFactor,           \* 3
    Lock,               \* lockoutDuration
    MaxLock,            \* 24 h
    FailureWindow,      \* 1 h
    MaxTime             \* bound of the clock

VARIABLES
    now,
    byName, byIP,       \* failure records
    login,              \* logins under way
    tries               \* history: when failed logins of a name began, since its last success

vars == <<now, byName, byIP, login, tries>>

-----------------------------------------------------------------------------
Put(m, k, v) == [x \in DOMAIN m \cup {k} |-> IF x = k THEN v ELSE m[x]]
Drop(m, K) == [x \in DOMAIN m \ K |-> m[x]]

Init ==
    /\ now = 0 /\ byName = <<>> /\ byIP = <<>>
    /\ login = [l \in Logins |-> [pc |-> "idle"]]
    /\ tries = [u \in Users |-> <<>>]

\* isLocked and isIPLocked at time t with threshold n.
Locked(m, k, t, n) ==
    /\ k \in DOMAIN m
    /\ t < m[k].until \/ (t - m[k].first <= FailureWindow /\ m[k].count >= n)

Check(l, u, ip) ==
    /\ login[l].pc = "idle"
    /\ ~Locked(byName, u, now, MaxFailures) /\ ~Locked(byIP, ip, now, IPFactor * MaxFailures)
    /\ login' = [login EXCEPT ![l] = [pc |-> "verify", user |-> u, ip |-> ip, at |-> now]]
    /\ UNCHANGED <<now, byName, byIP, tries>>

\* Mutant: every failure begins a new window.
FailureSliding(m, k, t, n, step) ==
    IF k \notin DOMAIN m \/ t - m[k].first > FailureWindow
    THEN Put(m, k, [count |-> 1, first |-> t, last |-> t, until |-> 0])
    ELSE Put(m, k, [count |-> 1, first |-> t, last |-> t, until |-> m[k].until])

\* One half of recordFailure: a record outside its window begins anew; from
\* the threshold on, each further failure doubles the lock.
Failure(m, k, t, n, step) ==
    IF k \notin DOMAIN m \/ t - m[k].first > FailureWindow
    THEN Put(m, k, [count |-> 1, first |-> t, last |-> t, until |-> 0])
    ELSE LET c == m[k].count + 1
             lock == Lock * 2 ^ ((c - n) \div step)
         IN  Put(m, k, [count |-> c, first |-> m[k].first, last |-> t,
                        until |-> IF c < n THEN m[k].until
                                  ELSE t + (IF lock > MaxLock THEN MaxLock ELSE lock)])

\* The password is wrong, or the account disabled or missing.
Fail(l) ==
    /\ login[l].pc = "verify"
    /\ LET j == login[l]
       IN  /\ byName' = Failure(byName, j.user, j.at, MaxFailures, 1)
           /\ byIP' = Failure(byIP, j.ip, j.at, IPFactor * MaxFailures, 3)
           /\ tries' = [tries EXCEPT ![j.user] = Append(@, j.at)]
    /\ login' = [login EXCEPT ![l] = [pc |-> "idle"]]
    /\ UNCHANGED now

\* clearFailures
Succeed(l) ==
    /\ login[l].pc = "verify"
    /\ byName' = Drop(byName, {login[l].user})
    /\ byIP' = Drop(byIP, {login[l].ip})
    /\ tries' = [tries EXCEPT ![login[l].user] = <<>>]
    /\ login' = [login EXCEPT ![l] = [pc |-> "idle"]]
    /\ UNCHANGED now

Expired(m) == {k \in DOMAIN m : now - m[k].last > FailureWindow /\ now > m[k].until}

CleanupExpiredLocks ==
    /\ byName' = Drop(byName, Expired(byName)) /\ byIP' = Drop(byIP, Expired(byIP))
    /\ UNCHANGED <<now, login, tries>>

Tick == now < MaxTime /\ now' = now + 1 /\ UNCHANGED <<byName, byIP, login, tries>>

Next ==
    \/ \E l \in Logins : Fail(l) \/ Succeed(l) \/ \E u \in Users, ip \in IPs : Check(l, u, ip)
    \/ CleanupExpiredLocks \/ Tick

Spec == Init /\ [][Next]_vars

-----------------------------------------------------------------------------
(* Properties.                                                             *)

\* Within the length of one window no name is tried more often than twice what
\* the threshold and the logins already past the check allow: such a span may
\* cover the end of one window of recordFailure and the beginning of the next.
\* (AuthenticateWithIP, whose check and record are two critical sections)
GuessesBounded ==
    \A u \in Users : \A i \in DOMAIN tries[u] :
        Cardinality({j \in DOMAIN tries[u] : j >= i /\ tries[u][j] <= tries[u][i] + FailureWindow
                                             /\ tries[u][j] >= tries[u][i]})
            <= 2 * (MaxFailures + Cardinality(Logins) - 1)
=============================================================================

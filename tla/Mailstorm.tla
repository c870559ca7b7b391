------------------------------ MODULE Mailstorm ------------------------------
(***************************************************************************)
(* The mailstorm guard (internal/mailstorm): token buckets and circuits    *)
(* per identity, a global bucket, the file of circuits, and operators who  *)
(* pause and resume identities.                                            *)
(*                                                                         *)
(* A bucket counts tokens of messages (level) and of recipients (rcpts)    *)
(* in units of 1/Window, so that refilling is exact: a message costs       *)
(* Window units of the one and Window for each recipient of the other, and *)
(* a tick adds Messages and Recipients.  The learned baseline is           *)
(* abstracted to a choice that is open once enough windows have passed.    *)
(***************************************************************************)
EXTENDS Naturals, FiniteSets, SequencesExt

CONSTANTS
    Keys,               \* identities
    Prints,             \* fingerprints
    Batches,            \* numbers of recipients
    Window, Messages, Recipients, GlobalMessages, DuplicateLimit, TripAfter,
    Cooldown, MaxCooldown, BaselineWindows, MaxIdentities,
    Durations,          \* of pauses
    MaxTrips,           \* bound of the trips of a circuit
    MaxTime             \* bound of the clock

Star == "*"

VARIABLES
    now,
    buckets,
    circuits,
    disk,               \* the file of circuits
    global,             \* level of the global bucket
    held,               \* history: until when an identity was promised to be paused
    unsure,             \* history: identities missing from the file after a failed Resume
    log                 \* history: messages of an identity admitted of late

vars == <<now, buckets, circuits, disk, global, held, unsure, log>>

-----------------------------------------------------------------------------
After(t) == t > now
Until(m, k) == IF k \in DOMAIN m THEN m[k].until ELSE 0
Trips(k) == IF k \in DOMAIN circuits THEN circuits[k].trips ELSE 0
Without(m, K) == [k \in DOMAIN m \ K |-> m[k]]
With(m, k, v) == [x \in DOMAIN m \cup {k} |-> IF x = k THEN v ELSE m[x]]
Less(a, b) == IF a < b THEN a ELSE b

Blocked(k) == After(Until(circuits, Star)) \/ After(Until(circuits, k))

\* save: the file is replaced and its directory synced.  It may fail before
\* the rename, or after it.
Saves == {"ok", "unwritten", "unsynced"}
Save(how, m) ==
    IF how = "unwritten" THEN UNCHANGED <<disk, unsure>> ELSE disk' = m /\ unsure' = {}

Hold(k, t) == held' = [held EXCEPT ![k] = IF t > @ THEN t ELSE @]

Full == Window * Messages
FullRcpts == Window * Recipients
NewBucket == [level |-> Full, rcpts |-> FullRcpts, start |-> now, last |-> now,
              windows |-> 0, violations |-> 0, prints |-> [f \in Prints |-> 0]]

Init ==
    /\ now = 0 /\ buckets = <<>> /\ circuits = <<>> /\ disk = <<>>
    /\ global = Window * GlobalMessages
    /\ held = [k \in Keys \cup {Star} |-> 0] /\ unsure = {}
    /\ log = [k \in Keys |-> <<>>]

\* Pause: expired circuits are dropped, a longer pause is kept.
Pause(k, d, how) ==
    LET live == [x \in {y \in DOMAIN circuits : After(circuits[y].until)} |-> circuits[x]]
        old  == Until(live, k)
        trip == IF k \in DOMAIN live THEN live[k].trips ELSE 0
        new  == IF old > now + d THEN old ELSE now + d
        room == k = Star \/ k \in DOMAIN live \/ Cardinality(DOMAIN live) < MaxIdentities
    IN  /\ trip < MaxTrips
        /\ circuits' = IF room THEN With(live, k, [until |-> new, trips |-> trip + 1]) ELSE live
        /\ IF room THEN Save(how, circuits') ELSE UNCHANGED <<disk, unsure>>
        /\ IF room /\ how = "ok" THEN Hold(k, now + d) ELSE UNCHANGED held
        /\ UNCHANGED <<now, buckets, global, log>>

\* Mutant: a failed Resume leaves the identity resumed.
ResumeAnyway(k, how) ==
    /\ circuits' = Without(circuits, {k})
    /\ Save(how, circuits')
    /\ buckets' = IF how = "ok" THEN Without(buckets, {k}) ELSE buckets
    /\ held' = IF how = "ok" THEN [held EXCEPT ![k] = 0] ELSE held
    /\ log' = IF k # Star /\ how = "ok" THEN [log EXCEPT ![k] = <<>>] ELSE log
    /\ UNCHANGED <<now, global>>

\* Resume: undone in memory when it cannot be saved.  When only the sync of
\* the directory failed, the file lacks the circuit that memory keeps.
Resume(k, how) ==
    LET left == Without(circuits, {k})
    IN  /\ disk' = IF how = "unwritten" THEN disk ELSE left
        /\ unsure' = CASE how = "ok" -> {} [] how = "unsynced" -> {k} [] OTHER -> unsure
        /\ IF how = "ok"
           THEN /\ circuits' = left /\ buckets' = Without(buckets, {k})
                /\ held' = [held EXCEPT ![k] = 0]
                /\ log' = IF k # Star THEN [log EXCEPT ![k] = <<>>] ELSE log
           ELSE UNCHANGED <<circuits, buckets, held, log>>
        /\ UNCHANGED <<now, global>>

-----------------------------------------------------------------------------
(* Admit.                                                                  *)

\* Mutant: identities are forgotten as soon as the table is full.
IdleHasty == DOMAIN buckets

\* Buckets that a full table gives up.
Idle == {k \in DOMAIN buckets : now - buckets[k].last > 2 * MaxCooldown}

\* The buckets Admit works on; the identity is missing if there is no room.
Known(k) ==
    IF k \in DOMAIN buckets THEN buckets
    ELSE LET kept == IF Cardinality(DOMAIN buckets) >= MaxIdentities
                     THEN Without(buckets, Idle) ELSE buckets
         IN  IF Cardinality(DOMAIN kept) >= MaxIdentities THEN kept
             ELSE With(kept, k, NewBucket)

\* The bucket after the start of a new window.
Rolled(b) ==
    IF now - b.start < Window THEN [b EXCEPT !.last = now]
    ELSE [b EXCEPT !.last = now, !.start = now, !.violations = 0,
                   !.windows = IF b.violations = 0 /\ @ < BaselineWindows THEN @ + 1 ELSE @,
                   !.prints = [f \in Prints |-> 0]]

Cool(n) == Less(Cooldown * 2 ^ n, MaxCooldown)

\* A violation: counted, and after TripAfter of them the circuit opens.
Violate(k, b, f, how) ==
    LET v == (IF b.prints[f] >= DuplicateLimit THEN TripAfter ELSE b.violations) + 1
        b2 == [b EXCEPT !.violations = Less(v, TripAfter + 1)]
        kept == [x \in {y \in DOMAIN circuits : now <= circuits[y].until + 2 * MaxCooldown} |-> circuits[x]]
        room == k \in DOMAIN circuits \/ Cardinality(DOMAIN kept) < MaxIdentities
    IN  /\ buckets' = With(Known(k), k, b2)
        /\ IF v < TripAfter THEN UNCHANGED <<circuits, disk, held, unsure>>
           ELSE IF ~room THEN circuits' = kept /\ UNCHANGED <<disk, held, unsure>>
           ELSE /\ Trips(k) < MaxTrips
                /\ circuits' = With(kept, k, [until |-> now + Cool(Trips(k)), trips |-> Trips(k) + 1])
                /\ Save(how, circuits')
                /\ IF how = "ok" THEN Hold(k, now + Cool(Trips(k))) ELSE UNCHANGED held
        /\ UNCHANGED <<now, global, log>>

\* Admit of a message to n recipients.  odd says that the volume is an
\* anomaly to the learned baseline.
Admit(k, n, f, odd, how) ==
    /\ ~Blocked(k)
    /\ IF k \notin DOMAIN Known(k)
       THEN buckets' = Known(k) /\ UNCHANGED <<now, circuits, disk, global, held, unsure, log>>
       ELSE LET b == Rolled(Known(k)[k])
                burst == n < 1 \/ b.level < Window \/ b.rcpts < n * Window
            IN  IF burst \/ (odd /\ b.windows >= BaselineWindows) \/ b.prints[f] >= DuplicateLimit
                THEN Violate(k, b, f, how)
                ELSE IF global < Window
                THEN /\ buckets' = With(Known(k), k, b)
                     /\ UNCHANGED <<now, circuits, disk, global, held, unsure, log>>
                ELSE /\ buckets' = With(Known(k), k, [b EXCEPT !.level = @ - Window,
                                                              !.rcpts = @ - n * Window,
                                                              !.prints[f] = @ + 1])
                     /\ global' = global - Window
                     /\ log' = [log EXCEPT ![k] = Append(@, [at |-> now, to |-> n])]
                     /\ UNCHANGED <<now, circuits, disk, held, unsure>>

Tick ==
    /\ now < MaxTime /\ now' = now + 1
    /\ buckets' = [k \in DOMAIN buckets |-> [buckets[k] EXCEPT !.level = Less(Full, @ + Messages),
                                                              !.rcpts = Less(FullRcpts, @ + Recipients)]]
    /\ global' = Less(Window * GlobalMessages, global + GlobalMessages)
    /\ log' = [k \in Keys |-> SelectSeq(log[k], LAMBDA e : e.at + Window >= now')]
    /\ UNCHANGED <<circuits, disk, held, unsure>>

\* New after a crash: only the circuits of the file survive, and a Resume
\* that failed after its rename takes effect.
Restart ==
    /\ circuits' = disk /\ buckets' = <<>> /\ global' = Window * GlobalMessages
    /\ held' = [k \in DOMAIN held |-> IF k \in unsure THEN 0 ELSE held[k]] /\ unsure' = {}
    /\ log' = [k \in Keys |-> <<>>]
    /\ UNCHANGED <<now, disk>>

Next ==
    \/ \E k \in Keys \cup {Star}, how \in Saves :
         Resume(k, how) \/ \E d \in Durations : Pause(k, d, how)
    \/ \E k \in Keys, n \in Batches, f \in Prints, odd \in BOOLEAN, how \in Saves :
         Admit(k, n, f, odd, how)
    \/ Tick \/ Restart

Spec == Init /\ [][Next]_vars

-----------------------------------------------------------------------------
(* Properties.                                                             *)

\* An identity whose pause was acknowledged, by an operator or by the guard
\* itself, stays paused to the end of it or to a Resume that succeeded: over
\* restarts, over pauses of others that clean the table, over failed writes
\* and over a Resume that failed, but for one case: a restart before the
\* next write carries out a Resume whose rename was done.  (Guard)
PausesHold == \A k \in Keys \cup {Star} : held[k] > now => After(Until(circuits, k))

\* In one run of the process, and with no Resume between, no identity gets
\* more messages or recipients into any window than a burst and its refill,
\* and a burst more for each time a full table can drop its idle bucket and
\* make it again in the window; and the tables keep to their capacity.
\* (Admit)
BurstsBounded ==
    LET bursts == 2 + Window \div (2 * MaxCooldown + 1)
        Sent(k, t) == SelectSeq(log[k], LAMBDA e : e.at >= t /\ e.at <= t + Window)
    IN  /\ \A k \in Keys : \A t \in 0 .. now :
             /\ Len(Sent(k, t)) <= bursts * Messages
             /\ FoldLeft(LAMBDA m, e : m + e.to, 0, Sent(k, t)) <= bursts * Recipients
        /\ Cardinality(DOMAIN buckets) <= MaxIdentities
        /\ Cardinality(DOMAIN circuits) <= MaxIdentities + 1
=============================================================================

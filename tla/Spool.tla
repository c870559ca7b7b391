-------------------------------- MODULE Spool --------------------------------
(***************************************************************************)
(* What the message store promises its callers, with no journal, no        *)
(* compaction and no restart: a table of messages changed by one           *)
(* operation at a time.  An operation that reports failure changes nothing *)
(* now, but until the matter is settled a restart may find it applied.     *)
(***************************************************************************)
EXTENDS Naturals

CONSTANTS Ids, Rcpts, MaxAttempts

VARIABLES
    spool,      \* the messages, None when absent; a claim counts as pending
    inDoubt     \* outcomes of failed operations a restart may still choose

spoolVars == <<spool, inDoubt>>

RestingEntry == [status : {"none", "pending", "held", "failed", "stored"},
                 to : SUBSET Rcpts, attempts : 0 .. MaxAttempts]

Absent == [status |-> "none", to |-> {}, attempts |-> 0]

SpoolInit == spool = [m \in Ids |-> Absent] /\ inDoubt = [m \in Ids |-> {}]

\* What an operation may make of a message: a new one has never been
\* attempted; a present one keeps its recipients, or its status and attempts.
\* Attempts grow one at a time and are forgotten only when a failed message
\* is sent back to the queue.
Legal(old, new) ==
    \/ old = Absent /\ new.status \in {"pending", "held", "stored"} /\ new.attempts = 0
    \/ old # Absent /\ new = Absent
    \/ /\ old # Absent /\ new.status \in {"pending", "failed"} /\ new.to = old.to
       /\ \/ new.attempts = old.attempts
          \/ new.attempts = old.attempts + 1 /\ old.status = "pending"
          \/ new.attempts = 0 /\ old.status = "failed" /\ new.status = "pending"
    \/ old # Absent /\ new = [old EXCEPT !.to = new.to]

\* An operation on the messages S takes effect.
Operate(S) ==
    /\ spool' \in [Ids -> RestingEntry]
    /\ \A m \in Ids : IF m \in S THEN Legal(spool[m], spool'[m])
                      ELSE spool'[m] = spool[m]
    /\ inDoubt' = [m \in Ids |-> IF m \in S THEN {} ELSE inDoubt[m]]

\* An operation fails, or its outcome is not yet reported.
Attempt ==
    /\ inDoubt' \in [Ids -> SUBSET RestingEntry]
    /\ \A m \in Ids : /\ inDoubt[m] \subseteq inDoubt'[m]
                      /\ \A e \in inDoubt'[m] \ inDoubt[m] : Legal(spool[m], e)
    /\ UNCHANGED spool

Settle == inDoubt' = [m \in Ids |-> {}] /\ UNCHANGED spool

Restart ==
    /\ spool' \in [Ids -> RestingEntry]
    /\ \A m \in Ids : spool'[m] \in {spool[m]} \cup inDoubt[m]
    /\ inDoubt' = [m \in Ids |-> {}]

SpoolNext ==
    \/ \E S \in SUBSET Ids : Operate(S)
    \/ Attempt
    \/ Settle
    \/ Restart

SpoolSpec == SpoolInit /\ [][SpoolNext]_spoolVars
=============================================================================

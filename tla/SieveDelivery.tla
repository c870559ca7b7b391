---------------------------- MODULE SieveDelivery ----------------------------
(***************************************************************************)
(* Delivery to a local account through its Sieve script: the interpreter   *)
(* (policy/sieve_interp.go), and the execution of its plan by the queue    *)
(* (smtpd/sieve_actions.go, deliverLocal of smtpd/queue.go).  An attempt    *)
(* may fail at every write and the process may crash between any two, and  *)
(* is then repeated; meanwhile the owner edits the script.                 *)
(* Tests are named: a message says which hold and which cannot be          *)
(* evaluated.  Flags and variables are left out, and messages ask for no   *)
(* delivery notification.  The module is about one account: the code puts  *)
(* the user into every key (sieveKey), so the records of two never meet.   *)
(***************************************************************************)
EXTENDS Naturals, FiniteSets, FiniteSetsExt, SequencesExt

CONSTANTS
    Scripts,        \* scripts the owner may install: name -> commands
    First,          \* name of the script at the start, or "absent"
    Messages,       \* name -> [from, holds, broken, quarantine, personal]
    MaxActions,     \* actions of one execution (32)
    Days,           \* ticks between two vacation replies under one handle
    MaxEdits, MaxTime, MaxTries

VARIABLES
    now, edits, script,
    plans,          \* journal: message -> frozen plan and the script it is from
    markers,        \* journal: keys of effects that were queued
    intervals,      \* journal: <<sender, handle>> -> end of the vacation interval
    job,            \* the attempt at each message
    tries,
    done,           \* messages checkpointed as delivered
    plain,          \* history: messages an attempt met no script for
    copies,         \* mailbox: sequence of [m, key, folder]
    sent            \* queue: sequence of [kind, m, to, by, at], by the action

vars == <<now, edits, script, plans, markers, intervals, job, tries, done, plain, copies, sent>>

Put(m, k, v) == [x \in DOMAIN m \cup {k} |-> IF x = k THEN v ELSE m[x]]
Drop(m, K) == [x \in DOMAIN m \ K |-> m[x]]
Names == DOMAIN Messages
Idle == [pc |-> "idle"]

-----------------------------------------------------------------------------
(* The interpreter.  Its state is the plan so far, whether the implicit     *)
(* keep stands, the counts it bounds, and whether it stopped or failed.     *)

Start0 == [plan |-> <<>>, keep |-> TRUE, vacations |-> 0, actions |-> 0, stop |-> FALSE, err |-> FALSE]

Counted == {"keep", "fileinto", "redirect", "vacation", "discard", "reject"}

Raise(st) == [st EXCEPT !.err = TRUE, !.stop = TRUE]
Plan(st, a) == [st EXCEPT !.plan = Append(@, a)]

\* Mutant: redirecting with :copy cancels the implicit keep too.
CancelsKeepAlways(c) == TRUE

CancelsKeep(c) == ~c.copy

\* runAction
RunAction(st0, c) ==
    LET st == IF c.c \in Counted THEN [st0 EXCEPT !.actions = @ + 1] ELSE st0
    IN  IF st.actions > MaxActions THEN Raise(st)
        ELSE CASE c.c \in {"keep", "fileinto", "redirect"} ->
                    [Plan(st, [type |-> c.c, target |-> c.target]) EXCEPT !.keep = st.keep /\ ~CancelsKeep(c)]
               [] c.c = "vacation" ->
                    IF st.vacations > 0 THEN Raise(st)
                    ELSE [Plan(st, [type |-> "vacation", target |-> c.target, handle |-> c.handle]) EXCEPT !.vacations = 1]
               [] c.c = "reject" ->
                    IF st.plan # <<>> THEN Raise(st)
                    ELSE [Plan(st, [type |-> "reject", target |-> ""]) EXCEPT !.keep = FALSE, !.stop = TRUE]
               [] c.c = "discard" -> [st EXCEPT !.keep = FALSE]
               [] c.c = "stop" -> [st EXCEPT !.stop = TRUE]

RECURSIVE RunBlock(_, _, _)

\* runBlock and runCmd: the first branch whose test holds, else the else
\* block.  A test that cannot be evaluated is false and ends the script.
RunBlock(cmds, st0, m) ==
    FoldLeft(LAMBDA st, c :
                IF st.stop THEN st
                ELSE IF c.c # "if" THEN RunAction(st, c)
                ELSE LET broken == c.test \in Messages[m].broken
                         s1 == RunBlock(IF c.test \in Messages[m].holds THEN c.then ELSE c.else, st, m)
                     IN  IF broken THEN Raise(s1) ELSE s1,
             st0, cmds)

\* svExec: the plan, or "error".
SvExec(cmds, m) ==
    LET st == RunBlock(cmds, Start0, m)
        all == IF st.keep THEN Append(st.plan, [type |-> "keep", target |-> "INBOX"]) ELSE st.plan
    IN  IF st.err THEN [ok |-> FALSE]
        ELSE [ok |-> TRUE, plan |-> IF all = <<>> THEN <<[type |-> "discard", target |-> ""]>> ELSE all]

-----------------------------------------------------------------------------
Init ==
    /\ now = 0 /\ edits = 0 /\ script = First
    /\ plans = <<>> /\ markers = {} /\ intervals = <<>>
    /\ job = [m \in Names |-> Idle] /\ tries = 0 /\ done = {} /\ plain = {}
    /\ copies = <<>> /\ sent = <<>>

\* An attempt that failed leaves the message pending.
Fail(m) == job' = [job EXCEPT ![m] = Idle]

\* deliverLocal: the script is read, unless a plan was frozen; without a script
\* there is one copy.
Begin(m) ==
    /\ job[m].pc = "idle" /\ m \notin done /\ tries < MaxTries
    /\ tries' = tries + 1
    /\ plain' = IF m \in DOMAIN plans \/ script # "absent" THEN plain ELSE plain \cup {m}
    /\ job' = [job EXCEPT ![m] = IF m \in DOMAIN plans \/ script # "absent"
                                 THEN [pc |-> "plan", script |-> script]
                                 ELSE [pc |-> "exec", plan |-> <<[type |-> "keep", target |-> "INBOX"]>>,
                                       i |-> 1, folders |-> <<>>]]
    /\ UNCHANGED <<now, edits, script, plans, markers, intervals, done, copies, sent>>

\* Mutant: the script is evaluated again on every attempt.
FrozenNot(m) == job[m].script = "absent"

Frozen(m) == m \in DOMAIN plans

\* sievePlan under sieveMu.
SievePlan(m) ==
    /\ job[m].pc = "plan"
    /\ LET r == IF Frozen(m) THEN [ok |-> TRUE, plan |-> plans[m].plan] ELSE SvExec(Scripts[job[m].script], m)
       IN  \/ Fail(m) /\ UNCHANGED plans
           \/ /\ r.ok
              /\ plans' = IF Frozen(m) THEN plans ELSE Put(plans, m, [plan |-> r.plan, by |-> job[m].script])
              /\ job' = [job EXCEPT ![m] = [pc |-> "exec", plan |-> r.plan, i |-> 1, folders |-> <<>>]]
    /\ UNCHANGED <<now, edits, script, markers, intervals, tries, done, plain, copies, sent>>

\* The folder an action of type keep or fileinto means.
Folder(m, a) ==
    LET f == IF a.type = "keep" THEN "INBOX" ELSE a.target
    IN  IF f = "INBOX" /\ Messages[m].quarantine THEN "Junk" ELSE f

Advance(m, folders) == job' = [job EXCEPT ![m].i = @ + 1, ![m].folders = folders]

Child(a, m, to) == [kind |-> a.type, m |-> m, to |-> to, by |-> a, at |-> now]

\* The turns of executeSieve's loop that have no effect yet.
ExecuteNote(m) ==
    /\ job[m].pc = "exec" /\ job[m].i <= Len(job[m].plan)
    /\ LET a == job[m].plan[job[m].i]
           fs == job[m].folders
       IN  /\ a.type \in {"keep", "fileinto", "discard"}
           /\ Advance(m, IF a.type = "discard" \/ Contains(fs, Folder(m, a)) THEN fs ELSE Append(fs, Folder(m, a)))
    /\ UNCHANGED <<now, edits, script, plans, markers, intervals, tries, done, plain, copies, sent>>

\* A redirect, under sieveMu: the child and its marker are one journal record.
ExecuteRedirect(m) ==
    /\ job[m].pc = "exec" /\ job[m].i <= Len(job[m].plan)
    /\ LET a == job[m].plan[job[m].i]
           key == <<"redirect", m, a.target>>
       IN  /\ a.type = "redirect"
           /\ \/ /\ key \in markers /\ Advance(m, job[m].folders) /\ UNCHANGED <<markers, sent>>
              \/ /\ key \notin markers
                 /\ markers' = markers \cup {key} /\ sent' = Append(sent, Child(a, m, a.target))
                 /\ Advance(m, job[m].folders)
              \/ Fail(m) /\ UNCHANGED <<markers, sent>>
    /\ UNCHANGED <<now, edits, script, plans, intervals, tries, done, plain, copies>>

\* Mutant: replies without a handle are told apart by the message they answer.
HandleOfMessage(a, m) == IF a.handle = "" THEN m ELSE a.handle

\* The script's :handle, or one made of the reply's own words (target).
Handle(a, m) == IF a.handle = "" THEN a.target ELSE a.handle

\* sieveVacation and enqueueSieveOnce with an interval.  An interval that is
\* over is removed in a journal record of its own.
ExecuteVacation(m) ==
    /\ job[m].pc = "exec" /\ job[m].i <= Len(job[m].plan)
    /\ job[m].plan[job[m].i].type = "vacation"
    /\ LET a == job[m].plan[job[m].i]
           handle == Handle(a, m)
           key == <<"vacation", m, handle>>
           to == <<Messages[m].from, handle>>
           skip == Messages[m].quarantine \/ ~Messages[m].personal \/ key \in markers
           running == to \in DOMAIN intervals /\ now < intervals[to]
       IN  \/ /\ skip /\ Advance(m, job[m].folders) /\ UNCHANGED <<markers, intervals, sent>>
           \/ /\ ~skip /\ running
              /\ markers' = markers \cup {key} /\ Advance(m, job[m].folders)
              /\ UNCHANGED <<intervals, sent>>
           \/ /\ ~skip /\ ~running
              /\ markers' = markers \cup {key} /\ intervals' = Put(intervals, to, now + Days)
              /\ sent' = Append(sent, Child(a, m, Messages[m].from))
              /\ Advance(m, job[m].folders)
           \/ /\ Fail(m)
              /\ intervals' \in {intervals} \cup (IF ~skip /\ ~running THEN {Drop(intervals, {to})} ELSE {})
              /\ UNCHANGED <<markers, sent>>
    /\ UNCHANGED <<now, edits, script, plans, tries, done, plain, copies>>

\* A reject ends the execution with a bounce.
ExecuteReject(m) ==
    /\ job[m].pc = "exec" /\ job[m].i <= Len(job[m].plan)
    /\ job[m].plan[job[m].i].type = "reject"
    /\ \/ /\ sent' = Append(sent, Child(job[m].plan[job[m].i], m, Messages[m].from))
          /\ job' = [job EXCEPT ![m] = [pc |-> "checkpoint"]]
       \/ Fail(m) /\ UNCHANGED sent
    /\ UNCHANGED <<now, edits, script, plans, markers, intervals, tries, done, plain, copies>>

\* The mailbox copies, each once by its key: the first folder has the key of a
\* plain delivery.
DeliverCopy(m) ==
    /\ job[m].pc = "exec" /\ job[m].i > Len(job[m].plan)
    /\ LET j == job[m].i - Len(job[m].plan)
           key == IF j = 1 THEN <<m, "plain">> ELSE <<m, job[m].folders[j]>>
       IN  IF j > Len(job[m].folders)
           THEN job' = [job EXCEPT ![m] = [pc |-> "checkpoint"]] /\ UNCHANGED copies
           ELSE \/ /\ copies' = IF \E k \in DOMAIN copies : copies[k].key = key THEN copies
                                ELSE Append(copies, [m |-> m, key |-> key, folder |-> job[m].folders[j]])
                   /\ Advance(m, job[m].folders)
                \/ Fail(m) /\ UNCHANGED copies
    /\ UNCHANGED <<now, edits, script, plans, markers, intervals, tries, done, plain, sent>>

\* UpdateRecipients and finalizeDelivery.
Checkpoint(m) ==
    /\ job[m].pc = "checkpoint"
    /\ Fail(m)
    /\ done' \in {done, done \cup {m}}
    /\ UNCHANGED <<now, edits, script, plans, markers, intervals, tries, plain, copies, sent>>

Crash ==
    /\ \E m \in Names : job[m].pc # "idle"
    /\ job' = [m \in Names |-> Idle]
    /\ UNCHANGED <<now, edits, script, plans, markers, intervals, tries, done, plain, copies, sent>>

EditScript(s) ==
    /\ edits < MaxEdits /\ s # script
    /\ edits' = edits + 1 /\ script' = s
    /\ UNCHANGED <<now, plans, markers, intervals, job, tries, done, plain, copies, sent>>

\* ExpireWorkflowRecords: records of delivered messages, intervals that ended.
Expire ==
    /\ plans' = Drop(plans, done)
    /\ markers' = {k \in markers : k[2] \notin done}
    /\ intervals' = Drop(intervals, {f \in DOMAIN intervals : now >= intervals[f]})
    /\ <<plans', markers', intervals'>> # <<plans, markers, intervals>>
    /\ UNCHANGED <<now, edits, script, job, tries, done, plain, copies, sent>>

Tick == now < MaxTime /\ now' = now + 1 /\ UNCHANGED <<edits, script, plans, markers, intervals, job, tries, done, plain, copies, sent>>

Next ==
    \/ Crash \/ Expire \/ Tick
    \/ \E s \in DOMAIN Scripts \cup {"absent"} : EditScript(s)
    \/ \E m \in Names :
         \/ Begin(m) \/ SievePlan(m) \/ ExecuteNote(m) \/ ExecuteRedirect(m) \/ ExecuteVacation(m)
         \/ ExecuteReject(m) \/ DeliverCopy(m) \/ Checkpoint(m)

-----------------------------------------------------------------------------
Of(m, kind) == {i \in DOMAIN sent : sent[i].m = m /\ sent[i].kind = kind}
CopiesOf(m) == {i \in DOMAIN copies : copies[i].m = m}
Foldered(m, p) == {Folder(m, p[i]) : i \in {i \in DOMAIN p : p[i].type \in {"keep", "fileinto"}}}
Redirects(p) == {p[i].target : i \in {i \in DOMAIN p : p[i].type = "redirect"}}

\* However often the attempt is repeated and whatever the owner does to the
\* script meanwhile, a message takes the effects of one plan, each once
\* (sieve_actions.go:28, "so a retry after a script edit resumes the accepted
\* plan rather than delivering a second route"): no folder has two copies, no
\* address two redirects, and nothing is done that the frozen plan lacks.  The
\* exception is a message first attempted while the owner had no script: no
\* plan was frozen, so a retry under a new script files it a second time.
PlanOnce ==
    \A m \in Names :
        /\ \A i, j \in CopiesOf(m) : copies[i].folder = copies[j].folder => i = j \/ m \in plain
        /\ \A i, j \in Of(m, "redirect") : sent[i].to = sent[j].to => i = j
        /\ Cardinality(Of(m, "vacation")) <= 1
        /\ m \in DOMAIN plans =>
             /\ {sent[i].to : i \in Of(m, "redirect")} \subseteq Redirects(plans[m].plan)
             /\ m \in done /\ Of(m, "reject") = {} /\ m \notin plain =>
                  /\ {sent[i].to : i \in Of(m, "redirect")} = Redirects(plans[m].plan)
                  /\ {copies[i].folder : i \in CopiesOf(m)} = Foldered(m, plans[m].plan)

\* Between two vacation replies to one sender under one handle the interval
\* passes (sieve_actions.go:137), whichever messages of theirs are delivered at
\* the same time, and also when the owner changed the text meanwhile and kept
\* the handle.  Without a handle the words are the handle: the same words are
\* not repeated, new words are sent at once (sieve_actions.go:280-286).
VacationsSpaced ==
    \A i, j \in DOMAIN sent :
        (/\ i < j /\ sent[i].kind = "vacation" /\ sent[j].kind = "vacation" /\ sent[i].to = sent[j].to
         /\ sent[i].by.handle = sent[j].by.handle
         /\ sent[i].by.handle = "" => sent[i].by.target = sent[j].by.target) =>
            sent[j].at >= sent[i].at + Days

\* What a command sequence may do on some path.
RECURSIVE Commands(_)
Commands(cmds) ==
    UNION {IF c.c = "if" THEN Commands(c.then) \cup Commands(c.else) ELSE {c} : c \in ToSet(cmds)}

\* Sieve never loses mail by accident (sieve_interp.go:32-42): a message that
\* was checkpointed lies in a folder unless the script told to discard it, to
\* reject it, or to send it elsewhere and keep no copy.
MailKept ==
    \A m \in done \cap DOMAIN plans :
        CopiesOf(m) = {} =>
            LET cs == Commands(Scripts[plans[m].by])
            IN  \/ Of(m, "reject") # {}
                \/ \E c \in cs : c.c = "discard"
                \/ \E i \in Of(m, "redirect") : \E c \in cs :
                      c.c = "redirect" /\ ~c.copy /\ c.target = sent[i].to
=============================================================================

------------------------------- MODULE Policies -------------------------------
(***************************************************************************)
(* The mail policies of the site: the list in memory and its file          *)
(* (policy/manager.go, policy/management.go), the run of a Starlark policy *)
(* (policy/engine_starlark.go, policy/builtins_starlark.go), and what      *)
(* Session.Data makes of the answer (smtpd/server.go).  A script is the    *)
(* sequence of builtins it calls on a message; a Sieve policy is given by  *)
(* the plan its interpreter returns.  path says that the configuration     *)
(* names a file for the script (ScriptPath): LoadPolicies reads it for an  *)
(* enabled policy and leaves the script of a disabled one empty.           *)
(***************************************************************************)
EXTENDS Naturals, FiniteSets, FiniteSetsExt, SequencesExt

CONSTANTS
    Templates,      \* policies an administrator may save (with a name)
    Bootstrap,      \* policies of the configuration, as LoadPolicies left them
    Scopes,         \* kinds of messages: the scopes a message is in
    MaxLookups,     \* DNS lookups of one script (10)
    MaxOps          \* bound: administrative operations

VARIABLES
    list,           \* policies in memory, in the order of evaluation
    file,           \* policies on disk
    doubt,          \* history: names whose last write failed after its rename
    ops,
    last            \* the last message evaluated

vars == <<list, file, doubt, ops, last>>

Sorted(s) == \A i, j \in DOMAIN s : i < j => s[i].priority <= s[j].priority

\* sort.SliceStable: p goes behind the policies of its own priority.
Placed(s, p) ==
    SelectSeq(s, LAMBDA q : q.priority <= p.priority) \o <<p>>
        \o SelectSeq(s, LAMBDA q : q.priority > p.priority)
StableSort(s) == FoldLeft(Placed, <<>>, s)

Named(s, n) == {i \in DOMAIN s : s[i].name = n}

-----------------------------------------------------------------------------
(* A Starlark script *)

Thread == [action |-> "keep", headers |-> <<>>, lookups |-> 0, err |-> FALSE]

\* accept, reject, defer, discard, redirect, fileinto: the last call counts.
SetAction(st, c) == [st EXCEPT !.action = c.type]

\* quarantine, drop, bounce, auto_reply, add_to_next_digest, SMTP replies.
SetExtended(st, c) == [st EXCEPT !.action = c.type]

\* divert_to, screen_to, force_second_pass, the skip_ calls and set_dlp.
SetRouting(st, c) == [st EXCEPT !.action = c.type]

\* add_header and remove_header are kept beside the action.
AddHeader(st, c) == [st EXCEPT !.headers = Append(@, c.header)]

\* Lookups past the budget answer nothing, and the script runs on.
Lookup(st) == [st EXCEPT !.lookups = @ + 1]

\* The builtins that only read the message.
Inspect(st) == st

Call(st, c) ==
    IF st.err THEN st
    ELSE CASE c.b = "action" -> SetAction(st, c)
           [] c.b = "extended" -> SetExtended(st, c)
           [] c.b = "routing" -> SetRouting(st, c)
           [] c.b = "header" -> AddHeader(st, c)
           [] c.b = "lookup" -> Lookup(st)
           [] c.b = "inspect" -> Inspect(st)
           [] c.b = "raise" -> [st EXCEPT !.err = TRUE]

\* Mutant: a script that overran its lookups is believed.
OverrunBelieved(st) == FALSE

Overrun(st) == st.lookups > MaxLookups

\* ExecuteCompiled
Execute(p) ==
    IF p.type = "sieve" THEN [ok |-> TRUE, multi |-> p.multi, action |-> p.action, headers |-> <<>>]
    ELSE LET st == FoldLeft(Call, Thread, p.script)
         IN  IF st.err \/ Overrun(st) THEN [ok |-> FALSE]
             ELSE [ok |-> TRUE, multi |-> FALSE, action |-> st.action, headers |-> st.headers]

-----------------------------------------------------------------------------
(* The manager *)

Passing == {"keep", "accept"}

MatchesScope(p, scopes) == p.scope = "global" \/ p.scope \in scopes

RECURSIVE EvaluateFrom(_, _, _)

\* Evaluate: the first policy with an answer other than keep decides; the
\* headers of the policies before it are kept; an error ends the evaluation.
EvaluateFrom(ps, scopes, headers) ==
    IF ps = <<>> THEN [ok |-> TRUE, multi |-> FALSE, action |-> "keep", headers |-> headers]
    ELSE LET p == Head(ps)
             r == Execute(p)
         IN  IF ~p.enabled \/ ~MatchesScope(p, scopes) THEN EvaluateFrom(Tail(ps), scopes, headers)
             ELSE IF ~r.ok THEN r
             ELSE IF r.multi \/ r.action \notin Passing THEN [r EXCEPT !.headers = headers \o @]
             ELSE EvaluateFrom(Tail(ps), scopes, headers \o r.headers)

Evaluate(scopes) == EvaluateFrom(list, scopes, <<>>)

Supported == {"reject", "defer", "discard", "redirect", "quarantine", "fileinto", "accept", "keep"}

\* What may be missing: the manager, the message's context, which does not
\* parse, or the store's answer to the receipt of a discarded submission.
Lacks == {"nothing", "manager", "context", "receipt"}

\* Mutant: only an evaluation that failed counts, not one that never was.
UnaskedNever(lack) == FALSE

Unasked(lack) == lack \in {"manager", "context"}

\* The policy stage of Session.Data: the reply, or "queued".
Handled(r, required, lack) ==
    IF Unasked(lack) \/ ~r.ok THEN IF required THEN "451" ELSE "queued"
    ELSE IF r.multi \/ r.action = "vacation" THEN "451"
    ELSE CASE r.action = "reject" -> "550"
           [] r.action = "defer" -> "451"
           [] r.action = "discard" -> IF lack = "receipt" THEN "451" ELSE "discarded"
           [] r.action \notin Supported /\ required -> "451"
           [] "invalid" \in ToSet(r.headers) -> "451"
           [] OTHER -> "queued"

Arrive(scopes, required, lack) ==
    /\ LET r == Evaluate(scopes)
       IN  last' = [scopes |-> scopes, required |-> required, lack |-> lack, r |-> r,
                    reply |-> Handled(r, required, lack)]
    /\ UNCHANGED <<list, file, doubt, ops>>

\* The file never names a script's file: what LoadPolicies read is written in
\* its place, and of a disabled policy whose script it did not read nothing.
Snapshot(s) == [i \in DOMAIN s |-> [s[i] EXCEPT !.path = FALSE]]

\* Mutant: the list in memory is replaced before the file is written.
WritePoliciesLate(n, next, res) ==
    /\ list' = next
    /\ file' = IF res = "unwritten" THEN file ELSE Snapshot(next)
    /\ doubt' = CASE res = "ok" -> {} [] res = "unwritten" -> doubt [] res = "unsynced" -> {n}

\* An operation on policy n.  writePolicies may fail before the rename, which
\* leaves file and list, or after it: the file is then the one asked for.
WritePolicies(n, next, res) ==
    /\ list' = IF res = "ok" THEN next ELSE list
    /\ file' = IF res = "unwritten" THEN file ELSE Snapshot(next)
    /\ doubt' = CASE res = "ok" -> {} [] res = "unwritten" -> doubt [] res = "unsynced" -> {n}

Results == {"ok", "unwritten", "unsynced"}

Admin == ops < MaxOps /\ ops' = ops + 1 /\ last' = [reply |-> "none"]

\* SavePolicy, with an inline script only: creating must not find the name,
\* replacing must, and keeps the place among policies of one priority.
SavePolicy(p, replace, res) ==
    /\ Admin
    /\ ~p.path
    /\ (Named(list, p.name) # {}) = replace
    /\ WritePolicies(p.name,
                     StableSort(IF replace THEN [i \in DOMAIN list |-> IF list[i].name = p.name THEN p ELSE list[i]]
                                ELSE Append(list, p)),
                     res)

DeletePolicy(n, res) ==
    /\ Admin
    /\ Named(list, n) # {}
    /\ WritePolicies(n, SelectSeq(list, LAMBDA q : q.name # n), res)

\* LoadPolicies sorts by priority alone: policies of one priority may change
\* places.  A file that does not validate leaves the list alone.
Loaded(f) == {s \in SetToSeqs(ToSet(f)) : Sorted(s)}

\* Reload, and UsePersistentFile at a start: the file decides.
Reload == Admin /\ list' \in Loaded(file) /\ doubt' = {} /\ UNCHANGED file

\* UsePersistentFile at the first start writes what the configuration loaded.
Init ==
    /\ file = Snapshot(Bootstrap) /\ list = Bootstrap
    /\ doubt = {} /\ ops = 0 /\ last = [reply |-> "none"]

Next ==
    \/ Reload
    \/ \E p \in Templates, replace \in BOOLEAN, res \in Results : SavePolicy(p, replace, res)
    \/ \E n \in {p.name : p \in Templates}, res \in Results : DeletePolicy(n, res)
    \/ \E s \in Scopes, required \in BOOLEAN, lack \in Lacks : Arrive(s, required, lack)

-----------------------------------------------------------------------------
\* The list has one policy of a name and is in the order of the priorities,
\* and the file is a snapshot of it after every operation, also one that
\* failed (management.go:71, management.go:121).  A failure behind the rename
\* is the exception, and it stays with the policy it was asked for: of every
\* other policy memory and file agree also then, and the next operation that
\* succeeds, or reload, ends it.
FileDecides ==
    LET Others(s) == {p \in ToSet(Snapshot(s)) : p.name \notin doubt}
    IN  /\ Sorted(list) /\ Sorted(file)
        /\ \A s \in {list, file} : \A i, j \in DOMAIN s : s[i].name = s[j].name => i = j
        /\ Others(list) = Others(file)
        /\ Cardinality(doubt) <= 1

InScope(scopes) == {i \in DOMAIN list : list[i].enabled /\ MatchesScope(list[i], scopes)}

\* Where policies are required no message is queued unasked (server.go:895):
\* there was a manager and a context, every policy in its scope, up to the one
\* that decides, ran to its end within its budget of lookups, and the decision
\* is one the server can carry out.
RequiredHolds ==
    last.reply = "queued" /\ last.required =>
        LET ran == {i \in InScope(last.scopes) :
                      \A j \in InScope(last.scopes) : j < i =>
                         Execute(list[j]).ok /\ Execute(list[j]).action \in Passing /\ ~Execute(list[j]).multi}
        IN  /\ last.lack \notin {"manager", "context"}
            /\ \A i \in ran : list[i].type = "starlark" =>
                 /\ Cardinality({k \in DOMAIN list[i].script : list[i].script[k].b = "lookup"}) <= MaxLookups
                 /\ \A k \in DOMAIN list[i].script : list[i].script[k].b # "raise"
            /\ last.r.action \in Supported \ {"reject", "defer", "discard"}
=============================================================================

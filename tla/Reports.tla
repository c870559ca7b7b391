------------------------------- MODULE Reports -------------------------------
(***************************************************************************)
(* The daily reports kept on disk until their destinations took them: the  *)
(* DMARC aggregate reports (security/dmarc_reports.go) and the TLS reports *)
(* (security/tls_reports_durable.go).  SMTP sessions record while a sender *)
(* goes over the files; writes of a file are atomic (atomicJSON), and the  *)
(* process may crash between any two of them.                              *)
(***************************************************************************)
EXTENDS Naturals, FiniteSets, FiniteSetsExt, SequencesExt

CONSTANTS
    Recorders,      \* sessions that record an evaluation
    Kinds,          \* the different rows an evaluation may give
    MaxRows,        \* rows of one report (10000)
    Uris,           \* destinations of a DMARC report, in order
    MaxDays,        \* bound: days that begin
    MaxRecords,     \* bound: observations written
    MaxSends        \* bound: rounds of the sender

VARIABLES
    day,
    files,          \* <<day, generation>> -> report
    rec,            \* recorders: idle, or the day and row they hold
    wrote,          \* history: <<day, kind>> of every row written, with a number
    snd,            \* the DMARC sender
    got,            \* history: uri -> {[id, rows]} that were mailed
    rounds,
    tfiles,         \* day -> set of TLS events
    trec, tsnd,     \* the TLS recorder (under mu) and sender (under sendMu)
    tgot, tlost,    \* history: events delivered; events that may be missing
    tnext           \* number of the next event

dmarc == <<files, rec, wrote, snd, got>>
tls == <<tfiles, trec, tsnd, tgot, tlost, tnext>>
vars == <<day, rounds, dmarc, tls>>

Put(m, k, v) == [x \in DOMAIN m \cup {k} |-> IF x = k THEN v ELSE m[x]]
Drop(m, K) == [x \in DOMAIN m \ K |-> m[x]]
Idle == [pc |-> "idle"]

Init ==
    /\ day = 0 /\ rounds = 0
    /\ files = <<>> /\ rec = [r \in Recorders |-> Idle] /\ wrote = {}
    /\ snd = Idle /\ got = [u \in ToSet(Uris) |-> {}]
    /\ tfiles = <<>> /\ trec = Idle /\ tsnd = Idle
    /\ tgot = {} /\ tlost = {} /\ tnext = 0

Midnight == day < MaxDays /\ day' = day + 1 /\ UNCHANGED <<rounds, dmarc, tls>>

-----------------------------------------------------------------------------
(* DMARC *)

Empty == [rows |-> <<>>, sealed |-> FALSE, sent |-> {}]
At(id) == IF id \in DOMAIN files THEN files[id] ELSE Empty

\* The generation an observation of day d goes to: the first one not sealed.
Open(d) == CHOOSE g \in 0 .. Cardinality(DOMAIN files) :
              /\ ~At(<<d, g>>).sealed /\ At(<<d, g>>).sent = {}
              /\ \A h \in 0 .. g - 1 : At(<<d, h>>).sealed \/ At(<<d, h>>).sent # {}

\* Session.Data takes the time, then calls Record.
Observe(r, k) ==
    /\ rec[r].pc = "idle" /\ Cardinality(wrote) < MaxRecords
    /\ rec' = [rec EXCEPT ![r] = [pc |-> "record", day |-> day, kind |-> k]]
    /\ UNCHANGED <<day, rounds, files, wrote, snd, got, tls>>

\* Record under mu.  A failure before the rename leaves the file as it was.
Record(r) ==
    /\ rec[r].pc = "record"
    /\ rec' = [rec EXCEPT ![r] = Idle]
    /\ LET id == <<rec[r].day, Open(rec[r].day)>>
           f == At(id)
           k == rec[r].kind
           room == k \in DOMAIN f.rows \/ Cardinality(DOMAIN f.rows) < MaxRows
       IN  \/ /\ room
              /\ files' = Put(files, id, [f EXCEPT !.rows =
                            Put(f.rows, k, IF k \in DOMAIN f.rows THEN f.rows[k] + 1 ELSE 1)])
              /\ wrote' = wrote \cup {[day |-> rec[r].day, kind |-> k, n |-> Cardinality(wrote)]}
           \/ UNCHANGED <<files, wrote>>
    /\ UNCHANGED <<day, rounds, snd, got, tls>>

\* List: the reports on disk by name.
List ==
    /\ snd.pc = "idle" /\ rounds < MaxSends /\ rounds' = rounds + 1
    /\ LET ids == SetToSortSeq(DOMAIN files,
                    LAMBDA a, b : a[1] < b[1] \/ (a[1] = b[1] /\ a[2] < b[2]))
       IN  snd' = [pc |-> "next", todo |-> [i \in DOMAIN ids |-> [id |-> ids[i], f |-> files[ids[i]]]]]
    /\ UNCHANGED <<day, files, rec, wrote, got, tls>>

\* Mutant: the contents that were listed are the ones sealed.
SealedListed(item) == [item.f EXCEPT !.sealed = TRUE]

\* The contents to send: read again under mu.
Sealed(item) == [files[item.id] EXCEPT !.sealed = TRUE]

\* The head of the loop: a day that is not over is passed over, a closed one is
\* sealed.  A write that fails ends the round.
Seal ==
    /\ snd.pc = "next"
    /\ \/ /\ snd.todo = <<>> /\ snd' = Idle /\ UNCHANGED files
       \/ /\ snd.todo # <<>>
          /\ LET item == Head(snd.todo)
                 r == Sealed(item)
             IN  \/ /\ item.id[1] >= day
                    /\ snd' = [snd EXCEPT !.todo = Tail(@)] /\ UNCHANGED files
                 \/ /\ item.id[1] < day
                    /\ files' = Put(files, item.id, r)
                    /\ snd' = [pc |-> "send", todo |-> Tail(snd.todo), id |-> item.id, r |-> r, uris |-> Uris]
                 \/ /\ item.id[1] < day /\ ~files[item.id].sealed
                    /\ snd' = Idle /\ UNCHANGED files
    /\ UNCHANGED <<day, rounds, rec, wrote, got, tls>>

\* The next destination: passed over when it has the report, its name is not
\* authorized or the mail is refused; otherwise mailed.
Send ==
    /\ snd.pc = "send"
    /\ \/ /\ snd.uris = <<>>
          /\ snd' = [pc |-> "next", todo |-> snd.todo] /\ UNCHANGED got
       \/ /\ snd.uris # <<>>
          /\ snd' = [snd EXCEPT !.uris = Tail(@)] /\ UNCHANGED got
       \/ /\ snd.uris # <<>> /\ Head(snd.uris) \notin snd.r.sent
          /\ got' = [got EXCEPT ![Head(snd.uris)] = @ \cup {[id |-> snd.id, rows |-> snd.r.rows]}]
          /\ snd' = [snd EXCEPT !.pc = "ack", !.uris = Tail(@), !.r.sent = @ \cup {Head(snd.uris)}]
    /\ UNCHANGED <<day, rounds, files, rec, wrote, tls>>

\* The acknowledgement is written over the file; when that fails the round ends.
Ack ==
    /\ snd.pc = "ack"
    /\ \/ files' = Put(files, snd.id, snd.r) /\ snd' = [snd EXCEPT !.pc = "send"]
       \/ UNCHANGED files /\ snd' = Idle
    /\ UNCHANGED <<day, rounds, rec, wrote, got, tls>>

Crash ==
    /\ rec' = [r \in Recorders |-> Idle] /\ snd' = Idle
    /\ <<rec', snd'>> # <<rec, snd>>
    /\ UNCHANGED <<day, rounds, files, wrote, got, tls>>

DmarcNext ==
    \/ Midnight \/ List \/ Seal \/ Send \/ Ack \/ Crash
    \/ \E r \in Recorders : Record(r) \/ \E k \in Kinds : Observe(r, k)

-----------------------------------------------------------------------------
(* TLS.  Record reads the clock and the file and writes it back under mu;  *)
(* SendPending takes only sendMu.  Here day counts half steps: 2 * d is    *)
(* day d up to its last second, and 2 * d + 1 that second.                 *)

TLSFile(d) == IF d \in DOMAIN tfiles THEN tfiles[d] ELSE {}

Date == day \div 2
EndDatetime(d) == 2 * d + 1

TLSRecord ==
    /\ trec.pc = "idle" /\ tnext < MaxRecords
    /\ trec' = [pc |-> "write", day |-> Date, events |-> TLSFile(Date) \cup {tnext}, e |-> tnext]
    /\ tnext' = tnext + 1
    /\ UNCHANGED <<day, rounds, dmarc, tfiles, tsnd, tgot, tlost>>

\* atomicJSON: a failure before the rename leaves the file as it was, one
\* behind it is reported although the file holds the event.
TLSWrite ==
    /\ trec.pc = "write"
    /\ LET removing == tsnd.pc # "idle" /\ tsnd.day = trec.day /\ day >= EndDatetime(trec.day)
       IN  \/ /\ tfiles' = Put(tfiles, trec.day, trec.events)
              /\ tlost' = IF removing THEN tlost \cup {trec.e} ELSE tlost
           \/ UNCHANGED tfiles /\ tlost' = tlost \cup {trec.e}
    /\ trec' = Idle
    /\ UNCHANGED <<day, rounds, dmarc, tsnd, tgot, tnext>>

\* Mutant: a report of the current day is sent as well.
TLSClosedNot(d) == TRUE

\* EndDatetime.After(now) is passed over: a day is closed one second early.
TLSClosed(d) == day >= EndDatetime(d)

TLSRead(d) ==
    /\ tsnd.pc = "idle" /\ rounds < MaxSends /\ rounds' = rounds + 1
    /\ d \in DOMAIN tfiles /\ TLSClosed(d)
    /\ tsnd' = [pc |-> "send", day |-> d, events |-> tfiles[d]]
    /\ UNCHANGED <<day, dmarc, tfiles, trec, tgot, tlost, tnext>>

\* Mutant: the file is removed whatever became of the upload.
TLSSendRemoves ==
    /\ tsnd.pc = "send"
    /\ \/ tgot' = tgot \cup tsnd.events
       \/ UNCHANGED tgot
    /\ tsnd' = [tsnd EXCEPT !.pc = "remove"]
    /\ UNCHANGED <<day, rounds, dmarc, tfiles, trec, tlost, tnext>>

\* send: the first destination that accepts the report ends it well; one may
\* also have taken it although the answer was lost.
TLSSend ==
    /\ tsnd.pc = "send"
    /\ \/ tgot' = tgot \cup tsnd.events /\ tsnd' = [tsnd EXCEPT !.pc = "remove"]
       \/ tgot' \in {tgot, tgot \cup tsnd.events} /\ tsnd' = Idle
    /\ UNCHANGED <<day, rounds, dmarc, tfiles, trec, tlost, tnext>>

TLSRemove ==
    /\ tsnd.pc = "remove"
    /\ \/ tfiles' = Drop(tfiles, {tsnd.day})
       \/ UNCHANGED tfiles
    /\ tsnd' = Idle
    /\ UNCHANGED <<day, rounds, dmarc, trec, tgot, tlost, tnext>>

TLSCrash ==
    /\ trec' = Idle /\ tsnd' = Idle /\ <<trec', tsnd'>> # <<trec, tsnd>>
    /\ tlost' = tlost \cup (IF trec.pc = "write" THEN {trec.e} ELSE {})
    /\ UNCHANGED <<day, rounds, dmarc, tfiles, tgot, tnext>>

TLSNext ==
    \/ Midnight \/ TLSRecord \/ TLSWrite \/ TLSSend \/ TLSRemove \/ TLSCrash
    \/ \E d \in 0 .. MaxDays : TLSRead(d)

-----------------------------------------------------------------------------
\* Rows of kind k counted for day d in all generations of its report.
Counted(d, k) ==
    MapThenSumSet(LAMBDA id : files[id].rows[k],
                  {id \in DOMAIN files : id[1] = d /\ k \in DOMAIN files[id].rows})

\* Every evaluation that Record wrote is counted once in the reports of its
\* day, also when it was late and the sender sealed, sent or acknowledged the
\* report meanwhile (dmarc_reports.go:243: a late observation "is written to a
\* successor report instead of being overwritten").
ObservationsCounted ==
    \A d \in 0 .. day, k \in Kinds :
        Counted(d, k) = Cardinality({w \in wrote : w.day = d /\ w.kind = k})

\* A report has one contents: whatever two destinations, or one destination
\* after a crash, are sent under one identifier is the same, and is what the
\* file still holds (dmarc_reports.go:242-262).
ReportsFrozen ==
    \A u \in DOMAIN got : \A m \in got[u] :
        /\ files[m.id].sealed
        /\ files[m.id].rows = m.rows

\* A TLS event leaves the disk only by a report that a destination took
\* (tls_reports_durable.go:136-141).  What may be missing is an event that
\* Record did not write (a failed write or a crash), and one written between
\* the sender's reading of that day's file and its removal; the latter only
\* in the day's last second, when the day is closed already, or later
\* (tls_reports_durable.go:69, 133).
TLSEventsKept ==
    \A e \in 0 .. tnext - 1 :
        \/ e \in tgot \/ e \in tlost
        \/ \E d \in DOMAIN tfiles : e \in tfiles[d]
        \/ trec.pc = "write" /\ trec.e = e
=============================================================================

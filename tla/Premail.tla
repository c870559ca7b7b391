------------------------------- MODULE Premail -------------------------------
(***************************************************************************)
(* The mail proxy in front of the service (internal/premail): the score of *)
(* a connection (a decision), the connections with the firewall sets and   *)
(* the stored history of their sources, and the versioned configuration.   *)
(***************************************************************************)
EXTENDS Integers, Sequences, FiniteSets, FiniteSetsExt, Functions

CONSTANTS
    Metrics,            \* metrics a connection can show
    Histories,          \* stored histories of a source
    Conns,              \* connections, each made once
    Source,             \* the source of each connection
    MaxConns,           \* slots of the semaphore
    ScoreAfter,         \* commands after which every command is scored
    HalfHour, Hour, Day, \* timeouts of the sets, in ticks
    Seconds,            \* seconds of a tick that two connections may share
    MaxTime,            \* bound: ticks
    Faulty,             \* database and firewall calls may fail
    Settings,           \* configurations
    MaxSaves,           \* bound: saves of the configuration
    MaxBackups          \* bound: archives

None == "none"

VARIABLES
    card,               \* the metrics and the history scored
    conn, slots, tracked, \* connections, slots taken, keys of activeConns
    lists,              \* firewall sets: when each source leaves each set
    rows,               \* stored characteristics of each source
    now,
    file, versions, backups, task, saves, \* configuration manager
    hurt                \* history: a restore was cut short or its backup was incomplete

proxyVars == <<conn, slots, tracked, lists, rows, now>>
configVars == <<file, versions, backups, task, saves, hurt>>

IPs == {Source[c] : c \in Conns}

-----------------------------------------------------------------------------
(* The score.                                                              *)

On(fired, points) == IF fired THEN points ELSE 0

\* The points of each component under DefaultScoreWeights.
Components(m, h) ==
    [PreBannerTalk |-> On(m.preBanner, 100),
     InvalidCommand |-> On(m.invalid > 0, 40),
     MalformedHelo |-> On(m.helo = "malformed", 25),
     MissingCommands |-> On(m.messages > 0 /\ m.helo = None, 20),
     QuickDisconnect |-> On(m.quick, 30),
     Frequency |-> On(h.lately /\ h.total > 100, 25),
     NoAuth |-> On(m.messages > 0 /\ ~m.auth, 20),
     FailedAuth |-> Min({m.failures * 15, 45}),
     RecipientCount |-> On(m.recipients > 50, 20),
     MessageRate |-> On(m.messages > 10, 15),
     MessageSize |-> On(m.size = "odd", 10),
     RapidFire |-> On(h.fast /\ h.total > 10, 15),
     PreviouslyFlagged |-> On(h.class = "spammer" \/ h.blocked, 30),
     TopSpammer |-> On(h.top, 25),
     RecentViolations |-> On(h.recent, 20),
     NewIP |-> On(h.total = 0, 10),
     KnownGood |-> On(h.class = "clean", -50),
     BotTiming |-> On(m.steady /\ m.timings > 5, 15),
     OffHours |-> On(m.hour >= 2 /\ m.hour < 6 /\ m.messages > 5, 10),
     IdenticalTiming |-> On(m.timings >= 3 /\ m.identical, 10)]

Score(m, h) == Max({0, Min({100, FoldFunction(+, 0, Components(m, h))})})

\* Mutant: drops from one point less.
determineActionEarly(score) ==
    IF score >= 90 THEN "drop" ELSE
    IF score >= 70 THEN "throttle" ELSE IF score >= 50 THEN "monitor" ELSE "allow"

\* Under DefaultThresholds.
determineAction(score) ==
    IF score >= 91 THEN "drop" ELSE IF score >= 90 THEN "tarpit" ELSE
    IF score >= 70 THEN "throttle" ELSE IF score >= 50 THEN "monitor" ELSE "allow"

CalculateScore(m, h) == determineAction(Score(m, h))

\* The analyzer's verdicts.
AnalyzeConnectionPattern(m) == m.quick
AnalyzeTimingPattern(m) == [bot |-> m.timings >= 3 /\ m.steady, identical |-> m.timings >= 3 /\ m.identical]
AnalyzeProtocolCompliance(m) ==
    [valid |-> ~(m.commands > 0 /\ m.helo = None) /\ m.helo # "malformed" /\ m.invalid = 0,
     unauthenticated |-> m.messages > 0 /\ ~m.auth]
AnalyzeVolumeAnomaly(m) == m.recipients > 50 \/ m.messages > 10 \/ m.size = "odd"
AnalyzeTemporalPattern(m) == m.hour >= 2 /\ m.hour < 6 /\ m.messages > 5

\* Metrics and history of a first connection that the proxy has yet to measure.
NewMetrics ==
    [preBanner |-> FALSE, invalid |-> 0, helo |-> None, messages |-> 0, quick |-> FALSE, auth |-> FALSE,
     failures |-> 0, recipients |-> 0, size |-> "odd", steady |-> TRUE, timings |-> 0, identical |-> FALSE,
     hour |-> 0, commands |-> 0]
NewHistory ==
    [total |-> 0, lately |-> FALSE, fast |-> FALSE, class |-> "unknown", blocked |-> FALSE, top |-> FALSE, recent |-> FALSE]

ScoreInit == card \in Metrics \X Histories

-----------------------------------------------------------------------------
(* Connections.                                                            *)

NoRow == [known |-> FALSE, total |-> 0, violations |-> 0, class |-> "", blocked |-> FALSE, last |-> -1]

\* What the score sees of a row; the fields a single connection cannot set stay low.
Seen(row) ==
    [NewHistory EXCEPT !.total = row.total, !.class = row.class, !.blocked = row.blocked,
                       !.lately = row.known, !.recent = row.last >= 0 /\ now - row.last < Day]

At(c, step) == conn[c].at = step
Move(c, step) == conn' = [conn EXCEPT ![c].at = step]
Running == {c \in Conns : conn[c].at \notin {"new", "refused", "ended"}}

ProxyInit ==
    /\ conn = [c \in Conns |-> [at |-> "new", commands |-> 0, invalid |-> FALSE, talked |-> FALSE, start |-> 0,
                                decision |-> None, backend |-> FALSE, row |-> NoRow, second |-> 0]]
    /\ slots = 0 /\ tracked = {} /\ now = 0
    /\ lists = [l \in {"blacklist", "ratelimit", "monitor"} |-> [ip \in IPs |-> 0]]
    /\ rows = [ip \in IPs |-> NoRow]

Key(c) == <<Source[c], conn[c].start, conn[c].second>>

acceptConnections(c) ==
    /\ At(c, "new")
    /\ IF slots < MaxConns
       THEN \E s \in Seconds :
            /\ slots' = slots + 1
            /\ conn' = [conn EXCEPT ![c].at = "quiet", ![c].start = now, ![c].second = s]
            /\ tracked' = tracked \union {<<Source[c], now, s>>}
       ELSE Move(c, "refused") /\ UNCHANGED <<slots, tracked>>
    /\ UNCHANGED <<lists, rows, now>>

\* The client talks, leaves, or waits for the banner (which may fail to be sent).
preBannerAnalysis(c) ==
    /\ At(c, "quiet")
    /\ \/ conn' = [conn EXCEPT ![c].at = "talked", ![c].talked = TRUE]
       \/ Move(c, "leaving")
       \/ Move(c, "reading")
    /\ UNCHANGED <<slots, tracked, lists, rows, now>>

Outcomes == IF Faulty THEN BOOLEAN ELSE {TRUE}

\* GetIPCharacteristics: a failed read looks like an unknown source.
Read(c, ok) == IF ok THEN rows[Source[c]] ELSE NoRow

\* The metrics as the proxy fills them in.
Measured(c, timings, identical, quick) ==
    [NewMetrics EXCEPT !.preBanner = conn[c].talked, !.invalid = IF conn[c].invalid THEN 1 ELSE 0,
                       !.timings = timings, !.identical = identical, !.quick = quick]

\* `nft add element`, which may fail unnoticed.
Add(l, ip, timeout) ==
    \E ok \in Outcomes : lists' = IF ok THEN [lists EXCEPT ![l][ip] = Max({@, now + timeout})] ELSE lists

handleScoringDecision(c, action) ==
    CASE action = "drop" -> Add("blacklist", Source[c], Day)
      [] action = "tarpit" -> Add("ratelimit", Source[c], Hour)
      [] action = "throttle" -> Add("ratelimit", Source[c], HalfHour)
      [] action = "monitor" -> Add("monitor", Source[c], HalfHour)
      [] OTHER -> UNCHANGED lists

TalkedScore(c) ==
    /\ At(c, "talked")
    /\ \E ok \in Outcomes :
          conn' = [conn EXCEPT ![c].at = "update",
                       ![c].decision = CalculateScore(Measured(c, 0, FALSE, FALSE), Seen(Read(c, ok)))]
    /\ UNCHANGED <<slots, tracked, lists, rows, now>>

\* A line arrives, is QUIT, or the read fails.
Command(c) ==
    /\ At(c, "reading")
    /\ \/ \E wrong \in BOOLEAN :
             conn' = [conn EXCEPT ![c].at = "judging", ![c].invalid = @ \/ wrong,
                                  ![c].commands = Min({@ + 1, ScoreAfter})]
       \/ Move(c, "finish")
    /\ UNCHANGED <<slots, tracked, lists, rows, now>>

\* The state of the dialogue is never advanced past StateConnected.
shouldScore(c) == conn[c].commands >= ScoreAfter \/ now > conn[c].start

Judge(c) ==
    /\ At(c, "judging")
    /\ IF shouldScore(c)
       THEN \E ok \in Outcomes, identical \in BOOLEAN, timings \in {2, 3, 6} :
            LET action == CalculateScore(Measured(c, timings, identical, FALSE), Seen(Read(c, ok)))
            IN  /\ handleScoringDecision(c, action)
                /\ conn' = [conn EXCEPT ![c].decision = action,
                                        ![c].at = IF action = "drop" THEN "finish" ELSE "routing"]
       ELSE Move(c, "routing") /\ UNCHANGED lists
    /\ UNCHANGED <<slots, tracked, rows, now>>

Connectable(c) == ~conn[c].backend /\ conn[c].decision \in {None, "allow"}

\* connectToBackend (the dial or the banner may fail), or no answer at all.
Route(c) ==
    /\ At(c, "routing")
    /\ IF Connectable(c)
       THEN \/ conn' = [conn EXCEPT ![c].at = "forward", ![c].backend = TRUE]
            \/ \E dialled \in BOOLEAN : conn' = [conn EXCEPT ![c].at = "finish", ![c].backend = dialled]
       ELSE Move(c, IF conn[c].backend THEN "forward" ELSE "reading")
    /\ UNCHANGED <<slots, tracked, lists, rows, now>>

\* Forwarding a line and reading one line back; either side may fail.
Forward(c) ==
    /\ conn[c].at \in {"forward", "awaiting"}
    /\ Move(c, IF At(c, "forward") THEN "awaiting" ELSE "reading") \/ Move(c, "finish")
    /\ UNCHANGED <<slots, tracked, lists, rows, now>>

\* The final score, when no score was taken.
Finish(c) ==
    /\ At(c, "finish")
    /\ IF conn[c].decision # None THEN Move(c, "update")
       ELSE \E ok \in Outcomes, identical, hasty \in BOOLEAN, timings \in {2, 3, 6} :
            LET m == Measured(c, timings, identical, hasty /\ now = conn[c].start)
            IN  conn' = [conn EXCEPT ![c].at = "update", ![c].decision = CalculateScore(m, Seen(Read(c, ok)))]
    /\ UNCHANGED <<slots, tracked, lists, rows, now>>

\* UpdateMetrics reads the row again ...
UpdateRead(c) ==
    /\ At(c, "update")
    /\ \E ok \in Outcomes : conn' = [conn EXCEPT ![c].at = "write", ![c].row = Read(c, ok)]
    /\ UNCHANGED <<slots, tracked, lists, rows, now>>

\* Mutant: a drop forgets to count the violation.
UpdatedUncounted(row, action) ==
    [known |-> TRUE, total |-> row.total + 1, violations |-> row.violations,
     class |-> IF action = "drop" THEN "blocklisted" ELSE row.class,
     blocked |-> row.blocked \/ action = "drop", last |-> row.last]

\* ... and the classes it moves the source to.  A source that was not found
\* has no class, not even "unknown".
Updated(row, action) ==
    LET total == row.total + 1
        class == CASE action = "drop" -> "blocklisted"
                   [] action = "tarpit" /\ row.class # "blocklisted" -> "spammer"
                   [] action = "throttle" /\ row.class \in {"unknown", "clean"} -> "suspicious"
                   [] action = "allow" /\ total > 10 /\ row.violations = 0 -> "clean"
                   [] OTHER -> row.class
    IN  [known |-> TRUE, total |-> total, class |-> class,
         violations |-> row.violations + (IF action = "drop" THEN 1 ELSE 0),
         blocked |-> row.blocked \/ action = "drop",
         last |-> IF action = "drop" THEN now ELSE row.last]

\* The address scanned from an inet column is its text, which is no address: a
\* row that was read is refused when it is written back.
Storable(row) == ~row.known

UpdateIPCharacteristics(c) ==
    /\ At(c, "write")
    /\ conn' = [conn EXCEPT ![c].at = IF conn[c].talked THEN "listing" ELSE "leaving", ![c].row = NoRow]
    /\ \E ok \in Outcomes :
          rows' = IF ok /\ Storable(conn[c].row)
                  THEN [rows EXCEPT ![Source[c]] = Updated(conn[c].row, conn[c].decision)] ELSE rows
    /\ UNCHANGED <<slots, tracked, lists, now>>

\* A client that talked before the banner is listed whatever its score was.
TalkedList(c) ==
    /\ At(c, "listing")
    /\ Add("blacklist", Source[c], Day)
    /\ Move(c, "leaving")
    /\ UNCHANGED <<slots, tracked, rows, now>>

\* What stays of a connection that ended.
Ended(x) == [x EXCEPT !.at = "ended", !.commands = 0, !.invalid = FALSE, !.start = 0, !.second = 0]

\* Mutant: the slot of a client that left in the quiet time stays taken.
LeaveKeeps(c) ==
    /\ At(c, "leaving")
    /\ conn' = [conn EXCEPT ![c] = Ended(@)]
    /\ tracked' = tracked \ {Key(c)}
    /\ slots' = IF conn[c].decision = None THEN slots ELSE slots - 1
    /\ UNCHANGED <<lists, rows, now>>

\* The deferred functions of handleConnection. The backend connection is not closed.
Leave(c) ==
    /\ At(c, "leaving")
    /\ conn' = [conn EXCEPT ![c] = Ended(@)]
    /\ tracked' = tracked \ {Key(c)}
    /\ slots' = slots - 1
    /\ UNCHANGED <<lists, rows, now>>

Tick == now < MaxTime /\ now' = now + 1 /\ UNCHANGED <<conn, slots, tracked, lists, rows>>

handleConnection(c) ==
    \/ acceptConnections(c) \/ preBannerAnalysis(c) \/ TalkedScore(c) \/ TalkedList(c)
    \/ Command(c) \/ Judge(c) \/ Route(c) \/ Forward(c) \/ Finish(c)
    \/ UpdateRead(c) \/ UpdateIPCharacteristics(c) \/ Leave(c)

ProxyNext == Tick \/ \E c \in Conns : handleConnection(c)

-----------------------------------------------------------------------------
(* The configuration manager. A saved configuration carries its time, so   *)
(* no two saves have the same content.                                     *)

Torn == [setting |-> "torn", stamp |-> 0]
Absent == [setting |-> None, stamp |-> 0]
Idle == [doing |-> None, content |-> Absent, left |-> {}]
Numbers == 1 .. MaxSaves
Whole(x) == x \notin {Torn, Absent}

ConfigInit ==
    /\ file = Absent /\ versions = [n \in Numbers |-> Absent] /\ backups = {} /\ task = Idle /\ saves = 0
    /\ hurt = FALSE

\* ListVersions skips what it cannot read.
ListVersions == {n \in Numbers : Whole(versions[n])}

\* Mutant: the list is taken in ascending order.
newVersionNumFirst == IF ListVersions = {} THEN 1 ELSE Min(ListVersions) + 1

newVersionNum == IF ListVersions = {} THEN 1 ELSE Max(ListVersions) + 1

Begin(setting) ==
    /\ task = Idle /\ saves < MaxSaves
    /\ saves' = saves + 1
    /\ task' = [Idle EXCEPT !.doing = "version", !.content = [setting |-> setting, stamp |-> saves + 1]]
    /\ UNCHANGED <<file, versions, backups, hurt>>

Save == \E setting \in Settings : Begin(setting)
Rollback == \E n \in ListVersions : Begin(versions[n].setting)

\* Mutant: the current file is written before the version.
SaveStepSwapped ==
    /\ task.doing \in {"version", "file"}
    /\ \E torn \in BOOLEAN :
       LET written == IF torn THEN Torn ELSE task.content
       IN  IF task.doing = "version"
           THEN file' = written /\ UNCHANGED versions
           ELSE versions' = [versions EXCEPT ![newVersionNum] = written] /\ UNCHANGED file
    /\ task' \in (IF task.doing = "version" THEN {[task EXCEPT !.doing = "file"], Idle} ELSE {Idle})
    /\ UNCHANGED <<backups, saves, hurt>>

\* saveVersion, then the current file; each write may fail or be cut short, which ends the save.
SaveStep ==
    /\ task.doing \in {"version", "file"}
    /\ \E done \in BOOLEAN :
       LET written == IF done THEN task.content ELSE Torn
       IN  /\ IF task.doing = "version"
              THEN versions' = [versions EXCEPT ![newVersionNum] = written] /\ UNCHANGED file
              ELSE file' = written /\ UNCHANGED versions
           /\ task' = IF done /\ task.doing = "version" THEN [task EXCEPT !.doing = "file"] ELSE Idle
    /\ UNCHANGED <<backups, saves, hurt>>

\* CreateBackup.  A version that cannot be opened or copied is missing or cut
\* short in the archive, with no more than a warning; an archive whose
\* configuration could not be copied ends there, and stays.
CreateBackup ==
    /\ task = Idle /\ file # Absent /\ Cardinality(backups) < MaxBackups
    /\ \/ \E bad \in SUBSET ListVersions, cut \in BOOLEAN :
             backups' = backups \union
                 {[file |-> file,
                   versions |-> [n \in ListVersions \ (IF cut THEN {} ELSE bad) |->
                                    IF n \in bad THEN Torn ELSE versions[n]]]}
       \/ backups' = backups \union {[file |-> Torn, versions |-> <<>>]}
    /\ UNCHANGED <<file, versions, task, saves, hurt>>

\* RestoreBackup: the file, then the versions of the archive from the latest
\* on, each created anew and copied.  An error or a crash may stop it at the
\* file (which ranks above every version) or at a version, before or after the
\* old content was cut off; it is complete when it stops at 0.
RestoreBackup ==
    /\ task = Idle
    /\ \E b \in backups, torn \in BOOLEAN :
       \E stop \in {0, MaxSaves + 1} \union DOMAIN b.versions :
          LET Restored(n, new, old) ==
                 IF n > stop THEN new ELSE IF n = stop /\ torn THEN Torn ELSE old
          IN  /\ file' = Restored(MaxSaves + 1, b.file, file)
              /\ versions' = [n \in Numbers |-> IF n \in DOMAIN b.versions
                                               THEN Restored(n, b.versions[n], versions[n]) ELSE versions[n]]
              /\ hurt' = (hurt \/ stop # 0 \/ \E n \in DOMAIN b.versions : b.versions[n] = Torn)
    /\ UNCHANGED <<backups, task, saves>>

ConfigNext == Save \/ Rollback \/ SaveStep \/ CreateBackup \/ RestoreBackup

-----------------------------------------------------------------------------
(* Properties.                                                             *)

\* The weights and thresholds of engine.go keep what their comments promise:
\* during a connection, as the proxy measures it, a source seen for the first
\* time and a source known as clean are not dropped for their commands; a
\* client that talks before the banner scores a drop unless it is known as
\* clean; and the analyzer calls anomalous what the engine charges for.
ScoringTrue ==
    LET m == card[1]
        h == card[2]
        parts == Components(m, h)
        measured == [NewMetrics EXCEPT !.invalid = m.invalid, !.timings = m.timings, !.identical = m.identical]
    IN  /\ h = NewHistory \/ (h.class = "clean" /\ ~h.blocked /\ ~h.recent)
           => CalculateScore(measured, h) # "drop"
        /\ m.preBanner /\ h.class # "clean" => CalculateScore(m, h) = "drop"
        /\ AnalyzeVolumeAnomaly(m) <=> parts.RecipientCount + parts.MessageRate + parts.MessageSize > 0
        /\ AnalyzeTemporalPattern(m) <=> parts.OffHours > 0
        /\ AnalyzeTimingPattern(m).identical <=> parts.IdenticalTiming > 0
        /\ parts.BotTiming > 0 => AnalyzeTimingPattern(m).bot
        /\ AnalyzeConnectionPattern(m) <=> parts.QuickDisconnect > 0
        /\ AnalyzeProtocolCompliance(m).unauthenticated <=> parts.NoAuth > 0
        /\ parts.InvalidCommand + parts.MalformedHelo > 0 => ~AnalyzeProtocolCompliance(m).valid

\* handleConnection gives back every slot acceptConnections takes, whichever
\* way a connection ends, and activeConns only names connections that run.
SlotsReturned ==
    /\ slots = Cardinality(Running) /\ slots <= MaxConns
    /\ tracked \subseteq {Key(c) : c \in Running}

\* A source is in the blacklist only through a connection that was dropped or
\* that talked before the banner, and such a connection goes no further: no
\* line of it is read or forwarded after the verdict.
ListsJustified ==
    /\ \A ip \in IPs : lists["blacklist"][ip] > 0 =>
          \E c \in Conns : Source[c] = ip /\ (conn[c].talked \/ conn[c].decision = "drop")
    /\ \A c \in Conns :
          conn[c].decision = "drop" \/ conn[c].talked => conn[c].at \notin {"reading", "routing", "forward", "awaiting"}

\* The marks of a stored row agree, and connections of its source account for
\* it, however their updates interleave or fail: it is blocked, blocklisted
\* and has a violation, or is none of these; a blocked source had a connection
\* dropped; and it counts no connection twice.  (UpdateMetrics; that it does
\* not count them all is another matter: a row read back is never stored.)
RowsWhole ==
    \A ip \in IPs :
        LET row == rows[ip]
            scored == {c \in Conns : Source[c] = ip /\ conn[c].decision # None}
        IN  row.known =>
                /\ row.blocked <=> row.class = "blocklisted"
                /\ row.blocked <=> row.violations > 0
                /\ row.blocked => \E c \in scored : conn[c].decision = "drop"
                /\ row.violations <= row.total /\ row.total <= Cardinality(scored)

\* A configuration file that is whole is also kept as a version (Save writes
\* the version first), so that a rollback can return to it; unless a restore
\* was cut short, or its backup had lost a version.
ConfigBacked == Whole(file) => hurt \/ \E n \in Numbers : versions[n] = file

\* No save, rollback or backup changes a version that is whole, whatever
\* number a torn one left free.
VersionsKept ==
    \A n \in Numbers : Whole(versions[n]) => versions'[n] = versions[n] \/ RestoreBackup
=============================================================================

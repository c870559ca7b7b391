----------------------------- MODULE Background -----------------------------
(***************************************************************************)
(* Three services that run beside the mail path: the master controller,    *)
(* which starts, stops and reloads listening services (internal/master);   *)
(* the LDAP connection pool of the next-hop resolver (internal/directory); *)
(* the event indexer, which ships mail events in bulk                      *)
(* (internal/elasticsearch).                                               *)
(***************************************************************************)
EXTENDS Naturals, FiniteSets, Functions, TLC

CONSTANTS Names, Addresses,  \* services of the master file, listen addresses
          MaxEdits,          \* bound: edits of the master file
          Callers,           \* goroutines that use the LDAP pool
          MaxConnections,    \* LDAPConfig.MaxConnections
          MaxUses,           \* bound: calls of getConnection
          Capacity,          \* BulkSize * 2
          MaxEvents          \* bound: events published

VARIABLES file, edits,        \* master.yaml and the number of edits of it
          config, lastHash,   \* the controller's configuration, the last hash
          services, active,   \* runners by name, those with live connections
          listeners,          \* open sockets by name
          load, failed,       \* the reload under way, a step of one has failed
          idle, connCount,    \* pooled connections, the slots counted
          caller, uses, dead, \* the callers; broken connections in the pool
          events, bulk, stats, closed

masterVars == <<file, edits, config, lastHash, services, active, listeners,
                load, failed>>
poolVars == <<idle, connCount, caller, uses, dead>>
indexVars == <<events, bulk, stats, closed>>

(***************************************************************************)
(* The controller.  A service is disabled, incomplete (Bad), or has a      *)
(* listen address, a setting that restarts it and a connection limit that  *)
(* does not.                                                               *)
(***************************************************************************)
Off == [on |-> FALSE, listen |-> "", mode |-> 0, limit |-> 0]
Bad == [Off EXCEPT !.on = TRUE]
Service ==
  {Off} \cup [on : {TRUE}, listen : Addresses, mode : {0, 1}, limit : {1, 2}]
NoReload == [at |-> "none"]

Validate(c) == \A n \in Names : c[n] # Bad

GetEnabledServices(c) == {n \in Names : c[n].on}

(* Two entries of the socket table cannot hold one address.                *)
Free(addr, open) == \A n \in DOMAIN open : open[n] # addr

(* Start's loop over a map: any order, and the first error ends it, so the *)
(* services started before it stay.                                        *)
MasterInit ==
  /\ config \in [Names -> Service] /\ file = config /\ lastHash = config
  /\ \A m, n \in GetEnabledServices(config) :
        m # n => config[m].listen # config[n].listen
  /\ services = [n \in GetEnabledServices(config) |-> config[n]]
  /\ listeners = [n \in GetEnabledServices(config) |-> config[n].listen]
  /\ active = {} /\ load = NoReload /\ failed = FALSE /\ edits = 0

(* The administrator writes the file.                                      *)
Edit ==
  /\ edits < MaxEdits
  /\ \E n \in Names, s \in Service \cup {Bad} : file' = [file EXCEPT ![n] = s]
  /\ edits' = edits + 1
  /\ UNCHANGED <<config, lastHash, services, active, listeners, load, failed>>

(* Run: a connection is accepted on an open listener; handleConnection     *)
(* ends.                                                                   *)
Connect(n) ==
  /\ n \in DOMAIN listeners
  /\ n \notin active
  /\ active' = active \cup {n}
  /\ UNCHANGED <<file, edits, config, lastHash, services, listeners, load, failed>>

Disconnect(n) ==
  /\ n \in active
  /\ active' = active \ {n}
  /\ UNCHANGED <<file, edits, config, lastHash, services, listeners, load, failed>>

(* serviceConfigChanged does not look at MaxConnections.                   *)
serviceConfigChangedMode(old, new) == old.mode # new.mode

serviceConfigChanged(old, new) ==
  old.listen # new.listen \/ old.mode # new.mode

(* The watcher's tick: the file is hashed, and read again when the hash    *)
(* differs; if what is read is valid Reload begins, with the hash of what  *)
(* was read first.  An invalid file is tried again at every tick.          *)
Tick ==
  /\ load = NoReload
  /\ file # lastHash
  /\ load' = [at |-> "hashed", hash |-> file]
  /\ UNCHANGED <<file, edits, config, lastHash, services, active, listeners, failed>>

reloadFromFile ==
  /\ load.at = "hashed"
  /\ LET old == GetEnabledServices(config)
         new == GetEnabledServices(file)
     IN load' = IF ~Validate(file) THEN NoReload
                ELSE [at |-> "apply", hash |-> load.hash, new |-> file,
                      stop |-> old \ new, start |-> new \ old,
                      restart |-> {n \in old \cap new :
                                     serviceConfigChanged(config[n], file[n])}]
  /\ UNCHANGED <<file, edits, config, lastHash, services, active, listeners, failed>>

(* stopService: the listener goes first; the runner only when its          *)
(* connections end within 30 s.                                            *)
Stopped(n) ==
  /\ listeners' = Restrict(listeners, DOMAIN listeners \ {n})
  /\ services' = IF n \in active THEN services
                 ELSE Restrict(services, DOMAIN services \ {n})

StopOld(n) ==
  /\ load.at = "apply" /\ n \in load.stop
  /\ IF n \in DOMAIN services THEN Stopped(n)
     ELSE UNCHANGED <<services, listeners>>
  /\ failed' = (failed \/ n \in active \/ n \notin DOMAIN services)
  /\ load' = [load EXCEPT !.stop = @ \ {n}]
  /\ UNCHANGED <<file, edits, config, lastHash, active>>

(* startService on sockets `open': Listen fails on an address in use; the  *)
(* error leaves Reload, and the old configuration stays in place.  A new   *)
(* runner has no connections yet.                                          *)
Started(n, open, running) ==
  LET s == load.new[n]
  IN IF Free(s.listen, open)
     THEN /\ listeners' = (n :> s.listen) @@ open
          /\ services' = (n :> s) @@ running
          /\ active' = active \ {n}
          /\ UNCHANGED failed
     ELSE /\ listeners' = open /\ services' = running
          /\ failed' = TRUE
          /\ UNCHANGED active

Began(n, open) == Free(load.new[n].listen, open)

StartNew(n) ==
  /\ load.at = "apply" /\ load.stop = {} /\ n \in load.start
  /\ Started(n, listeners, services)
  /\ load' = IF Began(n, listeners) THEN [load EXCEPT !.start = @ \ {n}]
             ELSE NoReload
  /\ UNCHANGED <<file, edits, config, lastHash>>

(* Restart: a stop that fails is skipped, the old runner staying.          *)
Restart(n) ==
  /\ load.at = "apply" /\ load.stop = {} /\ load.start = {}
  /\ n \in load.restart
  /\ IF n \in active \/ n \notin DOMAIN services
     THEN /\ IF n \in DOMAIN services THEN Stopped(n)
             ELSE UNCHANGED <<services, listeners>>
          /\ failed' = TRUE /\ UNCHANGED active
          /\ load' = [load EXCEPT !.restart = @ \ {n}]
     ELSE LET open == Restrict(listeners, DOMAIN listeners \ {n})
          IN /\ Started(n, open, Restrict(services, DOMAIN services \ {n}))
             /\ load' = IF Began(n, open) THEN [load EXCEPT !.restart = @ \ {n}]
                        ELSE NoReload
  /\ UNCHANGED <<file, edits, config, lastHash>>

Installed ==
  /\ load.at = "apply"
  /\ load.stop = {} /\ load.start = {} /\ load.restart = {}
  /\ config' = load.new /\ lastHash' = load.hash
  /\ load' = NoReload
  /\ UNCHANGED <<file, edits, services, active, listeners, failed>>

MasterNext ==
  \/ Edit \/ Tick \/ reloadFromFile \/ Installed
  \/ \E n \in Names : \/ Connect(n) \/ Disconnect(n)
                      \/ StopOld(n) \/ StartNew(n) \/ Restart(n)

(* Reload (master.go:209): while no stop has timed out and no address was  *)
(* taken, between reloads exactly the enabled services of the controller's *)
(* configuration run, each listening on its configured address with the    *)
(* settings serviceConfigChanged compares; the limit of connections, which *)
(* it does not, is the one the runner was started with.  Whatever failed,  *)
(* an open listener always has a runner that was started for its address,  *)
(* on an address of its own.                                               *)
ReloadExact ==
  /\ load = NoReload /\ ~failed =>
       /\ DOMAIN services = GetEnabledServices(config)
       /\ DOMAIN listeners = DOMAIN services
       /\ \A n \in DOMAIN services :
            /\ services[n].listen = config[n].listen
            /\ services[n].mode = config[n].mode
            /\ listeners[n] = config[n].listen
  /\ DOMAIN listeners \subseteq DOMAIN services
  /\ \A n \in DOMAIN listeners : listeners[n] = services[n].listen
  /\ \A m, n \in DOMAIN listeners : m # n => listeners[m] # listeners[n]

(***************************************************************************)
(* The LDAP connection pool.  `idle' counts the channel's connections,     *)
(* `dead' those of them whose server has gone.  A slot is counted in       *)
(* connCount when a connection is about to be created, and is not given    *)
(* back when the creation fails.                                           *)
(***************************************************************************)
PoolSize == IF MaxConnections = 0 THEN 10 ELSE MaxConnections

(* newLDAPConnectionPool: two connections, each may fail.                  *)
PoolInit ==
  /\ idle \in 0..2 /\ connCount = idle
  /\ caller = [c \in Callers |-> "out"]
  /\ uses = 0 /\ dead = 0

(* A server restart breaks every pooled connection.                        *)
Break ==
  /\ dead < idle
  /\ dead' = idle
  /\ UNCHANGED <<idle, connCount, caller, uses>>

(* getConnection takes a pooled connection and tests it; a dead one is     *)
(* closed and replaced by a creation that uses its slot.                   *)
Take(c) ==
  /\ caller[c] = "out" /\ uses < MaxUses /\ idle > 0
  /\ idle' = idle - 1 /\ uses' = uses + 1
  /\ \/ dead < idle /\ caller' = [caller EXCEPT ![c] = "held"] /\ UNCHANGED dead
     \/ dead > 0 /\ caller' = [caller EXCEPT ![c] = "creating"] /\ dead' = dead - 1
  /\ UNCHANGED connCount

MayCreateLate == connCount <= MaxConnections

MayCreate == connCount < MaxConnections

(* The pool is empty: a slot is counted under the lock, or the caller      *)
(* waits on the channel.                                                   *)
Miss(c) ==
  /\ caller[c] = "out" /\ uses < MaxUses /\ idle = 0
  /\ uses' = uses + 1
  /\ IF MayCreate
     THEN connCount' = connCount + 1 /\ caller' = [caller EXCEPT ![c] = "creating"]
     ELSE caller' = [caller EXCEPT ![c] = "waiting"] /\ UNCHANGED connCount
  /\ UNCHANGED <<idle, dead>>

(* createConnection: dialled and bound, or an error that keeps the slot.   *)
Create(c) ==
  /\ caller[c] = "creating"
  /\ \E r \in {"held", "out"} : caller' = [caller EXCEPT ![c] = r]
  /\ UNCHANGED <<idle, connCount, uses, dead>>

(* A waiting caller takes what is returned, without testing it.            *)
Wake(c) ==
  /\ caller[c] = "waiting" /\ idle > 0
  /\ caller' = [caller EXCEPT ![c] = "held"]
  /\ idle' = idle - 1
  /\ dead' = IF dead = idle THEN dead - 1 ELSE dead
  /\ UNCHANGED <<connCount, uses>>

(* returnConnection, deferred by every user of the pool.                   *)
Return(c) ==
  /\ caller[c] = "held"
  /\ caller' = [caller EXCEPT ![c] = "out"]
  /\ IF idle < PoolSize
     THEN idle' = idle + 1 /\ UNCHANGED connCount
     ELSE connCount' = connCount - 1 /\ UNCHANGED idle
  /\ UNCHANGED <<uses, dead>>

PoolNext ==
  \/ Break
  \/ \E c \in Callers : Take(c) \/ Miss(c) \/ Create(c) \/ Wake(c) \/ Return(c)

InState(s) == Cardinality({c \in Callers : caller[c] = s})

(* getConnection (nextmailhop.go:109): connections pooled, in use or being *)
(* created never exceed the slots counted, and the slots never exceed the  *)
(* configured maximum, so the pool never opens more connections than the   *)
(* administrator allowed; and a caller waits only when every slot is       *)
(* counted.                                                                *)
PoolBounded ==
  /\ idle + InState("held") + InState("creating") <= connCount
  /\ MaxConnections >= 2 => connCount <= MaxConnections
  /\ InState("waiting") > 0 => connCount >= MaxConnections

(***************************************************************************)
(* The indexer.  `events' counts the channel, `bulk' the items handed to   *)
(* the bulk library and not yet reported; stats as GetStats reports them,  *)
(* with the events published.                                              *)
(***************************************************************************)
IndexInit ==
  /\ events = 0 /\ bulk = 0 /\ closed = "no"
  /\ stats = [published |-> 0, indexed |-> 0, failed |-> 0, dropped |-> 0]

Counted(field) == [stats EXCEPT ![field] = @ + 1]

Uncounted == [stats EXCEPT !.published = @ + 1]
Dropped == [stats EXCEPT !.published = @ + 1, !.dropped = @ + 1]

(* PublishEvent never blocks: an event sampled out, or finding the channel *)
(* full, is dropped.                                                       *)
PublishSilently ==
  /\ stats.published < MaxEvents
  /\ IF events < Capacity THEN events' = events + 1 /\ stats' = Uncounted
     ELSE stats' = Uncounted /\ UNCHANGED events
  /\ UNCHANGED <<bulk, closed>>

Publish ==
  /\ stats.published < MaxEvents
  /\ \/ stats' = Dropped /\ UNCHANGED events
     \/ /\ events < Capacity
        /\ events' = events + 1 /\ stats' = Uncounted
  /\ UNCHANGED <<bulk, closed>>

(* processEvent: marshalling or the bulk library's Add may fail, the       *)
(* latter also by the context that Close cancels.                          *)
Process ==
  /\ events > 0 /\ closed \in {"no", "cancelled"}
  /\ events' = events - 1
  /\ \/ stats' = Counted("failed") /\ UNCHANGED bulk
     \/ bulk' = bulk + 1 /\ UNCHANGED stats
  /\ UNCHANGED closed

(* The library reports each item once, by OnSuccess or OnFailure.          *)
Report ==
  /\ bulk > 0
  /\ bulk' = bulk - 1
  /\ \E f \in {"indexed", "failed"} : stats' = Counted(f)
  /\ UNCHANGED <<events, closed>>

(* Close: cancel; the processor may go on while both cases of its select   *)
(* are ready; then the bulk library is flushed.  What is in the channel    *)
(* when the processor leaves stays there.                                  *)
Close ==
  /\ \/ closed = "no" /\ closed' = "cancelled"
     \/ closed = "cancelled" /\ closed' = "flushing"
     \/ closed = "flushing" /\ bulk = 0 /\ closed' = "closed"
  /\ UNCHANGED <<events, bulk, stats>>

IndexNext == Publish \/ Process \/ Report \/ Close

(* PublishEvent and the callbacks (indexer.go:92,119): each published      *)
(* event is in the channel, with the bulk library, or counted exactly once *)
(* as indexed, failed or dropped, across sampling, a full channel, errors  *)
(* and Close.  Close returns with nothing left at the library; the events  *)
(* that it abandons in the channel, which no statistic counts, are at most *)
(* one channel full, also when mail goes on publishing.                    *)
EventsCounted ==
  LET counted == stats.indexed + stats.failed + stats.dropped
  IN /\ stats.published = events + bulk + counted
     /\ closed = "closed" => bulk = 0 /\ stats.published - counted <= Capacity
=============================================================================

------------------------------ MODULE Registry ------------------------------
(***************************************************************************)
(* The registries of the admin API (internal/api): filters and the chains  *)
(* made of them, listeners, and the interfaces bound to both (the wiring), *)
(* and the tenants with their aliases (the names).  Every manager has a    *)
(* lock of its own, so an operation of one manager is a step; an interface *)
(* operation asks the other managers while it holds its own lock.  A       *)
(* request without an id gets one made of the clock: it may be any id,     *)
(* taken ones included.  A refused request changes nothing.                *)
(***************************************************************************)
EXTENDS Naturals, Sequences, FiniteSets

CONSTANTS
    FilterIds, ChainIds, ListenerIds, InterfaceIds,
    FilterBodies,       \* filters a request may carry: [named, type, config]
    ListenerBodies,     \* listeners one may carry: [address, port, tls, pair]
    TenantIds, AliasIds, Sources, Destinations

None == "none"

VARIABLES
    filters,            \* FilterManager.filters
    chains,             \* FilterManager.chains: the filters each one names
    listeners,          \* ListenerManager.listeners
    interfaces,         \* InterfaceManager.interfaces
    deleted,            \* history: ids of listeners and chains deleted so far
    tenants,            \* TenantManager.tenants: the status of each
    aliases,            \* AliasManager.aliases
    homes               \* history: the tenant each living alias was created in

wiringVars == <<filters, chains, listeners, interfaces, deleted>>
nameVars == <<tenants, aliases, homes>>

-----------------------------------------------------------------------------
Put(m, k, v) == [x \in DOMAIN m \cup {k} |-> IF x = k THEN v ELSE m[x]]
Drop(m, k) == [x \in DOMAIN m \ {k} |-> m[x]]

Create(m, k) == k \notin DOMAIN m
Update(m, k) == k \in DOMAIN m

(* Filters and chains: one manager, one lock.                              *)

\* validateFilter.  A filter that needs a setting must bring it; the check
\* of spf and dkim writes a default, which fails when no config was sent.
validateFilter(f) ==
    /\ f.named /\ f.type # ""
    /\ f.type \in {"spf", "dkim"} => f.config # "nil"
    /\ f.type \in {"rbl", "starlark"} => f.config = "set"

CreateFilter(id, f) == Create(filters, id) /\ validateFilter(f) /\ filters' = Put(filters, id, f.type)
UpdateFilter(id, f) == Update(filters, id) /\ validateFilter(f) /\ filters' = Put(filters, id, f.type)

\* Mutant: the filter goes although a chain names it.
DeleteFilterUsed(id) == Update(filters, id) /\ filters' = Drop(filters, id)

DeleteFilter(id) ==
    /\ Update(filters, id)
    /\ \A c \in DOMAIN chains : id \notin chains[c]
    /\ filters' = Drop(filters, id)

CreateFilterChain(id, F) == Create(chains, id) /\ F \subseteq DOMAIN filters /\ chains' = Put(chains, id, F)
UpdateFilterChain(id, F) == Update(chains, id) /\ F \subseteq DOMAIN filters /\ chains' = Put(chains, id, F)
DeleteFilterChain(id) == Update(chains, id) /\ chains' = Drop(chains, id) /\ deleted' = deleted \cup {id}

HandleCreateFilter == \E id \in FilterIds, f \in FilterBodies : CreateFilter(id, f)
HandleUpdateFilter == \E id \in FilterIds, f \in FilterBodies : UpdateFilter(id, f)
HandleDeleteFilter == \E id \in FilterIds : DeleteFilter(id)
HandleCreateFilterChain == \E id \in ChainIds, F \in SUBSET FilterIds : CreateFilterChain(id, F)
HandleUpdateFilterChain == \E id \in ChainIds, F \in SUBSET FilterIds : UpdateFilterChain(id, F)
HandleDeleteFilterChain == \E id \in ChainIds : DeleteFilterChain(id)

FilterNext ==
    /\ \/ (HandleCreateFilter \/ HandleUpdateFilter \/ HandleDeleteFilter) /\ UNCHANGED <<chains, deleted>>
       \/ (HandleCreateFilterChain \/ HandleUpdateFilterChain) /\ UNCHANGED <<filters, deleted>>
       \/ HandleDeleteFilterChain /\ UNCHANGED filters
    /\ UNCHANGED <<listeners, interfaces>>

(* Listeners: the manager does not ask who binds them.                     *)

\* pair: both the certificate and its key are given.
validateListenerConfig(l) == l.address /\ l.port \in 1 .. 65535 /\ (l.tls => l.pair)

CreateListener(id, l) == Create(listeners, id) /\ validateListenerConfig(l) /\ listeners' = Put(listeners, id, l)
UpdateListener(id, l) == Update(listeners, id) /\ validateListenerConfig(l) /\ listeners' = Put(listeners, id, l)
DeleteListener(id) == Update(listeners, id) /\ listeners' = Drop(listeners, id) /\ deleted' = deleted \cup {id}

HandleCreateListener == \E id \in ListenerIds, l \in ListenerBodies : CreateListener(id, l)
HandleUpdateListener == \E id \in ListenerIds, l \in ListenerBodies : UpdateListener(id, l)
HandleDeleteListener == \E id \in ListenerIds : DeleteListener(id)

ListenerNext ==
    /\ \/ (HandleCreateListener \/ HandleUpdateListener) /\ UNCHANGED deleted
       \/ HandleDeleteListener
    /\ UNCHANGED <<filters, chains, interfaces>>

(* Interfaces.                                                             *)

Interface(active, ids, chain) == [active |-> active, listeners |-> ids, chain |-> chain]

\* validateInterface: what an interface names must exist now.  No policy
\* can be created, so an interface that names one is refused.
validateInterface(i) == i.listeners \subseteq DOMAIN listeners /\ (i.chain # None => i.chain \in DOMAIN chains)

CreateInterface(id, i) == Create(interfaces, id) /\ validateInterface(i) /\ interfaces' = Put(interfaces, id, i)
UpdateInterface(id, i) == Update(interfaces, id) /\ validateInterface(i) /\ interfaces' = Put(interfaces, id, i)

DeleteInterface(id) ==
    Update(interfaces, id) /\ ~interfaces[id].active /\ interfaces' = Drop(interfaces, id)

\* Mutant: the listener is not looked up.
BindListenerUnseen(id, l) ==
    /\ Update(interfaces, id) /\ l \notin interfaces[id].listeners
    /\ interfaces' = [interfaces EXCEPT ![id].listeners = @ \cup {l}]

BindListener(id, l) ==
    /\ Update(interfaces, id) /\ l \in DOMAIN listeners /\ l \notin interfaces[id].listeners
    /\ interfaces' = [interfaces EXCEPT ![id].listeners = @ \cup {l}]

UnbindListener(id, l) ==
    /\ Update(interfaces, id) /\ l \in interfaces[id].listeners
    /\ interfaces' = [interfaces EXCEPT ![id].listeners = @ \ {l}]

BindFilterChain(id, c) ==
    /\ Update(interfaces, id) /\ c \in DOMAIN chains
    /\ interfaces' = [interfaces EXCEPT ![id].chain = c]

\* What a request may carry.
Bodies == {Interface(active, L, c) : active \in BOOLEAN, L \in SUBSET ListenerIds, c \in ChainIds \cup {None}}

HandleCreateInterface == \E id \in InterfaceIds, i \in Bodies : CreateInterface(id, i)
HandleUpdateInterface == \E id \in InterfaceIds, i \in Bodies : UpdateInterface(id, i)
HandleDeleteInterface == \E id \in InterfaceIds : DeleteInterface(id)
HandleBindListener == \E id \in InterfaceIds, l \in ListenerIds : BindListener(id, l)
HandleUnbindListener == \E id \in InterfaceIds, l \in ListenerIds : UnbindListener(id, l)

InterfaceNext ==
    /\ \/ HandleCreateInterface \/ HandleUpdateInterface \/ HandleDeleteInterface
       \/ HandleBindListener \/ HandleUnbindListener
       \/ \E id \in InterfaceIds, c \in ChainIds : BindFilterChain(id, c)
    /\ UNCHANGED <<filters, chains, listeners, deleted>>

\* GetInterfaceDetails shows what an interface names and still exists.
GetInterfaceDetails(id) ==
    [listeners |-> interfaces[id].listeners \cap DOMAIN listeners,
     chain |-> IF interfaces[id].chain \in DOMAIN chains THEN interfaces[id].chain ELSE None]

WiringInit == filters = <<>> /\ chains = <<>> /\ listeners = <<>> /\ interfaces = <<>> /\ deleted = {}
WiringNext == FilterNext \/ ListenerNext \/ InterfaceNext

-----------------------------------------------------------------------------
(* Tenants and aliases.                                                    *)

CreateTenant(id) == Create(tenants, id) /\ tenants' = Put(tenants, id, "active")

\* The request's record replaces the tenant's, its status included.
UpdateTenant(id, status) == Update(tenants, id) /\ tenants' = Put(tenants, id, status)

DeleteTenant(id) == Update(tenants, id) /\ tenants' = Put(tenants, id, "deleted")

HandleCreateTenant == \E id \in TenantIds : CreateTenant(id)
HandleUpdateTenant == \E id \in TenantIds, s \in {"", "active", "suspended", "deleted"} : UpdateTenant(id, s)
HandleDeleteTenant == \E id \in TenantIds : DeleteTenant(id)

Alias(s, d, t, active) == [source |-> s, destination |-> d, tenant |-> t, active |-> active]

\* isValidEmail: an address is valid or it is None here.
isValidEmail(a) == a # None

CreateAlias(id, a) ==
    /\ isValidEmail(a.source) /\ isValidEmail(a.destination) /\ Create(aliases, id)
    /\ \A e \in DOMAIN aliases : ~(aliases[e].source = a.source /\ aliases[e].tenant = a.tenant)
    /\ aliases' = Put(aliases, id, [a EXCEPT !.active = TRUE])
    /\ homes' = Put(homes, id, a.tenant)

\* Mutant: the tenant of the request's body is taken.
UpdateAliasMoved(id, a) ==
    /\ Update(aliases, id) /\ isValidEmail(a.source) /\ isValidEmail(a.destination)
    /\ aliases' = Put(aliases, id, a)
    /\ UNCHANGED homes

\* The source is not compared with those of the other aliases.
UpdateAlias(id, a) ==
    /\ Update(aliases, id) /\ isValidEmail(a.source) /\ isValidEmail(a.destination)
    /\ aliases' = Put(aliases, id, [a EXCEPT !.tenant = aliases[id].tenant])
    /\ UNCHANGED homes

DeleteAlias(id) == Update(aliases, id) /\ aliases' = Drop(aliases, id) /\ homes' = Drop(homes, id)

\* The routes carry no tenant of their own: the body says which.
HandleCreateAlias ==
    \E id \in AliasIds, s \in Sources \cup {None}, d \in Destinations, t \in TenantIds :
        CreateAlias(id, Alias(s, d, t, FALSE))
HandleUpdateAlias ==
    \E id \in AliasIds, s \in Sources, d \in Destinations, t \in TenantIds, b \in BOOLEAN :
        UpdateAlias(id, Alias(s, d, t, b))
HandleDeleteAlias == \E id \in AliasIds : DeleteAlias(id)

\* ResolveAlias: the answers a scan of the map in any order may give.
ResolveAlias(s, t) ==
    {aliases[id].destination : id \in {x \in DOMAIN aliases :
        aliases[x].source = s /\ aliases[x].tenant = t /\ aliases[x].active}}

NameInit == tenants = <<>> /\ aliases = <<>> /\ homes = <<>>

NameNext ==
    \/ (HandleCreateTenant \/ HandleUpdateTenant \/ HandleDeleteTenant) /\ UNCHANGED <<aliases, homes>>
    \/ (HandleCreateAlias \/ HandleUpdateAlias \/ HandleDeleteAlias) /\ UNCHANGED tenants

-----------------------------------------------------------------------------
(* Properties.                                                             *)

\* Every filter a chain names exists, whatever order filters and chains are
\* created, changed and deleted in.  (DeleteFilter: "Check if filter is used
\* in any chains")
ChainsWhole == \A c \in DOMAIN chains : chains[c] \subseteq DOMAIN filters

\* What an interface names and its details leave out was deleted: no binding
\* to something never registered gets in.  (BindListener, validateInterface)
BindingsExplained ==
    \A i \in DOMAIN interfaces :
        /\ interfaces[i].listeners \ GetInterfaceDetails(i).listeners \subseteq deleted
        /\ interfaces[i].chain # GetInterfaceDetails(i).chain => interfaces[i].chain \in deleted

\* An alias answers for the tenant it was created in and for no other.
\* (UpdateAlias: "Preserve creation time and tenant", ResolveAlias)
AliasesHome ==
    /\ DOMAIN homes = DOMAIN aliases
    /\ \A s \in Sources, t \in TenantIds :
         ResolveAlias(s, t) \subseteq {aliases[id].destination : id \in {x \in DOMAIN homes : homes[x] = t}}
=============================================================================

--------------------------------- MODULE Amp ---------------------------------
(***************************************************************************)
(* AfterSMTP (internal/aftersmtp, internal/aftersmtplib): clients that log *)
(* in by signing a challenge, messages delivered over gRPC and QUIC while  *)
(* identities change and the service stops, and the SMTP bridge session.   *)
(***************************************************************************)
EXTENDS Naturals, FiniteSets

CONSTANTS
    DIDs, Keys,         \* identities and signing keys
    MaxNonces,          \* bound: challenges issued
    Lifetime, MaxTime,  \* of a challenge; bound on the clock
    Logins,             \* calls of Authenticate: [did, key]
    Messages,           \* deliveries: [id, from, to, signer, via]
    MaxStreams,         \* streams of a QUIC connection handled at once
    MaxChanges,         \* bound: identities published
    Addresses           \* addresses of a bridge session

None == "none"

VARIABLES
    identities,         \* ledger: the key of each identity and whether it is revoked
    held,               \* history: the keys each identity ever had
    changes,            \* identities published so far
    challenges,         \* the challenge kept for each identity
    issued,             \* history: challenges with the identity they were issued to
    login,              \* calls of Authenticate
    tokens,             \* tokens handed out
    now,
    delivery,           \* deliveries and how far each one is
    queue,              \* messages the queue manager took
    life,               \* the service: "up", "stopping" or "down"
    session             \* an SMTP bridge session and what it delivered

loginVars == <<challenges, issued, login, tokens, now>>
ledgerVars == <<identities, held, changes>>
deliveryVars == <<delivery, queue, life>>
ampVars == <<ledgerVars, loginVars, deliveryVars>>

-----------------------------------------------------------------------------
(* The ledger, in its SQLite form.                                         *)

NoIdentity == [key |-> None, revoked |-> FALSE]
NoChallenge == [nonce |-> 0, expires |-> 0]

AmpInit ==
    /\ identities = [d \in DIDs |-> NoIdentity] /\ held = [d \in DIDs |-> {}] /\ changes = 0
    /\ challenges = [d \in DIDs |-> NoChallenge] /\ issued = {} /\ tokens = {} /\ now = 0
    /\ login = [l \in Logins |-> [at |-> "new", nonce |-> 0]]
    /\ delivery = [m \in Messages |-> "new"] /\ queue = {} /\ life = "up"

\* RegisterIdentity publishes keys; revocations reach the ledger from outside.
PublishIdentity ==
    /\ changes < MaxChanges /\ life = "up"
    /\ \E d \in DIDs, k \in Keys, revoked \in BOOLEAN :
          /\ identities' = [identities EXCEPT ![d] = [key |-> k, revoked |-> revoked]]
          /\ held' = [held EXCEPT ![d] = IF revoked THEN @ ELSE @ \union {k}]
    /\ changes' = changes + 1
    /\ UNCHANGED <<loginVars, deliveryVars>>

\* ResolveDID refuses unknown and revoked identities.
Resolves(d) == identities[d] # NoIdentity /\ ~identities[d].revoked

-----------------------------------------------------------------------------
(* Logging in.                                                             *)

RequestChallenge ==
    /\ Cardinality(issued) < MaxNonces
    /\ \E d \in DIDs :
       LET nonce == Cardinality(issued) + 1
       IN  /\ challenges' = [challenges EXCEPT ![d] = [nonce |-> nonce, expires |-> now + Lifetime]]
           /\ issued' = issued \union {[did |-> d, nonce |-> nonce, expires |-> now + Lifetime]}
    /\ UNCHANGED <<login, tokens, now, ledgerVars, deliveryVars>>

\* Mutant: a challenge found is taken without a look at its clock.
ExpiredNever(d) == FALSE

Expired(d) == now > challenges[d].expires

\* The challenge sent back is the one kept, or not; an expired one is dropped.
Check(l) ==
    /\ login[l].at = "new"
    /\ \E nonce \in {i.nonce : i \in issued} :
       LET kept == challenges[l.did]
       IN  /\ login' = [login EXCEPT ![l] =
                           [at |-> IF kept # NoChallenge /\ ~Expired(l.did) /\ kept.nonce = nonce THEN "checked" ELSE "refused",
                            nonce |-> nonce]]
           /\ challenges' = IF kept # NoChallenge /\ Expired(l.did)
                            THEN [challenges EXCEPT ![l.did] = NoChallenge] ELSE challenges
    /\ UNCHANGED <<issued, tokens, now, ledgerVars, deliveryVars>>

\* The signature is checked against the ledger; the challenge kept by then is consumed.
Authenticate(l) ==
    /\ login[l].at = "checked"
    /\ IF Resolves(l.did) /\ identities[l.did].key = l.key
       THEN /\ tokens' = tokens \union {[did |-> l.did, key |-> l.key, nonce |-> login[l].nonce, call |-> l]}
            /\ challenges' = [challenges EXCEPT ![l.did] = NoChallenge]
            /\ login' = [login EXCEPT ![l].at = "done"]
       ELSE login' = [login EXCEPT ![l].at = "refused"] /\ UNCHANGED <<tokens, challenges>>
    /\ UNCHANGED <<issued, now, ledgerVars, deliveryVars>>

Tick ==
    /\ now < MaxTime /\ now' = now + 1
    /\ UNCHANGED <<challenges, issued, login, tokens, ledgerVars, deliveryVars>>

-----------------------------------------------------------------------------
(* Deliveries.                                                             *)

Streams == {m \in Messages : m.via = "quic" /\ delivery[m] \in {"verify", "enqueue", "answer"}}

\* Mutant: the stream takes no slot.
RoomAlways(m) == TRUE

Room(m) == m.via = "quic" => Cardinality(Streams) < MaxStreams

Step(m, to) == delivery' = [delivery EXCEPT ![m] = to]

Accept(m) ==
    /\ delivery[m] = "new" /\ life = "up" /\ Room(m)
    /\ Step(m, "verify")
    /\ UNCHANGED <<queue, life, ledgerVars, loginVars>>

\* The sender is resolved and the signature verified.
Verify(m) ==
    /\ delivery[m] = "verify"
    /\ Step(m, IF Resolves(m.from) /\ identities[m.from].key = m.signer
               THEN (IF m.via = "grpc" THEN "recipient" ELSE "enqueue") ELSE "refused")
    /\ UNCHANGED <<queue, life, ledgerVars, loginVars>>

\* gRPC only: the recipient is resolved and a proof made.
DeliverMessage(m) ==
    /\ delivery[m] = "recipient"
    /\ Step(m, IF Resolves(m.to) THEN "enqueue" ELSE "refused")
    /\ UNCHANGED <<queue, life, ledgerVars, loginVars>>

\* Mutant: what the queue manager says is not looked at.
routingCallbackHopes(m) ==
    /\ delivery[m] = "enqueue"
    /\ \E ok \in BOOLEAN : queue' = (IF ok THEN queue \union {m} ELSE queue) /\ Step(m, "answer")
    /\ UNCHANGED <<life, ledgerVars, loginVars>>

\* OnMessageDelivered: the queue manager may refuse.
routingCallback(m) ==
    /\ delivery[m] = "enqueue"
    /\ \/ queue' = queue \union {m} /\ Step(m, "answer")
       \/ UNCHANGED queue /\ Step(m, "refused")
    /\ UNCHANGED <<life, ledgerVars, loginVars>>

\* The response, or the OK on the stream, is sent; it may be lost.
Respond(m) ==
    /\ delivery[m] = "answer"
    /\ Step(m, "ok") \/ Step(m, "lost")
    /\ UNCHANGED <<queue, life, ledgerVars, loginVars>>

\* Shutdown ends the accept loops at once and waits for gRPC calls, not for streams.
Shutdown ==
    /\ \/ life = "up" /\ life' = "stopping"
       \/ /\ life = "stopping"
          /\ \A m \in Messages : m.via = "grpc" => delivery[m] \in {"new", "refused", "ok", "lost"}
          /\ life' = "down"
    /\ UNCHANGED <<delivery, queue, ledgerVars, loginVars>>

AmpNext ==
    \/ PublishIdentity \/ RequestChallenge \/ Tick \/ Shutdown
    \/ \E l \in Logins : Check(l) \/ Authenticate(l)
    \/ \E m \in Messages : Accept(m) \/ Verify(m) \/ DeliverMessage(m) \/ routingCallback(m) \/ Respond(m)

-----------------------------------------------------------------------------
(* The bridge session (SMTPServer.handleConnection).                       *)

SessionInit ==
    session = [open |-> TRUE, tls |-> FALSE, auth |-> FALSE, sender |-> None, recipient |-> None, inData |-> FALSE,
               lines |-> 0, named |-> [sender |-> None, recipient |-> None], delivered |-> <<None, None, 0>>, replies |-> "220"]

Reply(s, code) == [s EXCEPT !.replies = code]

\* Mutant: the addresses stay for the next message.
TranslatedKeeps(s) == [s EXCEPT !.inData = FALSE, !.delivered = <<s.sender, s.recipient, s.lines>>, !.lines = 0,
                                !.named = [sender |-> None, recipient |-> None], !.replies = "250"]

\* The end of DATA when translation and delivery succeed.
Translated(s) == [s EXCEPT !.inData = FALSE, !.delivered = <<s.sender, s.recipient, s.lines>>, !.lines = 0,
                           !.sender = None, !.recipient = None,
                           !.named = [sender |-> None, recipient |-> None], !.replies = "250"]

DataLine ==
    /\ session.open /\ session.inData
    /\ session' \in {[session EXCEPT !.lines = 1], Translated(session),
                     [Reply(session, "554") EXCEPT !.open = FALSE], [Reply(session, "451") EXCEPT !.open = FALSE]}

Starttls == session' \in {[Reply(session, "220") EXCEPT !.tls = TRUE], Reply(session, "454"), [session EXCEPT !.open = FALSE]}

Auth ==
    session' \in IF session.tls THEN {[Reply(session, "235") EXCEPT !.auth = TRUE], Reply(session, "504"),
                                      Reply(session, "501"), Reply(session, "535")}
                 ELSE {Reply(session, "530")}

\* MAIL, RCPT and DATA, in any order, once authenticated.
Envelope ==
    session' \in IF session.auth
                 THEN {[Reply(session, "250") EXCEPT !.sender = a, !.named.sender = a] : a \in Addresses}
                      \union {[Reply(session, "250") EXCEPT !.recipient = a, !.named.recipient = a] : a \in Addresses}
                      \union {[Reply(session, "354") EXCEPT !.inData = TRUE]}
                 ELSE {Reply(session, "530")}

SessionNext ==
    \/ DataLine
    \/ session.open /\ ~session.inData /\ (Starttls \/ Auth \/ Envelope)
    \/ session.open /\ session' = [session EXCEPT !.open = FALSE]

-----------------------------------------------------------------------------
(* Properties.                                                             *)

\* Authenticate hands out a token only for a challenge that was issued to that
\* identity and had not expired when it was looked up, and only to a key the
\* identity once had, whatever was published and requested meanwhile.
TokensExplained ==
    /\ \A t \in tokens : t.key \in held[t.did] /\ \E i \in issued : i.did = t.did /\ i.nonce = t.nonce
    /\ \A l \in Logins : login[l].at = "checked" =>
          \E i \in issued : i.did = l.did /\ i.nonce = login[l].nonce

\* A challenge is checked before it expires.
ChecksTimely ==
    \A l \in Logins : login[l].at = "new" /\ login'[l].at = "checked" =>
        \E i \in issued : i.did = l.did /\ i.nonce = login'[l].nonce /\ now <= i.expires

\* A sender told that a message was taken is right, whichever transport and
\* however the service stops meanwhile; nothing is queued that a key of its
\* sender did not sign; and a connection never has more streams than slots.
TakenIsQueued ==
    /\ \A m \in Messages : delivery[m] \in {"answer", "ok", "lost"} => m \in queue
    /\ \A m \in queue : m.signer \in held[m.from]
    /\ Cardinality(Streams) <= MaxStreams

\* A bridged message carries the addresses named since the previous message,
\* and is only taken from a session that has TLS and is logged in.
BridgedWhole ==
    /\ session.inData \/ session.auth => session.auth /\ session.tls
    /\ session.open => session.sender = session.named.sender /\ session.recipient = session.named.recipient
=============================================================================

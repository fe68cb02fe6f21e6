----------------------------- MODULE Admission ------------------------------
(***************************************************************************)
(* Who may do what: the server builds its auth provider and its origin     *)
(* policy from the configuration, a client opens a socket, sends tokens,   *)
(* subscribes and publishes, REST clients publish one event or a batch.    *)
(* The server is restarted with another configuration, which is how the    *)
(* token secret is rotated; tokens expire.                                 *)
(*                                                                         *)
(* Sockets and REST calls meet on the bus only: a REST call is made while  *)
(* no socket is open, next to whatever else is published.                  *)
(*                                                                         *)
(* A topic, and the text of a pattern, is the sequence of its segments:    *)
(* "a/" is <<"a", "">>.  A token is a record; verifying its signature and  *)
(* claims is what the jsonwebtoken library does with a key (external).     *)
(***************************************************************************)
EXTENDS Naturals, Sequences, FiniteSets

CONSTANTS Configs,     \* configurations the server is started with
          Tokens,      \* tokens clients hold
          Texts,       \* topic texts in SUBSCRIBE frames
          Topics,      \* topics events are published on
          Origins,     \* Origin headers, NoOrigin included
          NoOrigin,
          MaxTime,     \* bound: the clock
          MaxSubs,     \* bound: subscriptions of the connection
          MaxEvents,   \* bound: events on the bus when another one is published
          MaxBatch     \* events a batch may have (1000)

ASSUME AdmissionAssumption ==
    /\ \A t \in Texts \cup Topics : t \in Seq(STRING) /\ t # <<>>
    /\ MaxTime \in Nat /\ MaxSubs \in Nat /\ MaxEvents \in Nat /\ MaxBatch \in Nat

\* A namespace is the first segment of a topic; none is called "**", which in a
\* pattern takes every topic and which ExtractPatternNamespace leaves as it is
\* when more segments follow.
ASSUME TokenAssumption ==
    Tokens \subseteq [key : Nat, exp : Nat, iss : STRING, namespaces : SUBSET (STRING \ {"**"}),
                      publish : BOOLEAN, subscribe : BOOLEAN]

\* The secrets of a configuration are numbered; no secret is NoKey.
NoKey == 0
ASSUME ConfigAssumption ==
    \A c \in Configs : c.secret \in Nat \ {NoKey} /\ c.previous \in Nat /\ c.requireIssuer \in BOOLEAN

VARIABLES now,       \* the clock
          provider,  \* the auth provider and origin policy in force, or Off
          conn,      \* the socket and the reader's AuthState
          subs,      \* patterns the connection is registered with
          bus,       \* events on the bus, while REST calls are made
          busUp,     \* the bus has a receiver
          rest,      \* the REST call under way, or the last one answered
          \* History.
          granted,   \* namespaces granted by the tokens verified on this socket
          said       \* topics this socket published on

socketVars == <<conn, subs, granted, said>>
restVars == <<bus, busUp, rest>>
vars == <<now, provider, socketVars, restVars>>

Off == [auth |-> "off"]
NoClaims == [namespaces |-> {}, publish |-> FALSE, subscribe |-> FALSE]
NoConn == [open |-> FALSE, authenticated |-> FALSE, claims |-> NoClaims]
Nothing == [subscribe |-> {}, publish |-> {}]
NoCall == [at |-> "idle", events |-> <<>>, done |-> 0, status |-> 0]

Init == /\ now = 0 /\ provider = Off /\ conn = NoConn /\ subs = {}
        /\ bus = <<>> /\ busUp = TRUE /\ rest = NoCall /\ granted = Nothing /\ said = {}

-----------------------------------------------------------------------------
\* Topic patterns.  In the texts a star stands in a segment of its own, alone
\* or doubled.

Parse(text) ==
    CASE \E i \in DOMAIN text : text[i] \in {"*", "**"} -> [kind |-> "Glob", segs |-> text]
      [] ~(\E i \in DOMAIN text : text[i] \in {"*", "**"}) /\ Len(text) > 1
            /\ text[Len(text)] = "" -> [kind |-> "Prefix", segs |-> text]
      [] OTHER -> [kind |-> "Exact", segs |-> text]

\* Segment by segment: "**" takes the rest, "*" one segment.
SegmentsAgree(pat, topic, n) ==
    \A i \in 1 .. n : i <= Len(topic) /\ (pat[i] = "*" \/ pat[i] = topic[i])

GlobMatch(pat, topic) ==
    \/ \E k \in DOMAIN pat : pat[k] = "**" /\ SegmentsAgree(pat, topic, k - 1)
    \/ SegmentsAgree(pat, topic, Len(pat)) /\ Len(pat) = Len(topic)

\* A prefix ends in "/": all its segments but the empty last one.
Matches(p, topic) ==
    CASE p.kind = "Exact"  -> p.segs = topic
      [] p.kind = "Prefix" -> /\ Len(topic) >= Len(p.segs)
                              /\ \A i \in 1 .. Len(p.segs) - 1 : p.segs[i] = topic[i]
      [] p.kind = "Glob"   -> GlobMatch(p.segs, topic)

\* "**" alone stands for every namespace, like "*".
ExtractPatternNamespace(p) ==
    IF p.kind = "Glob" /\ p.segs = <<"**">> THEN "*" ELSE p.segs[1]

\* A grant names the namespace, or is "*" and the namespace is not protected:
\* `protected` has the namespaces that start with a protected prefix.
NamespaceAllowed(claims, ns) ==
    ns \in claims.namespaces \/ ("*" \in claims.namespaces /\ ns \notin provider.protected)

CanSubscribeTo(claims, p) ==
    claims.subscribe /\ NamespaceAllowed(claims, ExtractPatternNamespace(p))

CanPublishTo(claims, topic) == claims.publish /\ NamespaceAllowed(claims, topic[1])

-----------------------------------------------------------------------------
\* The JWT provider.

\* accepted_issuers: blank entries are ignored.
AcceptedIssuers(c) == c.issuers \ {""}

\* An empty, equal or non-HMAC previous secret is none.
BuildPreviousKey(c) ==
    IF c.auth = "hmac" /\ c.previous # c.secret THEN c.previous ELSE NoKey

FallbackPermissive(c) == c.fallback = "permissive" \/ (c.fallback # "deny" /\ c.mode # "max")

\* OriginPolicy::parse: blank entries are ignored, and no entry is no policy.
OriginPolicy(c) == c.origins \ {""}

\* JwtAuthProvider::new; NoAuth protects no namespace and needs no more than its name.
BuildProvider(c) ==
    [auth |-> c.auth, secret |-> c.secret, previous |-> BuildPreviousKey(c),
     issuers |-> AcceptedIssuers(c), requireIssuer |-> c.requireIssuer,
     permissive |-> FallbackPermissive(c), protected |-> IF c.auth = "none" THEN {} ELSE c.protected,
     origins |-> OriginPolicy(c)]

\* NoAuth is refused in the strict mode, unless that is overridden.
Refused(c) == c.auth = "none" /\ c.mode = "max" /\ ~c.allowNoAuth

\* The library: the signature first, then the claims (external).  Its leeway
\* on the expiry is part of exp.
LibraryDecode(tok, key) ==
    CASE tok.key # key -> "signature"
      [] tok.key = key /\ tok.exp < now -> "expired"
      [] OTHER -> IF provider.issuers = {} \/ tok.iss \in provider.issuers
                        \/ (tok.iss = "" /\ ~provider.requireIssuer)
                  THEN "ok" ELSE "issuer"

\* Faulty variant: a token the previous key signed is taken as it is.
DecodeUnchecked(tok) ==
    IF LibraryDecode(tok, provider.secret) = "signature"
    THEN IF tok.key = provider.previous THEN "ok" ELSE "signature"
    ELSE LibraryDecode(tok, provider.secret)

\* The previous key is tried only when the signature was at fault.
Decode(tok) ==
    LET first == LibraryDecode(tok, provider.secret)
    IN  IF first = "signature" /\ provider.previous # NoKey
        THEN LibraryDecode(tok, provider.previous) ELSE first

\* A token without namespaces grants everything or nothing.
BuildAuthClaims(tok) ==
    [namespaces |-> IF tok.namespaces = {} /\ provider.permissive THEN {"*"} ELSE tok.namespaces,
     publish |-> tok.publish, subscribe |-> tok.subscribe]

Verifies(tok) == provider.auth = "none" \/ Decode(tok) = "ok"

Claims(tok) == IF provider.auth = "none"
               THEN [namespaces |-> {"*"}, publish |-> TRUE, subscribe |-> TRUE]
               ELSE BuildAuthClaims(tok)

AuthorizeSubscribe(p) == provider.auth = "none" \/ CanSubscribeTo(conn.claims, p)
AuthorizePublish(topic) == provider.auth = "none" \/ CanPublishTo(conn.claims, topic)

-----------------------------------------------------------------------------
\* The server starts with a configuration, and is restarted with another.
Start(c) ==
    /\ provider = Off /\ ~Refused(c)
    /\ provider' = BuildProvider(c)
    /\ UNCHANGED <<now, socketVars, restVars>>

\* The close path takes the connection's subscriptions with it.
Hangup == conn' = NoConn /\ subs' = {} /\ granted' = Nothing /\ said' = {}

Restart ==
    /\ provider # Off
    /\ provider' = Off /\ bus' = <<>> /\ busUp' = TRUE /\ rest' = NoCall
    /\ Hangup
    /\ UNCHANGED now

Tick == now < MaxTime /\ now' = now + 1 /\ UNCHANGED <<provider, socketVars, restVars>>

\* OriginPolicy::allows, on normalized origins.  No policy, or a handshake
\* without the header, is let through.
Allows(o) == provider.origins = {} \/ o = NoOrigin \/ "*" \in provider.origins
                \/ o \in provider.origins

WsUpgrade(o) ==
    /\ provider # Off /\ ~conn.open /\ Allows(o)
    /\ conn' = [NoConn EXCEPT !.open = TRUE]
    /\ bus' = <<>> /\ rest' = NoCall
    /\ UNCHANGED <<now, provider, subs, granted, said, busUp>>

Close == conn.open /\ Hangup /\ UNCHANGED <<now, provider, restVars>>

\* handle_auth: at any time, as often as the client likes; a refusal hangs up.
Auth(tok) ==
    /\ conn.open
    /\ IF Verifies(tok)
       THEN LET c == Claims(tok)
            IN  /\ conn' = [conn EXCEPT !.authenticated = TRUE, !.claims = c]
                /\ granted' = [subscribe |-> granted.subscribe
                                  \cup (IF c.subscribe THEN c.namespaces ELSE {}),
                               publish |-> granted.publish
                                  \cup (IF c.publish THEN c.namespaces ELSE {})]
                /\ UNCHANGED <<subs, said>>
       ELSE Hangup
    /\ UNCHANGED <<now, provider, restVars>>

\* handle_subscribe.
Subscribe(text) ==
    /\ conn.authenticated /\ AuthorizeSubscribe(Parse(text))
    /\ subs' = subs \cup {Parse(text)}
    /\ Cardinality(subs') <= MaxSubs
    /\ UNCHANGED <<now, provider, conn, granted, said, restVars>>

\* Faulty variant: the batch is authorized by its first item.
SubscribeBatchOnce(texts) ==
    /\ conn.authenticated
    /\ subs' = subs \cup (IF AuthorizeSubscribe(Parse(texts[1]))
                          THEN {Parse(texts[i]) : i \in DOMAIN texts} ELSE {})
    /\ Cardinality(subs') <= MaxSubs
    /\ UNCHANGED <<now, provider, conn, granted, said, restVars>>

\* handle_subscribe_batch: denied items are skipped.
SubscribeBatch(texts) ==
    /\ conn.authenticated
    /\ subs' = subs \cup {p \in {Parse(texts[i]) : i \in DOMAIN texts} : AuthorizeSubscribe(p)}
    /\ Cardinality(subs') <= MaxSubs
    /\ UNCHANGED <<now, provider, conn, granted, said, restVars>>

\* handle_unsubscribe asks for no authentication, and needs none.
Unsubscribe(p) ==
    /\ p \in subs
    /\ subs' = subs \ {p}
    /\ UNCHANGED <<now, provider, conn, granted, said, restVars>>

\* authorize_publish_topic.
AuthorizePublishTopic(topic) == conn.authenticated /\ AuthorizePublish(topic)

\* What is published for the client; a refusal by the bus is only logged.
Say(topic) == /\ busUp
              /\ said' = said \cup {topic}
              /\ UNCHANGED <<now, provider, conn, subs, granted, restVars>>

\* handle_publish.
Publish(e) == AuthorizePublishTopic(e.topic) /\ e.size # "big" /\ Say(e.topic)

\* handle_broadcast wraps the payload first, so less of it fits.
Broadcast(e) == AuthorizePublishTopic(e.topic) /\ e.size = "ok" /\ Say(e.topic)

-----------------------------------------------------------------------------
\* REST: no tokens are asked for.

CanCall == provider # Off /\ ~conn.open /\ rest.at # "sending"

\* A new call; what was on the bus before it is none of its business.
Call(events, at, status) ==
    /\ rest' = [at |-> at, events |-> events, done |-> 0, status |-> status]
    /\ bus' = <<>>
    /\ UNCHANGED <<now, provider, socketVars, busUp>>

\* validate_and_create_envelope: the status of a refusal, or 0.
ValidateEvent(e) == CASE e.topic = <<"">> -> 400
                      [] e.topic # <<"">> /\ e.size = "big" -> 413
                      [] OTHER -> 0

\* validate_batch: the whole batch, before the first event is sent.
ValidateBatch(events) ==
    IF events = <<>> \/ Len(events) > MaxBatch THEN 400
    ELSE IF \E i \in DOMAIN events : events[i].size = "big" THEN 413 ELSE 0

PublishEvent(e) ==
    /\ CanCall
    /\ Call(<<e>>, IF ValidateEvent(e) = 0 THEN "sending" ELSE "answered", ValidateEvent(e))

PublishBatch(events) ==
    /\ CanCall
    /\ Call(events, IF ValidateBatch(events) = 0 THEN "sending" ELSE "answered",
            ValidateBatch(events))

OnBus(from, topic) == bus' = Append(bus, [from |-> from, topic |-> topic])

\* Faulty variant: the events after the one the bus refused are still sent.
SendNextGoesOn ==
    /\ rest.at = "sending" /\ rest.done < Len(rest.events)
    /\ IF busUp THEN OnBus("rest", rest.events[rest.done + 1].topic) ELSE UNCHANGED bus
    /\ rest' = [rest EXCEPT !.done = @ + 1]
    /\ UNCHANGED <<now, provider, socketVars, busUp>>

\* publish_batch of the bus: one event at a time, the first refusal ends it.
SendNext ==
    /\ rest.at = "sending" /\ rest.done < Len(rest.events)
    /\ IF busUp
       THEN /\ OnBus("rest", rest.events[rest.done + 1].topic)
            /\ rest' = [rest EXCEPT !.done = @ + 1]
       ELSE rest' = [rest EXCEPT !.at = "answered", !.status = 500] /\ UNCHANGED bus
    /\ UNCHANGED <<now, provider, socketVars, busUp>>

AllSent ==
    /\ rest.at = "sending" /\ rest.done = Len(rest.events)
    /\ rest' = [rest EXCEPT !.at = "answered", !.status = 200]
    /\ UNCHANGED <<now, provider, socketVars, bus, busUp>>

\* Someone else publishes meanwhile.
OtherEvent(topic) ==
    /\ rest.at = "sending" /\ busUp /\ Len(bus) < MaxEvents
    /\ OnBus("other", topic)
    /\ UNCHANGED <<now, provider, socketVars, busUp, rest>>

\* The bus loses its receiver, or gets one back.
BusChanges ==
    /\ provider # Off
    /\ busUp' = ~busUp
    /\ UNCHANGED <<now, provider, socketVars, bus, rest>>

-----------------------------------------------------------------------------
\* "edge": fits the limit of 64 KB as it is, but not wrapped as a broadcast.
Events == [topic : Topics, size : {"ok", "edge", "big"}]
RestEvents == {e \in Events : e.size # "edge"}
Batches == UNION {[1 .. n -> RestEvents] : n \in 0 .. MaxBatch + 1}

ServerStep == \/ \E c \in Configs : Start(c)
              \/ Restart \/ Tick \/ BusChanges
SocketStep == \/ \E o \in Origins : WsUpgrade(o)
              \/ Close
              \/ \E tok \in Tokens : Auth(tok)
              \/ \E text \in Texts : Subscribe(text)
              \/ \E t1, t2 \in Texts : SubscribeBatch(<<t1, t2>>)
              \/ \E p \in subs : Unsubscribe(p)
              \/ \E e \in Events : Publish(e) \/ Broadcast(e)
RestStep == \/ \E e \in RestEvents : PublishEvent(e)
            \/ \E events \in Batches : PublishBatch(events)
            \/ SendNext \/ AllSent
            \/ \E topic \in Topics : OtherEvent(topic)

Next == ServerStep \/ SocketStep \/ RestStep

Spec == Init /\ [][Next]_vars

-----------------------------------------------------------------------------
\* auth_claims.rs:71: names grant a namespace one by one, or with "*" if it is
\* not a protected one.
Grant(names, ns) == ns \in names \/ ("*" \in names /\ ns \notin provider.protected)

\* A pattern whose first segment is a wildcard.
StartsWild(p) == p.segs[1] \in {"*", "**"}

\* What reaches a client, and what it says, stays within the namespaces that
\* the tokens verified on its socket grant, whatever the form of the pattern,
\* the frame it came in, and the order of AUTH and SUBSCRIBE frames; "*" does
\* not grant a protected namespace.  One exception, for subscriptions only: a
\* holder of "*" may register a pattern that starts with a wildcard, and that
\* pattern also takes topics of protected namespaces (ProtectedNeedsExactGrant
\* is what the code's comments say of it).
WithinGrants ==
    /\ \A p \in subs, topic \in Topics : Matches(p, topic) =>
          \/ Grant(granted.subscribe, topic[1])
          \/ "*" \in granted.subscribe /\ StartsWild(p)
    /\ \A topic \in said : Grant(granted.publish, topic[1])

\* auth_claims.rs:73: "a wildcard token must not reach a `collab:` space it was
\* not explicitly granted", jwt/mod.rs:44.  Not so (README, deviations).
ProtectedNeedsExactGrant ==
    \A p \in subs, topic \in Topics : Matches(p, topic) => Grant(granted.subscribe, topic[1])

\* A token is accepted for as long as it is valid and its key is in use:
\* through one rotation with the previous secret kept, and no longer; the
\* previous key never makes up for a claim the current one would refuse.
RotationKeepsClaimsStrict ==
    provider.auth \in {"hmac", "rsa"} =>
        \A tok \in Tokens : Verifies(tok) <=>
            /\ tok.key \in {provider.secret, provider.previous} \ {NoKey}
            /\ tok.exp >= now
            /\ \/ provider.issuers = {} \/ tok.iss \in provider.issuers
               \/ tok.iss = "" /\ ~provider.requireIssuer

\* How many events of the call are among the first i on the bus.
SentNow(i) == Cardinality({j \in 1 .. i : bus[j].from = "rest"})

\* The client may take a REST answer at its word: 200 means that every event of
\* the call is on the bus, in order; 400 and 413 that none is, whatever others
\* publish meanwhile and whenever the bus goes away and comes back.  An answer
\* of 500 promises nothing (BatchIsAtomic is what protocol.rs says of it).
RestAnswersHonestly ==
    /\ rest.status = 200 =>
          /\ SentNow(Len(bus)) = Len(rest.events)
          /\ \A i \in DOMAIN bus :
                bus[i].from = "rest" => bus[i].topic = rest.events[SentNow(i)].topic
    /\ rest.status \in {400, 413} => SentNow(Len(bus)) = 0

\* protocol.rs:315: the events of a batch are published "atomically": all of
\* them or none.  Not so (README, deviations).
BatchIsAtomic == rest.status = 500 => SentNow(Len(bus)) = 0
=============================================================================

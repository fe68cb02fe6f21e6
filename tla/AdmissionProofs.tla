-------------------------- MODULE AdmissionProofs ---------------------------
(***************************************************************************)
(* For any configurations, tokens, patterns and topics: nothing reaches a  *)
(* client, and nothing is said by it, outside the namespaces granted by    *)
(* the tokens it showed; a rotated secret widens no other check; a REST    *)
(* answer tells what is on the bus.  And for any databases, what a change  *)
(* feed puts on the bus is accounted for.                                  *)
(***************************************************************************)
EXTENDS Admission, Producers, FiniteSetTheorems, TLAPS

Patterns == {Parse(text) : text \in Texts}

\* The namespaces a verified token can grant.
Names == {"*"} \cup UNION {tok.namespaces : tok \in Tokens}

ClaimSet == [namespaces : SUBSET Names, publish : BOOLEAN, subscribe : BOOLEAN]

SocketTypes ==
    /\ conn \in [open : BOOLEAN, authenticated : BOOLEAN, claims : ClaimSet]
    /\ granted \in [subscribe : SUBSET Names, publish : SUBSET Names]
    /\ subs \subseteq Patterns /\ said \subseteq Topics

\* No socket outlives the server that accepted it; NoAuth protects nothing.
OffIsQuiet == /\ provider = Off => ~conn.open /\ ~conn.authenticated /\ subs = {} /\ said = {}
              /\ provider.auth = "none" => provider.protected = {}

\* The claims in force were granted.
ClaimsAreGranted ==
    conn.authenticated =>
        /\ provider.auth = "none" => "*" \in granted.subscribe /\ "*" \in granted.publish
        /\ conn.claims.subscribe => conn.claims.namespaces \subseteq granted.subscribe
        /\ conn.claims.publish => conn.claims.namespaces \subseteq granted.publish

\* What is registered was authorized by its own first segment.
Authorized(p) == \/ ExtractPatternNamespace(p) \in granted.subscribe \ {"**"}
                 \/ /\ "*" \in granted.subscribe
                    /\ ExtractPatternNamespace(p) \notin provider.protected

SubsAreGranted == \A p \in subs : Authorized(p)

SaidIsGranted == \A topic \in said : Grant(granted.publish, topic[1])

GrantInv == SocketTypes /\ OffIsQuiet /\ ClaimsAreGranted /\ SubsAreGranted /\ SaidIsGranted

\* topic_pattern.rs:51: a pattern matches only topics of the namespace it is
\* authorized by, unless it starts with a wildcard.
LEMMA MatchStaysInNamespace ==
    ASSUME NEW p \in Patterns, NEW topic \in Topics, Matches(p, topic)
    PROVE  StartsWild(p) \/ ExtractPatternNamespace(p) = topic[1]
<1>1. PICK text \in Texts : p = Parse(text)
    BY DEF Patterns
<1>2. /\ text \in Seq(STRING) /\ Len(text) \in Nat /\ Len(text) >= 1
      /\ topic \in Seq(STRING) /\ Len(topic) \in Nat /\ Len(topic) >= 1
    BY AdmissionAssumption
<1>3. p.segs = text /\ p.kind \in {"Exact", "Prefix", "Glob"}
    BY <1>1 DEF Parse
<1>4. CASE p.kind = "Exact"
    BY <1>3, <1>4 DEF Matches, ExtractPatternNamespace
<1>5. CASE p.kind = "Prefix"
    <2>1. Len(text) > 1
        BY <1>1, <1>2, <1>5 DEF Parse
    <2>2. text[1] = topic[1]
        BY <2>1, <1>2, <1>3, <1>5 DEF Matches
    <2>3. QED
        BY <2>2, <1>3, <1>5 DEF ExtractPatternNamespace
<1>6. CASE p.kind = "Glob"
    <2>1. GlobMatch(text, topic)
        BY <1>3, <1>6 DEF Matches
    <2>2. CASE \E k \in DOMAIN text : text[k] = "**" /\ SegmentsAgree(text, topic, k - 1)
        <3>1. PICK k \in 1 .. Len(text) : text[k] = "**" /\ SegmentsAgree(text, topic, k - 1)
            BY <2>2, <1>2
        <3>2. k = 1 \/ 1 \in 1 .. k - 1
            OBVIOUS
        <3>3. text[1] \in {"*", "**", topic[1]}
            BY <3>1, <3>2 DEF SegmentsAgree
        <3>4. QED
            BY <3>3, <1>3, <1>6 DEF ExtractPatternNamespace, StartsWild
    <2>3. CASE SegmentsAgree(text, topic, Len(text))
        <3>1. text[1] \in {"*", topic[1]}
            BY <2>3, <1>2 DEF SegmentsAgree
        <3>2. QED
            BY <3>1, <1>3, <1>6 DEF ExtractPatternNamespace, StartsWild
    <2>4. QED
        BY <2>1, <2>2, <2>3 DEF GlobMatch
<1>7. QED
    BY <1>3, <1>4, <1>5, <1>6

\* The invariant gives the property: what matches a registered pattern is in a
\* granted namespace.
LEMMA GrantInvSuffices == GrantInv => WithinGrants
<1> SUFFICES ASSUME GrantInv PROVE WithinGrants
    OBVIOUS
<1>1. ASSUME NEW p \in subs, NEW topic \in Topics, Matches(p, topic)
      PROVE  \/ Grant(granted.subscribe, topic[1])
             \/ "*" \in granted.subscribe /\ StartsWild(p)
    <2>1. p \in Patterns /\ Authorized(p)
        BY DEF GrantInv, SocketTypes, SubsAreGranted
    <2>2. CASE StartsWild(p)
        <3>1. ExtractPatternNamespace(p) \in {"*", "**"}
            BY <2>2 DEF StartsWild, ExtractPatternNamespace
        <3>2. QED
            BY <2>1, <2>2, <3>1 DEF Authorized
    <2>3. CASE ExtractPatternNamespace(p) = topic[1]
        BY <2>1, <2>3 DEF Authorized, Grant
    <2>4. QED
        BY <2>1, <2>2, <2>3, <1>1, MatchStaysInNamespace
<1>2. \A topic \in said : Grant(granted.publish, topic[1])
    BY DEF GrantInv, SaidIsGranted
<1>3. QED
    BY <1>1, <1>2 DEF WithinGrants

\* A closed socket has no claims, no subscriptions and no grants.
LEMMA GrantInvInit == Init => GrantInv
    BY DEF Init, GrantInv, SocketTypes, ClaimSet, OffIsQuiet, ClaimsAreGranted, SubsAreGranted,
           SaidIsGranted, NoConn, NoClaims, Nothing, Off

\* A socket that ends takes claims, subscriptions and grants with it.
LEMMA HangupKeepsGrants ==
    ASSUME GrantInv, Hangup, provider' = provider \/ provider' = Off
    PROVE  GrantInv'
    BY DEF Hangup, GrantInv, SocketTypes, ClaimSet, OffIsQuiet, ClaimsAreGranted, SubsAreGranted,
           SaidIsGranted, NoConn, NoClaims, Nothing, Off

\* No token names "**".
LEMMA NoRestName == "**" \notin Names
    BY TokenAssumption DEF Names

\* verify: what the claims of a token look like.
LEMMA ClaimsTyped == ASSUME NEW tok \in Tokens PROVE Claims(tok) \in ClaimSet
<1>1. /\ tok.namespaces \subseteq Names /\ {"*"} \subseteq Names
      /\ tok.publish \in BOOLEAN /\ tok.subscribe \in BOOLEAN
    BY TokenAssumption DEF Names
<1>2. BuildAuthClaims(tok) \in ClaimSet
    BY <1>1 DEF BuildAuthClaims, ClaimSet
<1>3. QED
    BY <1>1, <1>2 DEF Claims, ClaimSet

\* authorize_subscribe: what it lets pass was granted.
LEMMA AuthorizedIsGranted ==
    ASSUME GrantInv, conn.authenticated, NEW p, AuthorizeSubscribe(p)
    PROVE  Authorized(p)
<1> DEFINE ns == ExtractPatternNamespace(p)
<1> HIDE DEF ns
<1>1. CASE provider.auth = "none"
    BY <1>1 DEF GrantInv, ClaimsAreGranted, OffIsQuiet, Authorized
<1>2. CASE provider.auth # "none"
    <2>1. /\ conn.claims.subscribe
          /\ \/ ns \in conn.claims.namespaces
             \/ "*" \in conn.claims.namespaces /\ ns \notin provider.protected
        BY <1>2 DEF AuthorizeSubscribe, CanSubscribeTo, NamespaceAllowed, ns
    <2>2. conn.claims.namespaces \subseteq granted.subscribe /\ "**" \notin conn.claims.namespaces
        BY <2>1, NoRestName DEF GrantInv, ClaimsAreGranted, SocketTypes, ClaimSet
    <2>3. QED
        BY <2>1, <2>2 DEF ns, Authorized
<1>3. QED
    BY <1>1, <1>2

\* handle_auth: claims replaced by those of a verified token, whose namespaces
\* are granted in the same step; subscriptions keep the earlier grants.
LEMMA AuthKeepsGrants ==
    ASSUME GrantInv, NEW tok \in Tokens, Auth(tok)
    PROVE  GrantInv'
<1>1. CASE Verifies(tok)
    <2> DEFINE c == Claims(tok)
    <2>1. c \in ClaimSet
        BY ClaimsTyped
    <2>2. provider.auth = "none" => c.namespaces = {"*"} /\ c.publish /\ c.subscribe
        BY DEF Claims
    <2> HIDE DEF c
    <2>3. /\ conn' = [conn EXCEPT !.authenticated = TRUE, !.claims = c]
          /\ granted' = [subscribe |-> granted.subscribe
                                          \cup (IF c.subscribe THEN c.namespaces ELSE {}),
                         publish |-> granted.publish
                                          \cup (IF c.publish THEN c.namespaces ELSE {})]
          /\ conn.open /\ UNCHANGED <<subs, said, provider>>
        BY <1>1 DEF Auth, c
    <2>4. /\ conn'.open = conn.open /\ conn'.authenticated = TRUE /\ conn'.claims = c
          /\ conn' \in [open : BOOLEAN, authenticated : BOOLEAN, claims : ClaimSet]
        BY <2>1, <2>3 DEF GrantInv, SocketTypes
    <2>5. SocketTypes'
        BY <2>1, <2>3, <2>4 DEF GrantInv, SocketTypes, ClaimSet
    <2>6. OffIsQuiet' /\ ClaimsAreGranted'
        BY <2>1, <2>2, <2>3, <2>4 DEF GrantInv, OffIsQuiet, ClaimsAreGranted, ClaimSet
    <2>7. SubsAreGranted' /\ SaidIsGranted'
        BY <2>3 DEF GrantInv, SubsAreGranted, SaidIsGranted, Authorized, Grant,
                    ExtractPatternNamespace
    <2>8. QED
        BY <2>5, <2>6, <2>7 DEF GrantInv
<1>2. CASE ~Verifies(tok)
    BY <1>2, HangupKeepsGrants DEF Auth
<1>3. QED
    BY <1>1, <1>2

\* A step that only adds patterns authorized now, or drops some.
LEMMA SubsStepKeepsGrants ==
    ASSUME GrantInv, UNCHANGED <<provider, conn, granted, said>>,
           \A p \in subs' : \/ p \in subs
                            \/ p \in Patterns /\ conn.authenticated /\ AuthorizeSubscribe(p)
    PROVE  GrantInv'
<1>1. SocketTypes' /\ OffIsQuiet' /\ ClaimsAreGranted' /\ SaidIsGranted'
    BY AuthorizedIsGranted
    DEF GrantInv, SocketTypes, OffIsQuiet, ClaimsAreGranted, SaidIsGranted, Grant
<1>2. ASSUME NEW p \in subs'
      PROVE  Authorized(p)
    BY <1>2, AuthorizedIsGranted DEF GrantInv, SubsAreGranted
<1>3. SubsAreGranted'
    BY <1>2 DEF SubsAreGranted, Authorized, ExtractPatternNamespace
<1>4. QED
    BY <1>1, <1>3 DEF GrantInv

\* publish and broadcast: what is said was authorized.
LEMMA SayKeepsGrants ==
    ASSUME GrantInv, NEW topic \in Topics, AuthorizePublishTopic(topic), Say(topic)
    PROVE  GrantInv'
<1>1. SocketTypes' /\ OffIsQuiet' /\ ClaimsAreGranted'
    BY DEF Say, GrantInv, SocketTypes, OffIsQuiet, ClaimsAreGranted, AuthorizePublishTopic
<1>2. SubsAreGranted'
    BY DEF Say, GrantInv, SubsAreGranted, Authorized, ExtractPatternNamespace
<1>3. Grant(granted.publish, topic[1])
    BY DEF AuthorizePublishTopic, AuthorizePublish, CanPublishTo, NamespaceAllowed, GrantInv,
           ClaimsAreGranted, OffIsQuiet, Grant
<1>4. SaidIsGranted'
    BY <1>3 DEF Say, GrantInv, SaidIsGranted, Grant
<1>5. QED
    BY <1>1, <1>2, <1>4 DEF GrantInv

\* Whatever leaves the socket and the provider alone.
LEMMA ElsewhereKeepsGrants ==
    ASSUME GrantInv, UNCHANGED <<provider, socketVars>>
    PROVE  GrantInv'
    BY DEF socketVars, GrantInv, SocketTypes, OffIsQuiet, ClaimsAreGranted, SubsAreGranted,
           SaidIsGranted, Authorized, Grant, ExtractPatternNamespace

\* One case per action: frames, REST calls, the clock, a restart.
LEMMA GrantInvStep == GrantInv /\ [Next]_vars => GrantInv'
<1> SUFFICES ASSUME GrantInv, [Next]_vars PROVE GrantInv'
    OBVIOUS
<1>1. ASSUME NEW c \in Configs, Start(c) PROVE GrantInv'
    <2>1. /\ ~conn.open /\ ~conn.authenticated /\ subs = {} /\ said = {}
          /\ UNCHANGED socketVars
        BY <1>1 DEF Start, GrantInv, OffIsQuiet
    <2>2. provider'.auth = "none" => provider'.protected = {}
        BY <1>1 DEF Start, BuildProvider
    <2>3. QED
        BY <2>1, <2>2 DEF socketVars, GrantInv, SocketTypes, OffIsQuiet, ClaimsAreGranted,
                    SubsAreGranted, SaidIsGranted
<1>2. CASE Restart \/ Close
    BY <1>2, HangupKeepsGrants DEF Restart, Close
<1>3. CASE Tick \/ BusChanges \/ SendNext \/ AllSent
    BY <1>3, ElsewhereKeepsGrants DEF Tick, BusChanges, SendNext, AllSent
<1>4. ASSUME NEW o \in Origins, WsUpgrade(o) PROVE GrantInv'
    <2>1. /\ conn' = [NoConn EXCEPT !.open = TRUE] /\ provider # Off
          /\ UNCHANGED <<provider, subs, granted, said>>
        BY <1>4 DEF WsUpgrade
    <2>2. conn'.authenticated = FALSE
            /\ conn' \in [open : BOOLEAN, authenticated : BOOLEAN, claims : ClaimSet]
        BY <2>1 DEF NoConn, NoClaims, ClaimSet
    <2>3. QED
        BY <2>1, <2>2 DEF GrantInv, SocketTypes, OffIsQuiet, ClaimsAreGranted, SubsAreGranted,
                          SaidIsGranted, Authorized, Grant, ExtractPatternNamespace
<1>5. ASSUME NEW tok \in Tokens, Auth(tok) PROVE GrantInv'
    BY <1>5, AuthKeepsGrants
<1>6. ASSUME NEW text \in Texts, Subscribe(text) PROVE GrantInv'
    BY <1>6, SubsStepKeepsGrants DEF Subscribe, Patterns
<1>7. ASSUME NEW t1 \in Texts, NEW t2 \in Texts, SubscribeBatch(<<t1, t2>>) PROVE GrantInv'
    <2>1. \A i \in DOMAIN <<t1, t2>> : Parse(<<t1, t2>>[i]) \in Patterns
        BY DEF Patterns
    <2>2. QED
        BY <1>7, <2>1, SubsStepKeepsGrants DEF SubscribeBatch
<1>8. ASSUME NEW p \in subs, Unsubscribe(p) PROVE GrantInv'
    BY <1>8, SubsStepKeepsGrants DEF Unsubscribe
<1>9. ASSUME NEW e \in Events, Publish(e) \/ Broadcast(e) PROVE GrantInv'
    BY <1>9, SayKeepsGrants DEF Publish, Broadcast, Events
<1>10. CASE \/ \E e \in RestEvents : PublishEvent(e)
            \/ \E events \in Batches : PublishBatch(events)
            \/ \E topic \in Topics : OtherEvent(topic)
    BY <1>10, ElsewhereKeepsGrants DEF PublishEvent, PublishBatch, Call, OtherEvent
<1>11. CASE UNCHANGED vars
    BY <1>11, ElsewhereKeepsGrants DEF vars
<1>12. QED
    BY <1>1, <1>2, <1>3, <1>4, <1>5, <1>6, <1>7, <1>8, <1>9, <1>10, <1>11
       DEF Next, ServerStep, SocketStep, RestStep

\* handlers.rs and auth_claims.rs: for any configurations, tokens, patterns and
\* topics, what reaches a socket and what it says stays within the namespaces
\* its tokens grant, protected ones by name only; but a holder of "*" takes
\* everything with a pattern that starts with a wildcard.
THEOREM ClientsStayWithinGrants == Spec => []WithinGrants
<1>1. GrantInv /\ [Next]_vars => GrantInv'
    BY GrantInvStep
<1>2. QED
    BY <1>1, GrantInvInit, GrantInvSuffices, PTL DEF Spec

-----------------------------------------------------------------------------
\* The provider in force was built from a configuration.
ProviderInv == /\ now \in Nat
               /\ provider = Off \/ \E c \in Configs : provider = BuildProvider(c)

\* Only Start and Restart touch the provider.
LEMMA ProviderInvStep == ProviderInv /\ [Next]_vars => ProviderInv'
<1> SUFFICES ASSUME ProviderInv, [Next]_vars PROVE ProviderInv'
    OBVIOUS
<1>1. ASSUME NEW c \in Configs, Start(c) PROVE ProviderInv'
    <2>1. provider' = BuildProvider(c) /\ now' = now
        BY <1>1 DEF Start
    <2>2. BuildProvider(c)' = BuildProvider(c)
        BY DEF BuildProvider, BuildPreviousKey, AcceptedIssuers, FallbackPermissive, OriginPolicy, NoKey
    <2>3. QED
        BY <2>1, <2>2 DEF ProviderInv
<1>2. CASE Restart
    BY <1>2 DEF Restart, ProviderInv, Off
<1>3. CASE Tick
    <2>1. now' \in Nat /\ provider' = provider
        BY <1>3 DEF Tick, ProviderInv
    <2>2. QED
        BY <2>1 DEF ProviderInv, Off, BuildProvider, BuildPreviousKey, AcceptedIssuers,
                    FallbackPermissive, OriginPolicy, NoKey
<1>4. CASE UNCHANGED <<now, provider>>
    BY <1>4 DEF ProviderInv, Off, BuildProvider, BuildPreviousKey, AcceptedIssuers,
                FallbackPermissive, OriginPolicy, NoKey
<1>5. CASE BusChanges \/ SocketStep
    BY <1>4, <1>5 DEF BusChanges, SocketStep, WsUpgrade, Close, Auth, Subscribe, SubscribeBatch,
                Unsubscribe, Publish, Broadcast, Say
<1>6. CASE RestStep \/ UNCHANGED vars
    BY <1>4, <1>6 DEF RestStep, PublishEvent, PublishBatch, Call, SendNext, AllSent, OtherEvent,
                      vars
<1>7. QED
    BY <1>1, <1>2, <1>3, <1>5, <1>6 DEF Next, ServerStep

\* Decode with the two keys of a provider, for one token.
LEMMA DecodeIsStrict ==
    ASSUME ProviderInv, provider.auth \in {"hmac", "rsa"}, NEW tok \in Tokens
    PROVE  Verifies(tok) <=>
              /\ tok.key \in {provider.secret, provider.previous} \ {NoKey}
              /\ tok.exp >= now
              /\ \/ provider.issuers = {} \/ tok.iss \in provider.issuers
                 \/ tok.iss = "" /\ ~provider.requireIssuer
<1>1. PICK c \in Configs : provider = BuildProvider(c)
    BY DEF ProviderInv, Off
<1>2. provider.secret \in Nat \ {NoKey} /\ provider.secret # provider.previous
        /\ provider.auth # "none"
    BY <1>1, ConfigAssumption DEF BuildProvider, BuildPreviousKey
<1>3. tok.key \in Nat /\ tok.exp \in Nat /\ now \in Nat
    BY TokenAssumption DEF ProviderInv
<1> DEFINE checks == \/ provider.issuers = {} \/ tok.iss \in provider.issuers
                     \/ tok.iss = "" /\ ~provider.requireIssuer
<1>4. ASSUME NEW key
      PROVE  LibraryDecode(tok, key) = "ok" <=> tok.key = key /\ tok.exp >= now /\ checks
    <2>1. CASE tok.key # key
        BY <2>1 DEF LibraryDecode
    <2>2. CASE tok.key = key /\ tok.exp < now
        <3>1. LibraryDecode(tok, key) = "expired" /\ ~(tok.exp >= now)
            BY <1>3, <2>2 DEF LibraryDecode
        <3> HIDE DEF checks
        <3>2. QED
            BY <3>1
    <2>3. CASE tok.key = key /\ ~(tok.exp < now)
        <3>1. LibraryDecode(tok, key) = IF checks THEN "ok" ELSE "issuer"
            BY <2>3 DEF LibraryDecode
        <3>2. tok.exp >= now
            BY <1>3, <2>3
        <3> HIDE DEF checks
        <3>3. QED
            BY <2>3, <3>1, <3>2
    <2>4. QED
        BY <2>1, <2>2, <2>3
<1>5. \A key : LibraryDecode(tok, key) = "signature" <=> tok.key # key
    BY <1>3 DEF LibraryDecode
<1> HIDE DEF checks
<1>6. Decode(tok) = "ok" <=> /\ tok.key \in {provider.secret, provider.previous} \ {NoKey}
                             /\ tok.exp >= now /\ checks
    BY <1>2, <1>4, <1>5 DEF Decode
<1>7. QED
    BY <1>2, <1>6 DEF Verifies, checks

\* jwt/mod.rs:116 and jwt/auth.rs: for any configurations and tokens, the
\* secret being rotated out lets a token pass that it signed, and makes up for
\* no other check.
THEOREM RotationIsStrict == Spec => []RotationKeepsClaimsStrict
<1>1. Init => ProviderInv
    BY DEF Init, ProviderInv
<1>2. ProviderInv => RotationKeepsClaimsStrict
    BY DecodeIsStrict DEF RotationKeepsClaimsStrict
<1>3. QED
    BY <1>1, <1>2, ProviderInvStep, PTL DEF Spec

-----------------------------------------------------------------------------
OnWire == [from : {"rest", "other"}, topic : Topics]

Answers == [at : {"idle", "sending", "answered"}, events : Seq(Events), done : Nat,
            status : {0, 200, 400, 413, 500}]

\* What the answer rests on: the call's events are on the bus one by one, and
\* an answer is given once.
RestTypes ==
    /\ bus \in Seq(OnWire)
    /\ rest \in Answers
    /\ rest.done <= Len(rest.events)
    /\ rest.at = "sending" => rest.status = 0

\* The bus holds the events of the call that were sent, in order, and a status
\* comes with as many as it promises.
OnBusInOrder ==
    /\ SentNow(Len(bus)) = rest.done
    /\ \A i \in DOMAIN bus :
          bus[i].from = "rest" => bus[i].topic = rest.events[SentNow(i)].topic
    /\ rest.status = 200 => rest.done = Len(rest.events)
    /\ rest.status \in {400, 413} => rest.done = 0

RestInv == RestTypes /\ OnBusInOrder

\* Counting on a bus that grows by one event.
LEMMA SentNowGrows ==
    ASSUME NEW e \in OnWire, bus \in Seq(OnWire), bus' = Append(bus, e)
    PROVE  /\ \A i \in 0 .. Len(bus) : SentNow(i)' = SentNow(i)
           /\ SentNow(Len(bus)) \in Nat
           /\ SentNow(Len(bus))' = SentNow(Len(bus)) + (IF e.from = "rest" THEN 1 ELSE 0)
<1> DEFINE Of(b, i) == {j \in 1 .. i : b[j].from = "rest"}
<1>1. /\ Len(bus) \in Nat /\ Len(bus') = Len(bus) + 1 /\ bus'[Len(bus) + 1] = e
      /\ \A j \in 1 .. Len(bus) : bus'[j] = bus[j]
    OBVIOUS
<1>2. \A i \in 0 .. Len(bus) : Of(bus', i) = Of(bus, i)
    BY <1>1
<1>3. Of(bus', Len(bus) + 1) = IF e.from = "rest" THEN Of(bus, Len(bus)) \cup {Len(bus) + 1}
                                                  ELSE Of(bus, Len(bus))
    <2>1. \A j : j \in 1 .. Len(bus) + 1 <=> j \in 1 .. Len(bus) \/ j = Len(bus) + 1
        BY <1>1
    <2>2. QED
        BY <1>1, <2>1
<1>4. IsFiniteSet(Of(bus, Len(bus))) /\ Cardinality(Of(bus, Len(bus))) \in Nat
        /\ Len(bus) + 1 \notin Of(bus, Len(bus))
    <2>1. IsFiniteSet(1 .. Len(bus))
        BY <1>1, FS_Interval
    <2>2. Of(bus, Len(bus)) \in SUBSET (1 .. Len(bus)) /\ Len(bus) + 1 \notin 1 .. Len(bus)
        BY <1>1
    <2> HIDE DEF Of
    <2>3. QED
        BY <2>1, <2>2, FS_Subset, FS_CardinalityType
<1>5. Cardinality(Of(bus, Len(bus)) \cup {Len(bus) + 1}) = Cardinality(Of(bus, Len(bus))) + 1
    BY <1>4, FS_AddElement
<1>6. /\ \A i : SentNow(i) = Cardinality(Of(bus, i)) /\ SentNow(i)' = Cardinality(Of(bus', i))
      /\ SentNow(Len(bus))' = Cardinality(Of(bus', Len(bus')))
    BY DEF SentNow
<1> HIDE DEF Of
<1>7. QED
    BY <1>1, <1>2, <1>3, <1>4, <1>5, <1>6

\* On an empty bus nothing was sent.
LEMMA SentNowEmpty == bus = <<>> => SentNow(Len(bus)) = 0
<1>1. {j \in 1 .. 0 : bus[j].from = "rest"} = {}
    OBVIOUS
<1>2. QED
    BY <1>1, FS_EmptySet DEF SentNow

\* Answering a call changes nothing but where it stands and its status.
LEMMA AnsweredFields ==
    ASSUME rest \in Answers, NEW status \in {0, 200, 400, 413, 500},
           rest' = [rest EXCEPT !.at = "answered", !.status = status]
    PROVE  /\ rest'.done = rest.done /\ rest'.events = rest.events
           /\ rest'.at = "answered" /\ rest'.status = status /\ rest' \in Answers
<1>1. rest' = [at |-> "answered", events |-> rest.events, done |-> rest.done, status |-> status]
    BY DEF Answers
<1>2. rest.events \in Seq(Events) /\ rest.done \in Nat
    BY DEF Answers
<1>3. QED
    BY <1>1, <1>2 DEF Answers

\* A step that leaves the bus alone: only the new status has to be right.
LEMMA StatusIsHonest ==
    ASSUME OnBusInOrder, bus' = bus, rest'.done = rest.done, rest'.events = rest.events,
           rest'.status = 200 => rest.done = Len(rest.events),
           rest'.status \in {400, 413} => rest.done = 0
    PROVE  OnBusInOrder'
<1>1. \A i : SentNow(i)' = SentNow(i)
    BY DEF SentNow
<1>2. SentNow(Len(bus))' = SentNow(Len(bus))
    BY DEF SentNow
<1>3. QED
    BY <1>1, <1>2 DEF OnBusInOrder

\* A call that has sent nothing yet, on a bus looked at from now on.
LEMMA NothingSentIsHonest ==
    ASSUME bus' = <<>>, rest'.done = 0, rest'.status \in {0, 400, 413}
    PROVE  OnBusInOrder'
<1>1. SentNow(Len(bus))' = 0
    <2>1. {j \in 1 .. 0 : bus'[j].from = "rest"} = {}
        OBVIOUS
    <2>2. QED
        BY <2>1, FS_EmptySet DEF SentNow
<1>2. \A i : i \notin DOMAIN bus'
    OBVIOUS
<1>3. QED
    BY <1>1, <1>2 DEF OnBusInOrder

\* publish_batch: one more event of the call, or the refusal that ends it.
LEMMA SendNextKeepsRest ==
    ASSUME RestInv, SendNext
    PROVE  RestInv'
<1> USE DEF RestInv, RestTypes
<1>1. /\ rest.done \in Nat /\ rest.events \in Seq(Events) /\ rest.done < Len(rest.events)
      /\ Len(rest.events) \in Nat /\ rest.at = "sending" /\ rest.status = 0
    BY DEF SendNext, Answers
<1>2. CASE busUp
    <2> DEFINE e == [from |-> "rest", topic |-> rest.events[rest.done + 1].topic]
    <2>1. rest.events[rest.done + 1] \in Events
        BY <1>1
    <2>2. e \in OnWire
        BY <2>1 DEF OnWire, Events
    <2>3. /\ bus' = Append(bus, e)
          /\ rest' = [rest EXCEPT !.done = rest.done + 1]
        BY <1>2 DEF SendNext, OnBus
    <2>4. /\ rest'.done = rest.done + 1 /\ rest'.events = rest.events /\ rest'.at = rest.at
          /\ rest'.status = 0
          /\ rest' \in Answers
        BY <1>1, <2>3 DEF Answers
    <2> HIDE DEF e
    <2>5. RestTypes'
        BY <1>1, <2>2, <2>3, <2>4
    <2>6. /\ \A i \in 0 .. Len(bus) : SentNow(i)' = SentNow(i)
          /\ SentNow(Len(bus))' = SentNow(Len(bus)) + 1
        BY <2>2, <2>3, SentNowGrows DEF e
    <2>7. SentNow(Len(bus))' = rest'.done
        BY <2>4, <2>6 DEF OnBusInOrder
    <2>8. ASSUME NEW i \in DOMAIN bus', bus'[i].from = "rest"
          PROVE  bus'[i].topic = rest'.events[SentNow(i)'].topic
        <3>1. Len(bus) \in Nat /\ Len(bus') = Len(bus) + 1 /\ i \in 1 .. Len(bus) + 1
            BY <2>2, <2>3
        <3>2. CASE i = Len(bus) + 1
            <4>1. bus'[i] = e /\ SentNow(i)' = rest.done + 1
                BY <2>2, <2>3, <2>4, <2>7, <3>1, <3>2
            <4>2. QED
                BY <4>1, <2>4 DEF e
        <3>3. CASE i \in 1 .. Len(bus)
            <4>1. i \in DOMAIN bus /\ bus'[i] = bus[i] /\ SentNow(i)' = SentNow(i)
                BY <2>2, <2>3, <2>6, <3>1, <3>3
            <4>2. QED
                BY <2>4, <2>8, <4>1 DEF OnBusInOrder
        <3>4. QED
            BY <3>1, <3>2, <3>3
    <2>9. OnBusInOrder'
        BY <2>4, <2>7, <2>8 DEF OnBusInOrder
    <2>10. QED
        BY <2>5, <2>9
<1>3. CASE ~busUp
    <2>1. /\ rest' = [rest EXCEPT !.at = "answered", !.status = 500] /\ bus' = bus
        BY <1>3 DEF SendNext
    <2>2. /\ rest'.done = rest.done /\ rest'.events = rest.events /\ rest'.at = "answered"
          /\ rest'.status = 500 /\ rest' \in Answers
        BY <2>1, AnsweredFields DEF RestInv, RestTypes
    <2>3. RestTypes'
        BY <1>1, <2>1, <2>2
    <2>4. OnBusInOrder'
        BY <1>1, <2>1, <2>2, StatusIsHonest
    <2>5. QED
        BY <2>3, <2>4
<1>4. QED
    BY <1>2, <1>3

\* validate and call: a fresh call on a bus that is looked at from now on.
LEMMA CallKeepsRest ==
    ASSUME NEW events \in Seq(Events), NEW status \in {0, 400, 413},
           Call(events, IF status = 0 THEN "sending" ELSE "answered", status)
    PROVE  RestInv'
<1>1. RestTypes'
    BY DEF Call, RestTypes, Answers
<1>2. bus' = <<>> /\ rest'.done = 0 /\ rest'.status \in {0, 400, 413}
    BY DEF Call
<1>3. OnBusInOrder'
    BY <1>2, NothingSentIsHonest
<1>4. QED
    BY <1>1, <1>3 DEF RestInv

\* One case per action on the bus.
LEMMA RestInvStep == RestInv /\ [Next]_vars => RestInv'
<1> SUFFICES ASSUME RestInv, [Next]_vars PROVE RestInv'
    OBVIOUS
<1>1. CASE UNCHANGED <<bus, rest>>
    BY <1>1 DEF RestInv, RestTypes, OnBusInOrder, SentNow
<1>2. CASE rest' = NoCall /\ bus' = <<>>
    <2>1. RestTypes' /\ rest'.done = 0 /\ rest'.status = 0
        BY <1>2 DEF RestTypes, Answers, NoCall
    <2>2. QED
        BY <1>2, <2>1, NothingSentIsHonest DEF RestInv
<1>3. ASSUME NEW e \in RestEvents, PublishEvent(e) PROVE RestInv'
    <2>1. e \in Events /\ <<e>> \in Seq(Events)
        BY DEF RestEvents
    <2>2. ValidateEvent(e) \in {0, 400, 413}
        BY DEF ValidateEvent
    <2>3. QED
        BY <1>3, <2>1, <2>2, CallKeepsRest DEF PublishEvent
<1>4. ASSUME NEW events \in Batches, PublishBatch(events) PROVE RestInv'
    <2>1. PICK n \in 0 .. MaxBatch + 1 : events \in [1 .. n -> RestEvents]
        BY DEF Batches
    <2>2. n \in Nat
        BY AdmissionAssumption
    <2>3. events \in Seq(Events)
        BY <2>1, <2>2 DEF RestEvents
    <2>4. ValidateBatch(events) \in {0, 400, 413}
        BY DEF ValidateBatch
    <2>5. QED
        BY <1>4, <2>3, <2>4, CallKeepsRest DEF PublishBatch
<1>5. CASE SendNext
    BY <1>5, SendNextKeepsRest
<1>6. CASE AllSent
    <2>1. /\ rest' = [rest EXCEPT !.at = "answered", !.status = 200] /\ bus' = bus
          /\ rest.done = Len(rest.events)
        BY <1>6 DEF AllSent
    <2>2. /\ rest'.done = rest.done /\ rest'.events = rest.events /\ rest'.at = "answered"
          /\ rest'.status = 200 /\ rest' \in Answers
        BY <2>1, AnsweredFields DEF RestInv, RestTypes
    <2>3. RestTypes'
        BY <2>1, <2>2 DEF RestInv, RestTypes
    <2>4. OnBusInOrder'
        BY <2>1, <2>2, StatusIsHonest DEF RestInv
    <2>5. QED
        BY <2>3, <2>4 DEF RestInv
<1>7. ASSUME NEW topic \in Topics, OtherEvent(topic) PROVE RestInv'
    <2> DEFINE e == [from |-> "other", topic |-> topic]
    <2>1. e \in OnWire /\ bus' = Append(bus, e) /\ rest' = rest /\ bus \in Seq(OnWire)
        BY <1>7 DEF OnWire, OtherEvent, OnBus, RestInv, RestTypes
    <2>2. /\ \A i \in 0 .. Len(bus) : SentNow(i)' = SentNow(i)
          /\ SentNow(Len(bus))' = SentNow(Len(bus)) /\ e.from = "other"
        BY <2>1, SentNowGrows
    <2> HIDE DEF e
    <2>3. /\ Len(bus) \in Nat /\ Len(bus') = Len(bus) + 1 /\ bus'[Len(bus) + 1] = e
          /\ bus' \in Seq(OnWire) /\ \A i \in 1 .. Len(bus) : bus'[i] = bus[i]
        BY <2>1
    <2>4. ASSUME NEW i \in DOMAIN bus', bus'[i].from = "rest"
          PROVE  bus'[i].topic = rest'.events[SentNow(i)'].topic
        <3>1. i \in 1 .. Len(bus)
            BY <2>2, <2>3, <2>4
        <3>2. QED
            BY <2>1, <2>2, <2>3, <2>4, <3>1 DEF RestInv, OnBusInOrder
    <2>5. RestTypes'
        BY <2>1, <2>3 DEF RestInv, RestTypes
    <2>6. OnBusInOrder'
        BY <2>1, <2>2, <2>4 DEF RestInv, OnBusInOrder
    <2>7. QED
        BY <2>5, <2>6 DEF RestInv
<1>8. CASE ServerStep
    BY <1>1, <1>2, <1>8 DEF ServerStep, Start, Restart, Tick, BusChanges, restVars
<1>9. CASE SocketStep
    <2>1. CASE \E o \in Origins : WsUpgrade(o)
        BY <1>2, <2>1 DEF WsUpgrade
    <2>2. CASE Close \/ \E tok \in Tokens : Auth(tok)
        BY <1>1, <2>2 DEF Close, Auth, restVars
    <2>3. CASE \/ \E text \in Texts : Subscribe(text)
               \/ \E t1, t2 \in Texts : SubscribeBatch(<<t1, t2>>)
               \/ \E p \in subs : Unsubscribe(p)
               \/ \E e \in Events : Publish(e) \/ Broadcast(e)
        BY <1>1, <2>3 DEF Subscribe, SubscribeBatch, Unsubscribe, Publish, Broadcast, Say, restVars
    <2>4. QED
        BY <1>9, <2>1, <2>2, <2>3 DEF SocketStep
<1>10. CASE UNCHANGED vars
    BY <1>1, <1>10 DEF vars, restVars
<1>11. QED
    BY <1>3, <1>4, <1>5, <1>6, <1>7, <1>8, <1>9, <1>10 DEF Next, RestStep

\* rest_api.rs:60 and publisher.rs: for any topics and batches, an answer of 200
\* means that all the events of the call are on the bus, in order, and 400 and
\* 413 that none is, whatever is published meanwhile and whenever the bus loses
\* its receiver.
THEOREM RestAnswersAreHonest == Spec => []RestAnswersHonestly
<1>1. Init => RestInv
    <2> SUFFICES ASSUME Init PROVE RestInv
        OBVIOUS
    <2>1. SentNow(Len(bus)) = 0
        BY SentNowEmpty DEF Init
    <2>2. QED
        BY <2>1 DEF Init, RestInv, RestTypes, Answers, OnBusInOrder, NoCall
<1>2. RestInv => RestAnswersHonestly
    BY DEF RestInv, OnBusInOrder, RestAnswersHonestly
<1>3. QED
    BY <1>1, <1>2, RestInvStep, PTL DEF Spec

-----------------------------------------------------------------------------
(***************************************************************************)
(* The other way in: the change feeds of the configured databases, for any *)
(* databases, adapters, channel capacity, changes and outages.             *)
(***************************************************************************)

Rising(q) == \A i, j \in DOMAIN q : i < j => q[i] < q[j]
Below(S, T) == \A x \in S, y \in T : x < y
In(q) == {q[i] : i \in DOMAIN q}

Stages == {"none", "start", "attach", "consume", "ended", "failed"}
FeedTypes ==
    /\ changes \in [Databases -> Nat] /\ missed \in [Databases -> SUBSET Nat]
    /\ refused \in [Databases -> SUBSET Nat] /\ task \in [Databases -> Stages]
    /\ wire \in [Databases -> Seq(Nat)] /\ chan \in [Databases -> Seq(Nat)]
    /\ published \in [Databases -> Seq(Nat)]

\* The bus, the channel and the connection hold changes in the order they were
\* made, the bus the oldest and the connection the youngest.
Pipeline(p, c, w, n) ==
    /\ Rising(p) /\ Rising(c) /\ Rising(w)
    /\ Below(In(p), In(c)) /\ Below(In(p), In(w)) /\ Below(In(c), In(w))
    /\ In(p) \cup In(c) \cup In(w) \subseteq 0 .. n

\* Where the changes of d are.
Places(d) == In(published[d]) \cup refused[d] \cup missed[d] \cup In(chan[d]) \cup In(wire[d])

FeedAt(d) == /\ Pipeline(published[d], chan[d], wire[d], changes[d])
             /\ (1 .. changes[d]) \ Foreign \subseteq Places(d)
             /\ published[d] # <<>> \/ task[d] # "none" => boot = "serving"

FeedInv == FeedTypes /\ \A d \in Databases : FeedAt(d)

\* Nothing is made, on the way or on the bus in the initial state.
LEMMA FeedInit == ASSUME ProducersInit PROVE FeedInv
<1>1. FeedTypes
  <2>1. wire \in [Databases -> Seq(Nat)] /\ chan \in [Databases -> Seq(Nat)]
        /\ published \in [Databases -> Seq(Nat)]
    BY DEF ProducersInit
  <2>2. missed \in [Databases -> SUBSET Nat] /\ refused \in [Databases -> SUBSET Nat]
    BY Zenon DEF ProducersInit
  <2>3. changes \in [Databases -> Nat] /\ task \in [Databases -> {"none"}]
    BY DEF ProducersInit
  <2> QED
    BY <2>1, <2>2, <2>3 DEF FeedTypes, Stages
<1>2. ASSUME NEW d \in Databases PROVE FeedAt(d)
  BY DEF ProducersInit, FeedAt, Pipeline, Rising, Below, In, Places
<1> QED
  BY <1>1, <1>2 DEF FeedInv

\* What the invariant says of a database whose pipeline a step leaves alone.
LEMMA FeedKept ==
  ASSUME NEW d \in Databases, FeedAt(d), boot' = boot \/ boot # "serving",
         wire'[d] = wire[d], chan'[d] = chan[d], changes'[d] = changes[d],
         published'[d] = published[d], missed'[d] = missed[d], refused'[d] = refused[d],
         task'[d] # "none" => boot' = "serving"
  PROVE  FeedAt(d)'
<1>1. published[d] # <<>> => boot' = "serving"
  BY DEF FeedAt
<1> QED
  BY <1>1 DEF FeedAt, Pipeline, Places

\* What is known of the sequences a channel's operations make.
LEMMA QueueFacts ==
  ASSUME NEW q \in Seq(Nat), NEW x \in Nat
  PROVE  /\ Len(q) \in Nat /\ DOMAIN q = 1 .. Len(q) /\ \A i \in DOMAIN q : q[i] \in Nat
         /\ Append(q, x) \in Seq(Nat) /\ DOMAIN Append(q, x) = 1 .. Len(q) + 1
         /\ \A i \in DOMAIN q : Append(q, x)[i] = q[i]
         /\ Append(q, x)[Len(q) + 1] = x
         /\ q # <<>> => /\ 1 \in DOMAIN q /\ Head(q) = q[1]
                        /\ Tail(q) \in Seq(Nat) /\ DOMAIN Tail(q) = 1 .. Len(q) - 1
                        /\ \A i \in 1 .. Len(q) - 1 : Tail(q)[i] = q[i + 1]
  OBVIOUS

\* The elements of a sequence with one appended.
LEMMA InAppend ==
  ASSUME NEW q \in Seq(Nat), NEW x \in Nat
  PROVE  In(Append(q, x)) = In(q) \cup {x}
BY QueueFacts DEF In

\* The elements are the first one and those of the tail.
LEMMA InTail ==
  ASSUME NEW q \in Seq(Nat), q # <<>>
  PROVE  In(q) = {Head(q)} \cup In(Tail(q)) /\ Head(q) \in Nat
<1> DEFINE t == Tail(q)
<1>1. /\ Len(q) \in Nat /\ DOMAIN q = 1 .. Len(q) /\ 1 \in DOMAIN q /\ Head(q) = q[1]
      /\ DOMAIN t = 1 .. Len(q) - 1 /\ q[1] \in Nat
      /\ \A i \in 1 .. Len(q) - 1 : t[i] = q[i + 1]
  BY QueueFacts
<1> HIDE DEF t
<1>2. ASSUME NEW y \in In(q) PROVE y = Head(q) \/ y \in In(t)
  <2>1. PICK i \in DOMAIN q : y = q[i]
    BY DEF In
  <2>2. i = 1 \/ (i - 1 \in DOMAIN t /\ t[i - 1] = y)
    BY <1>1, <2>1
  <2> QED
    BY <1>1, <2>1, <2>2 DEF In
<1>3. ASSUME NEW y \in In(t) PROVE y \in In(q)
  <2>1. PICK i \in DOMAIN t : y = t[i]
    BY DEF In
  <2>2. i + 1 \in DOMAIN q /\ q[i + 1] = y
    BY <1>1, <2>1
  <2> QED
    BY <2>2 DEF In
<1>4. Head(q) \in In(q)
  BY <1>1 DEF In
<1> QED
  BY <1>1, <1>2, <1>3, <1>4 DEF t

\* Order is kept when a larger element is appended.
LEMMA RisingAppend ==
  ASSUME NEW q \in Seq(Nat), NEW x \in Nat, Rising(q), Below(In(q), {x})
  PROVE  Rising(Append(q, x))
<1> DEFINE a == Append(q, x)
<1>1. /\ Len(q) \in Nat /\ DOMAIN q = 1 .. Len(q) /\ DOMAIN a = 1 .. Len(q) + 1
      /\ \A i \in DOMAIN q : a[i] = q[i] /\ q[i] \in Nat
      /\ a[Len(q) + 1] = x
  BY QueueFacts
<1> HIDE DEF a
<1>2. \A i \in DOMAIN q : q[i] < x
  BY DEF Below, In
<1> SUFFICES ASSUME NEW i \in DOMAIN a, NEW j \in DOMAIN a, i < j PROVE a[i] < a[j]
  BY DEF Rising, a
<1>3. i \in DOMAIN q
  BY <1>1
<1>4. CASE j \in DOMAIN q
  BY <1>1, <1>3, <1>4 DEF Rising
<1>5. CASE j = Len(q) + 1
  BY <1>1, <1>2, <1>3, <1>5
<1> QED
  BY <1>1, <1>4, <1>5

\* What is left after the first rises too, above it.
LEMMA RisingTail ==
  ASSUME NEW q \in Seq(Nat), q # <<>>, Rising(q)
  PROVE  Rising(Tail(q)) /\ Below({Head(q)}, In(Tail(q)))
<1> DEFINE t == Tail(q)
<1>1. /\ Len(q) \in Nat /\ DOMAIN q = 1 .. Len(q) /\ 1 \in DOMAIN q /\ Head(q) = q[1]
      /\ DOMAIN t = 1 .. Len(q) - 1
      /\ \A i \in 1 .. Len(q) - 1 : t[i] = q[i + 1]
  BY QueueFacts
<1> HIDE DEF t
<1>2. ASSUME NEW i \in DOMAIN t
      PROVE  i + 1 \in DOMAIN q /\ t[i] = q[i + 1] /\ 1 < i + 1 /\ i \in Nat
  BY <1>1
<1>3. Rising(t)
  <2> SUFFICES ASSUME NEW i \in DOMAIN t, NEW j \in DOMAIN t, i < j PROVE t[i] < t[j]
    BY DEF Rising
  <2>1. i + 1 < j + 1
    BY <1>2
  <2> QED
    BY <1>2, <2>1 DEF Rising
<1>4. ASSUME NEW y \in In(t) PROVE Head(q) < y
  <2>1. PICK i \in DOMAIN t : y = t[i]
    BY DEF In
  <2> QED
    BY <1>1, <1>2, <2>1 DEF Rising
<1> QED
  BY <1>3, <1>4 DEF t, Below

\* The youngest change goes to the end of the connection, or misses it.
LEMMA PipelineGrows ==
  ASSUME NEW p \in Seq(Nat), NEW c \in Seq(Nat), NEW w \in Seq(Nat), NEW n \in Nat,
         Pipeline(p, c, w, n)
  PROVE  Pipeline(p, c, Append(w, n + 1), n + 1) /\ Pipeline(p, c, w, n + 1)
<1>1. In(Append(w, n + 1)) = In(w) \cup {n + 1}
  BY InAppend
<1>2. Below(In(p), {n + 1}) /\ Below(In(c), {n + 1}) /\ Below(In(w), {n + 1})
  BY DEF Pipeline, Below
<1>3. Rising(Append(w, n + 1))
  BY <1>2, RisingAppend DEF Pipeline
<1>4. 0 .. n \subseteq 0 .. n + 1 /\ n + 1 \in 0 .. n + 1
  OBVIOUS
<1> QED
  BY <1>1, <1>2, <1>3, <1>4 DEF Pipeline, Below

\* The oldest change of the connection is skipped, or goes to the channel.
LEMMA PipelineForwards ==
  ASSUME NEW p \in Seq(Nat), NEW c \in Seq(Nat), NEW w \in Seq(Nat), NEW n \in Nat,
         Pipeline(p, c, w, n), w # <<>>
  PROVE  Pipeline(p, c, Tail(w), n) /\ Pipeline(p, Append(c, Head(w)), Tail(w), n)
<1>1. In(w) = {Head(w)} \cup In(Tail(w)) /\ Head(w) \in Nat
  BY InTail
<1>2. Rising(Tail(w)) /\ Below({Head(w)}, In(Tail(w)))
  BY RisingTail DEF Pipeline
<1>3. In(Append(c, Head(w))) = In(c) \cup {Head(w)}
  BY <1>1, InAppend
<1>4. Rising(Append(c, Head(w)))
  <2>1. Below(In(c), {Head(w)})
    BY <1>1 DEF Pipeline, Below
  <2> QED
    BY <1>1, <2>1, RisingAppend DEF Pipeline
<1> QED
  BY <1>1, <1>2, <1>3, <1>4 DEF Pipeline, Below

\* The oldest change of the channel goes to the bus, or is refused.
LEMMA PipelinePublishes ==
  ASSUME NEW p \in Seq(Nat), NEW c \in Seq(Nat), NEW w \in Seq(Nat), NEW n \in Nat,
         Pipeline(p, c, w, n), c # <<>>
  PROVE  Pipeline(p, Tail(c), w, n) /\ Pipeline(Append(p, Head(c)), Tail(c), w, n)
<1>1. In(c) = {Head(c)} \cup In(Tail(c)) /\ Head(c) \in Nat
  BY InTail
<1>2. Rising(Tail(c)) /\ Below({Head(c)}, In(Tail(c)))
  BY RisingTail DEF Pipeline
<1>3. In(Append(p, Head(c))) = In(p) \cup {Head(c)}
  BY <1>1, InAppend
<1>4. Rising(Append(p, Head(c)))
  <2>1. Below(In(p), {Head(c)})
    BY <1>1 DEF Pipeline, Below
  <2> QED
    BY <1>1, <2>1, RisingAppend DEF Pipeline
<1> QED
  BY <1>1, <1>2, <1>3, <1>4 DEF Pipeline, Below

-----------------------------------------------------------------------------
\* Steps of the start-up, the tasks and the supervisor that move no change.
LEMMA QuietFeed ==
  ASSUME FeedInv, UNCHANGED dataVars, boot' = boot \/ boot # "serving",
         task' \in [Databases -> Stages],
         \A d \in Databases : task'[d] # "none" => boot' = "serving"
  PROVE  FeedInv'
<1>1. UNCHANGED <<wire, chan, changes, published, missed, refused>>
  BY DEF dataVars
<1>2. FeedTypes'
  BY <1>1 DEF FeedInv, FeedTypes
<1>3. ASSUME NEW d \in Databases PROVE FeedAt(d)'
  BY <1>1, FeedKept DEF FeedInv
<1> QED
  BY <1>2, <1>3 DEF FeedInv

\* A change goes onto the open connection; without one it is missed.
LEMMA ChangeFeed == ASSUME FeedInv, NEW d \in Databases, Change(d) PROVE FeedInv'
<1> DEFINE n == changes[d] + 1
<1>1. /\ UNCHANGED <<boot, task, chan, published, refused>>
      /\ changes' = [changes EXCEPT ![d] = n] /\ changes'[d] = n /\ changes[d] \in Nat
      /\ \/ /\ wire' = [wire EXCEPT ![d] = Append(wire[d], n)] /\ UNCHANGED missed
         \/ /\ missed' = [missed EXCEPT ![d] = missed[d] \cup {n}] /\ UNCHANGED wire
  BY DEF FeedInv, FeedTypes, Change, Set, procVars
<1>2. /\ wire[d] \in Seq(Nat) /\ Append(wire[d], n) \in Seq(Nat) /\ n \in Nat
      /\ In(Append(wire[d], n)) = In(wire[d]) \cup {n}
  BY <1>1, QueueFacts, InAppend DEF FeedInv, FeedTypes
<1>3. FeedTypes'
  <2> HIDE DEF n
  <2>1. wire' \in [Databases -> Seq(Nat)]
    BY <1>1, <1>2 DEF FeedInv, FeedTypes
  <2>2. missed' \in [Databases -> SUBSET Nat] /\ changes' \in [Databases -> Nat]
    BY <1>1, <1>2 DEF FeedInv, FeedTypes
  <2> QED
    BY <1>1, <2>1, <2>2 DEF FeedInv, FeedTypes
<1>4. ASSUME NEW e \in Databases PROVE FeedAt(e)'
  <2>1. CASE e # d
    BY <1>1, <2>1, FeedKept DEF FeedInv, FeedTypes, FeedAt
  <2>2. CASE e = d
    <3>1. Pipeline(published[d], chan[d], wire'[d], n)
      <4>1. Pipeline(published[d], chan[d], Append(wire[d], n), n)
            /\ Pipeline(published[d], chan[d], wire[d], n)
        BY <1>1, PipelineGrows DEF FeedInv, FeedTypes, FeedAt
      <4>2. wire'[d] = Append(wire[d], n) \/ wire'[d] = wire[d]
        BY <1>1 DEF FeedInv, FeedTypes
      <4> QED
        BY <4>1, <4>2
    <3>2. (1 .. n) \subseteq (1 .. changes[d]) \cup {n}
      BY <1>1
    <3>3. (1 .. n) \ Foreign \subseteq Places(d)'
      <4>1. Places(d) \cup {n} \subseteq Places(d)'
        BY <1>1, <1>2 DEF FeedInv, FeedTypes, Places
      <4> QED
        BY <3>2, <4>1 DEF FeedInv, FeedAt
    <3> QED
      BY <1>1, <2>2, <3>1, <3>3 DEF FeedInv, FeedAt
  <2> QED
    BY <2>1, <2>2
<1> QED
  BY <1>3, <1>4 DEF FeedInv

\* The connection is lost, or dropped, with what is on it.
LEMMA DropFeed ==
  ASSUME FeedInv, NEW d \in Databases, UNCHANGED <<boot, task, chan, changes, published, refused>>,
         wire' = [wire EXCEPT ![d] = <<>>],
         missed' = [missed EXCEPT ![d] = missed[d] \cup ToSet(wire[d])]
  PROVE  FeedInv'
<1>1. wire[d] \in Seq(Nat) /\ In(wire[d]) \subseteq Nat /\ ToSet(wire[d]) = In(wire[d])
  BY QueueFacts DEF FeedInv, FeedTypes, In, ToSet
<1>2. FeedTypes'
  BY <1>1 DEF FeedInv, FeedTypes
<1>3. ASSUME NEW e \in Databases PROVE FeedAt(e)'
  <2>1. CASE e # d
    BY <2>1, FeedKept DEF FeedInv, FeedTypes, FeedAt
  <2>2. CASE e = d
    <3>1. In(<<>>) = {} /\ Rising(<<>>)
      BY DEF In, Rising
    <3>2. Pipeline(published[d], chan[d], <<>>, changes[d])
      BY <3>1 DEF FeedInv, FeedAt, Pipeline, Below
    <3>3. wire'[d] = <<>> /\ missed'[d] = missed[d] \cup In(wire[d])
      BY <1>1 DEF FeedInv, FeedTypes
    <3>4. Places(d) \subseteq Places(d)'
      BY <3>1, <3>3 DEF Places
    <3> QED
      BY <2>2, <3>2, <3>3, <3>4 DEF FeedInv, FeedAt
  <2> QED
    BY <2>1, <2>2
<1> QED
  BY <1>2, <1>3 DEF FeedInv

\* A row change parses, whatever its operation and for both adapters.
LEMMA RowChangesParse == ASSUME NEW d, NEW c, c \notin Foreign PROVE Parses(d, c)
  BY DEF Parses, ParsePgNotification, Notify, ParseChangeEvent,
         ChangeDocument

\* The feed takes a change off the connection: a row change enters the channel.
LEMMA DriveOneFeed == ASSUME FeedInv, NEW d \in Databases, DriveOne(d) PROVE FeedInv'
<1> DEFINE c == Head(wire[d])
<1>1. /\ UNCHANGED <<boot, task, changes, published, missed, refused>>
      /\ wire' = [wire EXCEPT ![d] = Tail(wire[d])]
      /\ \/ c \in Foreign /\ UNCHANGED chan
         \/ chan' = [chan EXCEPT ![d] = Append(chan[d], c)]
  BY RowChangesParse DEF DriveOne, Forward, Set
<1>2. /\ wire[d] \in Seq(Nat) /\ wire[d] # <<>> /\ Tail(wire[d]) \in Seq(Nat) /\ c \in Nat
      /\ In(wire[d]) = {c} \cup In(Tail(wire[d]))
  BY QueueFacts, InTail DEF FeedInv, FeedTypes, DriveOne
<1>3. /\ chan[d] \in Seq(Nat) /\ Append(chan[d], c) \in Seq(Nat)
      /\ In(Append(chan[d], c)) = In(chan[d]) \cup {c}
  BY <1>2, QueueFacts, InAppend DEF FeedInv, FeedTypes
<1>4. FeedTypes'
  BY <1>1, <1>2, <1>3 DEF FeedInv, FeedTypes
<1>5. ASSUME NEW e \in Databases PROVE FeedAt(e)'
  <2>1. CASE e # d
    BY <1>1, <2>1, FeedKept DEF FeedInv, FeedTypes, FeedAt
  <2>2. CASE e = d
    <3>1. wire'[d] = Tail(wire[d]) /\ (\/ c \in Foreign /\ chan'[d] = chan[d]
                                       \/ chan'[d] = Append(chan[d], c))
      BY <1>1 DEF FeedInv, FeedTypes
    <3>2. Pipeline(published[d], chan'[d], wire'[d], changes[d])
      BY <1>2, <3>1, PipelineForwards DEF FeedInv, FeedTypes, FeedAt
    <3>3. Places(d) \ Foreign \subseteq Places(d)'
      BY <1>1, <1>2, <1>3, <3>1 DEF Places
    <3> QED
      BY <1>1, <2>2, <3>2, <3>3 DEF FeedInv, FeedAt
  <2> QED
    BY <2>1, <2>2
<1> QED
  BY <1>4, <1>5 DEF FeedInv

\* The server's task takes a change off the channel, to the bus.
LEMMA ConsumeFeed == ASSUME FeedInv, NEW d \in Databases, Consume(d) PROVE FeedInv'
<1> DEFINE c == Head(chan[d])
<1>1. /\ UNCHANGED <<boot, task, changes, wire, missed>> /\ task[d] = "consume"
      /\ chan' = [chan EXCEPT ![d] = Tail(chan[d])]
      /\ \/ published' = [published EXCEPT ![d] = Append(published[d], c)] /\ UNCHANGED refused
         \/ refused' = [refused EXCEPT ![d] = refused[d] \cup {c}] /\ UNCHANGED published
  BY DEF Consume, Set, procVars
<1>2. /\ chan[d] \in Seq(Nat) /\ chan[d] # <<>> /\ Tail(chan[d]) \in Seq(Nat) /\ c \in Nat
      /\ In(chan[d]) = {c} \cup In(Tail(chan[d]))
  BY QueueFacts, InTail DEF FeedInv, FeedTypes, Consume
<1>3. /\ published[d] \in Seq(Nat) /\ Append(published[d], c) \in Seq(Nat)
      /\ In(Append(published[d], c)) = In(published[d]) \cup {c}
  BY <1>2, QueueFacts, InAppend DEF FeedInv, FeedTypes
<1>4. FeedTypes'
  BY <1>1, <1>2, <1>3 DEF FeedInv, FeedTypes
<1>5. ASSUME NEW e \in Databases PROVE FeedAt(e)'
  <2>1. CASE e # d
    BY <1>1, <2>1, FeedKept DEF FeedInv, FeedTypes, FeedAt
  <2>2. CASE e = d
    <3>1. /\ chan'[d] = Tail(chan[d])
          /\ \/ published'[d] = Append(published[d], c) /\ UNCHANGED refused
             \/ refused'[d] = refused[d] \cup {c} /\ UNCHANGED published
      BY <1>1 DEF FeedInv, FeedTypes
    <3>2. Pipeline(published'[d], chan'[d], wire[d], changes[d])
      <4>1. Pipeline(published[d], Tail(chan[d]), wire[d], changes[d])
            /\ Pipeline(Append(published[d], c), Tail(chan[d]), wire[d], changes[d])
        BY <1>2, PipelinePublishes DEF FeedInv, FeedTypes, FeedAt
      <4> QED
        BY <3>1, <4>1
    <3>3. Places(d) \subseteq Places(d)'
      BY <1>1, <1>2, <1>3, <3>1 DEF Places
    <3>4. boot = "serving"
      BY <1>1 DEF FeedInv, FeedAt
    <3> QED
      BY <1>1, <2>2, <3>2, <3>3, <3>4 DEF FeedInv, FeedAt
  <2> QED
    BY <2>1, <2>2
<1> QED
  BY <1>4, <1>5 DEF FeedInv

\* Every step of the server, the feeds and the databases keeps the invariant.
LEMMA FeedStep == ASSUME FeedInv, [ProducersNext]_producersVars PROVE FeedInv'
<1>1. ASSUME UNCHANGED <<boot, task, dataVars>> PROVE FeedInv'
  BY <1>1, QuietFeed DEF FeedInv, FeedTypes, FeedAt
<1>2. CASE Boot
  <2>1. UNCHANGED dataVars /\ boot # "serving"
    BY <1>2 DEF Boot
  <2>2. task' \in [Databases -> Stages]
    BY <1>2 DEF Boot, CreateProducer, FeedInv, FeedTypes, Stages
  <2>3. \A d \in Databases : task'[d] # "none" => boot' = "serving"
    BY <1>2 DEF Boot, FeedInv, FeedAt
  <2> QED
    BY <2>1, <2>2, <2>3, QuietFeed
<1>3. ASSUME NEW d \in Databases,
             StartProducer(d) \/ FirstAttach(d) \/ SpawnChangeStream(d)
               \/ StreamEnds(d)
      PROVE  FeedInv'
  <2>1. UNCHANGED <<boot, dataVars>> /\ task[d] \in Stages \ {"none"}
    BY <1>3 DEF StartProducer, FirstAttach, SpawnChangeStream, StreamEnds, Stages
  <2>2. \E v \in Stages : task' = [task EXCEPT ![d] = v]
    BY <1>3 DEF StartProducer, FirstAttach, SpawnChangeStream, StreamEnds,
                Set, Stages
  <2>3. task' \in [Databases -> Stages]
    BY <2>2 DEF FeedInv, FeedTypes
  <2>4. \A e \in Databases : task'[e] # "none" => boot' = "serving"
    BY <2>1, <2>2 DEF FeedInv, FeedTypes, FeedAt
  <2> QED
    BY <2>1, <2>3, <2>4, QuietFeed
<1>4. ASSUME NEW d \in Databases,
             \/ ComeBack(d) \/ SupervisorTop(d) \/ SupervisorCheck(d)
             \/ Reattach(d) \/ MarkConnected(d) \/ OpenChangeStream(d)
      PROVE  FeedInv'
  BY <1>1, <1>4 DEF ComeBack, SupervisorTop, SupervisorCheck, Reattach,
                    MarkConnected, OpenChangeStream, procVars
<1>5. ASSUME NEW d \in Databases,
             \/ GoDown(d) \/ DriveTop(d) \/ DriveEnds(d) \/ SupervisorLeave(d)
             \/ Stop(d)
      PROVE  FeedInv'
  <2>1. /\ UNCHANGED <<boot, task, chan, changes, published, refused>>
        /\ \/ UNCHANGED <<wire, missed>>
           \/ /\ wire' = [wire EXCEPT ![d] = <<>>]
              /\ missed' = [missed EXCEPT ![d] = missed[d] \cup ToSet(wire[d])]
    BY <1>5 DEF GoDown, DriveTop, DriveEnds, SupervisorLeave, Stop,
                Kill, LeaveLoop, Set, procVars
  <2> QED
    BY <1>1, <2>1, DropFeed DEF dataVars
<1>6. CASE UNCHANGED producersVars
  BY <1>1, <1>6 DEF producersVars, procVars
<1> QED
  BY <1>2, <1>3, <1>4, <1>5, <1>6, ChangeFeed, DriveOneFeed, ConsumeFeed
     DEF ProducersNext, ProducerStep, ConsumerStep

\* However often a database, its connection or its producer goes down, changes
\* reach the bus in the order they were made and at most once, none before the
\* router listens, and every row change made is on the bus, on its way to it,
\* refused by it, or was missed because no connection was open.
THEOREM FeedsAccountForChanges == ProducersSpec => []ChangesAccounted
<1>1. ProducersInit => FeedInv
  BY FeedInit
<1>2. FeedInv /\ [ProducersNext]_producersVars => FeedInv'
  BY FeedStep
<1>3. FeedInv => ChangesAccounted
  BY DEF FeedInv, FeedAt, ChangesAccounted, Places, In, ToSet, Pipeline, Rising
<1> QED
  BY <1>1, <1>2, <1>3, PTL DEF ProducersSpec
=============================================================================

--------------------------- MODULE FrontendProofs ----------------------------
(***************************************************************************)
(* What the front of the server promises, for every size: the HTTP frontend *)
(* for any number of connections, requests and buffer places and any limit; *)
(* the byte budget its bodies are charged to for any number of threads, any *)
(* capacity and word; the tokens of the gateway for any clients, codes, pairs *)
(* and limit, and the way of a request from there to the backend.  The state *)
(* machines share no state.                                                *)
(***************************************************************************)
EXTENDS HttpFrontend, ByteBudget, Gateway, FiniteSetTheorems, TLAPS

(***************************************************************************)
(* Gateway                                                                 *)
(***************************************************************************)

GrantIds == Codes \cup Pairs
Registries == [clients : SUBSET OAuthClients, grants : SUBSET Grants]

TokensType ==
    /\ memory \in Registries /\ disk \in Registries
    /\ loaded \in BOOLEAN /\ asking \in OAuthClients \cup {NoClient}
    /\ owner \in [GrantIds -> OAuthClients \cup {NoClient}]
    /\ expired \subseteq Grants /\ revoking \subseteq Grants
    /\ source \in [Pairs -> Grants \cup {NoClient}]
    /\ answered \subseteq GrantIds /\ revoked \subseteq Grants
    /\ IsFiniteSet(memory.clients) /\ IsFiniteSet(disk.clients)

\* What was sent to a client, or was revoked, was issued; an authorization in progress
\* belongs to a service that has loaded its registry.
Issued ==
    /\ \A x \in answered : owner[x] # NoClient
    /\ \A g \in revoked : owner[IdOf(g)] # NoClient
    /\ asking # NoClient => loaded
    /\ ~loaded => memory.grants = {}

\* The grant an answered pair was bought with is gone from memory and file.
SourceGone ==
    \A k \in Pairs \cap answered :
        /\ source[k] \in Grants /\ source[k] \notin memory.grants \cup disk.grants
        /\ owner[IdOf(source[k])] # NoClient

\* An answered access token is also in the memory of a service that has loaded it.
InMemory ==
    loaded => \A k \in Pairs \cap answered : Access(k) \in memory.grants \cup expired \cup revoking

TokensInv == /\ TokensType /\ Issued /\ SourceGone /\ InMemory
             /\ SpentOnce /\ RevokedStaysRevoked /\ AnsweredIsDurable /\ GrantsHaveClients
             /\ ClientsBounded

\* A grant names the code or the pair it belongs to.
LEMMA GrantIdsOf ==
    /\ \A g \in Grants : IdOf(g) \in GrantIds
    /\ \A c \in Codes : Code(c) \in Grants /\ IdOf(Code(c)) = c
    /\ \A k \in Pairs : /\ Access(k) \in Grants /\ IdOf(Access(k)) = k
                        /\ Refresh(k) \in Grants /\ IdOf(Refresh(k)) = k
BY DEF Grants, IdOf, Access, Refresh, Code, GrantIds

\* The initial state satisfies the invariant of the token service.
LEMMA TokensInitHolds == TokensInit => TokensInv
<1>1. SUFFICES ASSUME TokensInit PROVE TokensInv
  BY Zenon
<1>2. IsFiniteSet({}) /\ Cardinality({}) = 0 /\ ClientLimit \in Nat
  BY FS_EmptySet, OAuthConstants DEF ClientLimit
<1>3. TokensType
  BY <1>1, <1>2, Zenon DEF TokensInit, TokensType, EmptyRegistry, Registries, GrantIds
<1>4. Issued /\ SourceGone /\ InMemory
  BY <1>1, Zenon DEF TokensInit, EmptyRegistry, Issued, SourceGone, InMemory
<1>5. SpentOnce /\ RevokedStaysRevoked /\ AnsweredIsDurable /\ GrantsHaveClients
  BY <1>1, Zenon DEF TokensInit, EmptyRegistry, SpentOnce, RevokedStaysRevoked, AnsweredIsDurable, GrantsHaveClients
<1>6. ClientsBounded
  BY <1>1, <1>2 DEF TokensInit, EmptyRegistry, ClientsBounded
<1>7. QED
  BY <1>3, <1>4, <1>5, <1>6, Zenon DEF TokensInv


\* A step that issues nothing and answers nothing.
LEMMA Shrinks ==
    ASSUME TokensInv, NEW next \in Registries, NEW ok \in BOOLEAN, Persisted(next, ok),
           IsFiniteSet(next.clients), Cardinality(next.clients) <= ClientLimit,
           loaded, loaded' = loaded,
           next.grants \subseteq memory.grants,
           \A g \in next.grants : owner[IdOf(g)] \in next.clients,
           \A k \in Pairs : Access(k) \in memory.grants \ next.grants => Access(k) \in expired \cup revoking',
           revoking \subseteq revoking', revoking' \subseteq Grants,
           revoked' \subseteq revoked \cup (IF ok THEN Grants \ next.grants ELSE {}),
           \A g \in revoked' : owner[IdOf(g)] # NoClient,
           UNCHANGED <<asking, owner, expired, source, answered>>
    PROVE  TokensInv'
<1>1. memory' = next /\ disk' \in {next, disk} /\ (ok => disk' = next)
  BY Zenon DEF Persisted
<1>2. TokensType'
  BY <1>1, Zenon DEF TokensInv, TokensType
<1>3. Issued'
  BY <1>1, Zenon DEF TokensInv, Issued
<1>4. SourceGone'
  BY <1>1, Zenon DEF TokensInv, SourceGone
<1>5. InMemory'
  BY <1>1, Zenon DEF TokensInv, InMemory
<1>6. SpentOnce'
  BY Zenon DEF TokensInv, SpentOnce
<1>7. RevokedStaysRevoked'
  BY <1>1, Zenon DEF TokensInv, RevokedStaysRevoked
<1>8. AnsweredIsDurable'
  BY <1>1, Zenon DEF TokensInv, InMemory, AnsweredIsDurable
<1>9. GrantsHaveClients'
  BY <1>1, Zenon DEF TokensInv, GrantsHaveClients
<1>10. ClientsBounded'
  BY <1>1, Zenon DEF TokensInv, ClientsBounded, ClientLimit
<1>11. QED
  BY <1>2, <1>3, <1>4, <1>5, <1>6, <1>7, <1>8, <1>9, <1>10, Zenon DEF TokensInv

\* Loading the state file keeps the invariant: what was answered is in the file.
LEMMA LoadStep ==
    ASSUME TokensInv, Load
    PROVE  TokensInv'
<1> DEFINE next == [disk EXCEPT !.grants = Alive(@)]
<1>1. disk \in Registries
  BY Zenon DEF TokensInv, TokensType
<1>2. /\ next \in Registries /\ next.clients = disk.clients
      /\ next.grants \subseteq disk.grants /\ disk.grants \subseteq next.grants \cup expired
  BY <1>1, Zenon DEF Registries, Alive
<1>3. memory' = next /\ disk' \in {next, disk}
  BY Zenon DEF Load, Persisted
<1> HIDE DEF next
<1>4. ~loaded /\ loaded' = TRUE /\ UNCHANGED <<asking, owner, expired, source, answered, revoking, revoked>>
  BY Zenon DEF Load
<1>5. loaded' \in BOOLEAN
  BY <1>4, Zenon
<1>6. TokensType'
  BY <1>2, <1>3, <1>4, <1>5, Zenon DEF TokensInv, TokensType
<1>7. Issued' /\ InMemory'
  BY <1>2, <1>3, <1>4, Zenon DEF TokensInv, Issued, InMemory, AnsweredIsDurable
<1>8. SourceGone'
  BY <1>2, <1>3, <1>4, Zenon DEF TokensInv, SourceGone
<1>9. SpentOnce' /\ RevokedStaysRevoked'
  BY <1>2, <1>3, <1>4, Zenon DEF TokensInv, SpentOnce, RevokedStaysRevoked
<1>10. AnsweredIsDurable'
  BY <1>2, <1>3, <1>4, Zenon DEF TokensInv, AnsweredIsDurable
<1>11. GrantsHaveClients'
  BY <1>2, <1>3, <1>4, Zenon DEF TokensInv, GrantsHaveClients
<1>12. ClientsBounded'
  BY <1>2, <1>3, Zenon DEF TokensInv, ClientsBounded, ClientLimit
<1>13. QED
  BY <1>6, <1>7, <1>8, <1>9, <1>10, <1>11, <1>12, Zenon DEF TokensInv

\* A client that is evicted is one no grant refers to, and the new one fits.
LEMMA RegisterStep ==
    ASSUME TokensInv, NEW c \in OAuthClients, Register(c)
    PROVE  TokensInv'
<1>1. PICK gone \in Evictions :
         LET kept == memory.clients \ gone
         IN  IF Cardinality(kept) >= ClientLimit
             THEN memory' = [memory EXCEPT !.clients = kept] /\ disk' = disk
             ELSE \E ok \in BOOLEAN : Persisted([memory EXCEPT !.clients = kept \cup {c}], ok)
  BY Zenon DEF Register
<1> DEFINE kept == memory.clients \ gone
<1>2. gone \subseteq memory.clients \ Referenced
  BY Zenon DEF Evictions
<1>3. \A g \in memory.grants : owner[IdOf(g)] \in kept
  BY <1>2, Zenon DEF Referenced, TokensInv, GrantsHaveClients
<1>4. memory \in Registries /\ IsFiniteSet(memory.clients) /\ Cardinality(memory.clients) <= ClientLimit
  BY Zenon DEF TokensInv, TokensType, ClientsBounded
<1>5. /\ IsFiniteSet(kept) /\ Cardinality(kept) \in Nat /\ Cardinality(memory.clients) \in Nat
      /\ Cardinality(kept) <= Cardinality(memory.clients) /\ ClientLimit \in Nat
  <2>1. kept \subseteq memory.clients
    BY Zenon
  <2>2. QED
    BY <1>4, <2>1, FS_Subset, FS_CardinalityType, OAuthConstants DEF ClientLimit
<1>6. /\ loaded /\ UNCHANGED <<loaded, asking, owner, expired, source, answered, revoking, revoked>>
  BY Zenon DEF Register
<1>7. PICK clients \in {kept, kept \cup {c}}, ok \in BOOLEAN :
         /\ Persisted([memory EXCEPT !.clients = clients], ok)
         /\ clients = kept \/ Cardinality(kept) < ClientLimit
  <2>1. CASE Cardinality(kept) >= ClientLimit
    <3>1. Persisted([memory EXCEPT !.clients = kept], FALSE)
      BY <1>1, <2>1, Zenon DEF Persisted
    <3>2. QED
      BY <3>1, Zenon
  <2>2. CASE ~(Cardinality(kept) >= ClientLimit)
    <3>1. Cardinality(kept) < ClientLimit
      BY <1>5, <2>2
    <3>2. \E ok \in BOOLEAN : Persisted([memory EXCEPT !.clients = kept \cup {c}], ok)
      BY <1>1, <2>2, Zenon
    <3>3. QED
      BY <3>1, <3>2, Zenon
  <2>3. QED
    BY <2>1, <2>2, Zenon
<1>8. IsFiniteSet(clients) /\ Cardinality(clients) <= ClientLimit
  <2>1. /\ IsFiniteSet(kept \cup {c})
        /\ Cardinality(kept \cup {c}) = Cardinality(kept) \/ Cardinality(kept \cup {c}) = Cardinality(kept) + 1
    BY <1>5, FS_AddElement, Zenon
  <2>2. QED
    <3>1. CASE clients = kept
      BY <1>4, <1>5, <3>1
    <3>2. CASE clients # kept
      <4>1. clients = kept \cup {c}
        BY <3>2, Zenon
      <4>2. Cardinality(kept) < ClientLimit /\ Cardinality(kept) \in Nat /\ ClientLimit \in Nat
        BY <1>5, <1>7, <3>2, Zenon
      <4>3. Cardinality(clients) = Cardinality(kept) \/ Cardinality(clients) = Cardinality(kept) + 1
        BY <2>1, <4>1, Zenon
      <4> HIDE DEF kept
      <4>4. Cardinality(clients) <= ClientLimit
        BY <4>2, <4>3
      <4>5. QED
        BY <2>1, <4>1, <4>4, Zenon
    <3>3. QED
      BY <3>1, <3>2, Zenon
<1>9. clients \subseteq OAuthClients /\ kept \subseteq clients
  BY <1>4, <1>7, Zenon DEF Registries
<1> HIDE DEF kept
<1> DEFINE next == [memory EXCEPT !.clients = clients]
<1>10. next \in Registries /\ next.clients = clients /\ next.grants = memory.grants
  BY <1>4, <1>9, Zenon DEF Registries
<1>11. Persisted(next, ok)
  BY <1>7, Zenon
<1> HIDE DEF next
<1>12. \A g \in revoked : owner[IdOf(g)] # NoClient
  BY Zenon DEF TokensInv, Issued
<1>13. revoking \subseteq Grants
  BY Zenon DEF TokensInv, TokensType
<1>14. \A g \in next.grants : owner[IdOf(g)] \in next.clients
  BY <1>3, <1>9, <1>10, Zenon
<1>15. QED
  BY <1>6, <1>8, <1>10, <1>11, <1>12, <1>13, <1>14, Shrinks, Zenon

\* Opening an authorization keeps the invariant.
LEMMA AuthorizeStep ==
    ASSUME TokensInv, NEW c \in OAuthClients, Authorize(c)
    PROVE  TokensInv'
<1>1. loaded /\ asking' = c
  BY Zenon DEF Authorize
<1>2. UNCHANGED <<memory, disk, loaded, owner, expired, source, answered, revoking, revoked>>
  BY Zenon DEF Authorize
<1>3. TokensType' /\ Issued'
  BY <1>1, <1>2, Zenon DEF TokensInv, TokensType, Issued
<1>4. QED
  BY <1>2, <1>3, Zenon DEF TokensInv, SourceGone, InMemory, SpentOnce, RevokedStaysRevoked,
     AnsweredIsDurable, GrantsHaveClients, ClientsBounded

\* Removing one grant that is expired or asked to be revoked.
LEMMA OneGone ==
    ASSUME TokensInv, NEW g \in Grants
    PROVE  LET next == [memory EXCEPT !.grants = @ \ {g}]
           IN  /\ next \in Registries /\ next.clients = memory.clients
               /\ next.grants = memory.grants \ {g}
BY Zenon DEF TokensInv, TokensType, Registries

\* Dropping an expired grant keeps the invariant.
LEMMA UseExpiredStep ==
    ASSUME TokensInv, NEW g \in Grants, UseExpired(g)
    PROVE  TokensInv'
<1> DEFINE next == [memory EXCEPT !.grants = @ \ {g}]
<1>1. next \in Registries /\ next.clients = memory.clients /\ next.grants = memory.grants \ {g}
  BY OneGone, Zenon
<1>2. PICK ok \in BOOLEAN : Persisted(next, ok)
  BY Zenon DEF UseExpired
<1> HIDE DEF next
<1>3. /\ loaded /\ g \in expired
      /\ UNCHANGED <<loaded, asking, owner, expired, source, answered, revoking, revoked>>
  BY Zenon DEF UseExpired
<1>4. /\ IsFiniteSet(next.clients) /\ Cardinality(next.clients) <= ClientLimit
      /\ \A h \in next.grants : owner[IdOf(h)] \in next.clients
  BY <1>1, Zenon DEF TokensInv, TokensType, ClientsBounded, GrantsHaveClients
<1>5. revoking \subseteq Grants /\ \A h \in revoked : owner[IdOf(h)] # NoClient
  BY Zenon DEF TokensInv, TokensType, Issued
<1>6. QED
  BY <1>1, <1>2, <1>3, <1>4, <1>5, Shrinks, Zenon

\* A revocation keeps the invariant, whether or not its write succeeds.
LEMMA RevokeStep ==
    ASSUME TokensInv, NEW g \in Grants, Revoke(g)
    PROVE  TokensInv'
<1> DEFINE next == [memory EXCEPT !.grants = @ \ {g}]
<1>1. next \in Registries /\ next.clients = memory.clients /\ next.grants = memory.grants \ {g}
  BY OneGone, Zenon
<1>2. PICK ok \in BOOLEAN : Persisted(next, ok) /\ revoked' = IF ok THEN revoked \cup {g} ELSE revoked
  BY Zenon DEF Revoke
<1> HIDE DEF next
<1>3. /\ loaded /\ revoking' = revoking \cup {g} /\ IdOf(g) \in answered
      /\ UNCHANGED <<loaded, asking, owner, expired, source, answered>>
  BY Zenon DEF Revoke
<1>4. /\ IsFiniteSet(next.clients) /\ Cardinality(next.clients) <= ClientLimit
      /\ \A h \in next.grants : owner[IdOf(h)] \in next.clients
  BY <1>1, Zenon DEF TokensInv, TokensType, ClientsBounded, GrantsHaveClients
<1>5. revoking \subseteq Grants /\ \A h \in revoked \cup {g} : owner[IdOf(h)] # NoClient
  BY <1>3, Zenon DEF TokensInv, TokensType, Issued
<1>6. revoked' \subseteq revoked \cup (IF ok THEN Grants \ next.grants ELSE {})
  BY <1>1, <1>2, Zenon
<1>7. \A h \in revoked' : owner[IdOf(h)] # NoClient
  BY <1>2, <1>5, Zenon
<1>8. QED
  BY <1>1, <1>2, <1>3, <1>4, <1>5, <1>6, <1>7, Shrinks, Zenon

\* Time that makes a grant old keeps the invariant.
LEMMA GrantExpiresStep ==
    ASSUME TokensInv, NEW g \in Grants, GrantExpires(g)
    PROVE  TokensInv'
<1>1. expired' = expired \cup {g}
  BY Zenon DEF GrantExpires
<1>2. UNCHANGED <<memory, disk, loaded, asking, owner, source, answered, revoking, revoked>>
  BY Zenon DEF GrantExpires
<1>3. TokensType' /\ Issued' /\ SourceGone'
  BY <1>1, <1>2, Zenon DEF TokensInv, TokensType, Issued, SourceGone
<1>4. InMemory' /\ AnsweredIsDurable'
  BY <1>1, <1>2, Zenon DEF TokensInv, InMemory, AnsweredIsDurable
<1>5. QED
  BY <1>2, <1>3, <1>4, Zenon DEF TokensInv, SpentOnce, RevokedStaysRevoked, GrantsHaveClients, ClientsBounded

\* A restart loses the memory and keeps the invariant.
LEMMA RestartStep ==
    ASSUME TokensInv, Restart
    PROVE  TokensInv'
<1>1. memory' = EmptyRegistry /\ loaded' = FALSE /\ asking' = NoClient
  BY Zenon DEF Restart
<1>2. UNCHANGED <<disk, owner, expired, source, answered, revoking, revoked>>
  BY Zenon DEF Restart
<1>3. /\ EmptyRegistry \in Registries /\ EmptyRegistry.clients = {} /\ EmptyRegistry.grants = {}
      /\ IsFiniteSet({}) /\ Cardinality({}) = 0 /\ ClientLimit \in Nat
  BY FS_EmptySet, OAuthConstants DEF EmptyRegistry, Registries, ClientLimit
<1>4. loaded' \in BOOLEAN
  BY <1>1, Zenon
<1>5. TokensType'
  BY <1>1, <1>2, <1>3, <1>4, Zenon DEF TokensInv, TokensType
<1>6. Issued' /\ SourceGone' /\ InMemory'
  BY <1>1, <1>2, <1>3, Zenon DEF TokensInv, Issued, SourceGone, InMemory
<1>7. SpentOnce' /\ RevokedStaysRevoked' /\ AnsweredIsDurable'
  BY <1>1, <1>2, <1>3, Zenon DEF TokensInv, SpentOnce, RevokedStaysRevoked, AnsweredIsDurable
<1>8. GrantsHaveClients' /\ ClientsBounded'
  BY <1>1, <1>2, <1>3 DEF TokensInv, GrantsHaveClients, ClientsBounded, ClientLimit
<1>9. QED
  BY <1>5, <1>6, <1>7, <1>8, Zenon DEF TokensInv

\* A step that issues the grants new for the unused id x to a registered client, in
\* exchange for the grants in spent, and answers with x when the write succeeded.
Issuing(x, client, new, spent, next, ok) ==
    /\ loaded /\ x \in GrantIds /\ owner[x] = NoClient /\ client \in memory.clients
    /\ new \subseteq Grants /\ \A g \in new : IdOf(g) = x
    /\ spent \subseteq memory.grants /\ \A k \in Pairs : Access(k) \notin spent
    /\ next \in Registries /\ next.clients = memory.clients
    /\ next.grants = (memory.grants \ spent) \cup new
    /\ Persisted(next, ok)
    /\ owner' = [owner EXCEPT ![x] = client]
    /\ answered' = IF ok THEN answered \cup {x} ELSE answered
    /\ source' \in [Pairs -> Grants \cup {NoClient}]
    /\ \A k \in Pairs : k # x => source'[k] = source[k]
    /\ x \in Pairs => /\ source'[x] \in spent /\ Access(x) \in new
                      /\ owner[IdOf(source'[x])] # NoClient
    /\ asking' \in {asking, NoClient} /\ UNCHANGED <<loaded, expired, revoking, revoked>>

\* A step that issues grants in exchange for others keeps the invariant.
LEMMA Issues ==
    ASSUME TokensInv, NEW x, NEW client, NEW new, NEW spent, NEW next, NEW ok \in BOOLEAN,
           Issuing(x, client, new, spent, next, ok)
    PROVE  TokensInv'
<1> USE DEF Issuing
<1>1. memory' = next /\ disk' \in {next, disk} /\ (ok => disk' = next)
  BY Zenon DEF Persisted
<1>2. /\ client \in OAuthClients /\ client # NoClient
      /\ owner' \in [GrantIds -> OAuthClients \cup {NoClient}]
      /\ owner'[x] = client /\ \A y \in GrantIds : y # x => owner'[y] = owner[y]
  BY OAuthConstants, Zenon DEF TokensInv, TokensType, Registries
<1>3. x \notin answered /\ answered' \subseteq answered \cup {x} /\ (x \in answered' => disk' = next)
  BY <1>1, Zenon DEF TokensInv, Issued
<1>4. \A g \in memory.grants \cup disk.grants : owner[IdOf(g)] # NoClient /\ IdOf(g) # x /\ g \notin new
  BY OAuthConstants, Zenon DEF TokensInv, TokensType, Registries, GrantsHaveClients
<1>5. TokensType'
  <2>1. asking' \in OAuthClients \cup {NoClient} /\ answered' \subseteq GrantIds
    BY <1>3, Zenon DEF TokensInv, TokensType
  <2>2. QED
    BY <1>1, <1>2, <2>1, Zenon DEF TokensInv, TokensType
<1>6. \A g \in Grants : IdOf(g) \in GrantIds
  BY GrantIdsOf, Zenon
<1>7. Issued'
  BY <1>1, <1>2, <1>3, <1>6, Zenon DEF TokensInv, TokensType, Issued
<1>8. SourceGone'
  <2>1. SUFFICES ASSUME NEW k \in Pairs, k \in answered'
                 PROVE  /\ source'[k] \in Grants /\ source'[k] \notin memory'.grants \cup disk'.grants
                        /\ owner'[IdOf(source'[k])] # NoClient
    BY Zenon DEF SourceGone
  <2>2. CASE k = x
    <3>1. source'[k] \in spent /\ source'[k] \in Grants /\ IdOf(source'[k]) \in GrantIds
      BY <1>6, <2>2, Zenon DEF TokensInv, TokensType, Registries
    <3>2. memory' = next /\ disk' = next
      BY <1>1, <1>3, <2>1, <2>2, Zenon
    <3>3. source'[k] \notin next.grants
      BY <1>4, <3>1, Zenon
    <3>4. owner'[IdOf(source'[k])] # NoClient
      BY <1>2, <3>1, <1>4, Zenon
    <3>5. QED
      BY <3>1, <3>2, <3>3, <3>4, Zenon
  <2>3. CASE k # x
    <3>1. /\ source'[k] = source[k] /\ source[k] \in Grants
          /\ source[k] \notin memory.grants \cup disk.grants
          /\ owner[IdOf(source[k])] # NoClient
      BY <1>3, <2>1, <2>3, Zenon DEF TokensInv, SourceGone
    <3>2. source[k] \notin new
      BY <3>1, Zenon
    <3>3. IdOf(source[k]) \in GrantIds /\ IdOf(source[k]) # x
      BY <1>6, <3>1, Zenon
    <3>4. QED
      BY <1>1, <1>2, <3>1, <3>2, <3>3, Zenon
  <2>4. QED
    BY <2>2, <2>3, Zenon
<1>9. InMemory'
  BY <1>1, <1>3, Zenon DEF TokensInv, InMemory
<1>10. SpentOnce'
  <2>1. \A k \in Pairs \cap answered : source[k] \notin memory.grants /\ source'[k] = source[k]
    BY <1>3, Zenon DEF TokensInv, SourceGone
  <2>2. QED
    BY <1>3, <2>1 DEF TokensInv, SpentOnce
<1>11. RevokedStaysRevoked'
  <2>1. revoked \cap new = {}
    BY Zenon DEF TokensInv, Issued
  <2>2. QED
    BY <1>1, <2>1, Zenon DEF TokensInv, RevokedStaysRevoked
<1>12. AnsweredIsDurable'
  BY <1>1, <1>3, Zenon DEF TokensInv, InMemory, AnsweredIsDurable
<1>13. GrantsHaveClients'
  <2>1. \A g \in memory.grants \cup disk.grants : owner'[IdOf(g)] = owner[IdOf(g)]
    BY <1>2, <1>4, <1>6, Zenon DEF TokensInv, TokensType, Registries
  <2>2. \A g \in next.grants : owner'[IdOf(g)] \in next.clients
    BY <1>2, <2>1, Zenon DEF TokensInv, GrantsHaveClients
  <2>3. \A g \in disk.grants : owner'[IdOf(g)] \in disk.clients
    BY <2>1, Zenon DEF TokensInv, GrantsHaveClients
  <2>4. QED
    BY <1>1, <2>2, <2>3, Zenon DEF GrantsHaveClients
<1>14. ClientsBounded'
  BY <1>1, Zenon DEF TokensInv, ClientsBounded, ClientLimit
<1>15. QED
  BY <1>5, <1>7, <1>8, <1>9, <1>10, <1>11, <1>12, <1>13, <1>14, Zenon DEF TokensInv

\* Issuing a code is such a step, in exchange for nothing.
LEMMA IssueCodeStep ==
    ASSUME TokensInv, NEW c \in Codes, IssueCode(c)
    PROVE  TokensInv'
<1>1. loaded /\ asking' = NoClient /\ owner[c] = NoClient /\ c \in GrantIds /\ c \notin Pairs
  BY OAuthConstants, Zenon DEF TokensInv, Issued, IssueCode, GrantIds
<1>2. UNCHANGED <<loaded, expired, source, revoking, revoked>>
  BY Zenon DEF IssueCode
<1>3. CASE StillRegistered
  <2> DEFINE next == [memory EXCEPT !.grants = @ \cup {Code(c)}]
  <2>1. PICK ok \in BOOLEAN : /\ Persisted(next, ok)
                              /\ owner' = [owner EXCEPT ![c] = asking]
                              /\ answered' = IF ok THEN answered \cup {c} ELSE answered
    BY <1>3, Zenon DEF IssueCode
  <2>2. Code(c) \in Grants /\ IdOf(Code(c)) = c
    BY GrantIdsOf, Zenon
  <2>3. /\ next \in Registries /\ next.clients = memory.clients
        /\ next.grants = memory.grants \cup {Code(c)}
    BY <2>2, Zenon DEF TokensInv, TokensType, Registries
  <2> HIDE DEF next
  <2>4. source \in [Pairs -> Grants \cup {NoClient}]
    BY Zenon DEF TokensInv, TokensType
  <2> DEFINE new == {Code(c)}
             spent == {}
  <2>5. /\ new \in SUBSET Grants /\ \A g \in new : IdOf(g) = c
        /\ spent \in SUBSET memory.grants /\ \A k \in Pairs : Access(k) \notin spent
        /\ next.grants = (memory.grants \ spent) \cup new
    BY <2>2, <2>3, Zenon
  <2> HIDE DEF new, spent
  <2>6. asking \in memory.clients
    BY <1>3, Zenon DEF StillRegistered
  <2>7. Issuing(c, asking, new, spent, next, ok)
    BY <1>1, <1>2, <2>1, <2>3, <2>4, <2>5, <2>6, Zenon DEF Issuing
  <2>8. QED
    BY <2>7, Issues, Zenon
<1>4. CASE ~StillRegistered
  <2>1. UNCHANGED <<memory, disk, owner, answered>>
    BY <1>4, Zenon DEF IssueCode
  <2>2. TokensType' /\ Issued'
    BY <1>1, <1>2, <2>1, Zenon DEF TokensInv, TokensType, Issued
  <2>3. QED
    BY <1>2, <2>1, <2>2, Zenon DEF TokensInv, SourceGone, InMemory, SpentOnce, RevokedStaysRevoked,
       AnsweredIsDurable, GrantsHaveClients, ClientsBounded
<1>5. QED
  BY <1>3, <1>4, Zenon

\* Answering with a pair is such a step, in exchange for the code or refresh token it was bought with.
LEMMA ExchangeTokenStep ==
    ASSUME TokensInv, NEW g \in Grants, NEW k \in Pairs, ExchangeToken(g, k)
    PROVE  TokensInv'
<1> DEFINE next == [memory EXCEPT !.grants = Spent(g) \cup {Access(k), Refresh(k)}]
           new == {Access(k), Refresh(k)}
           spent == {g}
<1>1. /\ loaded /\ owner[k] = NoClient /\ g \in memory.grants /\ g[1] # "access"
      /\ owner[IdOf(g)] \in memory.clients /\ owner' = [owner EXCEPT ![k] = owner[IdOf(g)]]
      /\ source' = [source EXCEPT ![k] = g]
      /\ UNCHANGED <<loaded, asking, expired, revoking, revoked>>
  BY Zenon DEF ExchangeToken
<1>2. PICK ok \in BOOLEAN : /\ Persisted(next, ok)
                            /\ answered' = IF ok THEN answered \cup {k} ELSE answered
  BY Zenon DEF ExchangeToken
<1>3. /\ Access(k) \in Grants /\ IdOf(Access(k)) = k /\ k \in GrantIds
      /\ Refresh(k) \in Grants /\ IdOf(Refresh(k)) = k
  BY GrantIdsOf, Zenon DEF GrantIds
<1>4. \A j \in Pairs : Access(j) # g
  BY <1>1 DEF Access
<1>5. /\ next \in Registries /\ next.clients = memory.clients
      /\ next.grants = (memory.grants \ spent) \cup new
  BY <1>3, Zenon DEF TokensInv, TokensType, Registries, Spent
<1>6. /\ new \in SUBSET Grants /\ \A h \in new : IdOf(h) = k
      /\ spent \in SUBSET memory.grants /\ \A j \in Pairs : Access(j) \notin spent
      /\ Access(k) \in new
  BY <1>1, <1>3, <1>4, Zenon
<1>7. /\ source' \in [Pairs -> Grants \cup {NoClient}]
      /\ \A j \in Pairs : j # k => source'[j] = source[j]
      /\ source'[k] = g /\ g \in spent
  BY <1>1, Zenon DEF TokensInv, TokensType
<1>8. owner[IdOf(g)] # NoClient
  BY <1>1, OAuthConstants, Zenon DEF TokensInv, TokensType, Registries
<1> HIDE DEF next, new, spent
<1>9. Issuing(k, owner[IdOf(g)], new, spent, next, ok)
  BY <1>1, <1>2, <1>3, <1>5, <1>6, <1>7, <1>8, Zenon DEF Issuing
<1>10. QED
  BY <1>9, Issues, Zenon

\* Every step of the token service keeps its invariant.
LEMMA TokensInductive == TokensInv /\ [TokensNext]_oauthVars => TokensInv'
<1>1. SUFFICES ASSUME TokensInv, [TokensNext]_oauthVars PROVE TokensInv'
  BY Zenon
<1>2. CASE Load \/ Restart
  BY <1>1, <1>2, LoadStep, RestartStep, Zenon
<1>3. CASE \E c \in OAuthClients : Register(c) \/ Authorize(c)
  BY <1>1, <1>3, RegisterStep, AuthorizeStep, Zenon
<1>4. CASE \E c \in Codes : IssueCode(c)
  BY <1>1, <1>4, IssueCodeStep, Zenon
<1>5. CASE \E g \in Grants, k \in Pairs : ExchangeToken(g, k)
  BY <1>1, <1>5, ExchangeTokenStep, Zenon
<1>6. CASE \E g \in Grants : UseExpired(g) \/ Revoke(g) \/ GrantExpires(g)
  BY <1>1, <1>6, UseExpiredStep, RevokeStep, GrantExpiresStep, Zenon
<1>7. CASE UNCHANGED oauthVars
  <2>1. UNCHANGED <<memory, disk, loaded, asking, owner, expired, source, answered, revoking, revoked>>
    BY <1>7, Zenon DEF oauthVars
  <2>2. QED
    BY <1>1, <2>1, Zenon DEF TokensInv, TokensType, Issued, SourceGone, InMemory, SpentOnce,
       RevokedStaysRevoked, AnsweredIsDurable, GrantsHaveClients, ClientsBounded
<1>8. QED
  BY <1>1, <1>2, <1>3, <1>4, <1>5, <1>6, <1>7, Zenon DEF TokensNext

-------------------------------------------------------------------------------
Asked == [oauth : BOOLEAN, local : BOOLEAN, verb : Verbs, path : Paths, scopes : SUBSET Scopes,
          verified : BOOLEAN, call : BOOLEAN, method : Methods, modern : BOOLEAN,
          mirrored : BOOLEAN, tasks : BOOLEAN]

\* The places of a request: before its token was looked at, with an invocation open, and
\* all those where the method is known to be a POST.
Unknown  == {"arrived", "route", "authenticate"}
Invoking == {"running", "answered", "augmented", "failed"}
Posted   == {"parse", "validate", "dispatch", "tool"} \cup Invoking

\* The bookkeeping of the invocation: one is open exactly between StartTool and EndTool.
Bookkept ==
    /\ stage \in Unknown \cup {"negotiate", "replied"} \cup Posted
    /\ opened = IF stage \in Invoking THEN 1 ELSE 0
    /\ ends \in {0, 1} /\ (stage # "replied" => ends = 0)

\* What the places a request has passed know of it.
Passed ==
    /\ stage \notin Invoking \cup {"replied"} => work = {}
    /\ stage \in Posted => asked.verb = "POST"
    /\ stage \in Posted \cup {"negotiate"} /\ asked.oauth /\ NeedsToken => asked.verified
    /\ stage = "dispatch" /\ asked.modern /\ asked.call /\ asked.method # "initialize" => asked.mirrored
    /\ stage = "tool" /\ asked.modern => asked.mirrored

DispatchInv ==
    /\ asked \in Asked
    /\ Bookkept
    /\ Passed
    /\ WorkIsAuthorised
    /\ ModernWorkIsMirrored

\* A request starts with nothing known, nothing asked and nothing open.
LEMMA DispatchStarts == DispatchInit => DispatchInv
  BY DEF DispatchInit, DispatchInv, Asked, Verbs, Paths, Scopes, Methods, Bookkept, Passed, Unknown,
         Invoking, Posted, NeedsToken, WorkIsAuthorised, ModernWorkIsMirrored

\* While nothing was asked of the backend, the two properties of the work are void.
LEMMA NoWorkYet ==
    ASSUME work' = {}
    PROVE  WorkIsAuthorised' /\ ModernWorkIsMirrored'
  BY Zenon DEF WorkIsAuthorised, ModernWorkIsMirrored

\* The steps before the method table ask the backend for nothing and open no invocation.
LEMMA EarlyStep ==
    ASSUME DispatchInv, Inspect \/ Route \/ Authenticate \/ Negotiate \/ Parse \/ Validate
    PROVE  DispatchInv'
<1>1. work = {} /\ NothingDone /\ opened = 0 /\ ends = 0
  BY Zenon DEF DispatchInv, Passed, Bookkept, Unknown, Invoking, Posted, Inspect, Route, Authenticate,
         Negotiate, Parse, Validate
<1>2. WorkIsAuthorised' /\ ModernWorkIsMirrored'
  BY <1>1, NoWorkYet, Zenon DEF NothingDone
<1>3. SUFFICES asked' \in Asked /\ Bookkept' /\ Passed'
  BY <1>2, Zenon DEF DispatchInv
<1>4. CASE Inspect
  <2>1. asked' \in Asked
    BY <1>4, ZenonT(30) DEF DispatchInv, Asked, Inspect
  <2>2. stage' \in {"replied", "route"}
    BY <1>4, Zenon DEF Inspect, Goes
  <2>3. QED
    BY <1>1, <2>1, <2>2, Zenon DEF NothingDone, Bookkept, Passed, Unknown, Invoking, Posted
<1>5. CASE Route
  <2>1. asked' \in Asked
    BY <1>5, Zenon DEF DispatchInv, Asked, Route
  <2>2. stage' \in {"replied", "authenticate"}
    BY <1>5, Zenon DEF Route, Goes
  <2>3. QED
    BY <1>1, <2>1, <2>2, Zenon DEF NothingDone, Bookkept, Passed, Unknown, Invoking, Posted
<1>6. CASE Authenticate
  <2>1. \/ stage' = "replied" /\ asked' = asked
        \/ stage' = "negotiate" /\ asked' = asked /\ ~(asked.oauth /\ NeedsToken)
        \/ /\ stage' = "negotiate"
           /\ \E scopes \in SUBSET Scopes : asked' = [asked EXCEPT !.verified = TRUE, !.scopes = scopes]
    BY <1>6, Zenon DEF Authenticate, Goes
  <2>2. CASE asked' = asked /\ (stage' = "negotiate" => ~(asked.oauth /\ NeedsToken))
    <3>1. stage' \in {"replied", "negotiate"}
      BY <2>1, Zenon
    <3>2. QED
      BY <1>1, <2>2, <3>1, Zenon DEF NothingDone, DispatchInv, Bookkept, Passed, Unknown, Invoking, Posted, NeedsToken
  <2>3. CASE /\ stage' = "negotiate"
             /\ \E scopes \in SUBSET Scopes : asked' = [asked EXCEPT !.verified = TRUE, !.scopes = scopes]
    <3>1. asked' \in Asked /\ asked'.verified
      BY <2>3, ZenonT(30) DEF DispatchInv, Asked
    <3>2. QED
      BY <1>1, <2>3, <3>1, Zenon DEF NothingDone, DispatchInv, Bookkept, Passed, Unknown, Invoking, Posted, NeedsToken
  <2>4. QED
    BY <2>1, <2>2, <2>3, ZenonT(30)
<1>7. CASE Negotiate
  <2>1. asked' = asked /\ stage = "negotiate"
    BY <1>7, Zenon DEF Negotiate
  <2>2. stage' = "replied" \/ (stage' = "parse" /\ asked.verb = "POST")
    BY <1>7, Zenon DEF Negotiate, Goes
  <2>3. QED
    BY <1>1, <2>1, <2>2, Zenon DEF NothingDone, DispatchInv, Bookkept, Passed, Unknown, Invoking, Posted, NeedsToken
<1>8. CASE Parse
  <2>1. stage = "parse" /\ stage' \in {"replied", "validate"}
    BY <1>8, Zenon DEF Parse, Goes
  <2>2. asked' \in Asked /\ asked'.verb = asked.verb /\ asked'.oauth = asked.oauth /\ asked'.verified = asked.verified
    BY <1>8, Zenon DEF Parse, DispatchInv, Asked
  <2>3. QED
    BY <1>1, <2>1, <2>2, Zenon DEF NothingDone, DispatchInv, Bookkept, Passed, Unknown, Invoking, Posted, NeedsToken
<1>9. CASE Validate
  <2>1. PICK header \in {"none", "unsupported", "legacy", "modern"},
              agrees, meta, caps, mirrorsMethod, mirrorsName, tasks \in BOOLEAN :
            /\ tasks => caps
            /\ asked' = [asked EXCEPT !.modern = header = "modern",
                                      !.mirrored = mirrorsMethod /\ (asked.method \in Named => mirrorsName),
                                      !.tasks = tasks]
            /\ Goes(IF Unsound(header, agrees, meta, caps, mirrorsMethod, mirrorsName)
                    THEN "replied" ELSE "dispatch")
    BY <1>9, Zenon DEF Validate
  <2>2. /\ asked' \in Asked /\ asked'.verb = asked.verb /\ asked'.oauth = asked.oauth
        /\ asked'.verified = asked.verified /\ asked'.call = asked.call /\ asked'.method = asked.method
        /\ asked'.modern = (header = "modern")
        /\ asked'.mirrored = (mirrorsMethod /\ (asked.method \in Named => mirrorsName))
    BY <2>1, ZenonT(30) DEF DispatchInv, Asked
  <2>3. /\ stage = "validate" /\ stage' \in {"replied", "dispatch"}
        /\ stage' = "dispatch" => ~Unsound(header, agrees, meta, caps, mirrorsMethod, mirrorsName)
    BY <1>9, <2>1, Zenon DEF Validate, Goes
  <2>4. stage' = "dispatch" /\ asked'.modern /\ asked'.call /\ asked'.method # "initialize" => asked'.mirrored
    BY <2>2, <2>3, Zenon DEF Unsound
  <2>5. QED
    BY <1>1, <2>2, <2>3, <2>4, Zenon DEF NothingDone, DispatchInv, Bookkept, Passed, Unknown, Invoking, Posted, NeedsToken
<1>10. QED
  BY <1>4, <1>5, <1>6, <1>7, <1>8, <1>9, Zenon

\* The method table hands a tool call on, and asks the backend for an extension method only
\* with the scope the method needs.
LEMMA DispatchMethodStep ==
    ASSUME DispatchInv, DispatchMethod
    PROVE  DispatchInv'
<1>1. /\ stage = "dispatch" /\ UNCHANGED <<asked, opened, ends>> /\ work = {} /\ opened = 0 /\ ends = 0
      /\ asked \in Asked /\ asked.verb = "POST" /\ (asked.oauth => asked.verified)
      /\ asked.modern /\ asked.call /\ asked.method # "initialize" => asked.mirrored
  BY Zenon DEF DispatchMethod, DispatchInv, Passed, Bookkept, Posted, Invoking, NeedsToken
<1>2. \/ asked.call /\ asked.method = "tools/call" /\ stage' = "tool" /\ work' = {}
      \/ /\ asked.call /\ asked.method \in {"tasks/get", "tasks/update", "resources/read", "resources/list"}
         /\ Allows(MethodScope) /\ work' = {[what |-> asked.method, scope |-> MethodScope]} /\ stage' = "replied"
      \/ stage' = "replied" /\ work' = {}
  BY <1>1, Zenon DEF DispatchMethod, Goes
<1>3. stage' \in {"tool", "replied"}
  BY <1>2, Zenon
<1>4. asked' \in Asked /\ Bookkept'
  BY <1>1, <1>3, Zenon DEF Bookkept, Invoking, Posted
<1>5. Passed'
  BY <1>1, <1>2, Zenon DEF Passed, NeedsToken, Posted, Invoking
<1>6. WorkIsAuthorised' /\ ModernWorkIsMirrored'
  BY <1>1, <1>2 DEF WorkIsAuthorised, ModernWorkIsMirrored, Allows
<1>7. QED
  BY <1>4, <1>5, <1>6, Zenon DEF DispatchInv

\* A tool is started with the scope its policy names, in an invocation of its own.
LEMMA StartToolStep ==
    ASSUME DispatchInv, StartTool
    PROVE  DispatchInv'
<1>1. /\ stage = "tool" /\ UNCHANGED <<asked, ends>> /\ work = {} /\ opened = 0 /\ ends = 0
      /\ asked \in Asked /\ asked.verb = "POST" /\ (asked.oauth => asked.verified)
      /\ asked.modern => asked.mirrored
  BY Zenon DEF StartTool, DispatchInv, Passed, Bookkept, Posted, Invoking, NeedsToken
<1>2. \/ stage' = "replied" /\ work' = {} /\ opened' = 0
      \/ stage' = "answered" /\ work' = {} /\ opened' = 1
      \/ /\ stage' = "running" /\ opened' = 1
         /\ \E scope \in {"read", "exec", "none"} :
               (scope = "none" \/ Allows(scope)) /\ work' = {[what |-> "tools/call", scope |-> scope]}
  BY <1>1 DEF StartTool
<1>3. asked' \in Asked /\ Bookkept'
  BY <1>1, <1>2, Zenon DEF Bookkept, Invoking, Posted
<1>4. Passed'
  BY <1>1, <1>2, Zenon DEF Passed, NeedsToken, Posted, Invoking
<1>5. WorkIsAuthorised' /\ ModernWorkIsMirrored'
  BY <1>1, <1>2 DEF WorkIsAuthorised, ModernWorkIsMirrored, Allows
<1>6. QED
  BY <1>3, <1>4, <1>5, Zenon DEF DispatchInv

\* The tool's ways out, and the end of the invocation.
LEMMA InvocationStep ==
    ASSUME DispatchInv, ToolReturns \/ ToolThrows \/ MakeTask \/ EndTool
    PROVE  DispatchInv'
<1>1. UNCHANGED <<asked, work>> /\ stage \in Invoking /\ opened = 1 /\ ends = 0
  BY Zenon DEF ToolReturns, ToolThrows, MakeTask, EndTool, DispatchInv, Bookkept, Invoking
<1>2. \/ stage' \in Invoking /\ opened' = 1 /\ ends' = 0
      \/ stage' = "replied" /\ opened' = 0 /\ ends' = 1
  BY <1>1 DEF ToolReturns, ToolThrows, MakeTask, EndTool, Closed, Goes, Invoking
<1>3. asked' \in Asked /\ Bookkept'
  BY <1>1, <1>2, Zenon DEF DispatchInv, Bookkept, Invoking, Posted
<1>4. Passed'
  BY <1>1, <1>2, Zenon DEF DispatchInv, Passed, NeedsToken, Posted, Invoking
<1>5. WorkIsAuthorised' /\ ModernWorkIsMirrored'
  BY <1>1, Zenon DEF DispatchInv, WorkIsAuthorised, ModernWorkIsMirrored
<1>6. QED
  BY <1>3, <1>4, <1>5, Zenon DEF DispatchInv

\* Every step of a request keeps the invariant.
LEMMA DispatchSteps == DispatchInv /\ [DispatchNext]_dispatchVars => DispatchInv'
<1>1. SUFFICES ASSUME DispatchInv, DispatchNext \/ UNCHANGED dispatchVars
               PROVE  DispatchInv'
  BY Zenon
<1>2. CASE UNCHANGED dispatchVars
  BY <1>1, <1>2, Zenon DEF dispatchVars, DispatchInv, Bookkept, Passed, NeedsToken, WorkIsAuthorised, ModernWorkIsMirrored
<1>3. QED
  BY <1>1, <1>2, EarlyStep, DispatchMethodStep, StartToolStep, InvocationStep, Zenon DEF DispatchNext

\* AccessSound, for any clients, codes, tokens and limit, and any request: a code or a
\* refresh token is spent once, what was revoked stays revoked, an answered token survives
\* a restart, no client in use is evicted, the registry is bounded; and the gateway asks
\* the backend only for work that is authorised and announced, in an invocation it closes.
THEOREM AccessIsSound == TokensSpec /\ DispatchSpec => []AccessSound
<1>1. TokensInv => SpentOnce /\ RevokedStaysRevoked /\ AnsweredIsDurable /\ GrantsHaveClients /\ ClientsBounded
  BY Zenon DEF TokensInv
<1>2. DispatchInv => WorkIsAuthorised /\ ModernWorkIsMirrored /\ InvocationClosedOnce
  BY DEF DispatchInv, Bookkept, Invoking, InvocationClosedOnce
<1>3. TokensInv /\ DispatchInv => AccessSound
  BY <1>1, <1>2, Zenon DEF AccessSound
<1>4. TokensSpec => []TokensInv
  BY TokensInitHolds, TokensInductive, PTL DEF TokensSpec
<1>5. DispatchSpec => []DispatchInv
  BY DispatchStarts, DispatchSteps, PTL DEF DispatchSpec
<1>6. QED
  BY <1>3, <1>4, <1>5, PTL

(***************************************************************************)
(* One connection                                                          *)
(***************************************************************************)
Loops == {"idle", "dispatch", "await", "grace", "stream", "send", "stop",
          "failing", "finish", "closed"}
Flags == [started : BOOLEAN, completed : BOOLEAN, disconnected : BOOLEAN,
          keep : BOOLEAN, failure : BOOLEAN]
SessionTyped ==
    /\ at \in Loops
    /\ flags \in Flags
    /\ open \in BOOLEAN
    /\ wrote \in {0, 1}

\* A response is counted when it starts, and nothing starts one before it is due.
Started1 ==
    /\ at \in {"dispatch", "await", "grace", "send"} => wrote = 0 /\ ~flags.started
    /\ at \in {"stream", "stop", "failing"} /\ ~flags.started => wrote = 0

\* The read-ahead is over before the session looks at its connection again.
Readers == at \in {"idle", "failing", "finish", "closed"} => ahead = "none"

\* Whoever closed the connection left it closed.
Closing == cause # "none" \/ eofSeen => ~open

\* A watchdog that is due is one whose deadline has passed.
Dogs == \A r \in DOMAIN dogs : dogs[r] = "due" => r \in overdue

SessionInv == SessionTyped /\ Started1 /\ Readers /\ Closing /\ Dogs /\ SessionSound

\* Every connection starts idle.
LEMMA SessionStarts == SessionInit => SessionInv
  BY DEF SessionInit, SessionInv, SessionTyped, Flags, Loops, Fresh, NoDog, Started1, Readers,
         Closing, Dogs, SessionSound, OneResponse, ReadersExclusive, DeadlineIsOwn, NoStrandedSocket

\* What the handlers do to the flags.
LEMMA FlagSteps ==
    ASSUME NEW f \in Flags
    PROVE  /\ Failed(f) \in Flags /\ Failed(f).started = f.started
           /\ [Failed(f) EXCEPT !.keep = FALSE] \in Flags /\ [Failed(f) EXCEPT !.keep = FALSE].started = f.started
           /\ [f EXCEPT !.disconnected = @ \/ ~f.completed] \in Flags
           /\ [f EXCEPT !.disconnected = @ \/ ~f.completed].started = f.started
           /\ [f EXCEPT !.started = TRUE] \in Flags /\ [f EXCEPT !.started = TRUE].started
           /\ [f EXCEPT !.completed = TRUE] \in Flags /\ [f EXCEPT !.completed = TRUE].started = f.started
           /\ [f EXCEPT !.started = TRUE, !.completed = TRUE] \in Flags
           /\ [f EXCEPT !.started = TRUE, !.completed = TRUE].started
           /\ [f EXCEPT !.started = TRUE, !.disconnected = TRUE] \in Flags
           /\ [f EXCEPT !.started = TRUE, !.disconnected = TRUE].started
  BY Zenon DEF Flags, Failed

\* The flags of a request that has just been read.
LEMMA FreshFlags ==
    /\ Fresh \in Flags /\ ~Fresh.started
    /\ \A keep \in BOOLEAN : [Fresh EXCEPT !.keep = keep] \in Flags /\ ~[Fresh EXCEPT !.keep = keep].started
    /\ [Fresh EXCEPT !.failure = TRUE] \in Flags /\ ~[Fresh EXCEPT !.failure = TRUE].started
  BY Zenon DEF Fresh, Flags


\* What a step that may close the connection does to it.
Shuts ==
    \/ UNCHANGED <<open, cause>>
    \/ open' = FALSE /\ (cause' = "deadline" => cause = "deadline")

\* The invariant, conjunct by conjunct, after a step that stays with its request.
LEMMA SameRequest ==
    ASSUME SessionInv, Shuts, flags' \in Flags, at' \in Loops, wrote' \in {0, 1},
           Started1', Readers', Dogs', UNCHANGED <<n, overdue>>, eofSeen' = eofSeen \/ open' = FALSE,
           at' = "idle" => at = "idle" /\ eofSeen' = eofSeen
    PROVE  SessionInv'
<1>1. SessionTyped'
  BY Zenon DEF SessionInv, SessionTyped, Shuts
<1>2. Closing'
  BY Zenon DEF SessionInv, Closing, Shuts
<1>3. OneResponse'
  BY DEF OneResponse
<1>4. ReadersExclusive'
  BY Zenon DEF Readers, ReadersExclusive
<1>5. DeadlineIsOwn'
  BY Zenon DEF SessionInv, SessionSound, DeadlineIsOwn, Shuts
<1>6. NoStrandedSocket'
  BY Zenon DEF SessionInv, SessionSound, NoStrandedSocket
<1> QED BY <1>1, <1>2, <1>3, <1>4, <1>5, <1>6, Zenon DEF SessionInv, SessionSound

\* The steps of the session's loop.
LEMMA SessionSteps ==
    ASSUME SessionInv, SessionStep
    PROVE  SessionInv'
<1>1. flags \in Flags
  BY Zenon DEF SessionInv, SessionTyped
<1>2. CASE ReadRequest
  <2>1. /\ flags' \in Flags /\ ~flags'.started
        /\ at' \in {"dispatch", "send", "stop"} /\ wrote' = 0
        /\ UNCHANGED <<n, open, cause, eofSeen, overdue>>
    BY <1>2, FreshFlags, Zenon DEF ReadRequest
  <2>2. Dogs'
    BY <1>2, Zenon DEF ReadRequest, SessionInv, Dogs
  <2> QED BY <2>1, <2>2 DEF SessionInv, SessionTyped, Loops, Started1, Readers, Closing, Dogs, SessionSound,
         OneResponse, ReadersExclusive, DeadlineIsOwn, NoStrandedSocket
<1>3. CASE Dispatch
  <2>1. /\ flags' \in Flags /\ flags'.started = flags.started
        /\ at = "dispatch" /\ at' \in {"send", "await", "grace", "stop"}
        /\ UNCHANGED <<n, open, cause, ahead, eofSeen, dogs, overdue, wrote>>
    BY <1>1, <1>3, FlagSteps, Zenon DEF Dispatch
  <2> QED BY <2>1, Zenon DEF SessionInv, SessionTyped, Loops, Started1, Readers, Closing, Dogs, SessionSound,
         OneResponse, ReadersExclusive, DeadlineIsOwn, NoStrandedSocket
<1>4. CASE Result
  <2>1. /\ at \in {"await", "grace"} /\ at' \in {"send", "stop"}
        /\ UNCHANGED <<n, flags, open, cause, ahead, eofSeen, dogs, overdue, wrote>>
    BY <1>4, Zenon DEF Result
  <2> QED BY <2>1, Zenon DEF SessionInv, SessionTyped, Loops, Started1, Readers, Closing, Dogs, SessionSound,
         OneResponse, ReadersExclusive, DeadlineIsOwn, NoStrandedSocket
<1>5. CASE StartStream
  <2>1. /\ at = "grace" /\ at' \in {"stream", "stop"} /\ wrote' = wrote + 1
        /\ UNCHANGED <<n, ahead, eofSeen, dogs, overdue>>
    BY <1>5, Zenon DEF StartStream
  <2>2. flags' \in Flags /\ flags'.started /\ Shuts
    <3>1. CASE open
      BY <1>1, <1>5, <3>1, FlagSteps, Zenon DEF StartStream, Quiet, Shuts
    <3>2. CASE ~open
      <4>1. Drop([flags EXCEPT !.started = TRUE], "write")
        BY <1>5, <3>2, Zenon DEF StartStream
      <4>2. [flags EXCEPT !.started = TRUE] \in Flags /\ [flags EXCEPT !.started = TRUE].started
        BY <1>1, FlagSteps, Zenon
      <4> QED BY <4>1, <4>2, FlagSteps, Zenon DEF Drop, Shuts
    <3> QED BY <3>1, <3>2, Zenon
  <2>3. wrote' = 1 /\ Readers' /\ Started1' /\ Dogs' /\ at' \in Loops
    BY <2>1, <2>2 DEF SessionInv, Started1, Readers, Dogs, Loops
  <2> QED BY <2>1, <2>2, <2>3, SameRequest, Zenon
<1>6. CASE Stream
  <2>1. /\ at = "stream" /\ at' = "stop"
        /\ UNCHANGED <<n, ahead, eofSeen, dogs, overdue, wrote>>
    BY <1>6, Zenon DEF Stream
  <2>2. flags' \in Flags /\ flags'.started = flags.started /\ Shuts
    <3>1. CASE Drop(flags, "write")
      BY <1>1, <3>1, FlagSteps, Zenon DEF Drop, Shuts
    <3>2. CASE \E f \in {flags, [flags EXCEPT !.completed = TRUE], Failed(flags)} : Quiet(f)
      <4>1. PICK f \in {flags, [flags EXCEPT !.completed = TRUE], Failed(flags)} : Quiet(f)
        BY <3>2, ZenonT(30)
      <4>2. f \in Flags /\ f.started = flags.started
        BY <1>1, FlagSteps, Zenon
      <4> QED BY <4>1, <4>2, Zenon DEF Quiet, Shuts
    <3> QED BY <1>6, <3>1, <3>2, Zenon DEF Stream
  <2>3. wrote' \in {0, 1} /\ Readers' /\ Started1' /\ Dogs' /\ at' \in Loops
    <3>1. Readers' /\ at' \in Loops
      BY <2>1, Zenon DEF Readers, Loops
    <3>2. Dogs' /\ wrote' \in {0, 1}
      BY <2>1, Zenon DEF SessionInv, SessionTyped, Dogs
    <3>3. Started1'
      BY <2>1, <2>2, Zenon DEF SessionInv, Started1
    <3> QED BY <3>1, <3>2, <3>3, Zenon
  <2> QED BY <2>1, <2>2, <2>3, SameRequest, Zenon
<1>7. CASE Send
  <2>1. at = "send" /\ at' = "stop" /\ UNCHANGED <<n, ahead, eofSeen, dogs, overdue>>
    BY <1>7, Zenon DEF Send
  <2>2. /\ flags' \in Flags /\ Shuts
        /\ \/ flags'.started /\ wrote' = wrote + 1
           \/ flags'.started = flags.started /\ wrote' = wrote
    <3>1. CASE Quiet([Failed(flags) EXCEPT !.keep = FALSE]) /\ UNCHANGED wrote
      BY <1>1, <3>1, FlagSteps, Zenon DEF Quiet, Shuts
    <3>2. CASE Quiet([flags EXCEPT !.started = TRUE, !.completed = TRUE]) /\ wrote' = wrote + 1
      <4>1. [flags EXCEPT !.started = TRUE, !.completed = TRUE] \in Flags
            /\ [flags EXCEPT !.started = TRUE, !.completed = TRUE].started
        BY <1>1, FlagSteps, Zenon
      <4> QED BY <3>2, <4>1, Zenon DEF Quiet, Shuts
    <3>3. CASE Drop([flags EXCEPT !.started = TRUE], "write") /\ wrote' = wrote + 1
      <4>1. [flags EXCEPT !.started = TRUE] \in Flags /\ [flags EXCEPT !.started = TRUE].started
        BY <1>1, FlagSteps, Zenon
      <4> QED BY <3>3, <4>1, FlagSteps, Zenon DEF Drop, Shuts
    <3> QED BY <1>7, <3>1, <3>2, <3>3, Zenon DEF Send
  <2>3. wrote' \in {0, 1} /\ Readers' /\ Started1' /\ Dogs' /\ at' \in Loops
    BY <2>1, <2>2 DEF SessionInv, Started1, Readers, Dogs, Loops
  <2> QED BY <2>1, <2>2, <2>3, SameRequest, Zenon
<1>8. CASE StopReadAhead
  <2>1. /\ at = "stop" /\ (at' = "stop" \/ (at' = "failing" /\ ahead' = "none"))
        /\ UNCHANGED <<n, flags, open, cause, eofSeen, dogs, overdue, wrote>>
    BY <1>8, Zenon DEF StopReadAhead
  <2> QED BY <2>1, Zenon DEF SessionInv, SessionTyped, Loops, Started1, Readers, Closing, Dogs, SessionSound,
         OneResponse, ReadersExclusive, DeadlineIsOwn, NoStrandedSocket
<1>9. CASE ReplyFailure
  <2>1. /\ at = "failing" /\ at' = "finish"
        /\ UNCHANGED <<n, open, cause, ahead, eofSeen, overdue>>
    BY <1>9, Zenon DEF ReplyFailure
  <2>2. flags' \in Flags /\ (wrote' = wrote \/ (wrote' = wrote + 1 /\ ~flags.started))
    <3>1. CASE UNCHANGED <<wrote, flags>>
      BY <1>1, <3>1, Zenon
    <3>2. CASE /\ FailureReply /\ wrote' = wrote + 1
               /\ flags' \in {[flags EXCEPT !.started = TRUE, !.completed = TRUE],
                              [flags EXCEPT !.started = TRUE, !.disconnected = TRUE]}
      BY <1>1, <3>2, FlagSteps, Zenon DEF FailureReply
    <3> QED BY <1>9, <3>1, <3>2, Zenon DEF ReplyFailure
  <2>3. Dogs'
    BY <1>9, Zenon DEF ReplyFailure, SessionInv, Dogs
  <2> QED BY <2>1, <2>2, <2>3 DEF SessionInv, SessionTyped, Loops, Started1, Readers, Closing, Dogs, SessionSound,
         OneResponse, ReadersExclusive, DeadlineIsOwn, NoStrandedSocket
<1>10. CASE Finish
  <2>1. /\ at = "finish" /\ flags' \in Flags /\ UNCHANGED <<cause, ahead, eofSeen, dogs, overdue, wrote>>
        /\ \/ at' = "idle" /\ open /\ open' = open
           \/ at' = "closed" /\ open' = FALSE /\ n' = n
    BY <1>1, <1>10, FreshFlags, Zenon DEF Finish
  <2> QED BY <2>1, Zenon DEF SessionInv, SessionTyped, Loops, Started1, Readers, Closing, Dogs, SessionSound,
         OneResponse, ReadersExclusive, DeadlineIsOwn, NoStrandedSocket
<1> QED BY <1>2, <1>3, <1>4, <1>5, <1>6, <1>7, <1>8, <1>9, <1>10, Zenon DEF SessionStep

\* The peer, the read-ahead, the tool call and the watchdogs.
LEMMA SessionOthers ==
    ASSUME SessionInv,
           \/ PeerSends \/ PeerLeaves \/ IdleEnds \/ ToolEnds \/ AheadReads \/ AheadStops
           \/ \E r \in DOMAIN dogs : Expire(r) \/ Watchdog(r)
    PROVE  SessionInv'
<1>1. flags \in Flags
  BY Zenon DEF SessionInv, SessionTyped
<1>2. CASE PeerSends \/ PeerLeaves \/ ToolEnds
  <2>1. UNCHANGED <<n, at, flags, open, cause, ahead, eofSeen, dogs, overdue, wrote>>
    BY <1>2, Zenon DEF PeerSends, PeerLeaves, ToolEnds
  <2> QED BY <2>1, Zenon DEF SessionInv, SessionTyped, Loops, Started1, Readers, Closing, Dogs, SessionSound,
         OneResponse, ReadersExclusive, DeadlineIsOwn, NoStrandedSocket
<1>3. CASE IdleEnds
  <2>1. /\ at = "idle" /\ at' = "closed" /\ open' = FALSE
        /\ UNCHANGED <<n, flags, cause, ahead, eofSeen, dogs, overdue, wrote>>
    BY <1>3, Zenon DEF IdleEnds
  <2> QED BY <2>1, Zenon DEF SessionInv, SessionTyped, Loops, Started1, Readers, Closing, Dogs, SessionSound,
         OneResponse, ReadersExclusive, DeadlineIsOwn, NoStrandedSocket
<1>4. CASE AheadReads \/ AheadStops
  <2>1. ahead \in {"reading", "stopping"} /\ UNCHANGED <<n, at, dogs, overdue, wrote>>
    BY <1>4, Zenon DEF AheadReads, AheadStops
  <2>2. \/ UNCHANGED eofSeen /\ (Quiet(flags) \/ Drop(flags, "overflow"))
        \/ Drop(flags, "peer")
    BY <1>4, Zenon DEF AheadReads, AheadStops, StoppedEof
  <2>3. flags' \in Flags /\ flags'.started = flags.started /\ Shuts /\ (eofSeen' = eofSeen \/ open' = FALSE)
    BY <1>1, <2>2, FlagSteps, Zenon DEF Drop, Quiet, Shuts
  <2>4. wrote' \in {0, 1} /\ Readers' /\ Started1' /\ Dogs' /\ at' \in Loops /\ at' # "idle"
    BY <2>1, <2>3, Zenon DEF SessionInv, SessionTyped, Started1, Readers, Dogs, Loops
  <2> QED BY <2>1, <2>3, <2>4, SameRequest, Zenon
<1>5. ASSUME NEW r \in DOMAIN dogs, Expire(r)
      PROVE  SessionInv'
  <2>1. UNCHANGED <<n, at, flags, open, cause, ahead, eofSeen, wrote>> /\ overdue' = overdue \cup {r}
    BY <1>5, Zenon DEF Expire
  <2>2. Dogs'
    BY <1>5, Zenon DEF Expire, SessionInv, Dogs
  <2> QED BY <2>1, <2>2, ZenonT(30) DEF SessionInv, SessionTyped, Loops, Started1, Readers, Closing, Dogs, SessionSound,
         OneResponse, ReadersExclusive, DeadlineIsOwn, NoStrandedSocket
<1>6. ASSUME NEW r \in DOMAIN dogs, Watchdog(r)
      PROVE  SessionInv'
  <2>1. r \in overdue /\ UNCHANGED <<n, at, ahead, eofSeen, overdue, wrote>>
    BY <1>6, Zenon DEF Watchdog, SessionInv, Dogs
  <2>2. Dogs'
    BY <1>6, Zenon DEF Watchdog, SessionInv, Dogs
  <2>3. CASE Drop(flags, "deadline") /\ r = n
    <3>1. flags' \in Flags /\ flags'.started = flags.started /\ open' = FALSE
      BY <1>1, <2>3, FlagSteps, Zenon DEF Drop
    <3>2. SessionTyped' /\ Started1' /\ Readers' /\ Closing'
      BY <2>1, <3>1, Zenon DEF SessionInv, SessionTyped, Started1, Readers, Closing
    <3>3. SessionSound'
      BY <2>1, <2>3, Zenon DEF SessionInv, SessionSound, OneResponse, ReadersExclusive, DeadlineIsOwn, NoStrandedSocket
    <3> QED BY <2>2, <3>2, <3>3, Zenon DEF SessionInv
  <2>4. CASE Quiet(flags)
    <3>1. UNCHANGED <<flags, open, cause>>
      BY <2>4, Zenon DEF Quiet
    <3> QED BY <2>1, <2>2, <3>1, ZenonT(30) DEF SessionInv, SessionTyped, Loops, Started1, Readers, Closing, Dogs, SessionSound,
         OneResponse, ReadersExclusive, DeadlineIsOwn, NoStrandedSocket
  <2> QED BY <1>6, <2>3, <2>4, Zenon DEF Watchdog, Bites
<1> QED BY <1>2, <1>3, <1>4, <1>5, <1>6, Zenon

\* A request on a connection is answered at most once and under its own deadline, the
\* session and its read-ahead never read the socket together, and an end of stream that
\* the read-ahead swallowed is never forgotten.
THEOREM RequestsAnswered == SessionSpec => []SessionSound
<1>1. SessionInv /\ [SessionNext]_sessionVars => SessionInv'
  <2>1. SUFFICES ASSUME SessionInv, [SessionNext]_sessionVars PROVE SessionInv'
    BY Zenon
  <2>2. CASE UNCHANGED sessionVars
    BY <2>1, <2>2, Zenon DEF SessionInv, SessionTyped, Started1, Readers, Closing, Dogs, SessionSound,
       OneResponse, ReadersExclusive, DeadlineIsOwn, NoStrandedSocket, sessionVars
  <2> QED BY <2>1, <2>2, SessionSteps, SessionOthers, Zenon DEF SessionNext
<1>2. SessionInv => SessionSound
  BY Zenon DEF SessionInv
<1> QED BY <1>1, <1>2, SessionStarts, PTL DEF SessionSpec

--------------------------------------------------------------------------------
(*****************************************************************************)
(* The listener. A connection that can work on a request is in the session   *)
(* map, so the handler that stop() posts finds it there; and the loop opens  *)
(* no new request once stopped is set, which it is before the handler runs.  *)
(*****************************************************************************)
Phases == {"none", "spawned", "reading", "working", "between", "closed", "gone"}
ServerTyped ==
    /\ session \in [Connections -> Phases]
    /\ token \in [Connections -> {"fresh", "cancelled"}]
    /\ IsFiniteSet(sessions)

\* A connection is in the session map from its insertion until ~Session.
Mapped == \A c \in Connections : session[c] \in Phases \ {"none", "gone"} => c \in sessions
\* stopped is set before the handler is posted.
StopOrder == stopping \in {"posted", "done"} => stopped

ServerInv == ServerTyped /\ Mapped /\ StopOrder /\ ServerSound

\* The session map is empty at the start.
LEMMA ServerStarts ==
    ASSUME Limit \in Nat, ServerInit
    PROVE  ServerInv
<1>1. IsFiniteSet(sessions) /\ Cardinality(sessions) = 0
  BY FS_EmptySet, Zenon DEF ServerInit
<1> QED BY <1>1 DEF ServerInit, ServerInv, ServerTyped, Phases, Mapped, StopOrder, ServerSound, SessionsBounded,
           StopReachesAll

\* accept() inserts below the limit only and ~Session takes out; no other step touches the map.
LEMMA MapBounded ==
    ASSUME Limit \in Nat, ServerInv,
           \/ UNCHANGED sessions
           \/ \E c \in Connections : Insert(c) \/ Destroy(c)
    PROVE  IsFiniteSet(sessions') /\ SessionsBounded'
<1>1. IsFiniteSet(sessions) /\ Cardinality(sessions) <= Limit /\ Cardinality(sessions) \in Nat
  BY FS_CardinalityType, Zenon DEF ServerInv, ServerTyped, ServerSound, SessionsBounded
<1>2. CASE UNCHANGED sessions
  BY <1>1, <1>2, Zenon DEF SessionsBounded
<1>3. ASSUME NEW c \in Connections, Insert(c)
      PROVE  IsFiniteSet(sessions') /\ SessionsBounded'
  <2>1. CASE Cardinality(sessions) < Limit /\ sessions' = sessions \cup {c}
    <3>1. /\ IsFiniteSet(sessions \cup {c})
          /\ Cardinality(sessions \cup {c}) = Cardinality(sessions)
             \/ Cardinality(sessions \cup {c}) = Cardinality(sessions) + 1
      BY <1>1, FS_AddElement, Zenon
    <3> QED BY <1>1, <2>1, <3>1 DEF SessionsBounded
  <2> QED BY <1>2, <1>3, <2>1, Zenon DEF Insert, AcceptAdmits
<1>4. ASSUME NEW c \in Connections, Destroy(c)
      PROVE  IsFiniteSet(sessions') /\ SessionsBounded'
  <2>1. IsFiniteSet(sessions \ {c}) /\ Cardinality(sessions \ {c}) <= Cardinality(sessions)
        /\ Cardinality(sessions \ {c}) \in Nat
    <3>1. IsFiniteSet(sessions \ {c})
          /\ Cardinality(sessions \ {c}) = IF c \in sessions THEN Cardinality(sessions) - 1
                                                            ELSE Cardinality(sessions)
      BY <1>1, FS_RemoveElement, Zenon
    <3>2. Cardinality(sessions \ {c}) \in Nat
      BY <3>1, FS_CardinalityType, Zenon
    <3> QED BY <1>1, <3>1, <3>2
  <2>2. sessions' = sessions \ {c}
    BY <1>4, Zenon DEF Destroy
  <2> QED BY <1>1, <2>1, <2>2 DEF SessionsBounded
<1> QED BY <1>2, <1>3, <1>4, Zenon

\* The steps of one connection.
LEMMA ConnectionSteps ==
    ASSUME Limit \in Nat, ServerInv, NEW c \in Connections,
           Accepted(c) \/ Internal(c) \/ CloseSession(c) \/ (\E id \in Ids : StartCall(c, id))
    PROVE  ServerInv'
<1>1. /\ session \in [Connections -> Phases] /\ token \in [Connections -> {"fresh", "cancelled"}]
      /\ Mapped /\ StopOrder /\ StopReachesAll
  BY Zenon DEF ServerInv, ServerTyped, ServerSound
<1>2. UNCHANGED <<stopped, stopping>>
  BY Zenon DEF Accepted, Internal, Insert, Loop, EndCall, RunClose, Destroy, CloseSession, StartCall
<1>3. StopOrder'
  BY <1>1, <1>2, Zenon DEF StopOrder
<1>4. IsFiniteSet(sessions') /\ SessionsBounded'
  <2>1. UNCHANGED sessions \/ Insert(c) \/ Destroy(c)
    BY Zenon DEF Accepted, Internal, Loop, EndCall, RunClose, CloseSession, StartCall
  <2> QED BY <2>1, MapBounded, Zenon
<1>5. /\ session' \in [Connections -> Phases] /\ token' \in [Connections -> {"fresh", "cancelled"}]
      /\ Mapped' /\ StopReachesAll'
  <2>1. CASE Accepted(c)
    BY <1>1, <2>1, Zenon DEF Accepted, Mapped, StopReachesAll
  <2>2. CASE Insert(c)
    BY <1>1, <2>2, Zenon DEF Insert, Mapped, StopReachesAll, Phases
  <2>3. CASE Loop(c)
    BY <1>1, <2>3 DEF Loop, KeepsRunning, Mapped, StopOrder, StopReachesAll, Phases
  <2>4. CASE EndCall(c)
    BY <1>1, <2>4, Zenon DEF EndCall, Mapped, StopReachesAll, Phases
  <2>5. CASE RunClose(c)
    BY <1>1, <2>5, Zenon DEF RunClose, Mapped, StopReachesAll, Phases
  <2>6. CASE Destroy(c)
    BY <1>1, <2>6, Zenon DEF Destroy, Mapped, StopReachesAll, Phases
  <2>7. CASE CloseSession(c)
    BY <1>1, <2>7, Zenon DEF CloseSession, Mapped, StopReachesAll, Phases
  <2>8. CASE \E id \in Ids : StartCall(c, id)
    BY <1>1, <2>8, Zenon DEF StartCall, Mapped, StopReachesAll, Phases
  <2> QED BY <2>1, <2>2, <2>3, <2>4, <2>5, <2>6, <2>7, <2>8 DEF Internal
<1> QED BY <1>3, <1>4, <1>5, Zenon DEF ServerInv, ServerTyped, ServerSound

\* The acceptor's end, stop() with its handler, and a notification that cancels by name.
LEMMA ListenerSteps ==
    ASSUME Limit \in Nat, ServerInv,
           AcceptorEnds \/ StopServer \/ StopHandler \/ (\E id \in Ids : CancelNamed(id))
    PROVE  ServerInv'
<1>1. UNCHANGED <<sessions, session>>
  BY Zenon DEF AcceptorEnds, StopServer, StopHandler, CancelNamed
<1>2. IsFiniteSet(sessions') /\ SessionsBounded'
  BY <1>1, MapBounded, Zenon
<1>3. session' \in [Connections -> Phases] /\ Mapped'
  BY <1>1, Zenon DEF ServerInv, ServerTyped, Mapped
<1>4. token' \in [Connections -> {"fresh", "cancelled"}] /\ StopOrder' /\ StopReachesAll'
  <2>1. CASE AcceptorEnds
    BY <2>1, Zenon DEF AcceptorEnds, ServerInv, ServerTyped, StopOrder, ServerSound, StopReachesAll
  <2>2. CASE StopServer
    BY <2>2, Zenon DEF StopServer, ServerInv, ServerTyped, StopOrder, StopReachesAll
  <2>3. CASE StopHandler
    BY <2>3, Zenon DEF StopHandler, ServerInv, ServerTyped, Mapped, Phases, StopOrder, StopReachesAll
  <2>4. CASE \E id \in Ids : CancelNamed(id)
    BY <2>4 DEF CancelNamed, ServerInv, ServerTyped, StopOrder, ServerSound, StopReachesAll
  <2> QED BY <2>1, <2>2, <2>3, <2>4, Zenon
<1> QED BY <1>2, <1>3, <1>4, Zenon DEF ServerInv, ServerTyped, ServerSound

\* The frontend keeps its promises for any number of connections, requests and threads:
\* one response per request under its own deadline, one reader per socket, no end of
\* stream forgotten, no more connections than the limit, and a stop that reaches every
\* request, also one on a connection accepted at the same moment.
THEOREM FrontendKept ==
    ASSUME Limit \in Nat
    PROVE  SessionSpec /\ ServerSpec => []OneResponseEach
<1>1. ServerInit => ServerInv
  BY ServerStarts, Zenon
<1>2. ServerInv /\ [ServerNext]_serverVars => ServerInv'
  <2>1. SUFFICES ASSUME ServerInv, [ServerNext]_serverVars PROVE ServerInv'
    BY Zenon
  <2>2. CASE UNCHANGED serverVars
    BY <2>1, <2>2, Zenon DEF ServerInv, ServerTyped, Mapped, StopOrder, ServerSound, SessionsBounded, StopReachesAll,
       serverVars
  <2> QED BY <2>1, <2>2, ConnectionSteps, ListenerSteps, Zenon DEF ServerNext
<1>3. ServerInv => ServerSound
  BY Zenon DEF ServerInv
<1>4. SessionSound /\ ServerSound => OneResponseEach
  BY Zenon DEF OneResponseEach
<1> QED BY <1>1, <1>2, <1>3, <1>4, RequestsAnswered, PTL DEF ServerSpec

--------------------------------------------------------------------------------
(***************************************************************************)
(* The byte budget.  What is reserved is a set of bytes, one for each byte *)
(* of each request that holds some, and used is the size of that set.      *)
(***************************************************************************)
Places == {"idle", "admit", "peak", "raise", "allocate", "hold"}

Typed ==
    /\ used \in Nat /\ peak \in Nat /\ high \in Nat
    /\ pc \in [Threads -> Places]
    /\ bytes \in [Threads -> 0 .. Word - 1]
    /\ seen \in [Threads -> Nat]
    /\ top \in [Threads -> Nat]

\* The history is the peak, or a thread that has yet to raise the peak to it.
Raising(t) == pc[t] \in {"peak", "raise"}
PeakFollows ==
    /\ peak <= high
    /\ \A t \in Threads : Raising(t) => top[t] <= high
    /\ \A t \in Threads : pc[t] = "raise" => seen[t] <= peak
    /\ peak = high \/ \E t \in Threads : Raising(t) /\ top[t] = high

IInv == Typed /\ Accounted /\ WithinCapacity /\ PeakFollows

-----------------------------------------------------------------------------
(***************************************************************************)
(* Counting bytes.                                                         *)
(***************************************************************************)
Held(C, b) == {c \in C \X (1 .. Word) : c[2] <= b[c[1]]}

\* The bytes held by finitely many requests can be counted.
LEMMA HeldFinite ==
    ASSUME NEW C, IsFiniteSet(C), NEW b
    PROVE  IsFiniteSet(Held(C, b)) /\ Cardinality(Held(C, b)) \in Nat
<1>1. IsFiniteSet(1 .. Word)
  BY BudgetConstants, FS_Interval
<1>2. IsFiniteSet(C \X (1 .. Word))
  BY <1>1, FS_Product, Zenon
<1>3. IsFiniteSet(Held(C, b))
  BY <1>2, FS_Subset, Zenon DEF Held
<1> QED BY <1>3, FS_CardinalityType, Zenon

\* One more request adds the bytes it asks for.
LEMMA HeldMore ==
    ASSUME NEW C, IsFiniteSet(C), NEW b, NEW t, t \notin C, b[t] \in 0 .. Word - 1
    PROVE  Cardinality(Held(C \cup {t}, b)) = Cardinality(Held(C, b)) + b[t]
<1> DEFINE own == {t} \X (1 .. b[t])
<1>1. IsFiniteSet(own) /\ Cardinality(own) = b[t]
  <2>1. b[t] \in Nat
    BY BudgetConstants
  <2>2. IsFiniteSet(1 .. b[t]) /\ Cardinality(1 .. b[t]) = b[t]
    BY <2>1, FS_Interval
  <2>3. IsFiniteSet({t}) /\ Cardinality({t}) = 1
    BY FS_Singleton, Zenon
  <2>4. IsFiniteSet(own) /\ Cardinality(own) = 1 * Cardinality(1 .. b[t])
    BY <2>2, <2>3, FS_Product, ZenonT(30)
  <2> QED BY <2>1, <2>2, <2>4
<1>2. Held(C \cup {t}, b) = Held(C, b) \cup own
  <2>1. ASSUME NEW c, c \in Held(C \cup {t}, b) PROVE c \in Held(C, b) \cup own
    <3>1. /\ c \in (C \cup {t}) \X (1 .. Word) /\ c[2] <= b[c[1]]
          /\ c[1] \in C \cup {t} /\ c[2] \in 1 .. Word /\ c = <<c[1], c[2]>>
      BY <2>1 DEF Held
    <3>2. CASE c[1] \in C
      BY <3>1, <3>2, Zenon DEF Held
    <3>3. CASE c[1] = t
      <4>1. c[2] \in 1 .. b[t]
        BY <3>1, <3>3, BudgetConstants
      <4> QED BY <3>1, <3>3, <4>1, Zenon
    <3> QED BY <3>1, <3>2, <3>3, Zenon
  <2>2. ASSUME NEW c \in own PROVE c \in Held(C \cup {t}, b)
    <3>1. c[1] = t /\ c[2] \in 1 .. b[t] /\ c = <<c[1], c[2]>>
      BY <2>2
    <3>2. c[2] \in 1 .. Word /\ c[2] <= b[t]
      BY <3>1, BudgetConstants
    <3> QED BY <3>1, <3>2, Zenon DEF Held
  <2>3. Held(C, b) \subseteq Held(C \cup {t}, b)
    BY Zenon DEF Held
  <2> QED BY <2>1, <2>2, <2>3, Zenon
<1>3. Held(C, b) \cap own = {}
  BY Zenon DEF Held
<1> HIDE DEF own
<1>4. Cardinality(Held(C, b) \cup own) = Cardinality(Held(C, b)) + Cardinality(own)
  <2>1. IsFiniteSet(Held(C, b)) /\ Cardinality({}) = 0
    BY HeldFinite, FS_EmptySet, Zenon
  <2>2. Cardinality(Held(C, b) \cup own)
          = Cardinality(Held(C, b)) + Cardinality(own) - Cardinality(Held(C, b) \cap own)
    BY <1>1, <2>1, FS_Union, Zenon
  <2>3. Cardinality(Held(C, b)) \in Nat /\ Cardinality(own) \in Nat
    BY <1>1, <2>1, FS_CardinalityType, Zenon
  <2>4. Cardinality(Held(C, b) \cap own) = 0
    BY <1>3, <2>1, Zenon
  <2> QED BY <2>2, <2>3, <2>4
<1>5. Cardinality(Held(C, b)) \in Nat /\ b[t] \in Nat
  BY HeldFinite, BudgetConstants
<1> QED BY <1>1, <1>2, <1>4, <1>5, ZenonT(30)

\* Only the bytes of the requests counted matter.
LEMMA HeldSame ==
    ASSUME NEW C, NEW b, NEW c, \A t \in C : b[t] = c[t]
    PROVE  Held(C, b) = Held(C, c)
  BY Zenon DEF Held

\* There are finitely many charged requests.
LEMMA ChargedFinite == IsFiniteSet(Charged)
  BY BudgetConstants, FS_Subset, Zenon DEF Charged

\* A value of a word is not wrapped.
LEMMA NoWrap ==
    ASSUME NEW x \in 0 .. Word - 1
    PROVE  x % Word = x
  BY BudgetConstants

-----------------------------------------------------------------------------
(***************************************************************************)
(* The steps of acquire and release.                                       *)
(***************************************************************************)

\* A step that neither admits nor releases keeps the account.
LEMMA SameAccount ==
    ASSUME IInv, used' = used, Charged' = Charged, \A t \in Charged : bytes'[t] = bytes[t]
    PROVE  Accounted' /\ WithinCapacity'
<1>1. HeldBytes' = HeldBytes
  BY Zenon DEF HeldBytes
<1> QED BY <1>1, Zenon DEF IInv, Accounted, WithinCapacity

\* A successful exchange takes what its comparison found free.
LEMMA ExchangeSound ==
    ASSUME IInv, NEW t \in Threads, Exchange(t)
    PROVE  IInv'
<1>1. /\ used \in Nat /\ bytes[t] \in 0 .. Word - 1 /\ bytes[t] <= Capacity
      /\ used <= Capacity - bytes[t] /\ Capacity \in 0 .. Word - 1 /\ Word \in Nat
  BY BudgetConstants, Zenon DEF IInv, Typed, Exchange, Fits
<1>2. used + bytes[t] \in 0 .. Word - 1 /\ used + bytes[t] <= Capacity
  BY <1>1
<1>3. used' = used + bytes[t]
  BY <1>2, NoWrap, ZenonT(30) DEF Exchange
<1>4. /\ pc[t] = "admit" /\ pc' = [pc EXCEPT ![t] = "peak"] /\ top' = [top EXCEPT ![t] = used']
      /\ high' = (IF used' > high THEN used' ELSE high) /\ peak' = peak /\ bytes' = bytes
      /\ seen' = seen
  BY ZenonT(30) DEF Exchange
<1>5. Typed'
  BY <1>1, <1>3, <1>4 DEF IInv, Typed, Places
<1>6. t \notin Charged /\ Charged' = Charged \cup {t}
  BY <1>4, Zenon DEF Charged, IInv, Typed
<1>7. Cardinality(Held(Charged \cup {t}, bytes)) = Cardinality(Held(Charged, bytes)) + bytes[t]
  BY <1>1, <1>6, ChargedFinite, HeldMore, ZenonT(30)
<1>8. HeldBytes = Held(Charged, bytes) /\ HeldBytes' = Held(Charged \cup {t}, bytes)
  BY <1>4, <1>6, Zenon DEF HeldBytes, Held
<1>9. Accounted' /\ WithinCapacity'
  BY <1>2, <1>3, <1>7, <1>8, Zenon DEF IInv, Accounted, WithinCapacity
<1>10. PeakFollows'
  BY <1>1, <1>3, <1>4 DEF IInv, Typed, PeakFollows, Raising
<1> QED BY <1>5, <1>9, <1>10, Zenon DEF IInv

\* A release gives back what the request took.
LEMMA ReleaseSound ==
    ASSUME IInv, NEW t \in Threads, Release(t)
    PROVE  IInv'
<1>1. /\ pc[t] \in {"allocate", "hold"} /\ used' = (used - bytes[t]) % Word
      /\ pc' = [pc EXCEPT ![t] = "idle"] /\ bytes' = [bytes EXCEPT ![t] = 0]
      /\ seen' = [seen EXCEPT ![t] = 0] /\ top' = [top EXCEPT ![t] = 0]
      /\ peak' = peak /\ high' = high
  BY Zenon DEF Release, Leave
<1> DEFINE rest == Charged \ {t}
<1>2. t \in Charged /\ Charged' = rest /\ Charged = rest \cup {t}
  BY <1>1, Zenon DEF Charged, IInv, Typed
<1>3. IsFiniteSet(rest) /\ t \notin rest /\ bytes[t] \in 0 .. Word - 1
  BY ChargedFinite, FS_RemoveElement, Zenon DEF IInv, Typed
<1>4. \A u \in rest : bytes'[u] = bytes[u]
  BY <1>1, Zenon DEF IInv, Typed, Charged
<1> HIDE DEF rest
<1>5. Cardinality(Held(Charged, bytes)) = Cardinality(Held(rest, bytes)) + bytes[t]
  BY <1>2, <1>3, HeldMore, ZenonT(30)
<1>6. HeldBytes = Held(Charged, bytes) /\ HeldBytes' = Held(rest, bytes)
  <2>1. HeldBytes' = Held(rest, bytes')
    BY <1>2, Zenon DEF HeldBytes, Held
  <2> QED BY <1>4, <2>1, HeldSame, Zenon DEF HeldBytes, Held
<1>7. Cardinality(Held(rest, bytes)) \in Nat
  BY <1>3, HeldFinite, Zenon
<1>8. used - bytes[t] = Cardinality(HeldBytes') /\ used - bytes[t] \in 0 .. Word - 1
  BY <1>3, <1>5, <1>6, <1>7, BudgetConstants DEF IInv, Accounted, WithinCapacity
<1>9. used' = Cardinality(HeldBytes')
  BY <1>1, <1>8, NoWrap, Zenon
<1>10. Accounted' /\ WithinCapacity'
  BY <1>3, <1>8, <1>9, BudgetConstants DEF IInv, Typed, Accounted, WithinCapacity
<1>11. Typed'
  BY <1>1, <1>6, <1>7, <1>9, BudgetConstants DEF IInv, Typed, Places
<1>12. PeakFollows'
  BY <1>1, Zenon DEF IInv, Typed, PeakFollows, Raising
<1> QED BY <1>10, <1>11, <1>12, Zenon DEF IInv

\* The round that raises the peak writes a sum that used has been.
LEMMA RaiseSound ==
    ASSUME IInv, NEW t \in Threads, Raise(t)
    PROVE  PeakFollows'
<1>1. /\ pc[t] = "raise" /\ top' = top /\ high' = high /\ top[t] <= high /\ seen[t] <= peak
      /\ peak <= high /\ seen[t] \in Nat /\ top[t] \in Nat /\ peak \in Nat /\ high \in Nat
  BY ZenonT(30) DEF IInv, Typed, PeakFollows, Raising, Raise
<1>2. CASE /\ seen[t] < top[t] /\ peak = seen[t] /\ peak' = top[t]
           /\ pc' = [pc EXCEPT ![t] = "allocate"] /\ seen' = seen
  BY <1>1, <1>2 DEF IInv, Typed, PeakFollows, Raising
<1>3. CASE seen' = [seen EXCEPT ![t] = peak] /\ peak' = peak /\ pc' = pc
  BY <1>1, <1>3 DEF IInv, Typed, PeakFollows, Raising
<1>4. CASE /\ ~(seen[t] < top[t]) /\ pc' = [pc EXCEPT ![t] = "allocate"]
           /\ peak' = peak /\ seen' = seen
  <2>1. pc' = [u \in Threads |-> IF u = t THEN "allocate" ELSE pc[u]]
    BY <1>4, Zenon DEF IInv, Typed
  <2>2. \A u \in Threads : pc'[u] \in {"peak", "raise"} => u # t /\ pc'[u] = pc[u]
    BY <2>1, Zenon
  <2>3. top[t] = high => peak = high
    BY <1>1, <1>4
  <2>4. peak = high \/ \E u \in Threads : pc[u] \in {"peak", "raise"} /\ top[u] = high /\ u # t
    BY <2>3, Zenon DEF IInv, PeakFollows, Raising
  <2>5. peak' = high' \/ \E u \in Threads : pc'[u] \in {"peak", "raise"} /\ top'[u] = high'
    BY <1>1, <1>4, <2>1, <2>4
  <2>6. QED
    BY <1>1, <1>4, <2>2, <2>5 DEF IInv, PeakFollows, Raising
<1> QED BY <1>2, <1>3, <1>4, ZenonT(30) DEF Raise

\* The other steps move one thread and leave the account alone.
LEMMA OtherSound ==
    ASSUME IInv, NEW t \in Threads,
           \/ \E b \in Sizes : Acquire(t, b)
           \/ Reject(t) \/ ExchangeFails(t) \/ LoadPeak(t) \/ Raise(t) \/ Allocate(t)
    PROVE  IInv'
<1>1. CASE \E b \in Sizes : Acquire(t, b)
  <2>1. Typed'
    BY <1>1, BudgetConstants DEF IInv, Typed, Places, Acquire
  <2>2. Charged' = Charged /\ used' = used /\ \A u \in Charged : bytes'[u] = bytes[u]
    BY <1>1, Zenon DEF IInv, Typed, Charged, Acquire
  <2>3. PeakFollows'
    BY <1>1, ZenonT(30) DEF IInv, Typed, PeakFollows, Raising, Acquire
  <2> QED BY <2>1, <2>2, <2>3, SameAccount, ZenonT(30) DEF IInv
<1>2. CASE Reject(t)
  <2>1. Typed'
    BY <1>2, BudgetConstants DEF IInv, Typed, Places, Reject, Leave
  <2>2. Charged' = Charged /\ used' = used /\ \A u \in Charged : bytes'[u] = bytes[u]
    BY <1>2, Zenon DEF IInv, Typed, Charged, Reject, Leave
  <2>3. PeakFollows'
    BY <1>2, ZenonT(30) DEF IInv, Typed, PeakFollows, Raising, Reject, Leave
  <2> QED BY <2>1, <2>2, <2>3, SameAccount, ZenonT(30) DEF IInv
<1>3. CASE ExchangeFails(t)
  <2>1. Typed' /\ PeakFollows'
    BY <1>3, ZenonT(30) DEF IInv, Typed, PeakFollows, Raising, ExchangeFails
  <2>2. Charged' = Charged /\ used' = used /\ bytes' = bytes
    BY <1>3, Zenon DEF Charged, ExchangeFails
  <2> QED BY <2>1, <2>2, SameAccount DEF IInv
<1>4. CASE LoadPeak(t)
  <2>1. Typed'
    BY <1>4, ZenonT(30) DEF IInv, Typed, Places, LoadPeak
  <2>2. Charged' = Charged /\ used' = used /\ bytes' = bytes
    BY <1>4, Zenon DEF IInv, Typed, Charged, LoadPeak
  <2>3. PeakFollows'
    BY <1>4 DEF IInv, Typed, PeakFollows, Raising, LoadPeak
  <2> QED BY <2>1, <2>2, <2>3, SameAccount, ZenonT(30) DEF IInv
<1>5. CASE Raise(t)
  <2>1. Typed'
    BY <1>5 DEF IInv, Typed, Places, Raise
  <2>2. Charged' = Charged /\ used' = used /\ bytes' = bytes
    BY <1>5, Zenon DEF IInv, Typed, Charged, Raise
  <2> QED BY <1>5, <2>1, <2>2, RaiseSound, SameAccount DEF IInv
<1>6. CASE Allocate(t)
  <2>1. Typed'
    BY <1>6, ZenonT(30) DEF IInv, Typed, Places, Allocate
  <2>2. Charged' = Charged /\ used' = used /\ bytes' = bytes
    BY <1>6, ZenonT(30) DEF IInv, Typed, Charged, Allocate
  <2>3. PeakFollows'
    BY <1>6, ZenonT(30) DEF IInv, Typed, PeakFollows, Raising, Allocate
  <2> QED BY <2>1, <2>2, <2>3, SameAccount, ZenonT(30) DEF IInv
<1> QED BY <1>1, <1>2, <1>3, <1>4, <1>5, <1>6

-----------------------------------------------------------------------------
\* An idle budget holds nothing.
LEMMA InitSound == Init => IInv
<1> SUFFICES ASSUME Init PROVE IInv
  BY Zenon
<1>1. Typed /\ PeakFollows
  BY BudgetConstants DEF Init, Typed, Places, PeakFollows, Raising
<1>2. HeldBytes = {}
  BY Zenon DEF Init, HeldBytes, Charged
<1>3. Cardinality(HeldBytes) = 0
  BY <1>2, FS_EmptySet
<1> QED BY <1>1, <1>3, BudgetConstants DEF Init, IInv, Accounted, WithinCapacity

\* Every step keeps the inductive invariant.
LEMMA NextSound == IInv /\ [Next]_vars => IInv'
<1> SUFFICES ASSUME IInv, [Next]_vars PROVE IInv'
  BY Zenon
<1>1. CASE Next
  <2> PICK t \in Threads :
        \/ \E b \in Sizes : Acquire(t, b)
        \/ Reject(t) \/ Exchange(t) \/ ExchangeFails(t)
        \/ LoadPeak(t) \/ Raise(t) \/ Allocate(t) \/ Release(t)
    BY <1>1 DEF Next
  <2> QED BY ExchangeSound, ReleaseSound, OtherSound
<1>2. CASE UNCHANGED vars
  <2>1. Typed' /\ PeakFollows'
    BY <1>2, ZenonT(30) DEF IInv, Typed, PeakFollows, Raising, vars
  <2>2. Charged' = Charged /\ used' = used /\ bytes' = bytes
    BY <1>2, Zenon DEF Charged, vars
  <2> QED BY <2>1, <2>2, SameAccount DEF IInv
<1> QED BY <1>1, <1>2

\* AllocationBudget never leaks and never overcommits, whatever the interleaving of
\* acquire and release, the capacity and the width of size_t; and the peak it reports is
\* the largest sum it has held once the threads that raise it have finished.
THEOREM BudgetKept == Spec => []BudgetSound
<1>1. IInv => BudgetSound
  BY ZenonT(30) DEF IInv, PeakFollows, Raising, BudgetSound, PeakExact
<1> QED BY <1>1, InitSound, NextSound, PTL DEF Spec
==============================================================================

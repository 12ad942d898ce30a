--------------------------- MODULE GatewayProofs ---------------------------
(***************************************************************************)
(* Proofs about what stands before the tasks: FrontDoor, for any numbers   *)
(* of keys, tokens and requests in progress, any lifetimes of tokens, and  *)
(* any routes that are called; the rate limiter before it, for any limit,  *)
(* window and callers; and the wire format, for any values that are sent.  *)
(* The three share no state.                                               *)
(***************************************************************************)
EXTENDS Gateway, FiniteSetTheorems, SequenceTheorems, WellFoundedInduction, TLAPS

-----------------------------------------------------------------------------
(* The token store as a value.  FamiliesInOrder(s, n, spoiled): of n       *)
(* tokens that were issued s keeps the records; a family has one subject   *)
(* and one live token at most, and none if it is spoiled.                  *)

Live(s, t) == ~s[t].revoked

SameFamily(s, t, u) == s[t].family = s[u].family

StoreTyped(s) == s \in [Thumbprints -> Record \cup {NoRecord}]

IssuedSoFar(s, n) ==
  \A t \in Thumbprints : s[t] # NoRecord => t <= n /\ s[t].family <= n

OneSubject(s) ==
  \A t, u \in Thumbprints :
    s[t] # NoRecord /\ s[u] # NoRecord /\ SameFamily(s, t, u) =>
      s[t].subject = s[u].subject

OneLive(s) ==
  \A t, u \in Thumbprints :
    /\ s[t] # NoRecord /\ s[u] # NoRecord
    /\ SameFamily(s, t, u) /\ Live(s, t) /\ Live(s, u)
    => t = u

SpoiledAreDead(s, spoiled) ==
  \A t \in Thumbprints :
    s[t] # NoRecord /\ s[t].family \in spoiled => ~Live(s, t)

FamiliesInOrder(s, n, spoiled) ==
  /\ StoreTyped(s)
  /\ IssuedSoFar(s, n)
  /\ OneSubject(s)
  /\ OneLive(s)
  /\ SpoiledAreDead(s, spoiled)
  /\ \A f \in spoiled : f <= n

LEMMA Arithmetic == /\ MaxTokens \in Nat
                    /\ \A t \in Thumbprints : t \in Nat
  BY FrontDoorAssumption DEF Thumbprints

LEMMA NoTokensInOrder ==
  ASSUME NEW n \in Nat, NEW spoiled, \A f \in spoiled : f <= n
  PROVE  FamiliesInOrder(NoTokens, n, spoiled)
  BY DEF FamiliesInOrder, NoTokens, StoreTyped, IssuedSoFar, OneSubject,
         OneLive, SpoiledAreDead

\* More tokens are issued, of kinds that are not stored.
LEMMA LaterInOrder ==
  ASSUME NEW s, NEW n \in Nat, NEW m \in Nat, n <= m,
         NEW spoiled \in SUBSET Nat, FamiliesInOrder(s, n, spoiled)
  PROVE  FamiliesInOrder(s, m, spoiled)
  <1>1. IssuedSoFar(s, m)
    <2> SUFFICES ASSUME NEW t \in Thumbprints, s[t] # NoRecord
                 PROVE  t <= m /\ s[t].family <= m
      BY DEF IssuedSoFar
    <2>1. t \in Nat /\ s[t].family \in Nat
      BY Arithmetic DEF FamiliesInOrder, StoreTyped, Record, Thumbprints
    <2>2. t <= n /\ s[t].family <= n
      BY DEF FamiliesInOrder, IssuedSoFar
    <2> QED
      BY <2>1, <2>2
  <1> QED
    BY <1>1 DEF FamiliesInOrder

\* A step that only revokes.
LEMMA RevokingInOrder ==
  ASSUME NEW s, NEW q, NEW n \in Nat, NEW spoiled,
         FamiliesInOrder(s, n, spoiled), StoreTyped(q),
         \A t \in Thumbprints :
           /\ q[t] = NoRecord <=> s[t] = NoRecord
           /\ s[t] # NoRecord => /\ q[t].family = s[t].family
                                 /\ q[t].subject = s[t].subject
                                 /\ Live(q, t) => Live(s, t)
  PROVE  FamiliesInOrder(q, n, spoiled)
  <1>1. IssuedSoFar(q, n)
    BY DEF FamiliesInOrder, IssuedSoFar
  <1>2. OneSubject(q)
    BY DEF FamiliesInOrder, OneSubject, SameFamily
  <1>3. OneLive(q)
    BY DEF FamiliesInOrder, OneLive, SameFamily
  <1>4. SpoiledAreDead(q, spoiled)
    BY DEF FamiliesInOrder, SpoiledAreDead
  <1> QED
    BY <1>1, <1>2, <1>3, <1>4 DEF FamiliesInOrder

LEMMA StoredInOrder ==
  ASSUME NEW s, NEW n \in Nat, NEW spoiled \in SUBSET Nat,
         FamiliesInOrder(s, n, spoiled), n + 1 <= MaxTokens,
         NEW k \in Subjects, NEW e \in Nat
  PROVE  /\ FamiliesInOrder(Stored(s, n + 1, k, e), n + 1, spoiled)
         /\ \A t \in Thumbprints \ {n + 1} : Stored(s, n + 1, k, e)[t] = s[t]
         /\ Stored(s, n + 1, k, e)[n + 1].subject = k
         /\ Stored(s, n + 1, k, e)[n + 1] # NoRecord
  <1> DEFINE m == n + 1
             r == [subject |-> k, expiresAt |-> e, revoked |-> FALSE,
                   parent |-> 0, family |-> m]
             q == Stored(s, m, k, e)
  <1>1. m \in Thumbprints /\ m \in Nat
    BY Arithmetic DEF Thumbprints
  <1>2. r \in Record
    <2>1. 0 \in 0 .. MaxTokens /\ FALSE \in BOOLEAN
      BY Arithmetic
    <2> QED
      BY <1>1, <2>1 DEF Record
  <1>3. /\ q \in [Thumbprints -> Record \cup {NoRecord}]
        /\ q[m] = r /\ \A t \in Thumbprints \ {m} : q[t] = s[t]
    BY <1>1, <1>2 DEF Stored, FamiliesInOrder, StoreTyped
  <1>4. r.subject = k /\ ~r.revoked /\ r.family = m /\ r # NoRecord
    BY <1>2, TokenStoreAssumption
  <1>5. \A t \in Thumbprints :
          s[t] # NoRecord => /\ t <= n /\ s[t].family <= n
                             /\ t \in Nat /\ s[t].family \in Nat
    BY Arithmetic
       DEF FamiliesInOrder, IssuedSoFar, StoreTyped, Record, Thumbprints
  <1> HIDE DEF r, q
  <1>6. \A t \in Thumbprints :
          t # m /\ s[t] # NoRecord => q[t].family # m /\ t # m
    BY <1>3, <1>5
  <1>7. IssuedSoFar(q, m)
    BY <1>1, <1>3, <1>4, <1>5 DEF IssuedSoFar
  <1>8. OneSubject(q)
    BY <1>3, <1>4, <1>6 DEF FamiliesInOrder, OneSubject, SameFamily
  <1>9. OneLive(q)
    BY <1>3, <1>4, <1>6 DEF FamiliesInOrder, OneLive, SameFamily, Live
  <1>10. SpoiledAreDead(q, spoiled)
    <2>1. m \notin spoiled
      BY <1>1 DEF FamiliesInOrder
    <2> QED
      BY <1>3, <1>4, <2>1 DEF FamiliesInOrder, SpoiledAreDead, Live
  <1>11. \A f \in spoiled : f <= m
    <2> SUFFICES ASSUME NEW f \in spoiled PROVE f <= m
      OBVIOUS
    <2>1. f <= n
      BY DEF FamiliesInOrder
    <2> QED
      BY <2>1
  <1> QED
    BY <1>3, <1>4, <1>7, <1>8, <1>9, <1>10, <1>11
       DEF FamiliesInOrder, StoreTyped, q

\* The old token is used up, and the new one takes its place in the family.
LEMMA RotatedInOrder ==
  ASSUME NEW s, NEW n \in Nat, NEW spoiled \in SUBSET Nat,
         FamiliesInOrder(s, n, spoiled), n + 1 <= MaxTokens,
         NEW old \in Thumbprints, Rotates(s, old), NEW e \in Nat
  PROVE  LET q == Rotated(s, old, n + 1, e) IN
         /\ FamiliesInOrder(q, n + 1, spoiled)
         /\ \A t \in Thumbprints \ {n + 1} :
              /\ q[t] = NoRecord <=> s[t] = NoRecord
              /\ s[t] # NoRecord => q[t].subject = s[t].subject
         /\ q[n + 1].subject = s[old].subject
         /\ q[n + 1] # NoRecord
  <1> DEFINE m  == n + 1
             q  == Rotated(s, old, m, e)
             r1 == [s[old] EXCEPT !.revoked = TRUE]
             r2 == [s[old] EXCEPT !.parent = old, !.revoked = FALSE,
                                  !.expiresAt = e]
  <1>1. m \in Thumbprints /\ m \in Nat /\ old \in Nat
    BY Arithmetic DEF Thumbprints
  <1>2. s[old] \in Record /\ ~s[old].revoked /\ s[old] # NoRecord
    BY DEF Rotates, Kept, FamiliesInOrder, StoreTyped
  <1>3. old # m /\ s[m] = NoRecord
    <2>1. s[m] # NoRecord => m <= n
      BY <1>1 DEF FamiliesInOrder, IssuedSoFar
    <2> QED
      BY <1>1, <1>2, <2>1
  <1>4. /\ r1 \in Record /\ r1.revoked /\ r1.family = s[old].family
        /\ r1.subject = s[old].subject
    BY <1>2 DEF Record
  <1>5. /\ r2 \in Record /\ ~r2.revoked /\ r2.family = s[old].family
        /\ r2.subject = s[old].subject
    <2>1. old \in 0 .. MaxTokens
      BY Arithmetic DEF Thumbprints
    <2> QED
      BY <1>2, <2>1 DEF Record
  <1>6. r1 # NoRecord /\ r2 # NoRecord
    BY <1>4, <1>5, TokenStoreAssumption
  <1>7. /\ q \in [Thumbprints -> Record \cup {NoRecord}]
        /\ q[m] = r2 /\ q[old] = r1
        /\ \A t \in Thumbprints \ {m, old} : q[t] = s[t]
    <2>1. q = [s EXCEPT ![old] = r1, ![m] = r2]
      BY DEF Rotated
    <2> HIDE DEF r1, r2, q
    <2> QED
      BY <1>1, <1>3, <1>4, <1>5, <2>1 DEF FamiliesInOrder, StoreTyped
  <1> HIDE DEF r1, r2, q
  <1>8. ASSUME NEW t \in Thumbprints, s[t] # NoRecord
        PROVE  /\ t <= m /\ s[t].family <= m /\ t # m
    <2>1. t \in Nat /\ s[t].family \in Nat
      BY <1>8, Arithmetic DEF FamiliesInOrder, StoreTyped, Record, Thumbprints
    <2>2. t <= n /\ s[t].family <= n
      BY <1>8 DEF FamiliesInOrder, IssuedSoFar
    <2> QED
      BY <2>1, <2>2
  <1>9. IssuedSoFar(q, m)
    BY <1>1, <1>2, <1>4, <1>5, <1>7, <1>8 DEF IssuedSoFar
  \* What q keeps, seen as what s keeps: the new record stands for the old one.
  <1>10. ASSUME NEW t \in Thumbprints, q[t] # NoRecord
         PROVE  LET u == IF t = m THEN old ELSE t IN
                /\ s[u] # NoRecord /\ q[t].family = s[u].family
                /\ q[t].subject = s[u].subject
                /\ Live(q, t) => Live(s, u) /\ t # old
    BY <1>2, <1>4, <1>5, <1>7, <1>10 DEF Live
  <1>11. OneSubject(q)
    BY <1>10 DEF FamiliesInOrder, OneSubject, SameFamily
  <1>12. OneLive(q)
    BY <1>3, <1>10 DEF FamiliesInOrder, OneLive, SameFamily
  <1>13. SpoiledAreDead(q, spoiled)
    BY <1>10 DEF FamiliesInOrder, SpoiledAreDead
  <1>14. \A f \in spoiled : f <= m
    <2> SUFFICES ASSUME NEW f \in spoiled PROVE f <= m
      OBVIOUS
    <2>1. f <= n
      BY DEF FamiliesInOrder
    <2> QED
      BY <2>1
  <1>15. \A t \in Thumbprints \ {m} :
           /\ q[t] = NoRecord <=> s[t] = NoRecord
           /\ s[t] # NoRecord => q[t].subject = s[t].subject
    BY <1>2, <1>4, <1>6, <1>7
  <1>16. FamiliesInOrder(q, m, spoiled)
    BY <1>7, <1>9, <1>11, <1>12, <1>13, <1>14 DEF FamiliesInOrder, StoreTyped
  <1> QED
    BY <1>5, <1>6, <1>7, <1>15, <1>16 DEF q

LEMMA RevokedInOrder ==
  ASSUME NEW s, NEW n \in Nat, NEW spoiled, FamiliesInOrder(s, n, spoiled),
         NEW t \in Thumbprints
  PROVE  /\ FamiliesInOrder(Revoked(s, t), n, spoiled)
         /\ \A u \in Thumbprints :
              /\ Revoked(s, t)[u] = NoRecord <=> s[u] = NoRecord
              /\ s[u] # NoRecord => Revoked(s, t)[u].subject = s[u].subject
  <1> DEFINE q == Revoked(s, t)
             r == [s[t] EXCEPT !.revoked = TRUE]
  <1>1. CASE s[t] # NoRecord
    <2>1. s[t] \in Record
      BY <1>1 DEF FamiliesInOrder, StoreTyped
    <2>2. /\ r \in Record /\ r # NoRecord /\ r.revoked
          /\ r.family = s[t].family /\ r.subject = s[t].subject
      BY <2>1, TokenStoreAssumption DEF Record
    <2>3. q = [s EXCEPT ![t] = r]
      BY <1>1 DEF Revoked, Kept
    <2> HIDE DEF r, q
    <2>4. /\ StoreTyped(q) /\ q[t] = r
          /\ \A u \in Thumbprints \ {t} : q[u] = s[u]
      BY <2>2, <2>3 DEF FamiliesInOrder, StoreTyped
    <2>5. \A u \in Thumbprints :
            /\ q[u] = NoRecord <=> s[u] = NoRecord
            /\ s[u] # NoRecord => /\ q[u].family = s[u].family
                                  /\ q[u].subject = s[u].subject
                                  /\ Live(q, u) => Live(s, u)
      BY <1>1, <2>2, <2>4 DEF Live
    <2> QED
      BY <2>4, <2>5, RevokingInOrder DEF q
  <1>2. CASE s[t] = NoRecord
    BY <1>2 DEF Revoked, Kept
  <1> QED
    BY <1>1, <1>2

\* All tokens of a subject are revoked, so its families may count as spoiled.
LEMMA RevokedForSubjectInOrder ==
  ASSUME NEW s, NEW n \in Nat, NEW spoiled \in SUBSET Nat,
         FamiliesInOrder(s, n, spoiled),
         NEW t \in Thumbprints, s[t] # NoRecord
  PROVE  LET q == RevokedForSubject(s, s[t].subject) IN
         /\ FamiliesInOrder(q, n, spoiled \cup {s[t].family})
         /\ \A u \in Thumbprints :
              /\ q[u] = NoRecord <=> s[u] = NoRecord
              /\ s[u] # NoRecord => q[u].subject = s[u].subject
  <1> DEFINE k == s[t].subject
             q == RevokedForSubject(s, k)
  <1>1. ASSUME NEW u \in Thumbprints
        PROVE  /\ q[u] \in Record \cup {NoRecord}
               /\ q[u] = NoRecord <=> s[u] = NoRecord
               /\ s[u] # NoRecord => /\ q[u].family = s[u].family
                                     /\ q[u].subject = s[u].subject
                                     /\ Live(q, u) => Live(s, u)
                                     /\ s[u].subject = k => ~Live(q, u)
    <2> DEFINE r == [s[u] EXCEPT !.revoked = TRUE]
    <2>1. CASE s[u] = NoRecord
      BY <2>1 DEF RevokedForSubject, Kept
    <2>2. CASE s[u] # NoRecord /\ s[u].subject # k
      <3>1. q[u] = s[u]
        BY <2>2 DEF RevokedForSubject, Kept
      <3> HIDE DEF q
      <3> QED
        BY <2>2, <3>1 DEF FamiliesInOrder, StoreTyped, Live
    <2>3. CASE s[u] # NoRecord /\ s[u].subject = k
      <3>1. q[u] = r
        BY <2>3 DEF RevokedForSubject, Kept
      <3>2. s[u] \in Record
        BY <2>3 DEF FamiliesInOrder, StoreTyped
      <3>3. /\ r \in Record /\ r # NoRecord /\ r.revoked
            /\ r.family = s[u].family /\ r.subject = s[u].subject
        BY <3>2, TokenStoreAssumption DEF Record
      <3> HIDE DEF q, r
      <3> QED
        BY <2>3, <3>1, <3>3 DEF Live
    <2> QED
      BY <2>1, <2>2, <2>3
  <1>2. StoreTyped(q)
    <2>1. q = [u \in Thumbprints |-> q[u]]
      BY DEF RevokedForSubject
    <2> HIDE DEF q
    <2> QED
      BY <1>1, <2>1 DEF StoreTyped
  <1> HIDE DEF q
  <1>3. FamiliesInOrder(q, n, spoiled)
    BY <1>1, <1>2, RevokingInOrder
  <1>4. SpoiledAreDead(q, spoiled \cup {s[t].family})
    <2> SUFFICES ASSUME NEW u \in Thumbprints, q[u] # NoRecord,
                        q[u].family = s[t].family
                 PROVE  ~Live(q, u)
      BY <1>3 DEF FamiliesInOrder, SpoiledAreDead
    <2>1. s[u] # NoRecord /\ s[u].family = s[t].family
      BY <1>1
    <2>2. s[u].subject = k
      BY <2>1 DEF FamiliesInOrder, OneSubject, SameFamily
    <2> QED
      BY <1>1, <2>1, <2>2
  <1>5. s[t].family <= n
    BY DEF FamiliesInOrder, IssuedSoFar
  <1>6. FamiliesInOrder(q, n, spoiled \cup {s[t].family})
    BY <1>3, <1>4, <1>5 DEF FamiliesInOrder
  <1> QED
    BY <1>1, <1>6 DEF q

LEMMA FamilyInNat ==
  ASSUME NEW s, StoreTyped(s), NEW t \in Thumbprints, s[t] # NoRecord
  PROVE  s[t].family \in Nat /\ s[t].subject \in Subjects
  BY Arithmetic DEF StoreTyped, Record, Thumbprints

-----------------------------------------------------------------------------
(* The inductive invariant.                                                *)

\* A token says of its subject what the key it was first issued for says.
Inherits(j) ==
  /\ j.subject \in EnabledKeys
  /\ j.agents = AllowedAgents(j.subject)
  /\ "admin" \notin j.scopes

\* Between two steps of a request, what its first step found still holds.
HandlerInOrder(f) ==
  /\ f.phase = "minting" => f.key \in EnabledKeys
  /\ f.phase = "paid" /\ f.token = 0 => f.key \in EnabledKeys
  /\ f.phase = "rotating" =>
       f.token \in Thumbprints /\ store[f.token] # NoRecord

SubjectsAgree ==
  \A t \in Thumbprints :
    store[t] # NoRecord => store[t].subject = jwts[t].subject

DoorInv ==
  /\ now \in Nat
  /\ jwts \in Seq(Jwt) /\ Len(jwts) <= MaxTokens
  /\ handler \in [Handlers -> Handler]
  /\ replayed \in SUBSET Nat
  /\ FamiliesInOrder(store, Len(jwts), replayed)
  /\ SubjectsAgree
  /\ \A n \in 1 .. Len(jwts) : Inherits(jwts[n])
  /\ \A h \in Handlers : HandlerInOrder(handler[h])

LEMMA DoorInit == Init => DoorInv
  <1> SUFFICES ASSUME Init PROVE DoorInv
    OBVIOUS
  <1>1. handler \in [Handlers -> Handler]
    BY Arithmetic DEF Init, Blank, Handler
  <1>2. \A h \in Handlers : HandlerInOrder(handler[h])
    BY DEF Init, Blank, HandlerInOrder
  <1>3. jwts = <<>> /\ Len(jwts) = 0 /\ replayed = {} /\ now = 0
    BY DEF Init
  <1>4. FamiliesInOrder(store, Len(jwts), replayed)
    BY <1>3, NoTokensInOrder DEF Init
  <1>5. SubjectsAgree
    BY DEF Init, SubjectsAgree, NoTokens
  <1> QED
    BY <1>1, <1>2, <1>3, <1>4, <1>5, Arithmetic DEF DoorInv

\* One request moves on; what the others rest on is still there.
LEMMA HandlersMove ==
  ASSUME DoorInv, NEW h \in Handlers, NEW f \in Handler, Becomes(h, f),
         \A t \in Thumbprints : store[t] # NoRecord => store'[t] # NoRecord,
         HandlerInOrder(f)'
  PROVE  /\ handler' \in [Handlers -> Handler]
         /\ \A g \in Handlers : HandlerInOrder(handler[g])'
  <1>1. /\ handler' \in [Handlers -> Handler]
        /\ handler' = [handler EXCEPT ![h] = f]
    BY DEF DoorInv, Becomes
  <1>2. ASSUME NEW g \in Handlers
        PROVE  HandlerInOrder(handler[g])'
    <2>1. CASE g = h
      BY <1>1, <2>1 DEF DoorInv
    <2>2. CASE g # h
      <3>1. handler'[g] = handler[g]
        BY <1>1, <2>2 DEF DoorInv
      <3> QED
        BY <3>1 DEF DoorInv, HandlerInOrder
    <2> QED
      BY <2>1, <2>2
  <1> QED
    BY <1>1, <1>2

\* A request that takes its first step.
LEMMA HandlerBegins ==
  ASSUME NEW p \in {"minting", "rotating", "paid"}
  PROVE  LET f == [Blank EXCEPT !.phase = p]
         IN  f \in Handler /\ f.phase = p /\ f.token = 0
  BY Arithmetic DEF Blank, Handler

LEMMA HandlerFor ==
  ASSUME NEW f \in Handler, NEW k \in Keys \cup {NoKey}
  PROVE  LET g == [f EXCEPT !.key = k]
         IN  /\ g \in Handler /\ g.key = k
             /\ g.phase = f.phase /\ g.token = f.token
  BY DEF Handler

LEMMA HandlerWith ==
  ASSUME NEW f \in Handler, NEW t \in 0 .. MaxTokens
  PROVE  LET g == [f EXCEPT !.token = t]
         IN  /\ g \in Handler /\ g.token = t
             /\ g.phase = f.phase /\ g.key = f.key
  BY DEF Handler

LEMMA BlankHandler ==
  /\ Blank \in Handler
  /\ Blank.phase = "idle"
  /\ [Blank EXCEPT !.phase = "done"] \in Handler
  /\ [Blank EXCEPT !.phase = "done"].phase = "done"
  BY Arithmetic DEF Blank, Handler

\* It is answered or refused.
LEMMA HandlerFreed ==
  ASSUME DoorInv, NEW h \in Handlers, Answered(h) \/ Refused(h),
         \A t \in Thumbprints : store[t] # NoRecord => store'[t] # NoRecord
  PROVE  /\ handler' \in [Handlers -> Handler]
         /\ \A g \in Handlers : HandlerInOrder(handler[g])'
  <1> DEFINE f == [Blank EXCEPT !.phase = "done"]
  <1>1. CASE Answered(h)
    <2>1. f \in Handler /\ f.phase = "done" /\ Becomes(h, f)
      BY <1>1, BlankHandler DEF Answered
    <2> HIDE DEF f
    <2>2. HandlerInOrder(f)'
      BY <2>1 DEF HandlerInOrder
    <2> QED
      BY <2>1, <2>2, HandlersMove
  <1>2. CASE Refused(h)
    <2>1. HandlerInOrder(Blank)'
      BY BlankHandler DEF HandlerInOrder
    <2> QED
      BY <1>2, <2>1, BlankHandler, HandlersMove DEF Refused
  <1> QED
    BY <1>1, <1>2

-----------------------------------------------------------------------------
(* Issuing tokens.                                                         *)

LEMMA GrantedScopes ==
  ASSUME NEW s
  PROVE  Granted(s) \in SUBSET AllScopes /\ "admin" \notin Granted(s)
  BY DEF Granted, DefaultScopes, AllScopes

LEMMA IssuedToken ==
  ASSUME now \in Nat, NEW type \in {"access", "refresh"}, NEW k \in EnabledKeys,
         NEW agents, agents = AllowedAgents(k),
         NEW scopes \in SUBSET AllScopes, "admin" \notin scopes, NEW ttl \in Nat
  PROVE  /\ Issued(type, k, agents, scopes, ttl) \in Jwt
         /\ Inherits(Issued(type, k, agents, scopes, ttl))
         /\ Issued(type, k, agents, scopes, ttl).subject = k
  <1>1. k \in Keys /\ now + ttl \in Nat /\ agents \in SUBSET Agents
    BY FrontDoorAssumption DEF AllowedAgents
  <1> QED
    BY <1>1 DEF Issued, Jwt, Inherits

LEMMA Appended ==
  ASSUME NEW js \in Seq(Jwt), NEW j \in Jwt
  PROVE  /\ Append(js, j) \in Seq(Jwt)
         /\ Len(Append(js, j)) = Len(js) + 1
         /\ Append(js, j)[Len(js) + 1] = j
         /\ \A n \in 1 .. Len(js) : Append(js, j)[n] = js[n]
         /\ Len(js) \in Nat
  OBVIOUS

LEMMA AppendedPair ==
  ASSUME NEW js \in Seq(Jwt), NEW i \in Jwt, NEW j \in Jwt
  PROVE  /\ js \o <<i, j>> \in Seq(Jwt)
         /\ Len(js \o <<i, j>>) = Len(js) + 2
         /\ (js \o <<i, j>>)[Len(js) + 1] = i
         /\ (js \o <<i, j>>)[Len(js) + 2] = j
         /\ \A n \in 1 .. Len(js) : (js \o <<i, j>>)[n] = js[n]
         /\ Len(js) \in Nat
  OBVIOUS

\* A refresh token that is kept was issued, to the subject on record.
LEMMA KeptIsIssued ==
  ASSUME DoorInv, NEW t \in Thumbprints, store[t] # NoRecord
  PROVE  t \in 1 .. Len(jwts) /\ jwts[t].subject = store[t].subject
  <1>1. t <= Len(jwts)
    BY DEF DoorInv, FamiliesInOrder, IssuedSoFar
  <1>2. t \in Nat /\ t > 0 /\ Len(jwts) \in Nat
    BY Arithmetic DEF Thumbprints, DoorInv
  <1>3. jwts[t].subject = store[t].subject
    BY DEF DoorInv, SubjectsAgree
  <1> QED
    BY <1>1, <1>2, <1>3

\* What the tokens issued by a step preserve of those there are.
LEMMA TokensKeep ==
  ASSUME DoorInv, \A n \in 1 .. Len(jwts) : jwts'[n] = jwts[n]
  PROVE  \A t \in Thumbprints :
           store[t] # NoRecord => jwts'[t].subject = store[t].subject
  BY KeptIsIssued

-----------------------------------------------------------------------------
(* One lemma per action.                                                   *)

LEMMA TickDoor == ASSUME DoorInv, Tick PROVE DoorInv'
  <1>1. now' \in Nat /\ UNCHANGED <<jwts, store, replayed, handler>>
    BY DEF Tick, DoorInv, oauth
  <1> QED
    BY <1>1 DEF DoorInv, SubjectsAgree, HandlerInOrder

LEMMA RestartDoor == ASSUME DoorInv, Restart PROVE DoorInv'
  <1>1. UNCHANGED <<now, jwts, replayed>> /\ store' = NoTokens
        /\ handler' = [h \in Handlers |-> Blank]
    BY DEF Restart
  <1>2. FamiliesInOrder(store, Len(jwts), replayed)'
    <2>1. Len(jwts) \in Nat /\ \A f \in replayed : f <= Len(jwts)
      BY DEF DoorInv, FamiliesInOrder
    <2> QED
      BY <1>1, <2>1, NoTokensInOrder
  <1>3. handler' \in [Handlers -> Handler]
    BY <1>1, BlankHandler
  <1>4. \A h \in Handlers : HandlerInOrder(handler[h])'
    BY <1>1, BlankHandler DEF HandlerInOrder
  <1>5. SubjectsAgree'
    BY <1>1 DEF SubjectsAgree, NoTokens
  <1> QED
    BY <1>1, <1>2, <1>3, <1>4, <1>5 DEF DoorInv

LEMMA ClientCredentialsDoor ==
  ASSUME DoorInv, NEW h \in Handlers, NEW k \in Keys, NEW s \in Requests,
         ClientCredentials(h, k, s)
  PROVE  DoorInv'
  <1>1. UNCHANGED <<now, store, replayed>>
    BY DEF ClientCredentials
  <1>2. CASE k \in EnabledKeys
    <2> DEFINE j == Issued("access", k, AllowedAgents(k), Granted(s), AccessTTL)
               f == [[Blank EXCEPT !.phase = "minting"] EXCEPT !.key = k]
    <2>1. jwts' = Append(jwts, j) /\ Becomes(h, f) /\ Len(jwts) + 2 <= MaxTokens
      BY <1>2 DEF ClientCredentials, Room
    <2>2. j \in Jwt /\ Inherits(j)
      BY <1>2, IssuedToken, GrantedScopes, FrontDoorAssumption DEF DoorInv
    <2>3. f \in Handler /\ f.phase = "minting" /\ f.key = k
      BY HandlerBegins, HandlerFor
    <2> HIDE DEF j, f
    <2>4. /\ jwts' \in Seq(Jwt) /\ Len(jwts') = Len(jwts) + 1
          /\ jwts'[Len(jwts) + 1] = j /\ Len(jwts) \in Nat
          /\ \A n \in 1 .. Len(jwts) : jwts'[n] = jwts[n]
      BY <2>1, <2>2, Appended DEF DoorInv
    <2>5. FamiliesInOrder(store, Len(jwts), replayed)'
      BY <1>1, <2>4, LaterInOrder DEF DoorInv
    <2>6. SubjectsAgree'
      BY <1>1, <2>4, TokensKeep DEF SubjectsAgree
    <2>7. \A n \in 1 .. Len(jwts') : Inherits(jwts'[n])
      BY <2>2, <2>4 DEF DoorInv
    <2>8. HandlerInOrder(f)'
      BY <1>2, <2>3 DEF HandlerInOrder
    <2>9. /\ handler' \in [Handlers -> Handler]
          /\ \A g \in Handlers : HandlerInOrder(handler[g])'
      BY <1>1, <2>1, <2>3, <2>8, HandlersMove
    <2> QED
      <3>1. Len(jwts') <= MaxTokens
        BY <2>1, <2>4, Arithmetic
      <3> QED
        BY <1>1, <2>4, <2>5, <2>6, <2>7, <2>9, <3>1 DEF DoorInv, Inherits
  <1>3. CASE k \notin EnabledKeys
    <2>1. Refused(h) /\ UNCHANGED jwts
      BY <1>3 DEF ClientCredentials
    <2>2. /\ handler' \in [Handlers -> Handler]
          /\ \A g \in Handlers : HandlerInOrder(handler[g])'
      BY <1>1, <2>1, HandlerFreed
    <2> QED
      BY <1>1, <2>1, <2>2 DEF DoorInv, SubjectsAgree
  <1> QED
    BY <1>2, <1>3

LEMMA RefreshTokenStoredDoor ==
  ASSUME DoorInv, NEW h \in Handlers, RefreshTokenStored(h)
  PROVE  DoorInv'
  <1> DEFINE k == handler[h].key
             n == Len(jwts)
             j == Issued("refresh", k, AllowedAgents(k), {"read"}, RefreshTTL)
  <1>1. /\ jwts' = Append(jwts, j) /\ Answered(h)
        /\ store' = Stored(store, n + 1, k, now + RefreshTTL)
        /\ UNCHANGED <<now, replayed>>
        /\ n + 1 <= MaxTokens /\ handler[h].phase = "minting"
    BY DEF RefreshTokenStored, Room
  <1>2. k \in EnabledKeys /\ n \in Nat /\ now + RefreshTTL \in Nat
    BY <1>1, FrontDoorAssumption DEF DoorInv, HandlerInOrder
  <1>3. k \in Subjects
    BY <1>2, FrontDoorAssumption
  <1>4. j \in Jwt /\ Inherits(j) /\ j.subject = k
    <2>1. /\ {"read"} \in SUBSET AllScopes /\ "admin" \notin {"read"}
          /\ RefreshTTL \in Nat
      BY FrontDoorAssumption DEF AllScopes
    <2> QED
      BY <1>2, <2>1, IssuedToken DEF DoorInv
  <1> HIDE DEF k, j
  <1>5. /\ jwts' \in Seq(Jwt) /\ Len(jwts') = n + 1 /\ jwts'[n + 1] = j
        /\ \A i \in 1 .. n : jwts'[i] = jwts[i]
    BY <1>1, <1>4, Appended DEF DoorInv
  <1>6. /\ FamiliesInOrder(store', n + 1, replayed)
        /\ \A t \in Thumbprints \ {n + 1} : store'[t] = store[t]
        /\ store'[n + 1].subject = k /\ store'[n + 1] # NoRecord
    <2> DEFINE e == now + RefreshTTL
               q == Stored(store, n + 1, k, e)
    <2>1. FamiliesInOrder(store, n, replayed) /\ replayed \in SUBSET Nat
      BY DEF DoorInv
    <2>2. /\ FamiliesInOrder(q, n + 1, replayed)
          /\ \A t \in Thumbprints \ {n + 1} : q[t] = store[t]
          /\ q[n + 1].subject = k /\ q[n + 1] # NoRecord
      <3>1. e \in Nat /\ n \in Nat /\ n + 1 <= MaxTokens
        BY <1>1, <1>2
      <3> HIDE DEF n, e
      <3> QED
        BY <1>3, <2>1, <3>1, StoredInOrder
    <2> QED
      BY <1>1, <2>2
  <1>7. SubjectsAgree'
    <2>1. \A t \in Thumbprints :
            store[t] # NoRecord => jwts'[t].subject = store[t].subject
      BY <1>2, <1>5, TokensKeep
    <2> QED
      BY <1>4, <1>5, <1>6, <2>1 DEF SubjectsAgree
  <1>8. \A i \in 1 .. Len(jwts') : Inherits(jwts'[i])
    BY <1>2, <1>4, <1>5 DEF DoorInv
  <1>9. /\ handler' \in [Handlers -> Handler]
        /\ \A g \in Handlers : HandlerInOrder(handler[g])'
    <2>1. \A t \in Thumbprints : store[t] # NoRecord => store'[t] # NoRecord
      BY <1>6
    <2> QED
      BY <1>1, <2>1, HandlerFreed
  <1> QED
    BY <1>1, <1>5, <1>6, <1>7, <1>8, <1>9 DEF DoorInv, Inherits

\* The subject's tokens are revoked: of a refresh token that was used up.
LEMMA SpoilDoor ==
  ASSUME DoorInv, NEW h \in Handlers, NEW t \in Thumbprints,
         store[t] # NoRecord, Refused(h),
         store' = RevokedForSubject(store, store[t].subject),
         replayed' = replayed \cup {store[t].family},
         UNCHANGED <<now, jwts>>
  PROVE  DoorInv'
  <1>1. Len(jwts) \in Nat /\ replayed \in SUBSET Nat
    BY DEF DoorInv
  <1>2. /\ FamiliesInOrder(store', Len(jwts), replayed')
        /\ \A u \in Thumbprints :
             /\ store'[u] = NoRecord <=> store[u] = NoRecord
             /\ store[u] # NoRecord => store'[u].subject = store[u].subject
    <2> DEFINE n == Len(jwts)
               q == RevokedForSubject(store, store[t].subject)
    <2>1. FamiliesInOrder(store, n, replayed) /\ n \in Nat
      BY DEF DoorInv
    <2>2. /\ FamiliesInOrder(q, n, replayed \cup {store[t].family})
          /\ \A u \in Thumbprints :
               /\ q[u] = NoRecord <=> store[u] = NoRecord
               /\ store[u] # NoRecord => q[u].subject = store[u].subject
      <3> HIDE DEF n
      <3> QED
        BY <1>1, <2>1, RevokedForSubjectInOrder
    <2> QED
      BY <2>2
  <1>3. replayed' \in SUBSET Nat
    BY <1>1, FamilyInNat DEF DoorInv, FamiliesInOrder
  <1>4. SubjectsAgree'
    BY <1>2 DEF DoorInv, SubjectsAgree
  <1>5. /\ handler' \in [Handlers -> Handler]
        /\ \A g \in Handlers : HandlerInOrder(handler[g])'
    BY <1>2, HandlerFreed
  <1> QED
    BY <1>2, <1>3, <1>4, <1>5 DEF DoorInv

LEMMA RefreshGrantDoor ==
  ASSUME DoorInv, NEW h \in Handlers, NEW t \in Thumbprints, RefreshGrant(h, t)
  PROVE  DoorInv'
  <1>1. CASE t \in Kept(store) /\ IsRevoked(store, t, now)
    BY <1>1, SpoilDoor DEF RefreshGrant, Kept
  <1>2. CASE ~(t \in Kept(store) /\ IsRevoked(store, t, now))
    <2>1. UNCHANGED <<now, jwts, store, replayed>>
      BY <1>2 DEF RefreshGrant
    <2>2. CASE t \in Kept(store) /\ Verifies(t)
      <3> DEFINE f == [[Blank EXCEPT !.phase = "rotating"] EXCEPT !.token = t]
      <3>1. Becomes(h, f)
        BY <1>2, <2>2 DEF RefreshGrant
      <3>2. f \in Handler /\ f.phase = "rotating" /\ f.token = t
        <4>1. t \in 0 .. MaxTokens
          BY Arithmetic DEF Thumbprints
        <4> QED
          BY <4>1, HandlerBegins, HandlerWith
      <3> HIDE DEF f
      <3>3. HandlerInOrder(f)'
        BY <2>1, <2>2, <3>2 DEF HandlerInOrder, Kept
      <3>4. /\ handler' \in [Handlers -> Handler]
            /\ \A g \in Handlers : HandlerInOrder(handler[g])'
        BY <2>1, <3>1, <3>2, <3>3, HandlersMove
      <3> QED
        BY <2>1, <3>4 DEF DoorInv, SubjectsAgree
    <2>3. CASE ~(t \in Kept(store) /\ Verifies(t))
      <3>1. Refused(h)
        BY <1>2, <2>3 DEF RefreshGrant
      <3>2. /\ handler' \in [Handlers -> Handler]
            /\ \A g \in Handlers : HandlerInOrder(handler[g])'
        BY <2>1, <3>1, HandlerFreed
      <3> QED
        BY <2>1, <3>2 DEF DoorInv, SubjectsAgree
    <2> QED
      BY <2>2, <2>3
  <1> QED
    BY <1>1, <1>2

LEMMA RotateDoor ==
  ASSUME DoorInv, NEW h \in Handlers, Rotate(h)
  PROVE  DoorInv'
  <1> SUFFICES ASSUME NEW t \in Thumbprints, handler[h].token = t,
                      store[t] # NoRecord
               PROVE  DoorInv'
    BY DEF Rotate, DoorInv, HandlerInOrder
  <1> DEFINE k == jwts[t].subject
             n == Len(jwts)
             i == Issued("refresh", k, jwts[t].agents, {"read"}, RefreshTTL)
             j == Issued("access", k, jwts[t].agents, jwts[t].scopes, AccessTTL)
  <1>1. /\ n \in Nat /\ replayed \in SUBSET Nat /\ now + RefreshTTL \in Nat
        /\ k = store[t].subject /\ t \in 1 .. n
    BY FrontDoorAssumption, KeptIsIssued DEF DoorInv
  <1>2. CASE ~Rotates(store, t)
    BY <1>1, <1>2, SpoilDoor DEF Rotate
  <1>3. CASE Rotates(store, t)
    <2>1. /\ jwts' = jwts \o <<i, j>> /\ n + 2 <= MaxTokens /\ Answered(h)
          /\ store' = Rotated(store, t, n + 1, now + RefreshTTL)
          /\ UNCHANGED <<now, replayed>>
      BY <1>3 DEF Rotate, Room
    <2>2. /\ i \in Jwt /\ Inherits(i) /\ i.subject = k
          /\ j \in Jwt /\ Inherits(j)
      <3>1. Inherits(jwts[t]) /\ jwts[t] \in Jwt
        BY <1>1 DEF DoorInv
      <3>2. /\ k \in EnabledKeys /\ jwts[t].agents = AllowedAgents(k)
            /\ "admin" \notin jwts[t].scopes
            /\ jwts[t].scopes \in SUBSET AllScopes
        BY <3>1 DEF Inherits, Jwt
      <3>3. /\ {"read"} \in SUBSET AllScopes /\ "admin" \notin {"read"}
            /\ RefreshTTL \in Nat /\ AccessTTL \in Nat
        BY FrontDoorAssumption DEF AllScopes
      <3>4. now \in Nat
        BY DEF DoorInv
      <3>5. i \in Jwt /\ Inherits(i) /\ i.subject = k
        <4> HIDE DEF k
        <4> QED
          BY <3>2, <3>3, <3>4, IssuedToken
      <3>6. j \in Jwt /\ Inherits(j)
        <4> HIDE DEF k
        <4> QED
          BY <3>2, <3>3, <3>4, IssuedToken
      <3> QED
        BY <3>5, <3>6
    <2> HIDE DEF i, j
    <2>3. /\ jwts' \in Seq(Jwt) /\ Len(jwts') = n + 2
          /\ jwts'[n + 1] = i /\ jwts'[n + 2] = j
          /\ \A m \in 1 .. n : jwts'[m] = jwts[m]
      BY <2>1, <2>2, AppendedPair DEF DoorInv
    <2>4. /\ FamiliesInOrder(store', n + 1, replayed)
          /\ \A u \in Thumbprints \ {n + 1} :
               /\ store'[u] = NoRecord <=> store[u] = NoRecord
               /\ store[u] # NoRecord => store'[u].subject = store[u].subject
          /\ store'[n + 1].subject = k /\ store'[n + 1] # NoRecord
      <3>1. n + 1 <= MaxTokens
        BY <1>1, <2>1, Arithmetic
      <3> DEFINE e == now + RefreshTTL
                 q == Rotated(store, t, n + 1, e)
      <3>2. FamiliesInOrder(store, n, replayed) /\ e \in Nat
        BY <1>1 DEF DoorInv
      <3>3. /\ FamiliesInOrder(q, n + 1, replayed)
            /\ \A u \in Thumbprints \ {n + 1} :
                 /\ q[u] = NoRecord <=> store[u] = NoRecord
                 /\ store[u] # NoRecord => q[u].subject = store[u].subject
            /\ q[n + 1].subject = store[t].subject /\ q[n + 1] # NoRecord
        <4> HIDE DEF n, e
        <4> QED
          BY <1>1, <1>3, <3>1, <3>2, RotatedInOrder
      <3> QED
        BY <1>1, <2>1, <3>3
    <2>5. FamiliesInOrder(store, Len(jwts), replayed)'
      BY <1>1, <2>1, <2>3, <2>4, LaterInOrder
    <2>6. SubjectsAgree'
      <3>1. \A u \in Thumbprints :
              store[u] # NoRecord => jwts'[u].subject = store[u].subject
        BY <1>1, <2>3, TokensKeep
      <3> QED
        BY <2>2, <2>3, <2>4, <3>1 DEF SubjectsAgree
    <2>7. \A m \in 1 .. Len(jwts') : Inherits(jwts'[m])
      <3> SUFFICES ASSUME NEW m \in 1 .. n + 2 PROVE Inherits(jwts'[m])
        BY <2>3
      <3>1. m \in 1 .. n \/ m = n + 1 \/ m = n + 2
        BY <1>1
      <3> QED
        BY <2>2, <2>3, <3>1 DEF DoorInv
    <2>8. /\ handler' \in [Handlers -> Handler]
          /\ \A g \in Handlers : HandlerInOrder(handler[g])'
      <3>1. \A u \in Thumbprints : store[u] # NoRecord => store'[u] # NoRecord
        BY <2>4
      <3> QED
        BY <2>1, <3>1, HandlerFreed
    <2> QED
      BY <2>1, <2>3, <2>5, <2>6, <2>7, <2>8 DEF DoorInv, Inherits
  <1> QED
    BY <1>2, <1>3

LEMMA RevokeTokenDoor ==
  ASSUME DoorInv, NEW h \in Handlers, NEW t \in Thumbprints, RevokeToken(h, t)
  PROVE  DoorInv'
  <1>1. /\ store' = Revoked(store, t) /\ Answered(h)
        /\ UNCHANGED <<now, jwts, replayed>> /\ Len(jwts) \in Nat
    BY DEF RevokeToken, DoorInv
  <1>2. /\ FamiliesInOrder(store', Len(jwts), replayed)
        /\ \A u \in Thumbprints :
             /\ store'[u] = NoRecord <=> store[u] = NoRecord
             /\ store[u] # NoRecord => store'[u].subject = store[u].subject
    BY <1>1, RevokedInOrder DEF DoorInv
  <1>3. SubjectsAgree'
    BY <1>1, <1>2 DEF DoorInv, SubjectsAgree
  <1>4. /\ handler' \in [Handlers -> Handler]
        /\ \A g \in Handlers : HandlerInOrder(handler[g])'
    BY <1>1, <1>2, HandlerFreed
  <1> QED
    BY <1>1, <1>2, <1>3, <1>4 DEF DoorInv

LEMMA AuthenticateAndPayDoor ==
  ASSUME DoorInv, NEW h \in Handlers, NEW k \in Keys \cup {NoKey},
         NEW t \in 0 .. Len(jwts), AuthenticateAndPay(h, k, t)
  PROVE  DoorInv'
  <1> DEFINE f == [[[Blank EXCEPT !.phase = "paid"] EXCEPT !.key = k]
                      EXCEPT !.token = t]
  <1>1. UNCHANGED <<now, jwts, store, replayed>> /\ Becomes(h, f)
        /\ (t = 0 => k \in EnabledKeys)
    BY DEF AuthenticateAndPay, oauth, Authentic
  <1>2. f \in Handler /\ f.phase = "paid" /\ f.key = k /\ f.token = t
    <2> DEFINE a == [Blank EXCEPT !.phase = "paid"]
               b == [a EXCEPT !.key = k]
    <2>1. t \in 0 .. MaxTokens
      BY Arithmetic DEF DoorInv
    <2>2. a \in Handler /\ a.phase = "paid"
      BY HandlerBegins
    <2> HIDE DEF a
    <2>3. b \in Handler /\ b.phase = "paid" /\ b.key = k
      BY <2>2, HandlerFor
    <2>4. f = [b EXCEPT !.token = t]
      BY DEF a
    <2> HIDE DEF b, f
    <2> QED
      BY <2>1, <2>3, <2>4, HandlerWith
  <1> HIDE DEF f
  <1>3. HandlerInOrder(f)'
    BY <1>1, <1>2 DEF HandlerInOrder
  <1>4. /\ handler' \in [Handlers -> Handler]
        /\ \A g \in Handlers : HandlerInOrder(handler[g])'
    BY <1>1, <1>2, <1>3, HandlersMove
  <1> QED
    BY <1>1, <1>4 DEF DoorInv, SubjectsAgree

\* A method changes nothing the invariant speaks of.
LEMMA MethodDoor ==
  ASSUME DoorInv, NEW h \in Handlers, Answered(h) \/ Refused(h),
         UNCHANGED <<now, oauth>>
  PROVE  DoorInv'
  <1>1. UNCHANGED <<now, jwts, store, replayed>>
    BY DEF oauth
  <1>2. /\ handler' \in [Handlers -> Handler]
        /\ \A g \in Handlers : HandlerInOrder(handler[g])'
    BY <1>1, HandlerFreed
  <1> QED
    BY <1>1, <1>2 DEF DoorInv, SubjectsAgree

LEMMA NextDoor ==
  ASSUME DoorInv, [Next]_vars
  PROVE  DoorInv'
  <1>1. ASSUME NEW h \in Handlers, TurnedAway(h)
        PROVE  DoorInv'
    BY <1>1, MethodDoor DEF TurnedAway
  <1>2. ASSUME NEW h \in Handlers, NEW r \in Routes, NEW t \in Tasks,
               NEW i \in ConfigIds, NEW u \in Urls, Dispatch(h, r, t, i, u)
        PROVE  DoorInv'
    BY <1>2, MethodDoor DEF Dispatch
  <1>3. CASE UNCHANGED vars
    BY <1>3 DEF vars, DoorInv, SubjectsAgree, HandlerInOrder
  <1>4. CASE Next
    BY <1>1, <1>2, <1>4, TickDoor, RestartDoor, ClientCredentialsDoor,
       RefreshTokenStoredDoor, RefreshGrantDoor, RotateDoor, RevokeTokenDoor,
       AuthenticateAndPayDoor
       DEF Next
  <1> QED
    BY <1>3, <1>4

LEMMA DoorAlways == Spec => []DoorInv
  <1>1. Init => DoorInv
    BY DoorInit
  <1>2. DoorInv /\ [Next]_vars => DoorInv'
    BY NextDoor
  <1> QED
    BY <1>1, <1>2, PTL DEF Spec

-----------------------------------------------------------------------------
(***************************************************************************)
(* TokenStore.rotate and the replay checks around it leave at most one     *)
(* token of a family to exchange, however exchanges, revocations, expiry   *)
(* and restarts interleave, and none once a used-up one was presented.     *)
(***************************************************************************)
THEOREM FamiliesHaveOneLiveToken == Spec => []RefreshFamilies
  <1>1. DoorInv => RefreshFamilies
    <2> SUFFICES ASSUME DoorInv, NEW f \in Thumbprints
                 PROVE  LET live == {t \in Kept(store) : /\ store[t].family = f
                                                         /\ ~store[t].revoked}
                        IN  /\ Cardinality(live) <= 1
                            /\ f \in replayed => live = {}
      BY DEF RefreshFamilies
    <2> DEFINE live == {t \in Kept(store) : /\ store[t].family = f
                                            /\ ~store[t].revoked}
    <2>1. \A t, u \in live : t = u
      BY DEF DoorInv, FamiliesInOrder, OneLive, SameFamily, Live, Kept
    <2>2. Cardinality(live) <= 1
      <3>1. CASE live = {}
        BY <3>1, FS_EmptySet
      <3>2. CASE live # {}
        <4>1. PICK t \in live : live = {t}
          BY <2>1, <3>2
        <4> HIDE DEF live
        <4>2. Cardinality(live) = 1
          BY <4>1, FS_Singleton
        <4> QED
          BY <4>2
      <3> QED
        BY <3>1, <3>2
    <2>3. f \in replayed => live = {}
      BY DEF DoorInv, FamiliesInOrder, SpoiledAreDead, Live, Kept
    <2> QED
      BY <2>2, <2>3
  <1> QED
    BY <1>1, DoorAlways, PTL

(***************************************************************************)
(* No chain of grants and rotations widens a token: it admits the agents   *)
(* of its key and never has the admin scope.                               *)
(***************************************************************************)
THEOREM RenewalKeepsTheKey == Spec => []TokensInheritTheKey
  <1>1. DoorInv => TokensInheritTheKey
    BY DEF DoorInv, TokensInheritTheKey, Inherits
  <1> QED
    BY <1>1, DoorAlways, PTL

(***************************************************************************)
(* Whoever changes a push notification configuration authenticated with an *)
(* API key: the scope those routes ask for is on no token.                 *)
(***************************************************************************)
THEOREM ConfigsNeedAKey == Spec => ConfigsChangedByKeyHolders
  <1> DEFINE Wanted ==
        configs' # configs /\ ~Restart =>
          \E h \in Handlers : /\ handler[h].phase = "paid"
                              /\ handler[h].token = 0
                              /\ handler[h].key \in EnabledKeys
                              /\ handler'[h].phase = "done"
  <1>1. DoorInv /\ [Next]_vars => [Wanted]_vars
    <2> SUFFICES ASSUME DoorInv, Next, configs' # configs, ~Restart
                 PROVE  Wanted
      BY DEF vars
    <2>1. PICK h \in Handlers, r \in Routes, t \in Tasks, i \in ConfigIds,
               u \in Urls : Dispatch(h, r, t, i, u)
      BY DEF Next, Tick, ClientCredentials, RefreshTokenStored, RefreshGrant,
             Rotate, RevokeToken, AuthenticateAndPay, TurnedAway
    <2>2. r.calls \in {"CreatePushConfig", "UpdatePushConfig",
                       "DeletePushConfig"}
      BY <2>1 DEF Dispatch, Applied
    <2>3. ScopesForMethod(r.asks) = {"admin"}
      BY <2>2 DEF Routes, RpcTaskRoutes, RpcConfigRoutes, RestTaskRoutes,
                  RestConfigRoutes, Same, TaskMethods, ConfigMethods,
                  ScopesForMethod
    <2>4. handler[h] \in Handler /\ HandlerInOrder(handler[h])
          /\ handler[h].phase = "paid" /\ Scoped(handler[h], r.asks)
      BY <2>1 DEF Dispatch, DoorInv
    <2>5. handler[h].token = 0
      <3> SUFFICES ASSUME handler[h].token # 0 PROVE FALSE
        OBVIOUS
      <3>1. handler[h].token > 0
        BY <2>4, Arithmetic DEF Handler
      <3>2. /\ handler[h].token \in 1 .. Len(jwts)
            /\ "admin" \in jwts[handler[h].token].scopes
        BY <2>3, <2>4, <3>1 DEF Scoped, Verifies, DoorInv
      <3> QED
        BY <3>2 DEF DoorInv, Inherits
    <2>6. handler'[h].phase = "done"
      BY <2>1 DEF Dispatch, Answered, Becomes, DoorInv, Blank
    <2> QED
      BY <2>4, <2>5, <2>6 DEF HandlerInOrder
  <1> QED
    BY <1>1, DoorAlways, PTL DEF Spec, ConfigsChangedByKeyHolders
-----------------------------------------------------------------------------
(* The store implements TokenChains.  What can be exchanged after each of  *)
(* its operations.                                                         *)

\* c says of every token that can be exchanged what Continued says.
Continues(c, s) ==
  /\ DOMAIN c = {s[t].family : t \in Exchangeable(s)}
  /\ \A t \in Exchangeable(s) :
       c[s[t].family] = [token |-> t, subject |-> s[t].subject]

LEMMA ContinuedIs ==
  ASSUME NEW s, OneLive(s)
  PROVE  Continues(Continued(s), s)
  <1>1. ASSUME NEW t \in Exchangeable(s)
        PROVE  Continued(s)[s[t].family] = [token |-> t, subject |-> s[t].subject]
    <2> DEFINE u == CHOOSE v \in Exchangeable(s) : s[v].family = s[t].family
    <2>1. u \in Exchangeable(s) /\ s[u].family = s[t].family
      OBVIOUS
    <2>2. u = t
      BY <2>1 DEF OneLive, SameFamily, Live, Exchangeable, Kept
    <2> QED
      BY <2>2 DEF Continued
  <1>2. DOMAIN Continued(s) = {s[t].family : t \in Exchangeable(s)}
    BY DEF Continued
  <1> QED
    BY <1>1, <1>2 DEF Continues

\* And nothing else does.
LEMMA ContinuedOnly ==
  ASSUME NEW s, OneLive(s),
         NEW c, c = [f \in DOMAIN c |-> c[f]], Continues(c, s)
  PROVE  Continued(s) = c
  <1>1. DOMAIN c = {s[t].family : t \in Exchangeable(s)}
    BY DEF Continues
  <1>2. ASSUME NEW f \in DOMAIN c
        PROVE  Continued(s)[f] = c[f]
    <2>1. PICK t \in Exchangeable(s) : f = s[t].family
      BY <1>1
    <2> QED
      BY <2>1, ContinuedIs DEF Continues
  <1>3. /\ DOMAIN Continued(s) = DOMAIN c
        /\ Continued(s) = [f \in DOMAIN Continued(s) |-> Continued(s)[f]]
    BY <1>1 DEF Continued
  <1> QED
    BY <1>2, <1>3

LEMMA NothingContinued == Continued(NoTokens) = [f \in {} |-> f]
  <1>1. Exchangeable(NoTokens) = {}
    BY DEF Exchangeable, Kept, NoTokens
  <1> QED
    BY <1>1 DEF Continued

\* What Stored and Rotated leave to be exchanged.
LEMMA StoredContinues ==
  ASSUME NEW s, NEW n \in Nat, NEW spoiled, FamiliesInOrder(s, n, spoiled),
         n + 1 <= MaxTokens, NEW k \in Subjects, NEW e \in Nat,
         OneLive(Stored(s, n + 1, k, e))
  PROVE  Continued(Stored(s, n + 1, k, e)) =
           [f \in DOMAIN Continued(s) \cup {n + 1} |->
              IF f = n + 1 THEN [token |-> n + 1, subject |-> k]
                           ELSE Continued(s)[f]]
  <1> DEFINE m == n + 1
             q == Stored(s, m, k, e)
             c == Continued(s)
             d == [f \in DOMAIN c \cup {m} |->
                     IF f = m THEN [token |-> m, subject |-> k] ELSE c[f]]
  <1>1. m \in Thumbprints /\ m \in Nat
    BY Arithmetic DEF Thumbprints
  <1>2. ASSUME NEW t \in Exchangeable(s)
        PROVE  t # m /\ s[t].family # m
    <2>1. t \in Thumbprints /\ s[t] # NoRecord
      BY DEF Exchangeable, Kept
    <2>2. t <= n /\ s[t].family <= n
      BY <2>1 DEF FamiliesInOrder, IssuedSoFar
    <2>3. t \in Nat /\ s[t].family \in Nat
      BY <2>1, Arithmetic DEF FamiliesInOrder, StoreTyped, Record, Thumbprints
    <2> QED
      BY <2>2, <2>3
  <1>3. /\ q[m].family = m /\ q[m].subject = k /\ ~q[m].revoked
        /\ q[m] # NoRecord
        /\ \A t \in Thumbprints \ {m} : q[t] = s[t]
    <2> DEFINE r == [subject |-> k, expiresAt |-> e, revoked |-> FALSE,
                     parent |-> 0, family |-> m]
    <2>1. r \in Record
      BY <1>1, Arithmetic DEF Record
    <2>2. q[m] = r /\ \A t \in Thumbprints \ {m} : q[t] = s[t]
      BY <1>1 DEF Stored, FamiliesInOrder, StoreTyped
    <2> QED
      BY <2>1, <2>2, TokenStoreAssumption
  <1> HIDE DEF q
  <1>4. m \notin Exchangeable(s)
    BY <1>2
  <1>5. Exchangeable(q) = Exchangeable(s) \cup {m}
    BY <1>1, <1>3, <1>4 DEF Exchangeable, Kept
  <1>6. Continues(c, s)
    BY ContinuedIs DEF FamiliesInOrder
  <1>7. Continues(d, q)
    <2>1. \A t \in Exchangeable(s) : q[t] = s[t]
      BY <1>2, <1>3 DEF Exchangeable, Kept
    <2>2. DOMAIN d = {q[t].family : t \in Exchangeable(q)}
      BY <1>3, <1>5, <1>6, <2>1 DEF Continues
    <2>3. ASSUME NEW t \in Exchangeable(q)
          PROVE  d[q[t].family] = [token |-> t, subject |-> q[t].subject]
      <3>1. CASE t = m
        BY <1>3, <3>1
      <3>2. CASE t # m
        BY <1>2, <1>5, <1>6, <2>1, <3>2 DEF Continues
      <3> QED
        BY <3>1, <3>2
    <2> QED
      BY <2>2, <2>3 DEF Continues
  <1>8. OneLive(q)
    BY DEF q
  <1>9. Continued(q) = d
    <2>1. d = [f \in DOMAIN d |-> d[f]]
      OBVIOUS
    <2> HIDE DEF d
    <2> QED
      BY <1>7, <1>8, <2>1, ContinuedOnly
  <1> QED
    BY <1>9 DEF q

LEMMA RotatedContinues ==
  ASSUME NEW s, NEW n \in Nat, NEW spoiled \in SUBSET Nat,
         FamiliesInOrder(s, n, spoiled), n + 1 <= MaxTokens,
         NEW old \in Thumbprints, Rotates(s, old), NEW e \in Nat
  PROVE  LET c == Continued(s) IN
         /\ s[old].family \in DOMAIN c
         /\ Continued(Rotated(s, old, n + 1, e)) =
              [c EXCEPT ![s[old].family].token = n + 1]
  <1> DEFINE m == n + 1
             q == Rotated(s, old, m, e)
             c == Continued(s)
             x == s[old].family
             d == [c EXCEPT ![x].token = m]
  <1>1. m \in Thumbprints /\ old \in Exchangeable(s)
    BY Arithmetic DEF Thumbprints, Rotates, Exchangeable, Kept
  <1>2. s[old] \in Record /\ s[old] # NoRecord /\ ~s[old].revoked
    BY <1>1 DEF Exchangeable, Kept, FamiliesInOrder, StoreTyped
  <1>3. old # m /\ s[m] = NoRecord
    <2>1. s[m] # NoRecord => m <= n
      BY <1>1 DEF FamiliesInOrder, IssuedSoFar
    <2> QED
      BY <1>2, <2>1
  <1>4. /\ q[m].family = x /\ q[m].subject = s[old].subject
        /\ ~q[m].revoked /\ q[m] # NoRecord /\ q[old].revoked
        /\ \A t \in Thumbprints \ {m, old} : q[t] = s[t]
    <2> DEFINE r1 == [s[old] EXCEPT !.revoked = TRUE]
               r2 == [s[old] EXCEPT !.parent = old, !.revoked = FALSE,
                                    !.expiresAt = e]
    <2>1. q[m] = r2 /\ q[old] = r1 /\ \A t \in Thumbprints \ {m, old} : q[t] = s[t]
      <3>1. q = [s EXCEPT ![old] = r1, ![m] = r2]
        BY DEF Rotated
      <3> HIDE DEF r1, r2, q
      <3> QED
        BY <1>1, <1>3, <3>1 DEF FamiliesInOrder, StoreTyped
    <2>2. r1.revoked /\ ~r2.revoked /\ r2.family = x /\ r2.subject = s[old].subject
      BY <1>2 DEF Record
    <2>3. r2 \in Record
      <3>1. old \in 0 .. MaxTokens
        BY Arithmetic DEF Thumbprints
      <3> QED
        BY <1>2, <3>1 DEF Record
    <2> HIDE DEF r1, r2, q
    <2> QED
      BY <2>1, <2>2, <2>3, TokenStoreAssumption
  <1> HIDE DEF q
  <1>5. Exchangeable(q) = (Exchangeable(s) \ {old}) \cup {m}
    <2>1. m \notin Exchangeable(s)
      BY <1>3 DEF Exchangeable, Kept
    <2> QED
      BY <1>1, <1>3, <1>4, <2>1 DEF Exchangeable, Kept
  <1>6. Continues(c, s)
    BY ContinuedIs DEF FamiliesInOrder
  <1>7. x \in DOMAIN c /\ c[x] = [token |-> old, subject |-> s[old].subject]
    BY <1>1, <1>6 DEF Continues
  <1>8. ASSUME NEW t \in Exchangeable(s), t # old
        PROVE  s[t].family # x /\ q[t] = s[t]
    <2>1. s[t].family # x
      BY <1>1, <1>8 DEF FamiliesInOrder, OneLive, SameFamily, Live, Exchangeable, Kept
    <2>2. t # m
      BY <1>3 DEF Exchangeable, Kept
    <2> QED
      BY <1>4, <1>8, <2>1, <2>2 DEF Exchangeable, Kept
  <1>9. /\ DOMAIN d = DOMAIN c
        /\ d[x] = [token |-> m, subject |-> s[old].subject]
        /\ \A f \in DOMAIN c \ {x} : d[f] = c[f]
    BY <1>7
  <1> HIDE DEF d
  <1>10. Continues(d, q)
    <2>1. DOMAIN d = {q[t].family : t \in Exchangeable(q)}
      <3>1. ASSUME NEW f \in DOMAIN c
            PROVE  f \in {q[t].family : t \in Exchangeable(q)}
        <4>1. PICK t \in Exchangeable(s) : f = s[t].family
          BY <1>6 DEF Continues
        <4> QED
          BY <1>4, <1>5, <1>8, <4>1
      <3>2. ASSUME NEW t \in Exchangeable(q)
            PROVE  q[t].family \in DOMAIN c
        BY <1>4, <1>5, <1>6, <1>7, <1>8 DEF Continues
      <3> QED
        BY <1>9, <3>1, <3>2
    <2>2. ASSUME NEW t \in Exchangeable(q)
          PROVE  d[q[t].family] = [token |-> t, subject |-> q[t].subject]
      <3>1. CASE t = m
        BY <1>4, <1>9, <3>1
      <3>2. CASE t # m
        <4>1. t \in Exchangeable(s) /\ t # old
          BY <1>5, <3>2
        <4>2. d[s[t].family] = c[s[t].family]
          BY <1>6, <1>8, <1>9, <4>1 DEF Continues
        <4> QED
          BY <1>6, <1>8, <4>1, <4>2 DEF Continues
      <3> QED
        BY <3>1, <3>2
    <2> QED
      BY <2>1, <2>2 DEF Continues
  <1>11. OneLive(q)
    <2>1. FamiliesInOrder(q, m, spoiled)
      BY RotatedInOrder DEF q
    <2> QED
      BY <2>1 DEF FamiliesInOrder
  <1>12. d = [f \in DOMAIN d |-> d[f]]
    <2>1. c = [f \in DOMAIN c |-> c[f]]
      BY DEF Continued
    <2> HIDE DEF c
    <2> QED
      BY <2>1 DEF d
  <1>13. Continued(q) = d
    <2> HIDE DEF c
    <2> QED
      BY <1>10, <1>11, <1>12, ContinuedOnly
  <1> QED
    BY <1>7, <1>13 DEF q, d

\* Revoking leaves some of the chains: those of the tokens it leaves.
Narrowed(s, q, fs) ==
  /\ \A t \in Exchangeable(q) : q[t] = s[t]
  /\ \A t : t \in Exchangeable(q) <=>
             t \in Exchangeable(s) /\ s[t].family \notin fs

LeavesOut(c, fs) == [f \in DOMAIN c \ fs |-> c[f]]

LEMMA RevokingContinues ==
  ASSUME NEW s, NEW q, OneLive(s), OneLive(q), NEW fs, Narrowed(s, q, fs)
  PROVE  Continued(q) = LeavesOut(Continued(s), fs)
  <1> DEFINE c == Continued(s)
             d == LeavesOut(c, fs)
  <1>1. Continues(c, s)
    BY ContinuedIs
  <1> HIDE DEF c
  <1>2. Continues(d, q)
    BY <1>1 DEF Continues, Narrowed, LeavesOut
  <1>3. d = [f \in DOMAIN d |-> d[f]]
    BY DEF LeavesOut
  <1> HIDE DEF d
  <1>4. Continued(q) = d
    BY <1>2, <1>3, ContinuedOnly
  <1> QED
    BY <1>4 DEF d, c

LEMMA RevokedContinues ==
  ASSUME NEW s, NEW n \in Nat, NEW spoiled, FamiliesInOrder(s, n, spoiled),
         NEW t \in Thumbprints
  PROVE  \E fs \in SUBSET Thumbprints :
           Continued(Revoked(s, t)) =
             [f \in DOMAIN Continued(s) \ fs |-> Continued(s)[f]]
  <1> DEFINE q == Revoked(s, t)
  <1>1. OneLive(s) /\ StoreTyped(s)
    BY DEF FamiliesInOrder
  <1>2. OneLive(q)
    <2>1. FamiliesInOrder(q, n, spoiled)
      BY RevokedInOrder
    <2> QED
      BY <2>1 DEF FamiliesInOrder
  <1>3. CASE t \in Exchangeable(s)
    <2>1. s[t] \in Record /\ s[t].family \in Thumbprints
      BY <1>1, <1>3 DEF Exchangeable, Kept, StoreTyped, Record
    <2>2. q[t].revoked /\ \A u \in Thumbprints \ {t} : q[u] = s[u]
      BY <1>1, <1>3, <2>1 DEF Exchangeable, Revoked, Kept, StoreTyped, Record
    <2> HIDE DEF q
    <2>3. \A u \in Exchangeable(s) : s[u].family = s[t].family => u = t
      BY <1>1, <1>3 DEF OneLive, SameFamily, Live, Exchangeable, Kept
    <2>4. \A u \in Exchangeable(q) : q[u] = s[u]
      BY <2>2 DEF Exchangeable, Kept
    <2> DEFINE fs == {s[t].family}
    <2>5. \A u : u \in Exchangeable(q) <=>
                 u \in Exchangeable(s) /\ s[u].family \notin fs
      BY <1>3, <2>2, <2>3, <2>4 DEF Exchangeable, Kept
    <2>6. fs \in SUBSET Thumbprints
      BY <2>1
    <2> HIDE DEF fs
    <2>7. Narrowed(s, q, fs)
      BY <2>4, <2>5 DEF Narrowed
    <2>8. Continued(q) = LeavesOut(Continued(s), fs)
      BY <1>1, <1>2, <2>7, RevokingContinues
    <2>9. Continued(q) = [f \in DOMAIN Continued(s) \ fs |-> Continued(s)[f]]
      BY <2>8 DEF LeavesOut
    <2> QED
      BY <2>6, <2>9 DEF q
  <1>4. CASE t \notin Exchangeable(s)
    <2>1. \A u \in Thumbprints \ {t} : q[u] = s[u]
      BY <1>1 DEF Revoked, Kept, StoreTyped
    <2>2. t \in Kept(s) => q[t].revoked
      BY <1>1 DEF Revoked, Kept, StoreTyped, Record
    <2>3. t \notin Kept(s) => q[t] = s[t]
      BY DEF Revoked
    <2> HIDE DEF q
    <2>4. t \notin Exchangeable(q)
      BY <1>4, <2>2, <2>3 DEF Exchangeable, Kept
    <2>5. \A u \in Exchangeable(q) : q[u] = s[u]
      BY <2>1, <2>4 DEF Exchangeable, Kept
    <2> DEFINE fs == {}
    <2>6. \A u : u \in Exchangeable(q) <=>
                 u \in Exchangeable(s) /\ s[u].family \notin fs
      BY <1>4, <2>1, <2>4 DEF Exchangeable, Kept
    <2>7. fs \in SUBSET Thumbprints
      OBVIOUS
    <2> HIDE DEF fs
    <2>8. Narrowed(s, q, fs)
      BY <2>5, <2>6 DEF Narrowed
    <2>9. Continued(q) = LeavesOut(Continued(s), fs)
      BY <1>1, <1>2, <2>8, RevokingContinues
    <2>10. Continued(q) = [f \in DOMAIN Continued(s) \ fs |-> Continued(s)[f]]
      BY <2>9 DEF LeavesOut
    <2> QED
      BY <2>7, <2>10 DEF q
  <1> QED
    BY <1>3, <1>4

\* Of a subject k with the family g: all chains of k, and g is one of them.
LEMMA RevokedForSubjectContinues ==
  ASSUME NEW s, NEW n \in Nat, NEW spoiled \in SUBSET Nat,
         FamiliesInOrder(s, n, spoiled), NEW t \in Thumbprints, s[t] # NoRecord
  PROVE  LET c  == Continued(s)
             k  == s[t].subject
             fs == {f \in DOMAIN c : c[f].subject = k} IN
         /\ Continued(RevokedForSubject(s, k)) = [f \in DOMAIN c \ fs |-> c[f]]
         /\ s[t].family \in DOMAIN c => s[t].family \in fs
  <1> DEFINE k  == s[t].subject
             q  == RevokedForSubject(s, k)
             c  == Continued(s)
             fs == {f \in DOMAIN c : c[f].subject = k}
  <1>1. OneLive(s) /\ OneSubject(s) /\ StoreTyped(s)
    BY DEF FamiliesInOrder
  <1>2. OneLive(q)
    <2>1. FamiliesInOrder(q, n, spoiled \cup {s[t].family})
      BY RevokedForSubjectInOrder
    <2> QED
      BY <2>1 DEF FamiliesInOrder
  <1>3. Continues(c, s)
    BY <1>1, ContinuedIs
  <1>4. \A u \in Exchangeable(s) : s[u].family \in fs <=> s[u].subject = k
    <2> SUFFICES ASSUME NEW u \in Exchangeable(s)
                 PROVE  s[u].family \in fs <=> s[u].subject = k
      OBVIOUS
    <2>1. /\ s[u].family \in DOMAIN c
          /\ c[s[u].family] = [token |-> u, subject |-> s[u].subject]
      BY <1>3 DEF Continues
    <2>2. c[s[u].family].subject = s[u].subject
      BY <2>1
    <2> QED
      BY <2>1, <2>2
  <1>5. \A u \in Thumbprints :
          IF s[u] # NoRecord /\ s[u].subject = k THEN q[u].revoked
          ELSE q[u] = s[u]
    BY <1>1 DEF RevokedForSubject, StoreTyped, Record, Kept
  <1>6. s[t].family \in DOMAIN c => s[t].family \in fs
    <2> SUFFICES ASSUME s[t].family \in DOMAIN c PROVE s[t].family \in fs
      OBVIOUS
    <2>1. PICK u \in Exchangeable(s) : s[u].family = s[t].family
      BY <1>3 DEF Continues
    <2>2. s[u].subject = k
      BY <1>1, <2>1 DEF OneSubject, SameFamily, Exchangeable, Kept
    <2> QED
      BY <1>4, <2>1, <2>2
  <1> HIDE DEF q, fs
  <1>7. \A u \in Exchangeable(q) : q[u] = s[u]
    BY <1>5 DEF Exchangeable, Kept
  <1>8. \A u : u \in Exchangeable(q) <=>
                 u \in Exchangeable(s) /\ s[u].family \notin fs
    BY <1>4, <1>5 DEF Exchangeable, Kept
  <1>9. Narrowed(s, q, fs)
    BY <1>7, <1>8 DEF Narrowed
  <1>10. Continued(q) = LeavesOut(Continued(s), fs)
    BY <1>1, <1>2, <1>9, RevokingContinues
  <1>11. Continued(q) = [f \in DOMAIN c \ fs |-> c[f]]
    BY <1>10 DEF LeavesOut
  <1> QED
    BY <1>6, <1>11 DEF q, fs

-----------------------------------------------------------------------------
(* The steps.  The first token of a chain was given out as one.            *)

FamiliesGiven ==
  \A t \in Thumbprints : store[t] # NoRecord => store[t].family \in GivenOut

ChainInv == DoorInv /\ FamiliesGiven

ChainVars == <<GivenOut, Continued(store), replayed>>

\* Whatever else a step does, it gives out no refresh token ...
LEMMA GivenSame ==
  ASSUME DoorInv, NEW j \in Jwt, j.type = "access", jwts' = Append(jwts, j)
  PROVE  GivenOut' = GivenOut
  <1>1. /\ jwts' \in Seq(Jwt) /\ Len(jwts') = Len(jwts) + 1
        /\ jwts'[Len(jwts) + 1] = j /\ Len(jwts) \in Nat
        /\ \A n \in 1 .. Len(jwts) : jwts'[n] = jwts[n]
    BY Appended DEF DoorInv
  <1>2. DOMAIN jwts = 1 .. Len(jwts) /\ DOMAIN jwts' = 1 .. Len(jwts) + 1
    BY <1>1 DEF DoorInv
  <1> QED
    BY <1>1, <1>2 DEF GivenOut

\* ... or one, alone or before an access token.
LEMMA GivenOne ==
  ASSUME DoorInv, NEW i \in Jwt, i.type = "refresh",
         \/ jwts' = Append(jwts, i)
         \/ \E j \in Jwt : j.type = "access" /\ jwts' = jwts \o <<i, j>>
  PROVE  /\ GivenOut' = GivenOut \cup {Len(jwts) + 1}
         /\ Len(jwts) + 1 \notin GivenOut
  <1>1. Len(jwts) \in Nat /\ DOMAIN jwts = 1 .. Len(jwts)
    BY DEF DoorInv
  <1>2. Len(jwts) + 1 \notin GivenOut
    BY <1>1 DEF GivenOut
  <1>3. CASE jwts' = Append(jwts, i)
    <2>1. /\ jwts' \in Seq(Jwt) /\ Len(jwts') = Len(jwts) + 1
          /\ jwts'[Len(jwts) + 1] = i
          /\ \A n \in 1 .. Len(jwts) : jwts'[n] = jwts[n]
      BY <1>3, Appended DEF DoorInv
    <2>2. DOMAIN jwts' = 1 .. Len(jwts) + 1
      BY <2>1
    <2> QED
      BY <1>1, <1>2, <2>1, <2>2 DEF GivenOut
  <1>4. ASSUME NEW j \in Jwt, j.type = "access", jwts' = jwts \o <<i, j>>
        PROVE  GivenOut' = GivenOut \cup {Len(jwts) + 1}
    <2>1. /\ jwts' \in Seq(Jwt) /\ Len(jwts') = Len(jwts) + 2
          /\ jwts'[Len(jwts) + 1] = i /\ jwts'[Len(jwts) + 2] = j
          /\ \A n \in 1 .. Len(jwts) : jwts'[n] = jwts[n]
      BY <1>4, AppendedPair DEF DoorInv
    <2>2. DOMAIN jwts' = 1 .. Len(jwts) + 2
      BY <2>1
    <2>3. \A n \in 1 .. Len(jwts) + 2 :
            n \in 1 .. Len(jwts) \/ n = Len(jwts) + 1 \/ n = Len(jwts) + 2
      BY <1>1
    <2> QED
      BY <1>1, <1>4, <2>1, <2>2, <2>3 DEF GivenOut
  <1> QED
    BY <1>2, <1>3, <1>4

LEMMA QuietStep ==
  ASSUME ChainInv, UNCHANGED <<store, replayed>>, GivenOut' = GivenOut
  PROVE  FamiliesGiven' /\ UNCHANGED ChainVars
  BY DEF ChainInv, FamiliesGiven, ChainVars

LEMMA ClientCredentialsChains ==
  ASSUME ChainInv, NEW h \in Handlers, NEW k \in Keys, NEW s \in Requests,
         ClientCredentials(h, k, s)
  PROVE  FamiliesGiven' /\ UNCHANGED ChainVars
  <1>1. UNCHANGED <<store, replayed>> /\ now \in Nat /\ DoorInv
    BY DEF ClientCredentials, ChainInv, DoorInv
  <1>2. CASE k \in EnabledKeys
    <2> DEFINE j == Issued("access", k, AllowedAgents(k), Granted(s), AccessTTL)
    <2>1. jwts' = Append(jwts, j)
      BY <1>2 DEF ClientCredentials
    <2>2. j \in Jwt /\ j.type = "access"
      <3>1. j \in Jwt
        BY <1>1, <1>2, IssuedToken, GrantedScopes, FrontDoorAssumption
      <3> QED
        BY <3>1 DEF Issued
    <2>3. GivenOut' = GivenOut
      BY <1>1, <2>1, <2>2, GivenSame
    <2> QED
      BY <1>1, <2>3, QuietStep
  <1>3. CASE k \notin EnabledKeys
    <2>1. GivenOut' = GivenOut
      BY <1>3 DEF ClientCredentials, GivenOut
    <2> QED
      BY <1>1, <2>1, QuietStep
  <1> QED
    BY <1>2, <1>3

LEMMA RefreshTokenStoredChains ==
  ASSUME ChainInv, NEW h \in Handlers, RefreshTokenStored(h)
  PROVE  FamiliesGiven' /\ Chains!Next
  <1> DEFINE k == handler[h].key
             n == Len(jwts)
             m == n + 1
             e == now + RefreshTTL
             j == Issued("refresh", k, AllowedAgents(k), {"read"}, RefreshTTL)
  <1>1. /\ jwts' = Append(jwts, j) /\ store' = Stored(store, m, k, e)
        /\ UNCHANGED replayed /\ m <= MaxTokens
        /\ handler[h].phase = "minting"
    BY DEF RefreshTokenStored, Room
  <1>2. /\ k \in EnabledKeys /\ k \in Subjects /\ n \in Nat /\ e \in Nat
        /\ now \in Nat /\ DoorInv
    BY <1>1, FrontDoorAssumption DEF ChainInv, DoorInv, HandlerInOrder
  <1>3. j \in Jwt /\ j.type = "refresh"
    <2>1. /\ {"read"} \in SUBSET AllScopes /\ "admin" \notin {"read"}
          /\ RefreshTTL \in Nat
      BY FrontDoorAssumption DEF AllScopes
    <2>2. j \in Jwt
      BY <1>2, <2>1, IssuedToken
    <2> QED
      BY <2>2 DEF Issued
  <1> HIDE DEF k, j, e
  <1>4. GivenOut' = GivenOut \cup {m} /\ m \notin GivenOut
    BY <1>1, <1>2, <1>3, GivenOne
  <1>5. FamiliesInOrder(store, n, replayed)
    BY <1>2 DEF DoorInv
  <1>6. /\ FamiliesInOrder(store', m, replayed)
        /\ \A t \in Thumbprints \ {m} : store'[t] = store[t]
    <2>1. replayed \in SUBSET Nat /\ n + 1 <= MaxTokens
      BY <1>1, <1>2 DEF DoorInv
    <2> DEFINE q == Stored(store, n + 1, k, e)
    <2>2. /\ FamiliesInOrder(q, n + 1, replayed)
          /\ \A t \in Thumbprints \ {n + 1} : q[t] = store[t]
      <3> HIDE DEF n
      <3> QED
        BY <1>2, <1>5, <2>1, StoredInOrder
    <2> QED
      BY <1>1, <2>2
  <1>7. m \in Thumbprints /\ store'[m].family = m
    <2>1. m \in Thumbprints
      BY <1>1, <1>2, Arithmetic DEF Thumbprints
    <2> QED
      BY <1>1, <1>5, <2>1 DEF Stored, FamiliesInOrder, StoreTyped
  <1>8. Chains!Begin(m, k)
    <2>1. Continued(store)' =
            [f \in DOMAIN Continued(store) \cup {m} |->
               IF f = m THEN [token |-> m, subject |-> k]
                        ELSE Continued(store)[f]]
      <3>1. OneLive(Stored(store, n + 1, k, e)) /\ n + 1 <= MaxTokens
        BY <1>1, <1>6 DEF FamiliesInOrder
      <3>2. Continued(Stored(store, n + 1, k, e)) =
              [f \in DOMAIN Continued(store) \cup {n + 1} |->
                 IF f = n + 1 THEN [token |-> n + 1, subject |-> k]
                              ELSE Continued(store)[f]]
        <4> HIDE DEF n
        <4> QED
          BY <1>2, <1>5, <3>1, StoredContinues
      <3> QED
        BY <1>1, <3>2
    <2> QED
      BY <1>1, <1>4, <2>1 DEF Chains!Begin
  <1>9. FamiliesGiven'
    <2> SUFFICES ASSUME NEW t \in Thumbprints, store'[t] # NoRecord
                 PROVE  store'[t].family \in GivenOut'
      BY DEF FamiliesGiven
    <2> QED
      BY <1>4, <1>6, <1>7 DEF ChainInv, FamiliesGiven
  <1> QED
    BY <1>2, <1>7, <1>8, <1>9 DEF Chains!Next

\* A token was presented in vain.
LEMMA SpoilChains ==
  ASSUME ChainInv, NEW t \in Thumbprints, store[t] # NoRecord,
         store' = RevokedForSubject(store, store[t].subject),
         replayed' = replayed \cup {store[t].family}, UNCHANGED jwts
  PROVE  FamiliesGiven' /\ Chains!Next
  <1> DEFINE k == store[t].subject
             g == store[t].family
             n == Len(jwts)
             c == Continued(store)
             fs == {f \in DOMAIN c : c[f].subject = k}
  <1>1. /\ FamiliesInOrder(store, n, replayed) /\ n \in Nat
        /\ replayed \in SUBSET Nat
    BY DEF ChainInv, DoorInv
  <1>2. StoreTyped(store) /\ k \in Subjects /\ g \in Thumbprints
    BY <1>1 DEF FamiliesInOrder, StoreTyped, Record
  <1>3. GivenOut' = GivenOut /\ g \in GivenOut
    BY DEF GivenOut, ChainInv, FamiliesGiven
  <1>4. /\ Continued(store)' = [f \in DOMAIN c \ fs |-> c[f]]
        /\ g \in DOMAIN c => g \in fs
    <2> HIDE DEF n
    <2> QED
      BY <1>1, RevokedForSubjectContinues
  <1>5. Chains!Replay(g, k)
    BY <1>3, <1>4 DEF Chains!Replay, Chains!ChainsOf, Chains!Without
  <1>6. FamiliesGiven'
    <2> SUFFICES ASSUME NEW u \in Thumbprints, store'[u] # NoRecord
                 PROVE  store'[u].family \in GivenOut'
      BY DEF FamiliesGiven
    <2>1. store[u] # NoRecord /\ store'[u].family = store[u].family
      BY <1>2 DEF RevokedForSubject, StoreTyped, Record, Kept
    <2> QED
      BY <1>3, <2>1 DEF ChainInv, FamiliesGiven
  <1> QED
    BY <1>2, <1>5, <1>6 DEF Chains!Next

LEMMA RefreshGrantChains ==
  ASSUME ChainInv, NEW h \in Handlers, NEW t \in Thumbprints, RefreshGrant(h, t)
  PROVE  FamiliesGiven' /\ (Chains!Next \/ UNCHANGED ChainVars)
  <1>1. CASE t \in Kept(store) /\ IsRevoked(store, t, now)
    BY <1>1, SpoilChains DEF RefreshGrant, Kept
  <1>2. CASE ~(t \in Kept(store) /\ IsRevoked(store, t, now))
    <2>1. UNCHANGED <<store, replayed>> /\ GivenOut' = GivenOut
      BY <1>2 DEF RefreshGrant, GivenOut
    <2> QED
      BY <2>1, QuietStep
  <1> QED
    BY <1>1, <1>2

LEMMA RotateChains ==
  ASSUME ChainInv, NEW h \in Handlers, Rotate(h)
  PROVE  FamiliesGiven' /\ Chains!Next
  <1> SUFFICES ASSUME NEW t \in Thumbprints, handler[h].token = t,
                      store[t] # NoRecord
               PROVE  FamiliesGiven' /\ Chains!Next
    BY DEF Rotate, ChainInv, DoorInv, HandlerInOrder
  <1> DEFINE k == jwts[t].subject
             n == Len(jwts)
             e == now + RefreshTTL
             x == store[t].family
             i == Issued("refresh", k, jwts[t].agents, {"read"}, RefreshTTL)
             j == Issued("access", k, jwts[t].agents, jwts[t].scopes, AccessTTL)
  <1>1. DoorInv /\ k = store[t].subject /\ t \in 1 .. n
    BY KeptIsIssued DEF ChainInv
  <1>2. /\ n \in Nat /\ replayed \in SUBSET Nat /\ now \in Nat /\ e \in Nat
        /\ FamiliesInOrder(store, n, replayed)
    BY <1>1, FrontDoorAssumption DEF DoorInv
  <1>3. CASE ~Rotates(store, t)
    <2>1. /\ store' = RevokedForSubject(store, store[t].subject)
          /\ replayed' = replayed \cup {store[t].family} /\ UNCHANGED jwts
      BY <1>1, <1>3 DEF Rotate
    <2> QED
      BY <2>1, SpoilChains
  <1>4. CASE Rotates(store, t)
    <2>1. /\ jwts' = jwts \o <<i, j>> /\ n + 1 <= MaxTokens
          /\ store' = Rotated(store, t, n + 1, e) /\ UNCHANGED replayed
      <3>1. /\ jwts' = jwts \o <<i, j>> /\ n + 2 <= MaxTokens
            /\ store' = Rotated(store, t, n + 1, e) /\ UNCHANGED replayed
        BY <1>4 DEF Rotate, Room
      <3> QED
        BY <1>2, <3>1, Arithmetic
    <2>2. /\ i \in Jwt /\ i.type = "refresh"
          /\ j \in Jwt /\ j.type = "access"
      <3>1. Inherits(jwts[t]) /\ jwts[t] \in Jwt
        BY <1>1 DEF DoorInv
      <3>2. /\ k \in EnabledKeys /\ jwts[t].agents = AllowedAgents(k)
            /\ "admin" \notin jwts[t].scopes
            /\ jwts[t].scopes \in SUBSET AllScopes
        BY <3>1 DEF Inherits, Jwt
      <3>3. /\ {"read"} \in SUBSET AllScopes /\ "admin" \notin {"read"}
            /\ RefreshTTL \in Nat /\ AccessTTL \in Nat
        BY FrontDoorAssumption DEF AllScopes
      <3>4. i.type = "refresh" /\ j.type = "access"
        BY DEF Issued
      <3> HIDE DEF k
      <3>5. i \in Jwt
        BY <1>2, <3>2, <3>3, IssuedToken
      <3>6. j \in Jwt
        BY <1>2, <3>2, <3>3, IssuedToken
      <3> QED
        BY <3>4, <3>5, <3>6
    <2> HIDE DEF i, j
    <2>3. GivenOut' = GivenOut \cup {n + 1} /\ n + 1 \notin GivenOut
      BY <1>1, <2>1, <2>2, GivenOne
    <2>4. n + 1 \in Thumbprints /\ x \in Thumbprints /\ x \in GivenOut
      BY <1>2, <2>1, Arithmetic
         DEF Thumbprints, FamiliesInOrder, StoreTyped, Record, ChainInv,
             FamiliesGiven
    <2>5. /\ x \in DOMAIN Continued(store)
          /\ Continued(store)' = [Continued(store) EXCEPT ![x].token = n + 1]
      <3>1. /\ x \in DOMAIN Continued(store)
            /\ Continued(Rotated(store, t, n + 1, e)) =
                 [Continued(store) EXCEPT ![x].token = n + 1]
        <4>1. n + 1 <= MaxTokens
          BY <2>1
        <4> HIDE DEF n, e, k
        <4> QED
          BY <1>2, <1>4, <4>1, RotatedContinues
      <3> QED
        BY <2>1, <3>1
    <2>6. Chains!Exchange(x, n + 1)
      BY <2>1, <2>3, <2>5 DEF Chains!Exchange
    <2>7. FamiliesGiven'
      <3> SUFFICES ASSUME NEW u \in Thumbprints, store'[u] # NoRecord
                   PROVE  store'[u].family \in GivenOut'
        BY DEF FamiliesGiven
      <3>1. store'[u].family = x \/ (store[u] # NoRecord /\ store'[u] = store[u])
        <4>1. store[t] \in Record /\ store \in [Thumbprints -> Record \cup {NoRecord}]
          BY <1>2 DEF FamiliesInOrder, StoreTyped
        <4>2. store' = [store EXCEPT ![t] = [store[t] EXCEPT !.revoked = TRUE],
                          ![n + 1] = [store[t] EXCEPT !.parent = t,
                                        !.revoked = FALSE, !.expiresAt = e]]
          BY <2>1 DEF Rotated
        <4> QED
          BY <2>4, <4>1, <4>2 DEF Record
      <3> QED
        BY <2>3, <2>4, <3>1 DEF ChainInv, FamiliesGiven
    <2> QED
      BY <2>4, <2>6, <2>7 DEF Chains!Next
  <1> QED
    BY <1>3, <1>4

LEMMA RevokeTokenChains ==
  ASSUME ChainInv, NEW h \in Handlers, NEW t \in Thumbprints, RevokeToken(h, t)
  PROVE  FamiliesGiven' /\ Chains!Next
  <1>1. store' = Revoked(store, t) /\ UNCHANGED <<jwts, replayed>>
    BY DEF RevokeToken
  <1>2. FamiliesInOrder(store, Len(jwts), replayed) /\ Len(jwts) \in Nat
    BY DEF ChainInv, DoorInv
  <1>3. GivenOut' = GivenOut
    BY <1>1 DEF GivenOut
  <1>4. PICK fs \in SUBSET Thumbprints :
          Continued(store)' =
            [f \in DOMAIN Continued(store) \ fs |-> Continued(store)[f]]
    BY <1>1, <1>2, RevokedContinues
  <1>5. Chains!End(fs)
    BY <1>1, <1>3, <1>4 DEF Chains!End, Chains!Without
  <1>6. FamiliesGiven'
    <2> SUFFICES ASSUME NEW u \in Thumbprints, store'[u] # NoRecord
                 PROVE  store'[u].family \in GivenOut'
      BY DEF FamiliesGiven
    <2>1. store[u] # NoRecord /\ store'[u].family = store[u].family
      BY <1>1, <1>2 DEF Revoked, FamiliesInOrder, StoreTyped, Record, Kept
    <2> QED
      BY <1>3, <2>1 DEF ChainInv, FamiliesGiven
  <1> QED
    BY <1>5, <1>6 DEF Chains!Next

LEMMA RestartChains ==
  ASSUME ChainInv, Restart
  PROVE  FamiliesGiven' /\ Chains!Next
  <1>1. store' = NoTokens /\ UNCHANGED <<jwts, replayed>>
    BY DEF Restart
  <1>2. GivenOut' = GivenOut
    BY <1>1 DEF GivenOut
  <1>3. DOMAIN Continued(store) \subseteq Thumbprints
    BY DEF Continued, Exchangeable, Kept, ChainInv, DoorInv, FamiliesInOrder,
           StoreTyped, Record
  <1>4. Chains!End(Thumbprints)
    <2>1. Continued(store)' =
            [f \in DOMAIN Continued(store) \ Thumbprints |-> Continued(store)[f]]
      <3>1. DOMAIN Continued(store) \ Thumbprints = {}
        BY <1>3
      <3> QED
        BY <1>1, <3>1, NothingContinued
    <2> QED
      BY <1>1, <1>2, <2>1 DEF Chains!End, Chains!Without
  <1>5. FamiliesGiven'
    BY <1>1 DEF FamiliesGiven, NoTokens
  <1> QED
    BY <1>4, <1>5 DEF Chains!Next

LEMMA NextChains ==
  ASSUME ChainInv, [Next]_vars
  PROVE  ChainInv' /\ (Chains!Next \/ UNCHANGED ChainVars)
  <1>1. ASSUME UNCHANGED <<jwts, store, replayed>>
        PROVE  FamiliesGiven' /\ UNCHANGED ChainVars
    BY <1>1, QuietStep DEF GivenOut
  <1>2. ASSUME NEW h \in Handlers, NEW r \in Routes, NEW t \in Tasks,
               NEW i \in ConfigIds, NEW u \in Urls, Dispatch(h, r, t, i, u)
        PROVE  FamiliesGiven' /\ UNCHANGED ChainVars
    BY <1>1, <1>2 DEF Dispatch, oauth
  <1>3. ASSUME NEW h \in Handlers, NEW k \in Keys \cup {NoKey},
               NEW t \in 0 .. Len(jwts), AuthenticateAndPay(h, k, t)
        PROVE  FamiliesGiven' /\ UNCHANGED ChainVars
    BY <1>1, <1>3 DEF AuthenticateAndPay, oauth
  <1>4. ASSUME Tick \/ \E h \in Handlers : TurnedAway(h)
        PROVE  FamiliesGiven' /\ UNCHANGED ChainVars
    BY <1>1, <1>4 DEF Tick, TurnedAway, oauth
  <1>5. FamiliesGiven' /\ (Chains!Next \/ UNCHANGED ChainVars)
    <2>1. CASE UNCHANGED vars
      BY <1>1, <2>1 DEF vars
    <2>2. CASE Next
      BY <1>2, <1>3, <1>4, <2>2, ClientCredentialsChains,
         RefreshTokenStoredChains, RefreshGrantChains, RotateChains,
         RevokeTokenChains, RestartChains
         DEF Next
    <2> QED
      BY <2>1, <2>2
  <1>6. DoorInv'
    BY NextDoor DEF ChainInv
  <1> QED
    BY <1>5, <1>6 DEF ChainInv

LEMMA InitChains == Init => Chains!Init /\ ChainInv
  <1> SUFFICES ASSUME Init PROVE Chains!Init /\ ChainInv
    OBVIOUS
  <1>1. jwts = <<>> /\ store = NoTokens /\ replayed = {}
    BY DEF Init
  <1>2. GivenOut = {}
    BY <1>1 DEF GivenOut
  <1>3. FamiliesGiven
    BY <1>1 DEF FamiliesGiven, NoTokens
  <1> QED
    BY <1>1, <1>2, <1>3, DoorInit, NothingContinued DEF Chains!Init, ChainInv

(***************************************************************************)
(* Whatever handleClientCredentialsGrant, handleRefreshTokenGrant, the     *)
(* revocation route, expiry and restarts do to the stored tokens is a step *)
(* of TokenChains: a chain goes on from one token at a time, for the       *)
(* subject it began with, and never after it ended.                        *)
(***************************************************************************)
THEOREM GrantsImplementChains == Spec => ImplementsChains
  <1>1. Init => Chains!Init /\ ChainInv
    BY InitChains
  <1>2. ChainInv /\ [Next]_vars => ChainInv' /\ [Chains!Next]_(Chains!vars)
    <2>1. UNCHANGED ChainVars => UNCHANGED Chains!vars
      BY DEF ChainVars, Chains!vars
    <2> QED
      BY <2>1, NextChains
  <1> QED
    BY <1>1, <1>2, PTL DEF Spec, ImplementsChains, Chains!Spec

-----------------------------------------------------------------------------
(* The rate limiter, for one caller with the times w in its window and the *)
(* times a it was allowed at.                                              *)

Times == Seq(0 .. LimiterTime)

Sorted(a) == \A m, n \in DOMAIN a : m <= n => a[m] <= a[n]

\* Entries of a that MaxRequests others separate are a window apart.
Spaced(a) ==
  \A n \in DOMAIN a :
    n + MaxRequests \in DOMAIN a => a[n + MaxRequests] >= a[n] + WindowMs

\* w is what is left of a when its first j entries are dropped.
IsRest(w, a, j) ==
  /\ j \in 0 .. Len(a) /\ Len(w) = Len(a) - j
  /\ \A i \in 1 .. Len(w) : w[i] = a[i + j]

\* What was dropped is out of date.
Dropped(a, j, time) == \A i \in 1 .. j : a[i] <= time - WindowMs

CallerInv(w, a, retry, time) ==
  /\ time \in Nat /\ w \in Times /\ a \in Times
  /\ Sorted(a) /\ Spaced(a) /\ \A n \in DOMAIN a : a[n] <= time
  /\ \E j \in 0 .. Len(a) : IsRest(w, a, j) /\ Dropped(a, j, time)
  /\ retry = 0 \/ \E n \in DOMAIN a : retry = a[n] + WindowMs

LimiterInv ==
  /\ uptime \in 0 .. LimiterTime
  /\ windows = [c \in Callers |-> windows[c]] /\ DOMAIN windows = Callers
  /\ allowed = [c \in Callers |-> allowed[c]] /\ DOMAIN allowed = Callers
  /\ retryAt = [c \in Callers |-> retryAt[c]] /\ DOMAIN retryAt = Callers
  /\ \A c \in Callers : CallerInv(windows[c], allowed[c], retryAt[c], uptime)

LEMMA TimesAre ==
  ASSUME NEW s \in Times
  PROVE  /\ Len(s) \in Nat /\ DOMAIN s = 1 .. Len(s)
         /\ \A i \in 1 .. Len(s) : s[i] \in 0 .. LimiterTime /\ s[i] \in Nat
  BY LimiterAssumption DEF Times

LEMMA FunctionIsTimes ==
  ASSUME NEW n \in Nat, NEW s \in [1 .. n -> 0 .. LimiterTime]
  PROVE  s \in Times /\ Len(s) = n
  <1>1. s \in Times
    BY SeqDef DEF Times
  <1> QED
    BY <1>1, LenProperties DEF Times

LEMMA LeastNatural ==
  ASSUME NEW T \in SUBSET Nat, T # {}
  PROVE  \E n \in T : \A m \in T : n <= m
  <1>1. PICK R : /\ IsWellFoundedOn(R, Nat)
                 /\ \A x, y \in Nat : x < y => <<x, y>> \in R
    <2> DEFINE R == OpToRel(<, Nat)
    <2>1. IsWellFoundedOn(R, Nat)
      BY NatLessThanWellFounded
    <2>2. \A x, y \in Nat : x < y => <<x, y>> \in R
      BY DEF OpToRel
    <2> HIDE DEF R
    <2> QED
      BY <2>1, <2>2
  <1>2. PICK n \in T : \A m \in T : ~ (<<m, n>> \in R)
    <2>1. IsWellFoundedOn(R, Nat) /\ T \subseteq Nat /\ T # {}
      BY <1>1
    <2>2. \E n \in T : \A m \in T : ~ (<<m, n>> \in R)
      BY <2>1, WFMin, Zenon
    <2> QED
      BY <2>2
  <1>3. \A m \in T : ~(m < n)
    BY <1>1, <1>2
  <1> QED
    BY <1>3

\* The numbers j+1 .. m, counted.
LEMMA NthOfInterval ==
  ASSUME NEW j \in Nat, NEW m \in Nat, j <= m
  PROVE  /\ Cardinality((j + 1) .. m) = m - j
         /\ \A n \in 1 .. (m - j) : Nth((j + 1) .. m, n) = j + n
  <1> DEFINE S == (j + 1) .. m
             upTo(i) == {k \in S : k <= i}
  <1>1. Cardinality(S) = m - j
    <2>1. CASE j = m
      <3>1. S = {}
        BY <2>1
      <3> QED
        BY <2>1, <3>1, FS_EmptySet
    <2>2. CASE j < m
      BY <2>2, FS_Interval
    <2> QED
      BY <2>1, <2>2
  <1>2. ASSUME NEW i \in S PROVE Cardinality(upTo(i)) = i - j
    <2>1. upTo(i) = (j + 1) .. i /\ j + 1 <= i /\ i \in Int /\ j + 1 \in Int
      OBVIOUS
    <2>2. Cardinality((j + 1) .. i) = i - (j + 1) + 1
      BY <2>1, FS_Interval
    <2> HIDE DEF upTo, S
    <2> QED
      BY <2>1, <2>2
  <1>3. ASSUME NEW n \in 1 .. (m - j) PROVE Nth(S, n) = j + n
    <2>1. Nth(S, n) = CHOOSE i \in S : Cardinality(upTo(i)) = n
      BY DEF Nth
    <2>2. j + n \in S /\ (j + n) - j = n
      OBVIOUS
    <2>3. \A i \in S : i - j = n => i = j + n
      OBVIOUS
    <2> HIDE DEF S, upTo
    <2>4. \A i \in S : Cardinality(upTo(i)) = n <=> i = j + n
      BY <1>2, <2>2, <2>3
    <2> QED
      BY <2>1, <2>2, <2>4
  <1> QED
    BY <1>1, <1>3

\* Pruning a window drops what is out of date, and nothing else.
LEMMA PrunedRest ==
  ASSUME NEW c \in Callers, LimiterInv
  PROVE  \E j \in 0 .. Len(allowed[c]) :
           /\ Alive(c) \in Times
           /\ IsRest(Alive(c), allowed[c], j) /\ Dropped(allowed[c], j, uptime)
           /\ \A i \in (j + 1) .. Len(allowed[c]) :
                allowed[c][i] > uptime - WindowMs
  <1> DEFINE w == windows[c]
             a == allowed[c]
             cut == uptime - WindowMs
             kept == {i \in DOMAIN w : w[i] > cut}
  <1>1. /\ CallerInv(w, a, retryAt[c], uptime) /\ uptime \in Nat /\ cut \in Int
        /\ WindowMs \in Nat
    BY LimiterAssumption DEF LimiterInv
  <1>2. PICK k \in 0 .. Len(a) : IsRest(w, a, k) /\ Dropped(a, k, uptime)
    BY <1>1 DEF CallerInv
  <1>3. /\ a \in Times /\ w \in Times /\ Sorted(a)
        /\ DOMAIN a = 1 .. Len(a) /\ DOMAIN w = 1 .. Len(w)
        /\ Len(a) \in Nat /\ Len(w) \in Nat /\ k \in Nat /\ Len(w) = Len(a) - k
        /\ \A i \in 1 .. Len(a) : a[i] \in Nat
        /\ \A i \in 1 .. Len(w) : w[i] \in 0 .. LimiterTime /\ w[i] \in Nat
    <2>1. a \in Times /\ w \in Times /\ Sorted(a) /\ Len(w) = Len(a) - k
      BY <1>1, <1>2 DEF CallerInv, IsRest
    <2>2. k \in Nat
      BY <2>1, TimesAre
    <2> HIDE DEF w, a
    <2> QED
      BY <2>1, <2>2, TimesAre
  <1>4. Alive(c) = [n \in 1 .. Cardinality(kept) |-> w[Nth(kept, n)]]
    BY DEF Alive
  <1> HIDE DEF w, a, cut
  \* f: the first entry of the window that is not out of date.
  <1>5. PICK f \in 0 .. Len(w) : /\ \A i \in 1 .. f : w[i] <= cut
                                 /\ \A i \in (f + 1) .. Len(w) : w[i] > cut
    <2>1. CASE kept = {}
      <3>1. \A i \in 1 .. Len(w) : w[i] <= cut
        <4>1. \A i \in 1 .. Len(w) : ~(w[i] > cut)
          BY <1>3, <2>1
        <4> QED
          BY <1>1, <1>3, <4>1
      <3>2. Len(w) \in 0 .. Len(w) /\ (Len(w) + 1) .. Len(w) = {}
        BY <1>3
      <3> QED
        BY <3>1, <3>2
    <2>2. CASE kept # {}
      <3>1. kept \in SUBSET Nat
        BY <1>3
      <3>2. PICK l \in kept : \A i \in kept : l <= i
        BY <2>2, <3>1, LeastNatural
      <3>3. l \in 1 .. Len(w) /\ w[l] > cut /\ l - 1 \in 0 .. Len(w)
            /\ (l - 1) + 1 = l
        BY <1>3, <3>2
      <3>4. ASSUME NEW i \in 1 .. (l - 1) PROVE w[i] <= cut
        <4>1. i \in DOMAIN w /\ ~(l <= i) /\ w[i] \in Nat
          BY <1>3, <3>3
        <4>2. i \notin kept
          BY <3>2, <4>1
        <4> QED
          BY <1>1, <4>1, <4>2
      <3>5. ASSUME NEW i \in l .. Len(w) PROVE w[i] > cut
        <4>1. /\ i \in 1 .. Len(w) /\ l + k \in 1 .. Len(a)
              /\ i + k \in 1 .. Len(a) /\ l + k <= i + k
          BY <1>3, <3>3
        <4>2. w[i] = a[i + k] /\ w[l] = a[l + k]
          BY <1>2, <3>3, <4>1 DEF IsRest
        <4>3. a[l + k] <= a[i + k]
          BY <1>3, <4>1 DEF Sorted
        <4>4. a[l + k] \in Nat /\ a[i + k] \in Nat
          BY <1>3, <4>1
        <4> QED
          BY <1>1, <3>3, <4>2, <4>3, <4>4
      <3> QED
        BY <3>3, <3>4, <3>5
    <2> QED
      BY <2>1, <2>2
  <1>6. kept = (f + 1) .. Len(w)
    <2>1. \A i \in 1 .. Len(w) : i \in 1 .. f \/ i \in (f + 1) .. Len(w)
      BY <1>3
    <2>2. \A i \in 1 .. f : ~(w[i] > cut)
      <3>1. \A i \in 1 .. f : i \in 1 .. Len(w)
        BY <1>3
      <3> QED
        BY <1>1, <1>3, <1>5, <3>1
    <2>3. \A i \in (f + 1) .. Len(w) : i \in 1 .. Len(w) /\ i \notin 1 .. f
      BY <1>3
    <2> QED
      BY <1>3, <1>5, <2>1, <2>2, <2>3
  <1> HIDE DEF kept
  <1>7. /\ Cardinality(kept) = Len(w) - f
        /\ \A n \in 1 .. (Len(w) - f) : Nth(kept, n) = f + n
    <2>1. f \in Nat /\ Len(w) \in Nat /\ f <= Len(w)
      BY <1>3
    <2> QED
      BY <1>6, <2>1, NthOfInterval
  <1> DEFINE v == Alive(c)
             j == f + k
  <1>8. v = [n \in 1 .. (Len(w) - f) |-> w[f + n]]
    BY <1>4, <1>7
  <1>9. /\ Len(w) - f \in Nat /\ f \in Nat
        /\ \A n \in 1 .. (Len(w) - f) : f + n \in 1 .. Len(w)
        /\ j \in 0 .. Len(a) /\ Len(w) - f = Len(a) - j
        /\ \A n \in 1 .. (Len(w) - f) : (f + n) + k = n + j
    BY <1>3
  <1> HIDE DEF v, j
  <1>10. /\ v \in Times /\ Len(v) = Len(a) - j
         /\ \A n \in 1 .. Len(v) : v[n] = w[f + n]
    <2>1. \A n \in 1 .. (Len(w) - f) : w[f + n] \in 0 .. LimiterTime
      BY <1>3, <1>9
    <2>2. v \in [1 .. (Len(w) - f) -> 0 .. LimiterTime]
      BY <1>8, <2>1
    <2>3. v \in Times /\ Len(v) = Len(w) - f
      BY <1>9, <2>2, FunctionIsTimes
    <2> QED
      BY <1>8, <1>9, <2>3
  <1>11. IsRest(v, a, j)
    <2>1. ASSUME NEW n \in 1 .. Len(v) PROVE v[n] = a[n + j]
      BY <1>2, <1>9, <1>10 DEF IsRest
    <2> QED
      BY <1>9, <1>10, <2>1 DEF IsRest
  <1>12. Dropped(a, j, uptime)
    <2> SUFFICES ASSUME NEW i \in 1 .. j PROVE a[i] <= cut
      BY DEF Dropped, cut
    <2>1. CASE i <= k
      BY <1>2, <1>3, <2>1 DEF Dropped, cut
    <2>2. CASE i > k
      <3>1. i - k \in 1 .. f /\ i - k \in 1 .. Len(w) /\ (i - k) + k = i
        BY <1>3, <2>2 DEF j
      <3> QED
        BY <1>2, <1>5, <3>1 DEF IsRest
    <2> QED
      BY <1>3, <2>1, <2>2
  <1>13. ASSUME NEW i \in (j + 1) .. Len(a) PROVE a[i] > cut
    <2>1. /\ i - k \in (f + 1) .. Len(w) /\ i - k \in 1 .. Len(w)
          /\ (i - k) + k = i
      BY <1>3, <1>9 DEF j
    <2> QED
      BY <1>2, <1>5, <2>1 DEF IsRest
  <1> QED
    BY <1>9, <1>10, <1>11, <1>12, <1>13 DEF v, a, cut

LEMMA LimiterInitInv ==
  ASSUME LimiterInit
  PROVE  LimiterInv
  <1>1. uptime \in 0 .. LimiterTime /\ uptime = 0
    BY LimiterAssumption DEF LimiterInit
  <1>2. CallerInv(<<>>, <<>>, 0, 0)
    <2>1. <<>> \in Times /\ Len(<<>>) = 0 /\ DOMAIN <<>> = {}
      BY DEF Times
    <2>2. IsRest(<<>>, <<>>, 0) /\ Dropped(<<>>, 0, 0)
      BY <2>1 DEF IsRest, Dropped
    <2>3. 0 \in 0 .. Len(<<>>)
      BY <2>1
    <2> QED
      BY <2>1, <2>2, <2>3 DEF CallerInv, Sorted, Spaced
  <1> QED
    BY <1>1, <1>2 DEF LimiterInit, LimiterInv

\* Time makes nothing that was dropped count again.
LEMMA CallerWaits ==
  ASSUME NEW w, NEW a, NEW retry, NEW time, CallerInv(w, a, retry, time)
  PROVE  CallerInv(w, a, retry, time + 1)
  <1>1. /\ time \in Nat /\ a \in Times /\ DOMAIN a = 1 .. Len(a) /\ Len(a) \in Nat
        /\ \A i \in 1 .. Len(a) : a[i] \in Nat
        /\ WindowMs \in Nat
    BY TimesAre, LimiterAssumption DEF CallerInv
  <1>2. PICK j \in 0 .. Len(a) : IsRest(w, a, j) /\ Dropped(a, j, time)
    BY DEF CallerInv
  <1>3. Dropped(a, j, time + 1)
    <2>1. \A i \in 1 .. j : i \in 1 .. Len(a) /\ a[i] <= time - WindowMs
      BY <1>1, <1>2 DEF Dropped
    <2> QED
      BY <1>1, <2>1 DEF Dropped
  <1>4. \A n \in DOMAIN a : a[n] <= time + 1
    BY <1>1 DEF CallerInv
  <1> QED
    BY <1>1, <1>2, <1>3, <1>4 DEF CallerInv

\* An allowed request: fewer than MaxRequests entries of a are in the window,
\* so the one MaxRequests places before the new one is not.
LEMMA CallerAllowed ==
  ASSUME NEW w, NEW a, NEW retry, NEW time \in 0 .. LimiterTime,
         CallerInv(w, a, retry, time),
         NEW v \in Times, NEW j \in 0 .. Len(a),
         IsRest(v, a, j), Dropped(a, j, time), Len(v) < MaxRequests
  PROVE  CallerInv(Append(v, time), Append(a, time), retry, time)
  <1> DEFINE b == Append(a, time)
             u == Append(v, time)
             last == Len(a) + 1
  <1>1. /\ a \in Times /\ Sorted(a) /\ Spaced(a) /\ \A n \in DOMAIN a : a[n] <= time
        /\ Len(a) \in Nat /\ DOMAIN a = 1 .. Len(a)
        /\ \A i \in 1 .. Len(a) : a[i] \in Nat
        /\ time \in Nat /\ WindowMs \in Nat /\ MaxRequests \in Nat \ {0}
    BY TimesAre, LimiterAssumption DEF CallerInv
  <1>2. /\ b \in Times /\ Len(b) = last /\ DOMAIN b = 1 .. last
        /\ \A i \in 1 .. Len(a) : b[i] = a[i]
        /\ b[last] = time
    <2>1. b \in Times /\ Len(b) = last /\ b[last] = time
          /\ \A i \in 1 .. Len(a) : b[i] = a[i]
      BY <1>1 DEF Times
    <2> HIDE DEF b
    <2> QED
      BY <2>1, TimesAre
  <1>3. /\ u \in Times /\ Len(u) = Len(v) + 1
        /\ \A i \in 1 .. Len(v) : u[i] = v[i]
        /\ u[Len(v) + 1] = time
        /\ Len(v) \in Nat
    BY TimesAre DEF Times
  <1> HIDE DEF b, u
  <1>4. /\ last \in Nat /\ j \in Nat /\ Len(v) = Len(a) - j
        /\ \A i \in 1 .. last : i = last \/ i \in 1 .. Len(a)
    <2>1. Len(v) = Len(a) - j
      BY DEF IsRest
    <2>2. last \in Nat /\ j \in Nat
      BY <1>1
    <2>3. \A i \in 1 .. last : i = last \/ i \in 1 .. Len(a)
      BY <1>1
    <2> QED
      BY <2>1, <2>2, <2>3
  <1>5. Sorted(b)
    <2> SUFFICES ASSUME NEW m \in 1 .. last, NEW n \in 1 .. last, m <= n
                 PROVE  b[m] <= b[n]
      BY <1>2 DEF Sorted
    <2>1. CASE n = last
      BY <1>1, <1>2, <1>4, <2>1
    <2>2. CASE n # last
      <3>1. n \in 1 .. Len(a) /\ m \in 1 .. Len(a)
        BY <1>1, <2>2
      <3> QED
        BY <1>1, <1>2, <3>1 DEF Sorted
    <2> QED
      BY <2>1, <2>2
  <1>6. Spaced(b)
    <2> SUFFICES ASSUME NEW n \in 1 .. last, n + MaxRequests \in 1 .. last
                 PROVE  b[n + MaxRequests] >= b[n] + WindowMs
      BY <1>2 DEF Spaced
    <2>1. n \in 1 .. Len(a)
      BY <1>1, <1>4
    <2>2. CASE n + MaxRequests = last
      <3>1. n \in 1 .. j
        BY <1>1, <1>4, <2>1, <2>2
      <3>2. a[n] <= time - WindowMs
        BY <3>1 DEF Dropped
      <3> QED
        BY <1>1, <1>2, <2>1, <2>2, <3>2
    <2>3. CASE n + MaxRequests # last
      <3>1. n + MaxRequests \in 1 .. Len(a)
        BY <1>4, <2>3
      <3> QED
        BY <1>1, <1>2, <2>1, <3>1 DEF Spaced
    <2> QED
      BY <2>2, <2>3
  <1>7. IsRest(u, b, j)
    <2>1. j \in 0 .. Len(b) /\ Len(u) = Len(b) - j
      BY <1>1, <1>2, <1>3, <1>4
    <2>2. ASSUME NEW i \in 1 .. Len(u) PROVE u[i] = b[i + j]
      <3>1. CASE i = Len(v) + 1
        <4>1. i + j = last
          BY <1>1, <1>4, <3>1
        <4> QED
          BY <1>2, <1>3, <3>1, <4>1
      <3>2. CASE i # Len(v) + 1
        <4>1. i \in 1 .. Len(v) /\ i + j \in 1 .. Len(a)
          BY <1>1, <1>3, <1>4, <3>2
        <4> QED
          BY <1>2, <1>3, <4>1 DEF IsRest
      <3> QED
        BY <3>1, <3>2
    <2> QED
      BY <2>1, <2>2 DEF IsRest
  <1>8. Dropped(b, j, time)
    <2>1. \A i \in 1 .. j : i \in 1 .. Len(a)
      BY <1>1
    <2> QED
      BY <1>2, <2>1 DEF Dropped
  <1>9. \A n \in DOMAIN b : b[n] <= time
    BY <1>1, <1>2, <1>4
  <1>10. retry = 0 \/ \E n \in DOMAIN b : retry = b[n] + WindowMs
    <2>1. \A n \in 1 .. Len(a) : n \in 1 .. last
      BY <1>1
    <2> QED
      BY <1>1, <1>2, <2>1 DEF CallerInv
  <1>11. j \in 0 .. Len(b)
    BY <1>7 DEF IsRest
  <1> QED
    BY <1>1, <1>2, <1>3, <1>5, <1>6, <1>7, <1>8, <1>9, <1>10, <1>11
    DEF CallerInv, b, u

LEMMA LimiterStep ==
  ASSUME LimiterInv, [LimiterNext]_limiterVars
  PROVE  LimiterInv'
  <1> DEFINE Ok(c) == CallerInv(windows[c], allowed[c], retryAt[c], uptime)
  <1>1. /\ \A c \in Callers : Ok(c)
        /\ uptime \in 0 .. LimiterTime
        /\ DOMAIN windows = Callers /\ DOMAIN allowed = Callers
        /\ DOMAIN retryAt = Callers
        /\ windows = [c \in Callers |-> windows[c]]
        /\ allowed = [c \in Callers |-> allowed[c]]
        /\ retryAt = [c \in Callers |-> retryAt[c]]
    BY DEF LimiterInv
  <1>2. CASE TimePasses
    <2>1. /\ uptime' = uptime + 1 /\ uptime' \in 0 .. LimiterTime
          /\ windows' = windows /\ allowed' = allowed /\ retryAt' = retryAt
      BY <1>1, <1>2, LimiterAssumption DEF TimePasses
    <2>2. \A c \in Callers :
            CallerInv(windows[c], allowed[c], retryAt[c], uptime + 1)
      BY <1>1, CallerWaits
    <2> QED
      BY <1>1, <2>1, <2>2 DEF LimiterInv
  <1>3. ASSUME NEW c \in Callers, Allow(c) PROVE LimiterInv'
    <2>1. /\ Len(Alive(c)) < MaxRequests /\ uptime' = uptime
          /\ windows' = [windows EXCEPT ![c] = Append(Alive(c), uptime)]
          /\ allowed' = [allowed EXCEPT ![c] = Append(allowed[c], uptime)]
          /\ retryAt' = retryAt
      BY <1>3 DEF Allow, Allows
    <2>2. PICK j \in 0 .. Len(allowed[c]) :
            /\ Alive(c) \in Times
            /\ IsRest(Alive(c), allowed[c], j) /\ Dropped(allowed[c], j, uptime)
      BY PrunedRest
    <2>3. CallerInv(Append(Alive(c), uptime), Append(allowed[c], uptime),
                    retryAt[c], uptime)
      BY <1>1, <2>1, <2>2, CallerAllowed
    <2>4. ASSUME NEW e \in Callers
          PROVE  CallerInv(windows'[e], allowed'[e], retryAt[e], uptime)
      <3>1. CASE e = c
        <4>1. /\ windows'[e] = Append(Alive(c), uptime)
              /\ allowed'[e] = Append(allowed[c], uptime)
          BY <1>1, <2>1, <3>1
        <4> QED
          BY <2>3, <3>1, <4>1
      <3>2. CASE e # c
        <4>1. windows'[e] = windows[e] /\ allowed'[e] = allowed[e]
          BY <1>1, <2>1, <3>2
        <4> QED
          BY <1>1, <4>1
      <3> QED
        BY <3>1, <3>2
    <2>5. /\ DOMAIN windows' = Callers /\ windows' = [e \in Callers |-> windows'[e]]
          /\ DOMAIN allowed' = Callers /\ allowed' = [e \in Callers |-> allowed'[e]]
      BY <1>1, <2>1
    <2> HIDE DEF Ok
    <2> QED
      BY <1>1, <2>1, <2>4, <2>5 DEF LimiterInv
  <1>4. ASSUME NEW c \in Callers, Refuse(c) PROVE LimiterInv'
    <2>1. /\ ~(Len(Alive(c)) < MaxRequests) /\ uptime' = uptime
          /\ windows' = [e \in Callers |-> IF Alive(e) = <<>> THEN windows[e]
                                                              ELSE Alive(e)]
          /\ retryAt' = [retryAt EXCEPT ![c] = Alive(c)[1] + WindowMs]
          /\ allowed' = allowed
      BY <1>4 DEF Refuse, Allows
    <2>2. ASSUME NEW e \in Callers
          PROVE  CallerInv(windows'[e], allowed[e], retryAt[e], uptime)
      <3>1. PICK j \in 0 .. Len(allowed[e]) :
              /\ Alive(e) \in Times
              /\ IsRest(Alive(e), allowed[e], j) /\ Dropped(allowed[e], j, uptime)
        BY PrunedRest
      <3>2. CallerInv(Alive(e), allowed[e], retryAt[e], uptime)
        BY <1>1, <3>1 DEF CallerInv
      <3>3. windows'[e] = windows[e] \/ windows'[e] = Alive(e)
        BY <2>1
      <3> QED
        BY <1>1, <3>2, <3>3
    <2>3. \E n \in DOMAIN allowed[c] :
            Alive(c)[1] + WindowMs = allowed[c][n] + WindowMs
      <3> DEFINE v == Alive(c)
                 a == allowed[c]
      <3>1. PICK j \in 0 .. Len(a) : v \in Times /\ IsRest(v, a, j)
        BY PrunedRest
      <3>2. /\ a \in Times /\ Len(a) \in Nat /\ DOMAIN a = 1 .. Len(a)
            /\ Len(v) \in Nat
        BY <1>1, <3>1, TimesAre DEF CallerInv
      <3> HIDE DEF v, a
      <3>3. 1 \in 1 .. Len(v) /\ 1 + j \in 1 .. Len(a)
        BY <2>1, <3>1, <3>2, LimiterAssumption DEF IsRest, v
      <3>4. v[1] = a[1 + j] /\ 1 + j \in DOMAIN a
        BY <3>1, <3>2, <3>3 DEF IsRest
      <3>5. \E n \in DOMAIN a : v[1] + WindowMs = a[n] + WindowMs
        BY <3>4
      <3> QED
        BY <3>5 DEF v, a
    <2>4. ASSUME NEW e \in Callers
          PROVE  CallerInv(windows'[e], allowed[e], retryAt'[e], uptime)
      <3>1. CASE e = c
        <4>1. retryAt'[e] = Alive(c)[1] + WindowMs
          BY <1>1, <2>1, <3>1
        <4>2. \E n \in DOMAIN allowed[e] : retryAt'[e] = allowed[e][n] + WindowMs
          BY <2>3, <3>1, <4>1
        <4> QED
          BY <2>2, <4>2 DEF CallerInv
      <3>2. CASE e # c
        <4>1. retryAt'[e] = retryAt[e]
          BY <1>1, <2>1, <3>2
        <4> QED
          BY <2>2, <4>1
      <3> QED
        BY <3>1, <3>2
    <2>5. /\ DOMAIN windows' = Callers /\ windows' = [e \in Callers |-> windows'[e]]
          /\ DOMAIN retryAt' = Callers /\ retryAt' = [e \in Callers |-> retryAt'[e]]
      BY <1>1, <2>1
    <2> HIDE DEF Ok
    <2> QED
      BY <1>1, <2>1, <2>4, <2>5 DEF LimiterInv
  <1>5. CASE UNCHANGED limiterVars
    <2>1. /\ uptime' = uptime /\ windows' = windows /\ allowed' = allowed
          /\ retryAt' = retryAt
      BY <1>5 DEF limiterVars
    <2> QED
      BY <1>1, <2>1 DEF LimiterInv
  <1> QED
    BY <1>2, <1>3, <1>4, <1>5 DEF LimiterNext

\* Entries that fit in one window are at most MaxRequests: the first of them
\* and the one MaxRequests after it do not.
LEMMA WindowHolds ==
  ASSUME NEW a \in Times, Sorted(a), Spaced(a), NEW from \in Nat
  PROVE  Cardinality({n \in DOMAIN a : a[n] \in from .. from + WindowMs - 1})
           <= MaxRequests
  <1> DEFINE S == {n \in DOMAIN a : a[n] \in from .. from + WindowMs - 1}
  <1>1. /\ DOMAIN a = 1 .. Len(a) /\ Len(a) \in Nat
        /\ \A i \in 1 .. Len(a) : a[i] \in Nat
        /\ WindowMs \in Nat /\ MaxRequests \in Nat \ {0}
    BY TimesAre, LimiterAssumption
  <1>2. CASE S = {}
    <2>1. Cardinality(S) = 0
      BY <1>2, FS_EmptySet
    <2> QED
      BY <1>1, <2>1
  <1>3. CASE S # {}
    <2>1. S \in SUBSET Nat
      BY <1>1
    <2>2. PICK k \in S : \A n \in S : k <= n
      BY <1>3, <2>1, LeastNatural
    <2>3. k \in 1 .. Len(a) /\ a[k] >= from /\ k \in Int
      BY <1>1, <2>2
    <2>4. ASSUME NEW n \in S PROVE n \in k .. (k + MaxRequests - 1)
      <3>1. n \in 1 .. Len(a) /\ k <= n /\ a[n] <= from + WindowMs - 1
        BY <1>1, <2>2
      <3>2. CASE n >= k + MaxRequests
        <4>1. k + MaxRequests \in 1 .. Len(a)
          BY <1>1, <2>3, <3>1, <3>2
        <4>2. a[k + MaxRequests] >= a[k] + WindowMs
          BY <1>1, <2>3, <4>1 DEF Spaced
        <4>3. a[k + MaxRequests] <= a[n]
          BY <1>1, <3>1, <3>2, <4>1 DEF Sorted
        <4>4. a[k] \in Nat /\ a[n] \in Nat /\ a[k + MaxRequests] \in Nat
          BY <1>1, <2>3, <3>1, <4>1
        <4> QED
          BY <1>1, <2>3, <3>1, <4>2, <4>3, <4>4
      <3> QED
        BY <1>1, <2>3, <3>1, <3>2
    <2> HIDE DEF S
    <2>5. S \subseteq k .. (k + MaxRequests - 1)
      BY <2>4
    <2>6. k + MaxRequests - 1 \in Int /\ k <= k + MaxRequests - 1
          /\ (k + MaxRequests - 1) - k + 1 = MaxRequests
      BY <1>1, <2>3
    <2>7. /\ IsFiniteSet(k .. (k + MaxRequests - 1))
          /\ Cardinality(k .. (k + MaxRequests - 1)) = MaxRequests
      <3> DEFINE m == k + MaxRequests - 1
      <3>1. m \in Int /\ k \in Int /\ k <= m /\ m - k + 1 = MaxRequests
        BY <2>3, <2>6
      <3> HIDE DEF m
      <3>2. IsFiniteSet(k .. m) /\ Cardinality(k .. m) = m - k + 1
        BY <3>1, FS_Interval
      <3> QED
        BY <3>1, <3>2 DEF m
    <2>8. Cardinality(S) <= Cardinality(k .. (k + MaxRequests - 1))
      BY <2>5, <2>7, FS_Subset
    <2> QED
      BY <2>7, <2>8 DEF S
  <1> QED
    BY <1>2, <1>3

\* When the request a refusal was about leaves the window, the MaxRequests - 1
\* after it are all that can be left.
LEMMA RetryIsAllowed ==
  ASSUME LimiterInv, NEW c \in Callers, uptime = retryAt[c],
         \A n \in DOMAIN allowed[c] : allowed[c][n] < uptime
  PROVE  Allows(c)
  <1> DEFINE a == allowed[c]
  <1>1. /\ a \in Times /\ Sorted(a) /\ Spaced(a) /\ uptime \in Nat
        /\ retryAt[c] = 0 \/ \E n \in DOMAIN a : retryAt[c] = a[n] + WindowMs
        /\ \A n \in DOMAIN a : a[n] < uptime
    BY DEF LimiterInv, CallerInv
  <1>2. PICK j \in 0 .. Len(a) :
          /\ Alive(c) \in Times /\ IsRest(Alive(c), a, j)
          /\ \A i \in (j + 1) .. Len(a) : a[i] > uptime - WindowMs
    BY PrunedRest
  <1>3. /\ DOMAIN a = 1 .. Len(a) /\ Len(a) \in Nat
        /\ \A i \in 1 .. Len(a) : a[i] \in Nat
        /\ WindowMs \in Nat /\ MaxRequests \in Nat \ {0}
    BY <1>1, TimesAre, LimiterAssumption
  <1>4. Len(Alive(c)) = Len(a) - j
    BY <1>2 DEF IsRest
  <1> HIDE DEF a
  <1>5. CASE uptime = 0
    <2>1. 1 \notin 1 .. Len(a)
      BY <1>1, <1>3, <1>5
    <2> QED
      BY <1>3, <1>4, <2>1 DEF Allows
  <1>6. CASE uptime # 0
    <2>1. PICK k \in 1 .. Len(a) : uptime = a[k] + WindowMs
      BY <1>1, <1>3, <1>6
    <2>2. k <= j
      <3>1. CASE k > j
        <4>1. k \in (j + 1) .. Len(a)
          BY <1>3, <3>1
        <4> QED
          BY <1>2, <1>3, <2>1, <4>1
      <3> QED
        BY <3>1
    <2>3. Len(a) < k + MaxRequests
      <3>1. CASE Len(a) >= k + MaxRequests
        <4>1. k + MaxRequests \in 1 .. Len(a)
          BY <1>3, <3>1
        <4>2. a[k + MaxRequests] >= a[k] + WindowMs /\ a[k + MaxRequests] < uptime
          BY <1>1, <1>3, <4>1 DEF Spaced
        <4> QED
          BY <1>3, <2>1, <4>1, <4>2
      <3> QED
        BY <1>3, <3>1
    <2> QED
      BY <1>3, <1>4, <2>2, <2>3 DEF Allows
  <1> QED
    BY <1>5, <1>6

(***************************************************************************)
(* For any limit, window and callers, whatever is pruned when: no window   *)
(* of time holds more allowed requests of a caller than the limit, and the *)
(* time a refusal names is one at which the caller is not refused for it.  *)
(***************************************************************************)
THEOREM RatesAreBounded == LimiterSpec => []RateBound
  <1>1. LimiterInv => RateBound
    <2> SUFFICES ASSUME LimiterInv, NEW c \in Callers
                 PROVE  /\ \A from \in 0 .. LimiterTime :
                             Cardinality({n \in DOMAIN allowed[c] :
                               allowed[c][n] \in from .. from + WindowMs - 1})
                                 <= MaxRequests
                        /\ uptime = retryAt[c]
                             /\ (\A n \in DOMAIN allowed[c] : allowed[c][n] < uptime)
                             => Allows(c)
      BY DEF RateBound
    <2>1. allowed[c] \in Times /\ Sorted(allowed[c]) /\ Spaced(allowed[c])
      BY DEF LimiterInv, CallerInv
    <2>2. \A from \in 0 .. LimiterTime : from \in Nat
      BY LimiterAssumption
    <2> QED
      BY <2>1, <2>2, WindowHolds, RetryIsAllowed
  <1> QED
    BY <1>1, LimiterInitInv, LimiterStep, PTL DEF LimiterSpec

-----------------------------------------------------------------------------
(* The wire format: each level reads what it wrote, as the one below does. *)

LEMMA Level1InOrder == Level1!SchemaInOrder
  BY SchemaAssumption
  DEF Format!SchemaInOrder, Format!RecordsInOrder, Format!FieldInOrder,
      Format!LossesInOrder, Format!FieldKeys, Format!UnionInOrder,
      Format!LegacyInOrder, Format!KnownBy, Format!RecordKeys,
      Format!VariantKeys, Format!Variants, Format!Plain, Format!JsonKind,
      Level1!SchemaInOrder, Level1!RecordsInOrder, Level1!FieldInOrder,
      Level1!LossesInOrder, Level1!FieldKeys, Level1!UnionInOrder,
      Level1!LegacyInOrder, Level1!KnownBy, Level1!RecordKeys,
      Level1!VariantKeys, Level1!Variants, Level1!Plain, Level1!JsonKind

LEMMA Level1Inner == Level1!InnerReads
  BY DEF Level1!InnerReads, IsString, StringFromWire, StringToWire, StringAsRead,
      Level1!Absent

LEMMA Level2InOrder == Level2!SchemaInOrder
  BY SchemaAssumption
  DEF Format!SchemaInOrder, Format!RecordsInOrder, Format!FieldInOrder,
      Format!LossesInOrder, Format!FieldKeys, Format!UnionInOrder,
      Format!LegacyInOrder, Format!KnownBy, Format!RecordKeys,
      Format!VariantKeys, Format!Variants, Format!Plain, Format!JsonKind,
      Level2!SchemaInOrder, Level2!RecordsInOrder, Level2!FieldInOrder,
      Level2!LossesInOrder, Level2!FieldKeys, Level2!UnionInOrder,
      Level2!LegacyInOrder, Level2!KnownBy, Level2!RecordKeys,
      Level2!VariantKeys, Level2!Variants, Level2!Plain, Level2!JsonKind

LEMMA Level2Inner == Level2!InnerReads
  BY Level1InOrder, Level1Inner, Level1!LevelReads
  DEF Level2!InnerReads, Level1!Absent, Level2!Absent, Level1!Spellings,
      Level2!Spellings, Level1!PeerSpellings, Level2!PeerSpellings

LEMMA Level3InOrder == Level3!SchemaInOrder
  BY SchemaAssumption
  DEF Format!SchemaInOrder, Format!RecordsInOrder, Format!FieldInOrder,
      Format!LossesInOrder, Format!FieldKeys, Format!UnionInOrder,
      Format!LegacyInOrder, Format!KnownBy, Format!RecordKeys,
      Format!VariantKeys, Format!Variants, Format!Plain, Format!JsonKind,
      Level3!SchemaInOrder, Level3!RecordsInOrder, Level3!FieldInOrder,
      Level3!LossesInOrder, Level3!FieldKeys, Level3!UnionInOrder,
      Level3!LegacyInOrder, Level3!KnownBy, Level3!RecordKeys,
      Level3!VariantKeys, Level3!Variants, Level3!Plain, Level3!JsonKind

LEMMA Level3Inner == Level3!InnerReads
  BY Level2InOrder, Level2Inner, Level2!LevelReads
  DEF Level3!InnerReads, Level2!Absent, Level3!Absent, Level2!Spellings,
      Level3!Spellings, Level2!PeerSpellings, Level3!PeerSpellings

LEMMA Level4InOrder == Level4!SchemaInOrder
  BY SchemaAssumption
  DEF Format!SchemaInOrder, Format!RecordsInOrder, Format!FieldInOrder,
      Format!LossesInOrder, Format!FieldKeys, Format!UnionInOrder,
      Format!LegacyInOrder, Format!KnownBy, Format!RecordKeys,
      Format!VariantKeys, Format!Variants, Format!Plain, Format!JsonKind,
      Level4!SchemaInOrder, Level4!RecordsInOrder, Level4!FieldInOrder,
      Level4!LossesInOrder, Level4!FieldKeys, Level4!UnionInOrder,
      Level4!LegacyInOrder, Level4!KnownBy, Level4!RecordKeys,
      Level4!VariantKeys, Level4!Variants, Level4!Plain, Level4!JsonKind

LEMMA Level4Inner == Level4!InnerReads
  BY Level3InOrder, Level3Inner, Level3!LevelReads
  DEF Level4!InnerReads, Level3!Absent, Level4!Absent, Level3!Spellings,
      Level4!Spellings, Level3!PeerSpellings, Level4!PeerSpellings

LEMMA FormatInner == Format!InnerReads
  BY Level4InOrder, Level4Inner, Level4!LevelReads
  DEF Format!InnerReads, Level4!Absent, Format!Absent, Level4!Spellings,
      Format!Spellings, Level4!PeerSpellings, Format!PeerSpellings

LEMMA FormatUnread == Format!InnerUnread
  BY Level4!LevelUnread
  DEF Format!InnerUnread, Format!Junk, Format!Scalar, Level4!Junk, Level4!Scalar,
      Format!Unread, Level4!Unread, Format!Names, Level4!Names,
      Format!Failed, Level4!Failed, Format!Absent, Level4!Absent

LEMMA FormatReads ==
  ASSUME NEW t, NEW x, Format!IsValue(t, x), NEW spelling \in Format!Spellings
  PROVE  Format!FromWire(t, Format!ToWire(t, x, spelling))
           = Format!AsRead(t, x, spelling)
  BY SchemaAssumption, FormatInner, Format!LevelReads

LEMMA FormatSpares ==
  ASSUME NEW t \in DOMAIN Records, NEW x, Format!IsValue(t, x), NEW f \in Records[t]
  PROVE  Format!FromWire(t, Format!Damaged(Format!ToWire(t, x, "camel"), f))
           = Format!RecordAsRead(t, x, "camel", f.name)
  BY SchemaAssumption, FormatInner, FormatUnread, Format!LevelSpares

LEMMA NamedFields ==
  ASSUME NEW t \in DOMAIN Records, NEW f \in Records[t]
  PROVE  f.name # ""
  BY SchemaAssumption
  DEF Format!SchemaInOrder, Format!RecordsInOrder, Format!FieldInOrder

\* A letter on its way holds a value as it was written, or with a field damaged.
LetterInOrder ==
  /\ letter.at = "sent" =>
       /\ letter = [at |-> "sent", type |-> letter.type, spelling |-> letter.spelling,
                    value |-> letter.value, damaged |-> letter.damaged,
                    wire |-> letter.wire]
       /\ letter.type \in Types /\ Format!IsValue(letter.type, letter.value)
       /\ letter.spelling \in Format!Spellings
       /\ IF letter.damaged = ""
            THEN letter.wire = Format!ToWire(letter.type, letter.value, letter.spelling)
            ELSE /\ letter.type \in DOMAIN Records
                 /\ \E f \in Records[letter.type] :
                      /\ f.name = letter.damaged
                      /\ letter.wire = Format!Damaged(
                           Format!ToWire(letter.type, letter.value, "camel"), f)
  /\ ReadAsWritten

LEMMA LetterInit == WireInit => LetterInOrder
  BY DEF WireInit, LetterInOrder, ReadAsWritten

LEMMA LetterNext == LetterInOrder /\ [WireNext]_letter => LetterInOrder'
  <1> SUFFICES ASSUME LetterInOrder, [WireNext]_letter PROVE LetterInOrder'
    OBVIOUS
  <1>1. CASE WriteLetter
    <2>1. PICK t \in Types, spelling \in Format!Spellings : \E x \in Letters[t] :
            letter' = [at |-> "sent", type |-> t, spelling |-> spelling, value |-> x,
                       damaged |-> "", wire |-> Format!ToWire(t, x, spelling)]
      BY <1>1 DEF WriteLetter
    <2>2. PICK x \in Letters[t] :
            letter' = [at |-> "sent", type |-> t, spelling |-> spelling, value |-> x,
                       damaged |-> "", wire |-> Format!ToWire(t, x, spelling)]
      BY <2>1
    <2>3. Format!IsValue(t, x)
      BY LettersAssumption
    <2> QED
      BY <2>2, <2>3 DEF LetterInOrder, ReadAsWritten
  <1>2. CASE DamageLetter
    <2>1. PICK f \in Records[letter.type] :
            letter' = [letter EXCEPT !.damaged = f.name,
                         !.wire = Format!Damaged(letter.wire, f)]
      BY <1>2 DEF DamageLetter
    <2>2. /\ letter.at = "sent" /\ letter.spelling = "camel" /\ letter.damaged = ""
          /\ letter.type \in DOMAIN Records
      BY <1>2 DEF DamageLetter
    <2>3. letter' = [at |-> "sent", type |-> letter.type, spelling |-> letter.spelling,
                     value |-> letter.value, damaged |-> f.name,
                     wire |-> Format!Damaged(letter.wire, f)]
      BY <2>1, <2>2 DEF LetterInOrder
    <2>4. letter.wire = Format!ToWire(letter.type, letter.value, "camel")
      BY <2>2 DEF LetterInOrder
    <2>5. /\ letter.type \in Types /\ Format!IsValue(letter.type, letter.value)
          /\ letter.spelling \in Format!Spellings
      BY <2>2 DEF LetterInOrder
    <2>6. f.name # ""
      BY <2>2, NamedFields
    <2> QED
      BY <2>2, <2>3, <2>4, <2>5, <2>6 DEF LetterInOrder, ReadAsWritten
  <1>3. CASE ReadLetter
    <2>1. /\ letter.at = "sent"
          /\ letter' = [at |-> "read", type |-> letter.type, spelling |-> letter.spelling,
                        value |-> letter.value, damaged |-> letter.damaged,
                        got |-> Format!FromWire(letter.type, letter.wire)]
      BY <1>3 DEF ReadLetter
    <2>2. ASSUME letter.damaged = ""
          PROVE  Format!FromWire(letter.type, letter.wire)
                   = Format!AsRead(letter.type, letter.value, letter.spelling)
      <3>1. /\ Format!IsValue(letter.type, letter.value)
            /\ letter.spelling \in Format!Spellings
            /\ letter.wire = Format!ToWire(letter.type, letter.value, letter.spelling)
        BY <2>1, <2>2 DEF LetterInOrder
      <3> QED
        BY <3>1, FormatReads
    <2>3. ASSUME letter.damaged # ""
          PROVE  Format!FromWire(letter.type, letter.wire)
                   = Format!RecordAsRead(letter.type, letter.value, "camel", letter.damaged)
      BY <2>1, <2>3, FormatSpares DEF LetterInOrder
    <2> QED
      BY <2>1, <2>2, <2>3 DEF LetterInOrder, ReadAsWritten
  <1>4. CASE UNCHANGED letter
    BY <1>4 DEF LetterInOrder, ReadAsWritten
  <1> QED
    BY <1>1, <1>2, <1>3, <1>4 DEF WireNext

(***************************************************************************)
(* Whatever values are sent, by whomever and in whatever spelling, they    *)
(* are read as they were written but for the five losses that AsRead       *)
(* names, and a field that cannot be read costs that field alone           *)
(* (serialize.ts).                                                         *)
(***************************************************************************)
THEOREM LettersReadAsWritten == WireSpec => []ReadAsWritten
  <1>1. WireSpec => []LetterInOrder
    BY LetterInit, LetterNext, PTL DEF WireSpec
  <1> QED
    BY <1>1, PTL DEF LetterInOrder

(***************************************************************************)
(* A behaviour of the gateway is one of each of its parts: what is stated  *)
(* of the limiter, of what is behind it and of the format holds of the     *)
(* whole (a2a-server.ts, where they meet).                                 *)
(***************************************************************************)
THEOREM GatewayIsItsParts == GatewaySpec => Spec /\ LimiterSpec /\ WireSpec
  <1>1. GatewayInit => Init /\ LimiterInit /\ WireInit
    BY DEF GatewayInit
  <1>2. ASSUME [GatewayNext]_<<vars, limiterVars, letter, exercised>>
        PROVE  [Next]_vars /\ [LimiterNext]_limiterVars /\ [WireNext]_letter
    BY <1>2 DEF GatewayNext
  <1> QED
    BY <1>1, <1>2, PTL DEF GatewaySpec, Spec, LimiterSpec, WireSpec

(***************************************************************************)
(* So the grants behind the limiter extend chains, as the run checks.      *)
(***************************************************************************)
COROLLARY GatewayImplementsChains == GatewaySpec => ImplementsChains
  BY GatewayIsItsParts, GrantsImplementChains, PTL
=============================================================================

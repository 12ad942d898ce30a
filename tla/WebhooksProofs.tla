--------------------------- MODULE WebhooksProofs ---------------------------
(***************************************************************************)
(* Proofs about Webhooks, for each of the four servers, any set of events, *)
(* any size of batch, any TTL and any number of deliveries and restarts.   *)
(***************************************************************************)
EXTENDS Webhooks, TLAPS

-----------------------------------------------------------------------------
(* Types, and what is true of one delivery.                                *)

Configs == [adapter : Adapters, delegates : BOOLEAN, token : BOOLEAN,
            kind : [Events -> Kinds]]

Deliveries ==
  [event : Events, at : {"received", "handling", "over", "failed"},
   answer : {0, 200, 409, 500}, admitted : Nat, life : Nat,
   begun : Nat, returned : Nat]

LocksTyped ==
  /\ locks \in [DOMAIN locks -> Nat] /\ DOMAIN locks \subseteq Events
  /\ \A k \in DOMAIN locks : locks[k] <= now

Typed ==
  /\ config \in Configs
  /\ now \in 0 .. MaxTime /\ lives \in Nat
  /\ LocksTyped
  /\ deliveries \in Seq(Deliveries)

\* The messages of a request are begun one at a time; one that is over was
\* refused as a duplicate, gone through without a delegation, or offered in
\* full; a request is answered before its handler ends unless it waits for it.
OneAtATime(d) ==
  /\ d.at # "received"
  /\ d.at \in {"handling", "failed"} =>
       d.begun = d.returned + 1 /\ d.begun <= Messages(d.event)
  /\ d.at = "handling" => d.answer = IF Waits THEN 0 ELSE 200
  /\ d.at = "over" =>
       /\ d.answer \in {200, 409}
       /\ d.returned <= d.begun /\ d.begun <= Messages(d.event)
       /\ d.answer = 409 => d.begun = 0
       /\ d.answer = 200 /\ (Waits \/ config.delegates) =>
            d.begun = d.returned /\ d.returned = Messages(d.event)

Dated(d) == d.admitted <= now /\ d.life <= lives

DeliveriesInOrder ==
  \A i \in DOMAIN deliveries :
    OneAtATime(deliveries[i]) /\ Dated(deliveries[i])

-----------------------------------------------------------------------------
(* Records.                                                                *)

LEMMA MessagesType ==
  ASSUME Typed, NEW e \in Events
  PROVE  /\ Messages(e) \in 0 .. Batch
         /\ Waits => Messages(e) = 1
  <1>1. adapter \in Adapters /\ Batch \in Nat /\ Batch > 0
    BY WebhooksAssumption DEF Typed, Configs, adapter
  <1> QED
    BY <1>1 DEF Messages, Waits, Adapters

LEMMA Typing ==
  ASSUME NEW d \in Deliveries
  PROVE  /\ d.event \in Events /\ d.at \in {"received", "handling", "over", "failed"}
         /\ d.answer \in {0, 200, 409, 500} /\ d.admitted \in Nat
         /\ d.life \in Nat /\ d.begun \in Nat /\ d.returned \in Nat
  BY DEF Deliveries

\* d is c but for what OneAtATime is about.
SameRequest(c, d) ==
  d.event = c.event /\ d.admitted = c.admitted /\ d.life = c.life

LEMMA SetAt ==
  ASSUME NEW d \in Deliveries, NEW p \in {"received", "handling", "over", "failed"}
  PROVE  LET f == [d EXCEPT !.at = p]
         IN  /\ f \in Deliveries /\ SameRequest(d, f) /\ f.at = p
             /\ f.answer = d.answer
             /\ f.begun = d.begun /\ f.returned = d.returned
  BY DEF Deliveries, SameRequest

LEMMA SetBegun ==
  ASSUME NEW d \in Deliveries, NEW n \in Nat
  PROVE  LET f == [d EXCEPT !.begun = n]
         IN  /\ f \in Deliveries /\ SameRequest(d, f) /\ f.at = d.at
             /\ f.answer = d.answer
             /\ f.begun = n /\ f.returned = d.returned
  BY DEF Deliveries, SameRequest

LEMMA SetReturned ==
  ASSUME NEW d \in Deliveries, NEW n \in Nat
  PROVE  LET f == [d EXCEPT !.returned = n]
         IN  /\ f \in Deliveries /\ SameRequest(d, f) /\ f.at = d.at
             /\ f.answer = d.answer
             /\ f.begun = d.begun /\ f.returned = n
  BY DEF Deliveries, SameRequest

\* An answer ends the handling of a request.
LEMMA AnsweredType ==
  ASSUME NEW d \in Deliveries, NEW status \in {0, 200, 409, 500}
  PROVE  LET f == Answered(d, status)
         IN  /\ f \in Deliveries /\ SameRequest(d, f) /\ f.at = "over"
             /\ f.answer = status
             /\ f.begun = d.begun /\ f.returned = d.returned
  <1> DEFINE g == [d EXCEPT !.at = "over"]
  <1>1. /\ g \in Deliveries /\ SameRequest(d, g) /\ g.at = "over"
        /\ g.answer = d.answer /\ g.begun = d.begun /\ g.returned = d.returned
    BY SetAt
  <1>2. Answered(d, status) = [g EXCEPT !.answer = status]
    BY DEF Answered
  <1> DEFINE f == [g EXCEPT !.answer = status]
  <1> HIDE DEF g
  <1>3. /\ f \in Deliveries /\ SameRequest(g, f) /\ f.at = g.at
        /\ f.answer = status /\ f.begun = g.begun /\ f.returned = g.returned
    BY <1>1 DEF Deliveries, SameRequest
  <1> HIDE DEF f
  <1>4. SameRequest(d, f)
    BY <1>1, <1>3 DEF SameRequest
  <1> QED
    BY <1>1, <1>2, <1>3, <1>4 DEF f

\* A request goes one message further, or is over.
LEMMA ForwardsType ==
  ASSUME Typed, NEW d \in Deliveries, d.begun = d.returned,
         d.begun <= Messages(d.event), Waits => d.begun = 0,
         d.answer = IF Waits THEN 0 ELSE 200
  PROVE  LET f == Forwards(d)
         IN  /\ f \in Deliveries /\ SameRequest(d, f)
             /\ f.answer = d.answer /\ OneAtATime(f) /\ WasAdmitted(f)
  <1> DEFINE n == Messages(d.event)
             m == d.begun + 1
             f == Forwards(d)
  <1>1. /\ n \in Nat /\ (Waits => n = 1) /\ d.begun \in Nat /\ m \in Nat
        /\ d.returned \in Nat /\ m = d.returned + 1 /\ d.begun <= n
    BY MessagesType, Typing
  <1>2. CASE d.begun < n /\ (Waits \/ config.delegates)
    <2> DEFINE h == [d EXCEPT !.at = "handling"]
    <2>1. /\ h \in Deliveries /\ SameRequest(d, h) /\ h.at = "handling"
          /\ h.answer = d.answer /\ h.begun = d.begun
          /\ h.returned = d.returned
      BY SetAt
    <2>2. f = [h EXCEPT !.begun = m]
      BY <1>2 DEF Forwards
    <2>3. m <= n
      BY <1>1, <1>2
    <2> HIDE DEF m, n, h, f
    <2>4. /\ f \in Deliveries /\ SameRequest(d, f) /\ f.at = "handling"
          /\ f.answer = d.answer /\ f.begun = m /\ f.returned = d.returned
      BY <1>1, <2>1, <2>2, SetBegun DEF SameRequest
    <2>5. Messages(f.event) = n
      BY <2>4 DEF n, SameRequest
    <2>6. OneAtATime(f) /\ WasAdmitted(f)
      BY <1>1, <2>3, <2>4, <2>5 DEF OneAtATime, WasAdmitted
    <2> QED
      BY <2>4, <2>6 DEF f
  <1>3. CASE ~(d.begun < n /\ (Waits \/ config.delegates))
    <2> DEFINE h == [d EXCEPT !.at = "over"]
    <2>1. /\ h \in Deliveries /\ SameRequest(d, h) /\ h.at = "over"
          /\ h.answer = d.answer /\ h.begun = d.begun
          /\ h.returned = d.returned
      BY SetAt
    <2>2. f = [h EXCEPT !.begun = n]
      BY <1>3 DEF Forwards
    <2>3. ~Waits /\ d.answer = 200 /\ (config.delegates => d.begun = n)
      BY <1>1, <1>3
    <2> HIDE DEF m, n, h, f
    <2>4. /\ f \in Deliveries /\ SameRequest(d, f) /\ f.at = "over"
          /\ f.answer = d.answer /\ f.begun = n /\ f.returned = d.returned
      BY <1>1, <2>1, <2>2, SetBegun DEF SameRequest
    <2>5. Messages(f.event) = n
      BY <2>4 DEF n, SameRequest
    <2>6. OneAtATime(f) /\ WasAdmitted(f)
      BY <1>1, <2>3, <2>4, <2>5 DEF OneAtATime, WasAdmitted
    <2> QED
      BY <2>4, <2>6 DEF f
  <1> QED
    BY <1>2, <1>3

LEMMA DeliveryType ==
  ASSUME Typed, NEW e \in Events
  PROVE  LET d == Delivery(e)
         IN  /\ d \in Deliveries /\ d.event = e /\ d.answer = 0
             /\ d.admitted = 0 /\ d.life = lives
             /\ d.begun = 0 /\ d.returned = 0
  BY DEF Delivery, Deliveries, Typed

\* What a request is when route is called for it.
LEMMA AdmittedType ==
  ASSUME Typed, NEW e \in Events
  PROVE  LET x == Admitted(Delivery(e))
         IN  /\ x \in Deliveries /\ OneAtATime(x) /\ WasAdmitted(x)
             /\ x.event = e /\ x.admitted = now /\ x.life = lives
             /\ x.answer # 409
  <1> DEFINE a == IF Waits THEN 0 ELSE 200
             c == [Delivery(e) EXCEPT !.admitted = now, !.life = lives]
             d == [c EXCEPT !.answer = a]
             x == Forwards(d)
  <1>1. a \in {0, 200} /\ now \in Nat /\ lives \in Nat
    BY WebhooksAssumption DEF Typed
  <1>2. Admitted(Delivery(e)) = x
    BY DEF Admitted
  <1>3. /\ c \in Deliveries /\ c.event = e /\ c.admitted = now
        /\ c.life = lives /\ c.begun = 0 /\ c.returned = 0
    <2> DEFINE b == Delivery(e)
               g == [b EXCEPT !.admitted = now]
    <2>1. /\ b \in Deliveries /\ b.event = e /\ b.begun = 0 /\ b.returned = 0
      BY DeliveryType
    <2> HIDE DEF b
    <2>2. /\ g \in Deliveries /\ g.event = e /\ g.admitted = now
          /\ g.begun = 0 /\ g.returned = 0
      BY <1>1, <2>1 DEF Deliveries
    <2>3. c = [g EXCEPT !.life = lives]
      BY DEF b, g
    <2> HIDE DEF g, c
    <2> QED
      BY <1>1, <2>2, <2>3 DEF Deliveries
  <1> HIDE DEF c
  <1>4. /\ d \in Deliveries /\ SameRequest(c, d) /\ d.answer = a
        /\ d.begun = c.begun /\ d.returned = c.returned
    <2> HIDE DEF a
    <2> QED
      BY <1>1, <1>3 DEF Deliveries, SameRequest
  <1> HIDE DEF d
  <1>5. d.event = e /\ d.begun = 0 /\ d.returned = 0 /\ 0 <= Messages(d.event)
    BY <1>3, <1>4, MessagesType DEF SameRequest
  <1>6. /\ x \in Deliveries /\ SameRequest(d, x) /\ x.answer = d.answer
        /\ OneAtATime(x) /\ WasAdmitted(x)
    BY <1>4, <1>5, ForwardsType
  <1> HIDE DEF x
  <1> QED
    BY <1>1, <1>2, <1>3, <1>4, <1>6 DEF SameRequest

\* What it is when it is refused as a duplicate.
LEMMA RefusedType ==
  ASSUME Typed, NEW e \in Events
  PROVE  LET x == Answered(Delivery(e), 409)
         IN  /\ x \in Deliveries /\ OneAtATime(x) /\ ~WasAdmitted(x)
             /\ x.event = e /\ x.admitted = 0 /\ x.life = lives
             /\ x.answer = 409
  <1> DEFINE d == Delivery(e)
             x == Answered(d, 409)
  <1>1. /\ d \in Deliveries /\ d.event = e /\ d.admitted = 0
        /\ d.life = lives /\ d.begun = 0 /\ d.returned = 0
    BY DeliveryType
  <1> HIDE DEF d
  <1>2. /\ x \in Deliveries /\ SameRequest(d, x) /\ x.at = "over"
        /\ x.answer = 409 /\ x.begun = d.begun /\ x.returned = d.returned
    BY <1>1, AnsweredType
  <1>3. 0 <= Messages(e)
    BY MessagesType
  <1> HIDE DEF x
  <1>4. OneAtATime(x) /\ ~WasAdmitted(x)
    BY <1>1, <1>2, <1>3 DEF OneAtATime, WasAdmitted, SameRequest
  <1> QED
    BY <1>1, <1>2, <1>4 DEF SameRequest, x, d
-----------------------------------------------------------------------------
(* The locks as a value.                                                   *)

LEMMA AcquiredIs ==
  ASSUME LocksTyped, NEW e \in Events, now \in Nat
  PROVE  LET l == Acquired(locks, e, now)
         IN  /\ DOMAIN l = DOMAIN locks \cup {e} /\ l[e] = now
             /\ \A k \in DOMAIN locks : k # e => l[k] = locks[k]
             /\ l = [k \in DOMAIN l |-> l[k]]
  BY DEF Acquired

LEMMA CollectedIs ==
  ASSUME LocksTyped
  PROVE  LET l == Collected(locks, now, TtlMs)
         IN  /\ DOMAIN l = {k \in DOMAIN locks : now - locks[k] < TtlMs}
             /\ \A k \in DOMAIN l : l[k] = locks[k]
             /\ l = [k \in DOMAIN l |-> l[k]]
  BY DEF Collected, Held

-----------------------------------------------------------------------------
(* What each step does to the requests.                                    *)

\* The same request, seen later.
Continues(c, d) ==
  /\ d.event = c.event /\ d.admitted = c.admitted /\ d.life = c.life
  /\ WasAdmitted(d) <=> WasAdmitted(c)
  /\ d.answer = 409 <=> c.answer = 409

\* Those that were there go on being the same requests.
GoOn ==
  /\ DOMAIN deliveries' = DOMAIN deliveries
  /\ \A i \in DOMAIN deliveries : Continues(deliveries[i], deliveries'[i])

\* A request joins them.
Joins(x) == deliveries' = Append(deliveries, x)

LEMMA ReceiveCases ==
  ASSUME Typed, NEW e \in Events, NEW s \in Signatures, Receive(e, s)
  PROVE  \/ UNCHANGED <<deliveries, locks>>
         \/ /\ Tracks(e) /\ Held(locks, e, now, TtlMs)
            /\ Joins(Answered(Delivery(e), 409)) /\ UNCHANGED locks
         \/ /\ Tracks(e) => ~Held(locks, e, now, TtlMs)
            /\ Joins(Admitted(Delivery(e)))
            /\ locks' = IF Tracks(e) THEN Acquired(locks, e, now) ELSE locks
  <1>1. deliveries \in Seq(Deliveries)
    BY DEF Typed
  <1>2. \A x \in Deliveries : deliveries \o <<x>> = Append(deliveries, x)
    BY <1>1
  <1>3. /\ deliveries' = deliveries \o Received(e, s)
        /\ locks' = Locks(e, s)
    BY DEF Receive
  <1>4. CASE ~Accepts(s) \/ ~Parses(e)
    <2>1. Received(e, s) = << >>
      BY <1>4 DEF Received
    <2>2. Locks(e, s) = locks
      <3>1. Tracks(e) => Parses(e)
        BY DEF Tracks, Parses
      <3> QED
        BY <1>4, <3>1 DEF Locks
    <2> QED
      BY <1>1, <1>3, <2>1, <2>2
  <1>5. CASE Accepts(s) /\ Parses(e) /\ Tracks(e) /\ Held(locks, e, now, TtlMs)
    <2>1. Received(e, s) = <<Answered(Delivery(e), 409)>> /\ Locks(e, s) = locks
      BY <1>5 DEF Received, Locks
    <2> QED
      BY <1>2, <1>3, <1>5, <2>1, RefusedType DEF Joins
  <1>6. CASE /\ Accepts(s) /\ Parses(e)
             /\ ~(Tracks(e) /\ Held(locks, e, now, TtlMs))
    <2>1. /\ Received(e, s) = <<Admitted(Delivery(e))>>
          /\ Locks(e, s) = IF Tracks(e) THEN Acquired(locks, e, now) ELSE locks
      BY <1>6 DEF Received, Locks
    <2> QED
      BY <1>2, <1>3, <1>6, <2>1, AdmittedType DEF Joins
  <1> QED
    BY <1>4, <1>5, <1>6

LEMMA ResumedType ==
  ASSUME Typed, NEW d \in Deliveries, OneAtATime(d), d.at = "handling"
  PROVE  /\ Resumed(d) \in Deliveries /\ OneAtATime(Resumed(d))
         /\ Continues(d, Resumed(d))
  <1> DEFINE n == d.returned + 1
             r == [d EXCEPT !.returned = n]
             f == Resumed(d)
  <1>1. n \in Nat /\ n > 0
    BY Typing
  <1>2. f = IF Waits THEN Answered(r, 200) ELSE Forwards(r)
    BY DEF Resumed
  <1>3. d.begun = n /\ d.begun <= Messages(d.event) /\ d.begun \in Nat
    BY Typing DEF OneAtATime
  <1>4. d.answer = IF Waits THEN 0 ELSE 200
    BY DEF OneAtATime
  <1> HIDE DEF n
  <1>5. /\ r \in Deliveries /\ SameRequest(d, r) /\ r.answer = d.answer
        /\ r.begun = d.begun /\ r.returned = n
    BY <1>1 DEF Deliveries, SameRequest
  <1> HIDE DEF r, f
  <1>6. d.event \in Events /\ r.event = d.event
    BY <1>5, Typing DEF SameRequest
  <1>7. CASE Waits
    <2>1. f \in Deliveries /\ SameRequest(r, f) /\ f.at = "over"
          /\ f.answer = 200 /\ f.begun = r.begun /\ f.returned = r.returned
      BY <1>2, <1>5, <1>7, AnsweredType
    <2>2. Messages(d.event) = 1 /\ f.event = d.event
      BY <1>6, <1>7, <2>1, MessagesType DEF SameRequest
    <2>3. f.begun = 1 /\ f.returned = 1
      BY <1>1, <1>3, <1>5, <2>1, <2>2
    <2>4. OneAtATime(f)
      BY <2>1, <2>2, <2>3 DEF OneAtATime
    <2>5. Continues(d, f)
      BY <1>4, <1>5, <1>7, <2>1 DEF Continues, SameRequest, WasAdmitted
    <2> QED
      BY <2>1, <2>4, <2>5 DEF f
  <1>8. CASE ~Waits
    <2>1. r.begun = r.returned /\ r.begun <= Messages(r.event) /\ r.answer = 200
      BY <1>3, <1>4, <1>5, <1>6, <1>8
    <2>2. /\ f \in Deliveries /\ SameRequest(r, f) /\ f.answer = r.answer
          /\ OneAtATime(f) /\ WasAdmitted(f)
      BY <1>2, <1>5, <1>8, <2>1, ForwardsType
    <2>3. Continues(d, f)
      BY <1>5, <1>4, <1>8, <2>1, <2>2 DEF Continues, SameRequest, WasAdmitted
    <2> QED
      BY <2>2, <2>3 DEF f
  <1> QED
    BY <1>7, <1>8

LEMMA ThrownType ==
  ASSUME NEW d \in Deliveries, OneAtATime(d), d.at = "handling"
  PROVE  /\ Thrown(d) \in Deliveries /\ OneAtATime(Thrown(d))
         /\ Continues(d, Thrown(d))
  <1> DEFINE g == [d EXCEPT !.at = "failed"]
             a == IF Waits THEN 500 ELSE d.answer
             f == [g EXCEPT !.answer = a]
  <1>1. /\ g \in Deliveries /\ SameRequest(d, g) /\ g.at = "failed"
        /\ g.answer = d.answer /\ g.begun = d.begun /\ g.returned = d.returned
    BY SetAt
  <1>2. Thrown(d) = f
    BY DEF Thrown
  <1>3. a \in {0, 200, 500} /\ d.answer \in {0, 200}
    BY DEF OneAtATime
  <1> HIDE DEF g, a
  <1>4. /\ f \in Deliveries /\ SameRequest(g, f) /\ f.at = "failed"
        /\ f.answer = a /\ f.begun = g.begun /\ f.returned = g.returned
    BY <1>1, <1>3 DEF Deliveries, SameRequest
  <1> HIDE DEF f
  <1>5. OneAtATime(f)
    BY <1>1, <1>4 DEF OneAtATime, SameRequest
  <1>6. Continues(d, f)
    BY <1>1, <1>3, <1>4 DEF Continues, SameRequest, WasAdmitted
  <1> QED
    BY <1>2, <1>4, <1>5, <1>6

\* A request whose process dies is never answered by it.
LEMMA BrokenOffType ==
  ASSUME NEW d \in Deliveries, OneAtATime(d), d.at = "handling"
  PROVE  LET f == [d EXCEPT !.at = "failed"]
         IN  f \in Deliveries /\ OneAtATime(f) /\ Continues(d, f)
  <1> DEFINE f == [d EXCEPT !.at = "failed"]
  <1>1. /\ f \in Deliveries /\ SameRequest(d, f) /\ f.at = "failed"
        /\ f.answer = d.answer /\ f.begun = d.begun /\ f.returned = d.returned
    BY SetAt
  <1> HIDE DEF f
  <1>2. OneAtATime(f)
    BY <1>1 DEF OneAtATime, SameRequest
  <1>3. Continues(d, f)
    BY <1>1 DEF OneAtATime, Continues, SameRequest, WasAdmitted
  <1> QED
    BY <1>1, <1>2, <1>3 DEF f
-----------------------------------------------------------------------------
(* The inductive invariant.                                                *)

\* A lock stands for a request that was admitted, and a request that this
\* process admitted holds its lock for the time to live.
LocksEarned ==
  \A k \in DOMAIN locks :
    \E i \in DOMAIN deliveries :
      deliveries[i].event = k /\ WasAdmitted(deliveries[i])

AdmittedHoldLock ==
  \A i \in DOMAIN deliveries :
    LET d == deliveries[i]
    IN  /\ WasAdmitted(d) /\ Tracks(d.event) /\ d.life = lives
        /\ now - d.admitted < TtlMs
        => d.event \in DOMAIN locks /\ d.admitted <= locks[d.event]

RequestsInv ==
  /\ Typed /\ DeliveriesInOrder
  /\ LocksEarned /\ AdmittedHoldLock
  /\ HandledOncePerTtl /\ DuplicatesWereAdmitted

\* What the properties say of requests depends on the configuration only.
LEMMA OrderKept ==
  ASSUME UNCHANGED config,
         \A i \in DOMAIN deliveries' :
           /\ OneAtATime(deliveries'[i])
           /\ deliveries'[i].admitted <= now' /\ deliveries'[i].life <= lives'
  PROVE  DeliveriesInOrder'
  BY DEF DeliveriesInOrder, OneAtATime, Dated, Messages, Waits, adapter

LEMMA TracksKept ==
  ASSUME UNCHANGED config
  PROVE  \A e : Tracks(e)' <=> Tracks(e)
  BY DEF Tracks, adapter

\* Nothing about the requests that go on changes.
LEMMA OncePerTtlKept ==
  ASSUME HandledOncePerTtl, GoOn, UNCHANGED config
  PROVE  HandledOncePerTtl'
  <1> SUFFICES ASSUME NEW i \in DOMAIN deliveries', NEW j \in DOMAIN deliveries',
                      i # j, deliveries'[i].event = deliveries'[j].event,
                      Tracks(deliveries'[i].event),
                      WasAdmitted(deliveries'[i]), WasAdmitted(deliveries'[j]),
                      deliveries'[i].life = deliveries'[j].life,
                      deliveries'[i].admitted <= deliveries'[j].admitted
               PROVE  deliveries'[j].admitted - deliveries'[i].admitted >= TtlMs
    BY DEF HandledOncePerTtl, Tracks, adapter, WasAdmitted
  <1> QED
    BY DEF GoOn, Continues, HandledOncePerTtl

LEMMA DuplicatesKept ==
  ASSUME DuplicatesWereAdmitted, GoOn
  PROVE  DuplicatesWereAdmitted'
  <1> SUFFICES ASSUME NEW j \in DOMAIN deliveries', deliveries'[j].answer = 409
               PROVE  \E i \in DOMAIN deliveries' :
                        /\ deliveries'[i].event = deliveries'[j].event
                        /\ WasAdmitted(deliveries'[i])
    BY DEF DuplicatesWereAdmitted, WasAdmitted
  <1>1. j \in DOMAIN deliveries /\ deliveries[j].answer = 409
    BY DEF GoOn, Continues
  <1>2. PICK i \in DOMAIN deliveries :
          deliveries[i].event = deliveries[j].event /\ WasAdmitted(deliveries[i])
    BY <1>1 DEF DuplicatesWereAdmitted
  <1> QED
    BY <1>1, <1>2 DEF GoOn, Continues

LEMMA EarnedKept ==
  ASSUME LocksEarned, GoOn, DOMAIN locks' \subseteq DOMAIN locks
  PROVE  LocksEarned'
  <1> SUFFICES ASSUME NEW k \in DOMAIN locks'
               PROVE  \E i \in DOMAIN deliveries' :
                        deliveries'[i].event = k /\ WasAdmitted(deliveries'[i])
    BY DEF LocksEarned, WasAdmitted
  <1>1. PICK i \in DOMAIN deliveries :
          deliveries[i].event = k /\ WasAdmitted(deliveries[i])
    BY DEF LocksEarned
  <1> QED
    BY <1>1 DEF GoOn, Continues

\* The locks of requests that still count are not given up.
LEMMA HoldKept ==
  ASSUME Typed, AdmittedHoldLock, GoOn, UNCHANGED <<config, lives>>,
         now' \in Nat, now <= now',
         \A k \in DOMAIN locks :
           now' - locks[k] < TtlMs => k \in DOMAIN locks' /\ locks'[k] = locks[k]
  PROVE  AdmittedHoldLock'
  <1> SUFFICES ASSUME NEW i \in DOMAIN deliveries',
                      WasAdmitted(deliveries'[i]), Tracks(deliveries'[i].event),
                      deliveries'[i].life = lives,
                      now' - deliveries'[i].admitted < TtlMs
               PROVE  /\ deliveries'[i].event \in DOMAIN locks'
                      /\ deliveries'[i].admitted <= locks'[deliveries'[i].event]
    BY DEF AdmittedHoldLock, Tracks, adapter, WasAdmitted
  <1> DEFINE c == deliveries[i]
             d == deliveries'[i]
  <1>1. /\ i \in DOMAIN deliveries
        /\ d.event = c.event /\ d.admitted = c.admitted /\ d.life = c.life
        /\ WasAdmitted(c)
    BY DEF GoOn, Continues
  <1>2. c.admitted \in Nat /\ c.event \in Events /\ now \in Nat /\ TtlMs \in Nat
    <2>1. c \in Deliveries
      BY <1>1 DEF Typed
    <2> QED
      BY <2>1, Typing, WebhooksAssumption DEF Typed
  <1> HIDE DEF c, d
  <1>3. now - c.admitted < TtlMs
    BY <1>1, <1>2 DEF d
  <1>4. c.event \in DOMAIN locks /\ c.admitted <= locks[c.event]
    BY <1>1, <1>3 DEF AdmittedHoldLock, c, d
  <1>5. locks[c.event] \in Nat
    BY <1>4 DEF Typed, LocksTyped
  <1>6. now' - locks[c.event] < TtlMs
    BY <1>1, <1>2, <1>4, <1>5 DEF d
  <1> QED
    BY <1>1, <1>4, <1>6 DEF d

\* What does not touch the requests or the locks keeps all of it.
LEMMA QuietStep ==
  ASSUME RequestsInv, Typed', GoOn, UNCHANGED <<config, lives>>, now <= now',
         DOMAIN locks' \subseteq DOMAIN locks,
         \A k \in DOMAIN locks :
           now' - locks[k] < TtlMs => k \in DOMAIN locks' /\ locks'[k] = locks[k],
         \A i \in DOMAIN deliveries : OneAtATime(deliveries'[i])
  PROVE  RequestsInv'
  <1>1. now' \in Nat /\ now \in Nat /\ lives \in Nat
    BY WebhooksAssumption DEF Typed, RequestsInv
  <1>2. DeliveriesInOrder'
    <2>1. \A i \in DOMAIN deliveries' :
            /\ deliveries[i] \in Deliveries
            /\ deliveries'[i].admitted = deliveries[i].admitted
            /\ deliveries'[i].life = deliveries[i].life
            /\ deliveries[i].admitted <= now /\ deliveries[i].life <= lives
            /\ OneAtATime(deliveries'[i])
      BY DEF GoOn, Continues, RequestsInv, DeliveriesInOrder, Dated, Typed
    <2>2. \A i \in DOMAIN deliveries' :
            deliveries'[i].admitted <= now' /\ deliveries'[i].life <= lives'
      BY <1>1, <2>1, Typing
    <2> QED
      BY <2>1, <2>2, OrderKept
  <1>3. LocksEarned' /\ DuplicatesWereAdmitted' /\ HandledOncePerTtl'
    BY EarnedKept, DuplicatesKept, OncePerTtlKept DEF RequestsInv
  <1>4. AdmittedHoldLock'
    BY <1>1, HoldKept DEF RequestsInv
  <1> QED
    BY <1>2, <1>3, <1>4 DEF RequestsInv
-----------------------------------------------------------------------------
(* One lemma per step.                                                     *)

LEMMA RequestsInit == Init => RequestsInv
  <1> SUFFICES ASSUME Init PROVE RequestsInv
    OBVIOUS
  <1>1. config \in Configs /\ now = 0 /\ lives = 0
        /\ locks = << >> /\ deliveries = << >>
    BY DEF Init, Configs, NoLocks
  <1>2. DOMAIN locks = {} /\ DOMAIN deliveries = {}
    BY <1>1
  <1>3. Typed
    BY <1>1, <1>2, WebhooksAssumption DEF Typed, LocksTyped
  <1> QED
    BY <1>2, <1>3 DEF RequestsInv, DeliveriesInOrder, LocksEarned,
       AdmittedHoldLock, HandledOncePerTtl, DuplicatesWereAdmitted

LEMMA Unmoved ==
  ASSUME UNCHANGED deliveries
  PROVE  GoOn
  BY DEF GoOn, Continues

\* One request, at work, goes on.
LEMMA OneGoesOn ==
  ASSUME RequestsInv, NEW i \in DOMAIN deliveries, NEW d \in Deliveries,
         OneAtATime(d), Continues(deliveries[i], d),
         deliveries' = [deliveries EXCEPT ![i] = d],
         UNCHANGED <<config, now, locks, lives>>
  PROVE  RequestsInv'
  <1>1. deliveries \in Seq(Deliveries)
    BY DEF RequestsInv, Typed
  <1>2. /\ deliveries' \in Seq(Deliveries)
        /\ DOMAIN deliveries' = DOMAIN deliveries /\ deliveries'[i] = d
        /\ \A j \in DOMAIN deliveries : j # i => deliveries'[j] = deliveries[j]
    BY <1>1
  <1>3. Typed'
    BY <1>2 DEF RequestsInv, Typed, LocksTyped, Configs
  <1>4. GoOn
    BY <1>2 DEF GoOn, Continues
  <1>5. \A j \in DOMAIN deliveries : OneAtATime(deliveries'[j])
    BY <1>2 DEF RequestsInv, DeliveriesInOrder
  <1>6. now \in Nat
    BY WebhooksAssumption DEF RequestsInv, Typed
  <1> QED
    BY <1>3, <1>4, <1>5, <1>6, QuietStep

LEMMA ReturnsKeeps ==
  ASSUME RequestsInv, NEW i \in DOMAIN deliveries, Returns(i) \/ Throws(i)
  PROVE  RequestsInv'
  <1> DEFINE c == deliveries[i]
  <1>1. c \in Deliveries /\ OneAtATime(c) /\ c.at = "handling" /\ Typed
    BY DEF RequestsInv, Typed, DeliveriesInOrder, Returns, Throws
  <1>2. UNCHANGED <<config, now, locks, lives>>
    BY DEF Returns, Throws
  <1>3. CASE Returns(i)
    <2>1. deliveries' = [deliveries EXCEPT ![i] = Resumed(c)]
      BY <1>3 DEF Returns
    <2> HIDE DEF c
    <2>2. /\ Resumed(c) \in Deliveries /\ OneAtATime(Resumed(c))
          /\ Continues(c, Resumed(c))
      BY <1>1, ResumedType
    <2> QED
      BY <1>2, <2>1, <2>2, OneGoesOn DEF c
  <1>4. CASE Throws(i)
    <2>1. deliveries' = [deliveries EXCEPT ![i] = Thrown(c)]
      BY <1>4 DEF Throws
    <2> HIDE DEF c
    <2>2. /\ Thrown(c) \in Deliveries /\ OneAtATime(Thrown(c))
          /\ Continues(c, Thrown(c))
      BY <1>1, ThrownType
    <2> QED
      BY <1>2, <2>1, <2>2, OneGoesOn DEF c
  <1> QED
    BY <1>3, <1>4

LEMMA CollectKeeps ==
  ASSUME RequestsInv, Collect
  PROVE  RequestsInv'
  <1>1. /\ locks' = Collected(locks, now, TtlMs) /\ LocksTyped
        /\ UNCHANGED <<config, now, deliveries, lives>>
    BY DEF Collect, RequestsInv, Typed
  <1>2. /\ DOMAIN locks' = {k \in DOMAIN locks : now - locks[k] < TtlMs}
        /\ \A k \in DOMAIN locks' : locks'[k] = locks[k]
        /\ locks' = [k \in DOMAIN locks' |-> locks'[k]]
    BY <1>1, CollectedIs
  <1>3. Typed'
    BY <1>1, <1>2 DEF RequestsInv, Typed, LocksTyped, Configs
  <1>4. \A j \in DOMAIN deliveries : OneAtATime(deliveries'[j])
    BY <1>1 DEF RequestsInv, DeliveriesInOrder
  <1>5. now \in Nat
    BY WebhooksAssumption DEF RequestsInv, Typed
  <1> QED
    BY <1>1, <1>2, <1>3, <1>4, <1>5, Unmoved, QuietStep

LEMMA TickKeeps ==
  ASSUME RequestsInv, Tick
  PROVE  RequestsInv'
  <1>1. /\ now < MaxTime /\ now' = now + 1
        /\ UNCHANGED <<config, locks, deliveries, lives>>
    BY DEF Tick
  <1>2. now \in Nat /\ MaxTime \in Nat /\ now <= now'
    BY <1>1, WebhooksAssumption DEF RequestsInv, Typed
  <1>3. Typed'
    <2>1. now' \in 0 .. MaxTime
      BY <1>1, <1>2
    <2>2. \A k \in DOMAIN locks : locks[k] \in Nat /\ locks[k] <= now
      BY DEF RequestsInv, Typed, LocksTyped
    <2>3. \A k \in DOMAIN locks : locks[k] <= now'
      BY <1>1, <1>2, <2>2
    <2> QED
      BY <1>1, <2>1, <2>3 DEF RequestsInv, Typed, LocksTyped, Configs
  <1>4. \A j \in DOMAIN deliveries : OneAtATime(deliveries'[j])
    BY <1>1 DEF RequestsInv, DeliveriesInOrder
  <1> QED
    BY <1>1, <1>2, <1>3, <1>4, Unmoved, QuietStep

\* Steps of the server's life that leave requests, locks and time alone.
LEMMA ElsewhereKeeps ==
  ASSUME RequestsInv, UNCHANGED <<config, now, locks, deliveries, lives>>
  PROVE  RequestsInv'
  <1>1. Typed'
    BY DEF RequestsInv, Typed, LocksTyped, Configs
  <1>2. \A j \in DOMAIN deliveries : OneAtATime(deliveries'[j])
    BY DEF RequestsInv, DeliveriesInOrder
  <1>3. now \in Nat
    BY WebhooksAssumption DEF RequestsInv, Typed
  <1> QED
    BY <1>1, <1>2, <1>3, Unmoved, QuietStep

\* The locks go with the process, and no request is of the new one yet.
LEMMA RestartKeeps ==
  ASSUME RequestsInv, Restart
  PROVE  RequestsInv'
  <1> DEFINE Broken(d) == IF d.at = "handling" THEN [d EXCEPT !.at = "failed"] ELSE d
  <1>1. /\ lives' = lives + 1 /\ locks' = << >> /\ UNCHANGED <<config, now>>
        /\ deliveries' = [i \in DOMAIN deliveries |-> Broken(deliveries[i])]
    BY DEF Restart, NoLocks
  <1>2. /\ deliveries \in Seq(Deliveries) /\ lives \in Nat /\ now \in Nat
    BY WebhooksAssumption DEF RequestsInv, Typed
  <1>3. ASSUME NEW i \in DOMAIN deliveries
        PROVE  /\ Broken(deliveries[i]) \in Deliveries
               /\ OneAtATime(Broken(deliveries[i]))
               /\ Continues(deliveries[i], Broken(deliveries[i]))
               /\ deliveries[i].admitted <= now
               /\ deliveries[i].life \in Nat /\ deliveries[i].life <= lives
    <2>1. deliveries[i] \in Deliveries /\ OneAtATime(deliveries[i])
          /\ Dated(deliveries[i])
      BY <1>2 DEF RequestsInv, DeliveriesInOrder
    <2>2. CASE deliveries[i].at = "handling"
      BY <2>1, <2>2, BrokenOffType, Typing DEF Dated
    <2>3. CASE deliveries[i].at # "handling"
      BY <2>1, <2>3, Typing DEF Dated, Continues
    <2> QED
      BY <2>2, <2>3
  <1> HIDE DEF Broken
  <1>4. /\ DOMAIN deliveries' = DOMAIN deliveries
        /\ \A i \in DOMAIN deliveries : deliveries'[i] = Broken(deliveries[i])
        /\ deliveries' \in Seq(Deliveries)
    BY <1>1, <1>2, <1>3
  <1>5. GoOn
    BY <1>3, <1>4 DEF GoOn
  <1>6. DOMAIN locks' = {}
    BY <1>1
  <1>7. Typed'
    BY <1>1, <1>2, <1>4, <1>6 DEF RequestsInv, Typed, LocksTyped, Configs
  <1>8. \A i \in DOMAIN deliveries' :
          /\ OneAtATime(deliveries'[i]) /\ deliveries'[i].admitted <= now'
          /\ deliveries'[i].life <= lives' /\ deliveries'[i].life # lives'
    <2>1. \A i \in DOMAIN deliveries :
            /\ OneAtATime(deliveries'[i]) /\ deliveries'[i].admitted <= now
            /\ deliveries'[i].life \in Nat /\ deliveries'[i].life <= lives
      BY <1>3, <1>4 DEF Continues
    <2> QED
      BY <1>1, <1>2, <1>4, <2>1
  <1>9. DeliveriesInOrder' /\ LocksEarned' /\ AdmittedHoldLock'
    BY <1>1, <1>6, <1>8, OrderKept DEF LocksEarned, AdmittedHoldLock
  <1>10. HandledOncePerTtl' /\ DuplicatesWereAdmitted'
    BY <1>1, <1>5, OncePerTtlKept, DuplicatesKept DEF RequestsInv
  <1> QED
    BY <1>7, <1>9, <1>10 DEF RequestsInv
\* A request that is refused changes nothing but itself.
LEMMA RefusedKeeps ==
  ASSUME RequestsInv, NEW e \in Events, Tracks(e), Held(locks, e, now, TtlMs),
         Joins(Answered(Delivery(e), 409)),
         UNCHANGED <<config, now, locks, lives>>
  PROVE  RequestsInv'
  <1> DEFINE x == Answered(Delivery(e), 409)
             n == Len(deliveries)
  <1>1. /\ x \in Deliveries /\ OneAtATime(x) /\ ~WasAdmitted(x)
        /\ x.event = e /\ x.admitted = 0 /\ x.life = lives /\ x.answer = 409
    BY RefusedType DEF RequestsInv
  <1> HIDE DEF x
  <1>2. /\ deliveries \in Seq(Deliveries) /\ n \in Nat /\ DOMAIN deliveries = 1 .. n
        /\ lives \in Nat /\ now \in Nat
    BY WebhooksAssumption DEF RequestsInv, Typed
  <1>3. deliveries' = Append(deliveries, x)
    BY DEF Joins, x
  <1>4. /\ deliveries' \in Seq(Deliveries) /\ DOMAIN deliveries' = 1 .. (n + 1)
        /\ deliveries'[n + 1] = x
        /\ \A i \in 1 .. n : deliveries'[i] = deliveries[i]
    BY <1>1, <1>2, <1>3
  <1> HIDE DEF n
  <1>5. /\ \A i \in DOMAIN deliveries' : i \in DOMAIN deliveries \/ i = n + 1
        /\ DOMAIN deliveries \subseteq DOMAIN deliveries'
        /\ n + 1 \in DOMAIN deliveries' /\ n + 1 \notin DOMAIN deliveries
    BY <1>2, <1>4
  <1>6. \A i \in DOMAIN deliveries : deliveries'[i] = deliveries[i]
    BY <1>2, <1>4
  <1>7. Typed'
    BY <1>4 DEF RequestsInv, Typed, LocksTyped, Configs
  <1>8. DeliveriesInOrder'
    <2>1. \A i \in DOMAIN deliveries' :
            /\ OneAtATime(deliveries'[i]) /\ deliveries'[i].admitted <= now'
            /\ deliveries'[i].life <= lives'
      BY <1>1, <1>2, <1>4, <1>5, <1>6 DEF RequestsInv, DeliveriesInOrder, Dated
    <2> QED
      BY <2>1, OrderKept
  <1>9. LocksEarned'
    BY <1>5, <1>6 DEF RequestsInv, LocksEarned, WasAdmitted
  <1>10. AdmittedHoldLock'
    <2> SUFFICES ASSUME NEW i \in DOMAIN deliveries',
                        WasAdmitted(deliveries'[i]), Tracks(deliveries'[i].event),
                        deliveries'[i].life = lives,
                        now - deliveries'[i].admitted < TtlMs
                 PROVE  /\ deliveries'[i].event \in DOMAIN locks
                        /\ deliveries'[i].admitted <= locks[deliveries'[i].event]
      BY DEF AdmittedHoldLock, Tracks, adapter, WasAdmitted
    <2>1. i \in DOMAIN deliveries /\ deliveries'[i] = deliveries[i]
      BY <1>1, <1>4, <1>5, <1>6
    <2> QED
      BY <2>1 DEF RequestsInv, AdmittedHoldLock
  <1>11. HandledOncePerTtl'
    <2> SUFFICES ASSUME NEW i \in DOMAIN deliveries', NEW j \in DOMAIN deliveries',
                        i # j, deliveries'[i].event = deliveries'[j].event,
                        Tracks(deliveries'[i].event),
                        WasAdmitted(deliveries'[i]), WasAdmitted(deliveries'[j]),
                        deliveries'[i].life = deliveries'[j].life,
                        deliveries'[i].admitted <= deliveries'[j].admitted
                 PROVE  deliveries'[j].admitted - deliveries'[i].admitted >= TtlMs
      BY DEF HandledOncePerTtl, Tracks, adapter, WasAdmitted
    <2>1. /\ i \in DOMAIN deliveries /\ deliveries'[i] = deliveries[i]
          /\ j \in DOMAIN deliveries /\ deliveries'[j] = deliveries[j]
      BY <1>1, <1>4, <1>5, <1>6
    <2> QED
      BY <2>1 DEF RequestsInv, HandledOncePerTtl
  <1>12. DuplicatesWereAdmitted'
    <2> SUFFICES ASSUME NEW j \in DOMAIN deliveries', deliveries'[j].answer = 409
                 PROVE  \E i \in DOMAIN deliveries' :
                          /\ deliveries'[i].event = deliveries'[j].event
                          /\ WasAdmitted(deliveries'[i])
      BY DEF DuplicatesWereAdmitted, WasAdmitted
    <2>1. \E i \in DOMAIN deliveries :
            deliveries[i].event = deliveries'[j].event /\ WasAdmitted(deliveries[i])
      <3>1. CASE j \in DOMAIN deliveries
        BY <1>6, <3>1 DEF RequestsInv, DuplicatesWereAdmitted
      <3>2. CASE j = n + 1
        <4>1. e \in DOMAIN locks
          BY DEF Held
        <4> QED
          BY <1>1, <1>4, <3>2, <4>1 DEF RequestsInv, LocksEarned
      <3> QED
        BY <1>5, <3>1, <3>2
    <2> QED
      BY <1>5, <1>6, <2>1
  <1> QED
    BY <1>7, <1>8, <1>9, <1>10, <1>11, <1>12 DEF RequestsInv

\* A request is admitted when no lock is held, so what was admitted for its
\* event before, by this process, was so at least a time to live ago.
LEMMA AdmittedKeeps ==
  ASSUME RequestsInv, NEW e \in Events,
         Tracks(e) => ~Held(locks, e, now, TtlMs),
         Joins(Admitted(Delivery(e))),
         locks' = IF Tracks(e) THEN Acquired(locks, e, now) ELSE locks,
         UNCHANGED <<config, now, lives>>
  PROVE  RequestsInv'
  <1> DEFINE x == Admitted(Delivery(e))
             n == Len(deliveries)
  <1>1. /\ x \in Deliveries /\ OneAtATime(x) /\ WasAdmitted(x)
        /\ x.event = e /\ x.admitted = now /\ x.life = lives /\ x.answer # 409
    BY AdmittedType DEF RequestsInv
  <1> HIDE DEF x
  <1>2. /\ deliveries \in Seq(Deliveries) /\ n \in Nat /\ DOMAIN deliveries = 1 .. n
        /\ lives \in Nat /\ now \in Nat /\ TtlMs \in Nat /\ TtlMs > 0
    BY WebhooksAssumption DEF RequestsInv, Typed
  <1>3. deliveries' = Append(deliveries, x)
    BY DEF Joins, x
  <1>4. /\ deliveries' \in Seq(Deliveries) /\ DOMAIN deliveries' = 1 .. (n + 1)
        /\ deliveries'[n + 1] = x
        /\ \A i \in 1 .. n : deliveries'[i] = deliveries[i]
    BY <1>1, <1>2, <1>3
  <1> HIDE DEF n
  <1>5. /\ \A i \in DOMAIN deliveries' : i \in DOMAIN deliveries \/ i = n + 1
        /\ DOMAIN deliveries \subseteq DOMAIN deliveries'
        /\ n + 1 \in DOMAIN deliveries' /\ n + 1 \notin DOMAIN deliveries
    BY <1>2, <1>4
  <1>6. \A i \in DOMAIN deliveries : deliveries'[i] = deliveries[i]
    BY <1>2, <1>4
  <1>7. /\ DOMAIN locks' = DOMAIN locks \cup (IF Tracks(e) THEN {e} ELSE {})
        /\ Tracks(e) => locks'[e] = now
        /\ \A k \in DOMAIN locks : k # e \/ ~Tracks(e) => locks'[k] = locks[k]
        /\ locks' = [k \in DOMAIN locks' |-> locks'[k]]
    <2>1. LocksTyped
      BY DEF RequestsInv, Typed
    <2> QED
      BY <1>2, <2>1, AcquiredIs DEF LocksTyped
  <1>8. \A k \in DOMAIN locks : locks[k] \in Nat /\ locks[k] <= now
    BY DEF RequestsInv, Typed, LocksTyped
  <1>9. Typed'
    <2>1. LocksTyped'
      <3>1. DOMAIN locks' \subseteq Events
        BY <1>7 DEF RequestsInv, Typed, LocksTyped
      <3>2. \A k \in DOMAIN locks' : locks'[k] \in Nat /\ locks'[k] <= now
        BY <1>2, <1>7, <1>8
      <3> QED
        BY <1>7, <3>1, <3>2 DEF LocksTyped
    <2> QED
      BY <1>4, <2>1 DEF RequestsInv, Typed, Configs
  <1>10. DeliveriesInOrder'
    <2>1. \A i \in DOMAIN deliveries' :
            /\ OneAtATime(deliveries'[i]) /\ deliveries'[i].admitted <= now'
            /\ deliveries'[i].life <= lives'
      BY <1>1, <1>2, <1>4, <1>5, <1>6 DEF RequestsInv, DeliveriesInOrder, Dated
    <2> QED
      BY <2>1, OrderKept
  <1>11. LocksEarned'
    <2> SUFFICES ASSUME NEW k \in DOMAIN locks'
                 PROVE  \E i \in DOMAIN deliveries' :
                          deliveries'[i].event = k /\ WasAdmitted(deliveries'[i])
      BY DEF LocksEarned, WasAdmitted
    <2>1. CASE k = e
      BY <1>1, <1>4, <1>5, <2>1
    <2>2. CASE k # e
      <3>1. PICK i \in DOMAIN deliveries :
              deliveries[i].event = k /\ WasAdmitted(deliveries[i])
        BY <1>7, <2>2 DEF RequestsInv, LocksEarned
      <3> QED
        BY <1>5, <1>6, <3>1
    <2> QED
      BY <2>1, <2>2
  <1>12. AdmittedHoldLock'
    <2> SUFFICES ASSUME NEW i \in DOMAIN deliveries',
                        WasAdmitted(deliveries'[i]), Tracks(deliveries'[i].event),
                        deliveries'[i].life = lives,
                        now - deliveries'[i].admitted < TtlMs
                 PROVE  /\ deliveries'[i].event \in DOMAIN locks'
                        /\ deliveries'[i].admitted <= locks'[deliveries'[i].event]
      BY DEF AdmittedHoldLock, Tracks, adapter, WasAdmitted
    <2>1. CASE i = n + 1
      BY <1>1, <1>2, <1>4, <1>7, <2>1
    <2>2. CASE i \in DOMAIN deliveries
      <3>1. /\ deliveries'[i] = deliveries[i]
            /\ deliveries[i].event \in DOMAIN locks
            /\ deliveries[i].admitted <= locks[deliveries[i].event]
        BY <1>6, <2>2 DEF RequestsInv, AdmittedHoldLock
      <3>2. deliveries[i].admitted \in Nat /\ deliveries[i].admitted <= now
        <4>1. deliveries[i] \in Deliveries
          BY <1>2, <2>2
        <4> QED
          BY <2>2, <4>1, Typing DEF RequestsInv, DeliveriesInOrder, Dated
      <3> QED
        BY <1>2, <1>7, <1>8, <3>1, <3>2
    <2> QED
      BY <1>5, <2>1, <2>2
  <1>13. ASSUME NEW i \in DOMAIN deliveries, WasAdmitted(deliveries[i]),
                deliveries[i].event = e, Tracks(e), deliveries[i].life = lives
         PROVE  deliveries[i].admitted \in Nat /\ now - deliveries[i].admitted >= TtlMs
    <2>1. deliveries[i] \in Deliveries
      BY <1>2
    <2>2. deliveries[i].admitted \in Nat
      BY <2>1, Typing
    <2>3. now - deliveries[i].admitted < TtlMs =>
            e \in DOMAIN locks /\ deliveries[i].admitted <= locks[e]
      BY <1>13 DEF RequestsInv, AdmittedHoldLock
    <2>4. e \in DOMAIN locks => now - locks[e] >= TtlMs
      BY <1>2, <1>8, <1>13 DEF Held
    <2> QED
      BY <1>2, <1>8, <2>2, <2>3, <2>4
  <1>14. HandledOncePerTtl'
    <2> SUFFICES ASSUME NEW i \in DOMAIN deliveries', NEW j \in DOMAIN deliveries',
                        i # j, deliveries'[i].event = deliveries'[j].event,
                        Tracks(deliveries'[i].event),
                        WasAdmitted(deliveries'[i]), WasAdmitted(deliveries'[j]),
                        deliveries'[i].life = deliveries'[j].life,
                        deliveries'[i].admitted <= deliveries'[j].admitted
                 PROVE  deliveries'[j].admitted - deliveries'[i].admitted >= TtlMs
      BY DEF HandledOncePerTtl, Tracks, adapter, WasAdmitted
    <2>1. CASE i \in DOMAIN deliveries /\ j \in DOMAIN deliveries
      BY <1>6, <2>1 DEF RequestsInv, HandledOncePerTtl
    <2>2. CASE i \in DOMAIN deliveries /\ j = n + 1
      BY <1>1, <1>4, <1>6, <1>13, <2>2
    <2>3. CASE i = n + 1 /\ j \in DOMAIN deliveries
      <3>1. /\ deliveries'[i].admitted = now
            /\ deliveries[j].admitted \in Nat
            /\ now - deliveries[j].admitted >= TtlMs
        BY <1>1, <1>4, <1>6, <1>13, <2>3
      <3>2. now <= deliveries[j].admitted
        BY <1>6, <2>3, <3>1
      <3> QED
        BY <1>2, <3>1, <3>2
    <2> QED
      BY <1>5, <2>1, <2>2, <2>3
  <1>15. DuplicatesWereAdmitted'
    <2> SUFFICES ASSUME NEW j \in DOMAIN deliveries', deliveries'[j].answer = 409
                 PROVE  \E i \in DOMAIN deliveries' :
                          /\ deliveries'[i].event = deliveries'[j].event
                          /\ WasAdmitted(deliveries'[i])
      BY DEF DuplicatesWereAdmitted, WasAdmitted
    <2>1. j \in DOMAIN deliveries
      BY <1>1, <1>4, <1>5
    <2>2. \E i \in DOMAIN deliveries :
            deliveries[i].event = deliveries[j].event /\ WasAdmitted(deliveries[i])
      BY <1>6, <2>1 DEF RequestsInv, DuplicatesWereAdmitted
    <2> QED
      BY <1>5, <1>6, <2>1, <2>2
  <1> QED
    BY <1>9, <1>10, <1>11, <1>12, <1>14, <1>15 DEF RequestsInv

LEMMA RequestsStep ==
  ASSUME RequestsInv, Next
  PROVE  RequestsInv'
  <1>1. ASSUME NEW e \in Events, NEW s \in Signatures, Receive(e, s)
        PROVE  RequestsInv'
    <2>1. UNCHANGED <<config, now, lives>> /\ Typed
      BY <1>1 DEF Receive, RequestsInv
    <2> QED
      BY <1>1, <2>1, ReceiveCases, ElsewhereKeeps, RefusedKeeps, AdmittedKeeps
  <1>2. ASSUME NEW i \in DOMAIN deliveries, Returns(i) \/ Throws(i)
        PROVE  RequestsInv'
    BY <1>2, ReturnsKeeps
  <1>3. ASSUME Post \/ Start \/ Stop PROVE RequestsInv'
    BY <1>3, ElsewhereKeeps DEF Post, Start, Stop
  <1>4. ASSUME NEW j \in DOMAIN calls, CallDone(j) PROVE RequestsInv'
    BY <1>4, ElsewhereKeeps DEF CallDone
  <1> QED
    BY <1>1, <1>2, <1>3, <1>4, CollectKeeps, TickKeeps, RestartKeeps DEF Next

LEMMA RequestsHold == Spec => []RequestsInv
  <1>1. RequestsInv /\ [Next]_vars => RequestsInv'
    <2>1. RequestsInv /\ UNCHANGED vars => RequestsInv'
      BY ElsewhereKeeps DEF vars
    <2> QED
      BY <2>1, RequestsStep
  <1> QED
    BY <1>1, RequestsInit, PTL DEF Spec

-----------------------------------------------------------------------------
(* What follows.                                                           *)

(***************************************************************************)
(* WebhookServer and the Telegram bot handle an event at most once per     *)
(* TTL, for any TTL and any number of deliveries, early, late or again.    *)
(***************************************************************************)
THEOREM EventsHandledOnce == Spec => []HandledOncePerTtl
  <1>1. RequestsInv => HandledOncePerTtl
    BY DEF RequestsInv
  <1> QED
    BY <1>1, RequestsHold, PTL

(***************************************************************************)
(* A request refused as a duplicate has another that was admitted.         *)
(***************************************************************************)
THEOREM RefusalsAreDuplicates == Spec => []DuplicatesWereAdmitted
  <1>1. RequestsInv => DuplicatesWereAdmitted
    BY DEF RequestsInv
  <1> QED
    BY <1>1, RequestsHold, PTL

(***************************************************************************)
(* However large the batch, one that broke off cost at most one message    *)
(* that was read and not answered, and one that ended was offered in full. *)
(***************************************************************************)
THEOREM BatchesLoseOne == Spec => []ReadMessagesOffered
  <1>1. RequestsInv => ReadMessagesOffered
    <2> SUFFICES ASSUME RequestsInv, NEW i \in DOMAIN deliveries, config.delegates
                 PROVE  LET d == deliveries[i]
                        IN  /\ d.begun - d.returned <= 1
                            /\ d.at = "over" /\ d.answer = 200 =>
                                 d.returned = Messages(d.event)
      BY DEF ReadMessagesOffered
    <2> DEFINE d == deliveries[i]
    <2>1. d \in Deliveries /\ OneAtATime(d)
      BY DEF RequestsInv, Typed, DeliveriesInOrder
    <2> HIDE DEF d
    <2>2. /\ d.begun \in Nat /\ d.returned \in Nat
          /\ d.at \in {"handling", "over", "failed"}
      BY <2>1, Typing DEF OneAtATime
    <2>3. CASE d.at \in {"handling", "failed"}
      BY <2>1, <2>2, <2>3 DEF OneAtATime, d
    <2>4. CASE d.at = "over"
      BY <2>1, <2>2, <2>4 DEF OneAtATime, d
    <2> QED
      BY <2>2, <2>3, <2>4 DEF d
  <1> QED
    BY <1>1, RequestsHold, PTL

-----------------------------------------------------------------------------
(* The registration with Telegram.  Undisturbed, one call is under way at  *)
(* most, and it says what the server last did.                             *)

RegistrationInv ==
  /\ calls \in Seq({"setWebhook", "deleteWebhook"}) /\ running \in BOOLEAN
  /\ adapter = "telegram" /\ ~disturbed =>
       \/ calls = << >> /\ (registered <=> running)
       \/ Len(calls) = 1 /\ (calls[1] = "setWebhook" <=> running)

LEMMA CallIsLast ==
  ASSUME RegistrationInv, NEW c \in {"setWebhook", "deleteWebhook"}, Calls(c)
  PROVE  /\ calls' \in Seq({"setWebhook", "deleteWebhook"})
         /\ ~disturbed' => Len(calls') = 1 /\ calls'[1] = c
  <1>1. /\ calls \in Seq({"setWebhook", "deleteWebhook"})
        /\ calls' = Append(calls, c) /\ disturbed' = (calls # << >>)
    BY DEF RegistrationInv, Calls
  <1>2. ~disturbed' => calls = << >>
    BY <1>1
  <1>3. calls' \in Seq({"setWebhook", "deleteWebhook"})
    BY <1>1
  <1>4. calls = << >> => Len(calls') = 1 /\ calls'[1] = c
    BY <1>1
  <1> QED
    BY <1>2, <1>3, <1>4

LEMMA RegistrationStep ==
  ASSUME RegistrationInv, Next
  PROVE  RegistrationInv'
  <1> USE DEF server
  <1>1. ASSUME UNCHANGED <<config, server>> PROVE RegistrationInv'
    BY <1>1 DEF RegistrationInv, adapter
  <1>2. ASSUME Start PROVE RegistrationInv'
    BY <1>2, CallIsLast DEF Start, RegistrationInv, adapter
  <1>3. ASSUME Stop PROVE RegistrationInv'
    BY <1>3, CallIsLast DEF Stop, RegistrationInv, adapter
  <1>4. ASSUME NEW j \in DOMAIN calls, CallDone(j) PROVE RegistrationInv'
    <2>1. calls' \in Seq({"setWebhook", "deleteWebhook"})
      BY <1>4 DEF CallDone, Without, RegistrationInv
    <2>2. ASSUME adapter = "telegram", ~disturbed'
          PROVE  calls' = << >> /\ (registered' <=> running)
      <3>1. ~disturbed /\ registered' = (calls[j] = "setWebhook")
        BY <1>4, <2>2 DEF CallDone
      <3>2. Len(calls) = 1 /\ (calls[1] = "setWebhook" <=> running) /\ j = 1
        BY <2>2, <3>1 DEF RegistrationInv
      <3>3. calls' = << >>
        BY <1>4, <3>2 DEF CallDone, Without, RegistrationInv
      <3> QED
        BY <3>1, <3>2, <3>3
    <2> QED
      BY <1>4, <2>1, <2>2 DEF CallDone, RegistrationInv, adapter
  <1>5. ASSUME Restart PROVE RegistrationInv'
    <2>1. running' = FALSE /\ calls' = << >> /\ disturbed' = TRUE
      BY <1>5 DEF Restart
    <2>2. << >> \in Seq({"setWebhook", "deleteWebhook"})
      OBVIOUS
    <2> QED
      BY <2>1, <2>2 DEF RegistrationInv
  <1>6. ASSUME NEW e \in Events, NEW s \in Signatures, Receive(e, s)
        PROVE  UNCHANGED <<config, server>>
    BY <1>6 DEF Receive
  <1>7. ASSUME NEW i \in DOMAIN deliveries, Returns(i) \/ Throws(i)
        PROVE  UNCHANGED <<config, server>>
    BY <1>7 DEF Returns, Throws
  <1>8. ASSUME Collect \/ Post \/ Tick PROVE UNCHANGED <<config, server>>
    BY <1>8 DEF Collect, Post, Tick
  <1> HIDE DEF server
  <1> QED
    BY <1>1, <1>2, <1>3, <1>4, <1>5, <1>6, <1>7, <1>8 DEF Next

(***************************************************************************)
(* However often the bot starts and stops, Telegram delivers to it exactly *)
(* while it runs, as long as its calls succeed one after the other.        *)
(***************************************************************************)
THEOREM RegistrationsFollow == Spec => []RegistrationFollowsServer
  <1>1. Init => RegistrationInv
    <2>1. Init => running = FALSE /\ registered = FALSE /\ calls = << >>
      BY DEF Init
    <2>2. << >> \in Seq({"setWebhook", "deleteWebhook"})
      OBVIOUS
    <2> QED
      BY <2>1, <2>2 DEF RegistrationInv
  <1>2. RegistrationInv /\ [Next]_vars => RegistrationInv'
    <2>1. RegistrationInv /\ UNCHANGED vars => RegistrationInv'
      BY DEF vars, server, RegistrationInv, adapter
    <2> QED
      BY <2>1, RegistrationStep
  <1>3. RegistrationInv => RegistrationFollowsServer
    BY DEF RegistrationInv, RegistrationFollowsServer
  <1> QED
    BY <1>1, <1>2, <1>3, PTL DEF Spec
=============================================================================

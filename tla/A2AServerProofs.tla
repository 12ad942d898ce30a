-------------------------- MODULE A2AServerProofs ---------------------------
(***************************************************************************)
(* Proofs about A2AServer, for any numbers of requests, tasks and calls of *)
(* shutdown().                                                             *)
(***************************************************************************)
EXTENDS A2AServer, FiniteSetTheorems, TLAPS

-----------------------------------------------------------------------------
(* The inductive invariant.                                                *)

\* What a request's phase says of it and of its task.
InOrder(q) ==
  /\ q.phase \in {"unused", "arrived"} =>
       q.kind = "none" /\ q.task = NoTask /\ q.finals = 0
  /\ q.phase \notin {"unused", "arrived"} =>
       q.kind # "none" /\ q.task \in TaskIds
  /\ q.phase = "running" =>
       q.kind \in {"sync", "push", "stream"} /\ q.finals \in 0 .. 1
  /\ q.phase \in {"open", "broken"} => q.kind = "subscribe"
  /\ q.phase = "open" => store[q.task] \notin FinalStates
  /\ q.kind \in {"stream", "subscribe"} /\ q.phase = "ended" => q.finals > 0

RequestsInOrder == \A r \in Requests : InOrder(req[r])

\* A woken call was woken with the counters at zero or by its timer, and
\* nothing is admitted after the first call.
CallInOrder(c) ==
  /\ c.phase # "idle" => shuttingDown
  /\ ~stopped /\ c.phase \in {"woken", "returned"} /\ ~c.late =>
       Drained(inflightSync, inflightStream)
  /\ ~stopped /\ c.phase \in {"draining", "queued"} =>
       ~Drained(inflightSync, inflightStream)

CallsInOrder == \A c \in Callers : CallInOrder(call[c])

\* The only request that ever ran on its task has the task's controller.
ControllersKept ==
  \A r \in Requests :
    req[r].phase = "running" /\ NamedOnce(r) => controllers[req[r].task] = r

ServerInv ==
  TypeOK /\ RequestsInOrder /\ CallsInOrder /\ ControllersKept /\ CountersMatch

-----------------------------------------------------------------------------
(* Counting.                                                               *)

Bit(q, k, p) == IF q.kind = k /\ q.phase \in p THEN 1 ELSE 0

Sync(q) == Bit(q, "sync", {"running"})

Stream(q) ==
  Bit(q, "stream", {"running"}) + Bit(q, "subscribe", {"open", "broken"})

LEMMA CountedFinite ==
  ASSUME NEW k, NEW p
  PROVE  /\ IsFiniteSet(Counted(k, p)) /\ Cardinality(Counted(k, p)) \in Nat
  <1>1. Counted(k, p) \in SUBSET Requests
    BY DEF Counted
  <1>2. IsFiniteSet(Counted(k, p))
    BY <1>1, FS_Subset, A2AServerAssumption
  <1> QED
    BY <1>2, FS_CardinalityType

\* One request changes: the count changes by what it counted for.
LEMMA CountedChanges ==
  ASSUME TypeOK, NEW r \in Requests, NEW g \in Request,
         req' = [req EXCEPT ![r] = g], NEW k, NEW p
  PROVE  Cardinality(Counted(k, p)') =
           Cardinality(Counted(k, p)) + Bit(g, k, p) - Bit(req[r], k, p)
  <1> DEFINE S == Counted(k, p)
             T == Counted(k, p)'
  <1>1. \A q \in Requests : req'[q] = IF q = r THEN g ELSE req[q]
    BY DEF TypeOK
  <1>2. IsFiniteSet(S) /\ Cardinality(S) \in Nat
    BY CountedFinite
  <1>3. CASE r \in S /\ Bit(g, k, p) = 1
    <2>1. T = S /\ Bit(req[r], k, p) = 1
      BY <1>1, <1>3 DEF Counted, Bit
    <2> QED
      BY <2>1, <1>2, <1>3
  <1>4. CASE r \in S /\ Bit(g, k, p) = 0
    <2>1. T = S \ {r} /\ Bit(req[r], k, p) = 1
      BY <1>1, <1>4 DEF Counted, Bit
    <2>2. Cardinality(S \ {r}) = Cardinality(S) - 1
      BY <1>2, <1>4, FS_RemoveElement
    <2> QED
      BY <2>1, <2>2, <1>2, <1>4
  <1>5. CASE r \notin S /\ Bit(g, k, p) = 1
    <2>1. T = S \cup {r} /\ Bit(req[r], k, p) = 0
      BY <1>1, <1>5 DEF Counted, Bit
    <2>2. Cardinality(S \cup {r}) = Cardinality(S) + 1
      BY <1>2, <1>5, FS_AddElement
    <2> QED
      BY <2>1, <2>2, <1>2, <1>5
  <1>6. CASE r \notin S /\ Bit(g, k, p) = 0
    <2>1. T = S /\ Bit(req[r], k, p) = 0
      BY <1>1, <1>6 DEF Counted, Bit
    <2> QED
      BY <2>1, <1>2, <1>6
  <1> QED
    BY <1>3, <1>4, <1>5, <1>6 DEF Bit

\* The counters go with a request that changes.
LEMMA CountersFollow ==
  ASSUME TypeOK, CountersMatch, stopped' = stopped,
         NEW r \in Requests, NEW g \in Request, req' = [req EXCEPT ![r] = g],
         inflightSync' = inflightSync + Sync(g) - Sync(req[r]),
         inflightStream' = inflightStream + Stream(g) - Stream(req[r])
  PROVE  CountersMatch'
  <1> DEFINE C(k, p) == Cardinality(Counted(k, p))
  <1>1. \A k, p : C(k, p) \in Nat
    BY CountedFinite
  <1>2. /\ C("sync", {"running"})' = C("sync", {"running"}) + Sync(g) - Sync(req[r])
        /\ C("stream", {"running"})' = C("stream", {"running"})
             + Bit(g, "stream", {"running"}) - Bit(req[r], "stream", {"running"})
        /\ C("subscribe", {"open", "broken"})' = C("subscribe", {"open", "broken"})
             + Bit(g, "subscribe", {"open", "broken"})
             - Bit(req[r], "subscribe", {"open", "broken"})
    BY CountedChanges DEF Sync
  <1>3. SUFFICES ASSUME ~stopped PROVE CountersMatch'
    BY DEF CountersMatch
  <1>4. /\ inflightSync = C("sync", {"running"})
        /\ inflightStream = C("stream", {"running"}) + C("subscribe", {"open", "broken"})
    BY <1>3 DEF CountersMatch
  <1>5. \A q, k, p : Bit(q, k, p) \in 0 .. 1
    BY DEF Bit
  <1>6. inflightSync' = C("sync", {"running"})'
    BY <1>1, <1>2, <1>4, <1>5 DEF Sync
  <1>7. inflightStream' =
          C("stream", {"running"})' + C("subscribe", {"open", "broken"})'
    BY <1>1, <1>2, <1>4, <1>5 DEF Stream
  <1> QED
    BY <1>6, <1>7 DEF CountersMatch

-----------------------------------------------------------------------------
(* The calls of shutdown().                                                *)

ServerTypeOK ==
  /\ inflightSync \in Int /\ inflightStream \in Int
  /\ {shuttingDown, listening, stopped} \subseteq BOOLEAN
  /\ call \in [Callers -> Call]

CallsInv == ServerTypeOK /\ CallsInOrder

LEMMA CallsRest ==
  ASSUME ServerInv, UNCHANGED server
  PROVE  CallsInv'
  BY DEF ServerInv, TypeOK, CallsInv, ServerTypeOK, CallsInOrder, CallInOrder,
         server

\* Counting up: there was no call yet.
LEMMA CallsCount ==
  ASSUME ServerInv, NEW m \in Nat, NEW n \in Nat, ~shuttingDown, Count(m, n)
  PROVE  CallsInv'
  BY DEF ServerInv, TypeOK, Count, CallsInv, ServerTypeOK, CallsInOrder,
         CallInOrder

\* Counting down: whoever waited for the last one is woken.
LEMMA CallsUncount ==
  ASSUME ServerInv, NEW m \in Nat, NEW n \in Nat, Uncount(m, n)
  PROVE  CallsInv'
  <1>1. /\ inflightSync' = inflightSync - m /\ inflightStream' = inflightStream - n
        /\ inflightSync \in Int /\ inflightStream \in Int
        /\ UNCHANGED <<shuttingDown, listening, stopped>>
        /\ call \in [Callers -> Call]
    BY DEF Uncount, ServerInv, TypeOK
  <1>2. \A c \in Callers :
          call'[c] = IF Drained(inflightSync', inflightStream')
                        /\ call[c].phase \in {"draining", "queued"}
                     THEN [call[c] EXCEPT !.phase = "woken"] ELSE call[c]
    BY <1>1 DEF Uncount, ResolveDrainWaiters
  <1>3. call' \in [Callers -> Call]
    BY <1>1 DEF Uncount, ResolveDrainWaiters, Call, CallPhases
  <1>4. ServerTypeOK'
    BY <1>1, <1>3 DEF ServerInv, TypeOK, ServerTypeOK
  <1>5. ASSUME NEW c \in Callers PROVE CallInOrder(call[c])'
    <2>1. CallInOrder(call[c]) /\ call[c] \in Call
      BY <1>1 DEF ServerInv, CallsInOrder
    <2>2. Drained(inflightSync, inflightStream) =>
            Drained(inflightSync', inflightStream')
      BY <1>1 DEF Drained
    <2>3. CASE call'[c] = call[c]
      BY <1>1, <1>2, <2>1, <2>2, <2>3 DEF CallInOrder, Call, CallPhases
    <2>4. CASE /\ Drained(inflightSync', inflightStream')
               /\ call[c].phase \in {"draining", "queued"}
      BY <1>1, <1>2, <2>1, <2>4 DEF CallInOrder, Call, CallPhases
    <2> QED
      BY <1>2, <2>3, <2>4
  <1> QED
    BY <1>4, <1>5 DEF CallsInv, CallsInOrder

-----------------------------------------------------------------------------
(* One request changes.                                                    *)

\* A request is named once, and its controller changes only where it was
\* named or is done.
LEMMA ControllersFollow ==
  ASSUME ServerInv, NEW r \in Requests, NEW g \in Request,
         req' = [req EXCEPT ![r] = g],
         req[r].task = NoTask \/ (g.task = req[r].task /\ g.kind = req[r].kind),
         \A t \in TaskIds :
           controllers'[t] # controllers[t] => t = g.task /\ g.kind # "subscribe",
         g.phase = "running" =>
           \/ controllers'[g.task] = r
           \/ /\ req[r].phase = "running" /\ g.task = req[r].task
              /\ controllers' = controllers
  PROVE  ControllersKept'
  <1>1. \A q \in Requests : req'[q] = IF q = r THEN g ELSE req[q]
    BY DEF ServerInv, TypeOK
  <1> SUFFICES ASSUME NEW q \in Requests,
                      req'[q].phase = "running", NamedOnce(q)'
               PROVE  controllers'[req'[q].task] = q
    BY DEF ControllersKept
  <1>2. CASE q # r
    <2>1. req'[q] = req[q] /\ req[q].task \in TaskIds /\ req[q].task # NoTask
      BY <1>1, <1>2, A2AServerAssumption DEF ServerInv, RequestsInOrder, InOrder
    <2>2. g.task = req[q].task => g.kind = "subscribe"
      BY <1>1, <1>2, <2>1 DEF NamedOnce
    <2>3. NamedOnce(q)
      BY <1>1, <2>1, <2>2 DEF NamedOnce
    <2>4. controllers[req[q].task] = q
      BY <2>1, <2>3 DEF ServerInv, ControllersKept
    <2> QED
      BY <2>1, <2>2, <2>4
  <1>3. CASE q = r /\ controllers' = controllers /\ req[r].phase = "running"
             /\ g.task = req[r].task
    <2>1. NamedOnce(r)
      BY <1>1, <1>3 DEF NamedOnce
    <2> QED
      BY <1>1, <1>3, <2>1 DEF ServerInv, ControllersKept
  <1> QED
    BY <1>1, <1>2, <1>3

LEMMA RequestMoves ==
  ASSUME ServerInv, NEW r \in Requests, NEW g \in Request,
         req' = [req EXCEPT ![r] = g], InOrder(g), UNCHANGED store,
         controllers' \in [TaskIds -> Requests \cup {NoRequest}],
         ControllersKept', CallsInv', stopped' = stopped,
         inflightSync' = inflightSync + Sync(g) - Sync(req[r]),
         inflightStream' = inflightStream + Stream(g) - Stream(req[r])
  PROVE  ServerInv'
  <1>1. TypeOK'
    BY DEF ServerInv, TypeOK, CallsInv, ServerTypeOK
  <1>2. \A q \in Requests : req'[q] = IF q = r THEN g ELSE req[q]
    BY DEF ServerInv, TypeOK
  <1>3. RequestsInOrder'
    BY <1>2 DEF ServerInv, RequestsInOrder, InOrder
  <1>4. CountersMatch'
    BY CountersFollow DEF ServerInv
  <1> QED
    BY <1>1, <1>3, <1>4 DEF ServerInv, CallsInv

\* A request that arrived is read: its kind, task and phase are known.
LEMMA RequestRead ==
  ASSUME ServerInv, NEW r \in Requests, NEW t \in TaskIds,
         NEW k \in {"sync", "push", "stream", "subscribe"},
         NEW p \in {"running", "open", "broken", "refused"},
         p = "running" => k # "subscribe",
         p \in {"open", "broken"} => k = "subscribe",
         p = "open" => store[t] \notin FinalStates,
         req[r].phase = "arrived", Becomes(r, k, t, p), UNCHANGED store,
         \/ controllers' = controllers /\ p # "running"
         \/ controllers' = [controllers EXCEPT ![t] = r] /\ k # "subscribe"
         \/ /\ controllers' = [controllers EXCEPT ![t] = NoRequest]
            /\ k # "subscribe" /\ p # "running",
         CallsInv', stopped' = stopped,
         inflightSync' = inflightSync +
           (IF k = "sync" /\ p = "running" THEN 1 ELSE 0),
         inflightStream' = inflightStream +
           (IF (k = "stream" /\ p = "running") \/ p \in {"open", "broken"}
            THEN 1 ELSE 0)
  PROVE  ServerInv'
  <1> DEFINE g == [req[r] EXCEPT !.kind = k, !.task = t, !.phase = p]
  <1>1. req[r] \in Request /\ req[r].kind = "none" /\ req[r].task = NoTask
        /\ req[r].finals = 0
    BY DEF ServerInv, TypeOK, RequestsInOrder, InOrder
  <1>2. /\ g \in Request /\ g.kind = k /\ g.task = t /\ g.phase = p
        /\ g.finals = 0
    BY <1>1 DEF Request, Kinds, Phases
  <1>3. req' = [req EXCEPT ![r] = g]
    BY DEF Becomes
  <1> HIDE DEF g
  <1>4. InOrder(g)
    BY <1>2 DEF InOrder
  <1>5. controllers' \in [TaskIds -> Requests \cup {NoRequest}]
    BY DEF ServerInv, TypeOK
  <1>6. ControllersKept'
    <2>1. \A u \in TaskIds :
            controllers'[u] # controllers[u] => u = g.task /\ g.kind # "subscribe"
      BY <1>2 DEF ServerInv, TypeOK
    <2>2. g.phase = "running" => controllers'[g.task] = r
      BY <1>2 DEF ServerInv, TypeOK
    <2> QED
      BY <1>1, <1>2, <1>3, <2>1, <2>2, ControllersFollow
  <1>7. /\ Sync(req[r]) = 0 /\ Stream(req[r]) = 0
        /\ Sync(g) = (IF k = "sync" /\ p = "running" THEN 1 ELSE 0)
        /\ Stream(g) = (IF (k = "stream" /\ p = "running") \/ p \in {"open", "broken"}
                        THEN 1 ELSE 0)
    BY <1>1, <1>2 DEF Sync, Stream, Bit
  <1>8. inflightSync \in Int /\ inflightStream \in Int
    BY DEF ServerInv, TypeOK
  <1>9. /\ inflightSync' = inflightSync + Sync(g) - Sync(req[r])
        /\ inflightStream' = inflightStream + Stream(g) - Stream(req[r])
    BY <1>7, <1>8
  <1> QED
    BY <1>2, <1>3, <1>4, <1>5, <1>6, <1>9, RequestMoves

\* A request at work changes but for its kind and task.
LEMMA RequestGoesOn ==
  ASSUME ServerInv, NEW r \in Requests, NEW p \in {"running", "ended"},
         NEW n \in 0 .. 2, req[r].phase = "running",
         p = "running" => n \in 0 .. 1,
         p = "ended" /\ req[r].kind = "stream" => n > 0,
         req' = [req EXCEPT ![r] = [@ EXCEPT !.phase = p, !.finals = n]],
         UNCHANGED store,
         \/ controllers' = controllers
         \/ /\ controllers' = [controllers EXCEPT ![req[r].task] = NoRequest]
            /\ p = "ended",
         CallsInv', stopped' = stopped,
         inflightSync' = inflightSync -
           (IF req[r].kind = "sync" /\ p = "ended" THEN 1 ELSE 0),
         inflightStream' = inflightStream -
           (IF req[r].kind = "stream" /\ p = "ended" THEN 1 ELSE 0)
  PROVE  ServerInv'
  <1> DEFINE g == [req[r] EXCEPT !.phase = p, !.finals = n]
  <1>1. /\ req[r] \in Request /\ req[r].kind \in {"sync", "push", "stream"}
        /\ req[r].task \in TaskIds
    BY DEF ServerInv, TypeOK, RequestsInOrder, InOrder
  <1>2. /\ g \in Request /\ g.kind = req[r].kind /\ g.task = req[r].task
        /\ g.phase = p /\ g.finals = n
    BY <1>1 DEF Request, Phases
  <1>3. req' = [req EXCEPT ![r] = g]
    OBVIOUS
  <1> HIDE DEF g
  <1>4. InOrder(g)
    BY <1>1, <1>2 DEF InOrder
  <1>5. controllers' \in [TaskIds -> Requests \cup {NoRequest}]
    BY DEF ServerInv, TypeOK
  <1>6. ControllersKept'
    <2>1. \A u \in TaskIds :
            controllers'[u] # controllers[u] => u = g.task /\ g.kind # "subscribe"
      BY <1>1, <1>2 DEF ServerInv, TypeOK
    <2> QED
      BY <1>1, <1>2, <1>3, <2>1, ControllersFollow
  <1>7. /\ Sync(g) - Sync(req[r]) =
             0 - (IF req[r].kind = "sync" /\ p = "ended" THEN 1 ELSE 0)
        /\ Stream(g) - Stream(req[r]) =
             0 - (IF req[r].kind = "stream" /\ p = "ended" THEN 1 ELSE 0)
    <2>1. CASE p = "running"
      BY <1>1, <1>2, <2>1 DEF Sync, Stream, Bit
    <2>2. CASE p = "ended"
      BY <1>1, <1>2, <2>2 DEF Sync, Stream, Bit
    <2> QED
      BY <2>1, <2>2
  <1>8. /\ inflightSync \in Int /\ inflightStream \in Int
        /\ Sync(g) \in Int /\ Sync(req[r]) \in Int
        /\ Stream(g) \in Int /\ Stream(req[r]) \in Int
    BY DEF ServerInv, TypeOK, Sync, Stream, Bit
  <1>9. /\ inflightSync' = inflightSync + Sync(g) - Sync(req[r])
        /\ inflightStream' = inflightStream + Stream(g) - Stream(req[r])
    BY <1>7, <1>8
  <1> QED
    BY <1>2, <1>3, <1>4, <1>5, <1>6, <1>9, RequestMoves

-----------------------------------------------------------------------------
(* Requests and handlers.                                                  *)

LEMMA ServerInit ==
  ASSUME Init
  PROVE  ServerInv
  <1>1. TypeOK
    <2>1. /\ req \in [Requests -> Request]
          /\ call \in [Callers -> Call]
      BY DEF Init, Request, Kinds, Phases, Call, CallPhases
    <2>2. /\ controllers \in [TaskIds -> Requests \cup {NoRequest}]
          /\ store \in [TaskIds -> StoreStates \cup {"absent", "canceled"}]
          /\ inflightSync \in Int /\ inflightStream \in Int
      BY DEF Init
    <2>3. {shuttingDown, listening, stopped} \subseteq BOOLEAN
      BY DEF Init
    <2> QED
      BY <2>1, <2>2, <2>3 DEF TypeOK
  <1>2. RequestsInOrder /\ CallsInOrder /\ ControllersKept
    BY DEF Init, RequestsInOrder, InOrder, CallsInOrder, CallInOrder,
           ControllersKept
  <1>3. /\ Counted("sync", {"running"}) = {} /\ Counted("stream", {"running"}) = {}
        /\ Counted("subscribe", {"open", "broken"}) = {}
    BY DEF Init, Counted
  <1>4. inflightSync = 0 /\ inflightStream = 0
    BY DEF Init
  <1>5. Cardinality({}) = 0
    BY FS_EmptySet
  <1>6. CountersMatch
    BY <1>3, <1>4, <1>5 DEF CountersMatch
  <1> QED
    BY <1>1, <1>2, <1>6 DEF ServerInv

LEMMA ArriveInv ==
  ASSUME ServerInv, NEW r \in Requests, Arrive(r)
  PROVE  ServerInv'
  <1> DEFINE g == [req[r] EXCEPT !.phase = "arrived"]
  <1>1. req[r] \in Request /\ InOrder(req[r]) /\ req[r].phase = "unused"
    BY DEF Arrive, ServerInv, TypeOK, RequestsInOrder
  <1>2. /\ g \in Request /\ g.phase = "arrived" /\ g.kind = "none"
        /\ g.task = NoTask /\ g.finals = 0
    BY <1>1 DEF Request, Phases, InOrder
  <1>3. req' = [req EXCEPT ![r] = g]
    BY DEF Arrive
  <1> HIDE DEF g
  <1>4. InOrder(g)
    BY <1>2 DEF InOrder
  <1>5. UNCHANGED <<controllers, store, server>>
    BY DEF Arrive
  <1>6. ControllersKept'
    BY <1>1, <1>2, <1>3, <1>5, ControllersFollow DEF InOrder
  <1>7. /\ Sync(g) = 0 /\ Sync(req[r]) = 0
        /\ Stream(g) = 0 /\ Stream(req[r]) = 0
    BY <1>1, <1>2 DEF InOrder, Sync, Stream, Bit
  <1>8. inflightSync' = inflightSync + 0 - 0 /\ inflightStream' = inflightStream + 0 - 0
        /\ stopped' = stopped
    BY <1>5 DEF server, ServerInv, TypeOK
  <1>9. CallsInv'
    BY <1>5, CallsRest
  <1>10. controllers' \in [TaskIds -> Requests \cup {NoRequest}]
    BY <1>5 DEF ServerInv, TypeOK
  <1> QED
    BY <1>2, <1>3, <1>4, <1>5, <1>6, <1>7, <1>8, <1>9, <1>10, RequestMoves

LEMMA SendMessageInv ==
  ASSUME ServerInv, NEW r \in Requests, NEW t \in TaskIds, SendMessage(r, t)
  PROVE  ServerInv'
  <1>1. CASE shuttingDown
    <2>1. CallsInv'
      BY <1>1, CallsRest DEF SendMessage
    <2>2. /\ req[r].phase = "arrived" /\ Becomes(r, "sync", t, "refused")
          /\ UNCHANGED <<controllers, store, stopped>>
          /\ inflightSync' = inflightSync + 0 /\ inflightStream' = inflightStream + 0
      BY <1>1 DEF SendMessage, server, ServerInv, TypeOK
    <2> QED
      BY <2>1, <2>2, RequestRead
  <1>2. CASE ~shuttingDown
    <2>1. CallsInv'
      BY <1>2, CallsCount DEF SendMessage
    <2>2. /\ req[r].phase = "arrived" /\ Becomes(r, "sync", t, "running")
          /\ controllers' = [controllers EXCEPT ![t] = r]
          /\ UNCHANGED <<store, stopped>>
          /\ inflightSync' = inflightSync + 1 /\ inflightStream' = inflightStream + 0
      BY <1>2 DEF SendMessage, Count
    <2> QED
      BY <2>1, <2>2, RequestRead
  <1> QED
    BY <1>1, <1>2

LEMMA SendPushMessageInv ==
  ASSUME ServerInv, NEW r \in Requests, NEW t \in TaskIds, SendPushMessage(r, t)
  PROVE  ServerInv'
  <1>1. CallsInv'
    BY CallsRest DEF SendPushMessage
  <1>2. /\ req[r].phase = "arrived" /\ Becomes(r, "push", t, "running")
        /\ controllers' = [controllers EXCEPT ![t] = r]
        /\ UNCHANGED <<store, stopped>>
        /\ inflightSync' = inflightSync + 0 /\ inflightStream' = inflightStream + 0
    BY DEF SendPushMessage, server, ServerInv, TypeOK
  <1> QED
    BY <1>1, <1>2, RequestRead

LEMMA StreamSendInv ==
  ASSUME ServerInv, NEW r \in Requests, NEW t \in TaskIds, StreamSend(r, t)
  PROVE  ServerInv'
  <1>1. CASE shuttingDown
    <2>1. CallsInv'
      BY <1>1, CallsUncount DEF StreamSend
    <2>2. /\ req[r].phase = "arrived" /\ Becomes(r, "stream", t, "refused")
          /\ controllers' = [controllers EXCEPT ![t] = NoRequest]
          /\ UNCHANGED <<store, stopped>>
          /\ inflightSync' = inflightSync + 0 /\ inflightStream' = inflightStream + 0
      BY <1>1 DEF StreamSend, Uncount, ServerInv, TypeOK
    <2> QED
      BY <2>1, <2>2, RequestRead
  <1>2. CASE ~shuttingDown
    <2>1. CallsInv'
      BY <1>2, CallsCount DEF StreamSend
    <2>2. /\ req[r].phase = "arrived" /\ Becomes(r, "stream", t, "running")
          /\ controllers' = [controllers EXCEPT ![t] = r]
          /\ UNCHANGED <<store, stopped>>
          /\ inflightSync' = inflightSync + 0 /\ inflightStream' = inflightStream + 1
      BY <1>2 DEF StreamSend, Count
    <2> QED
      BY <2>1, <2>2, RequestRead
  <1> QED
    BY <1>1, <1>2

LEMMA StreamSubscribeInv ==
  ASSUME ServerInv, NEW r \in Requests, NEW t \in TaskIds, StreamSubscribe(r, t)
  PROVE  ServerInv'
  <1>1. /\ req[r].phase = "arrived" /\ UNCHANGED <<controllers, store>>
        /\ inflightSync \in Int /\ inflightStream \in Int
    BY DEF StreamSubscribe, ServerInv, TypeOK
  <1>2. CASE /\ Becomes(r, "subscribe", t, "refused")
             /\ UNCHANGED server \/ Uncount(0, 0)
    <2>1. CallsInv'
      BY <1>2, CallsRest, CallsUncount
    <2>2. /\ inflightSync' = inflightSync + 0 /\ inflightStream' = inflightStream + 0
          /\ stopped' = stopped
      BY <1>1, <1>2 DEF server, Uncount
    <2> QED
      BY <1>1, <1>2, <2>1, <2>2, RequestRead
  <1>3. ASSUME NEW p \in {"open", "broken"}, Becomes(r, "subscribe", t, p),
               p = "open" => store[t] \notin FinalStates,
               Count(0, 1), ~shuttingDown
        PROVE  ServerInv'
    <2>1. CallsInv'
      BY <1>3, CallsCount
    <2>2. /\ inflightSync' = inflightSync + 0 /\ inflightStream' = inflightStream + 1
          /\ stopped' = stopped
      BY <1>3 DEF Count
    <2> QED
      BY <1>1, <1>3, <2>1, <2>2, RequestRead
  <1> QED
    BY <1>2, <1>3 DEF StreamSubscribe

LEMMA HandleInv ==
  ASSUME ServerInv, NEW r \in Requests, Handle(r)
  PROVE  ServerInv'
  <1>1. /\ req[r] \in Request /\ InOrder(req[r]) /\ req \in [Requests -> Request]
        /\ inflightSync \in Int /\ inflightStream \in Int
    BY DEF ServerInv, TypeOK, RequestsInOrder
  <1>2. ASSUME NEW throws \in BOOLEAN, HandlerSettles(r, throws) PROVE ServerInv'
    <2>1. CallsInv'
      BY <1>2, CallsUncount DEF HandlerSettles
    <2>2. /\ req[r].kind = "sync" /\ req[r].phase = "running"
          /\ req' = [req EXCEPT ![r] = [@ EXCEPT !.phase = "ended",
                                                 !.finals = req[r].finals]]
      BY <1>1, <1>2 DEF HandlerSettles, Running, Request
    <2>3. /\ controllers' = controllers
             \/ controllers' = [controllers EXCEPT ![req[r].task] = NoRequest]
          /\ inflightSync' = inflightSync - 1 /\ inflightStream' = inflightStream - 0
          /\ UNCHANGED <<store, stopped>>
      BY <1>2 DEF HandlerSettles, Uncount
    <2>4. req[r].finals \in 0 .. 2
      BY <1>1 DEF Request
    <2> QED
      BY <2>1, <2>2, <2>3, <2>4, RequestGoesOn
  <1>3. CASE PushHandlerSettles(r)
    <2>1. CallsInv'
      BY <1>3, CallsRest DEF PushHandlerSettles
    <2>2. /\ req[r].kind = "push" /\ req[r].phase = "running"
          /\ req' = [req EXCEPT ![r] = [@ EXCEPT !.phase = "ended",
                                                 !.finals = req[r].finals]]
      BY <1>1, <1>3 DEF PushHandlerSettles, Running, Request
    <2>3. /\ controllers' = [controllers EXCEPT ![req[r].task] = NoRequest]
          /\ inflightSync' = inflightSync - 0 /\ inflightStream' = inflightStream - 0
          /\ UNCHANGED <<store, stopped>>
      BY <1>1, <1>3 DEF PushHandlerSettles, server
    <2>4. req[r].finals \in 0 .. 2
      BY <1>1 DEF Request
    <2> QED
      BY <2>1, <2>2, <2>3, <2>4, RequestGoesOn
  <1>4. CASE StreamEvent(r)
    <2>1. CallsInv'
      BY <1>4, CallsRest DEF StreamEvent
    <2>2. /\ req[r].kind = "stream" /\ req[r].phase = "running"
          /\ req' = [req EXCEPT ![r] = [@ EXCEPT !.phase = "running", !.finals = 1]]
      BY <1>1, <1>4 DEF StreamEvent, Running, Request
    <2>3. /\ controllers' = controllers
          /\ inflightSync' = inflightSync - 0 /\ inflightStream' = inflightStream - 0
          /\ UNCHANGED <<store, stopped>>
      BY <1>1, <1>4 DEF StreamEvent, server
    <2>4. 1 \in 0 .. 2 /\ 1 \in 0 .. 1 /\ "running" # "ended"
      OBVIOUS
    <2> QED
      BY <2>1, <2>2, <2>3, <2>4, RequestGoesOn
  <1>5. ASSUME NEW throws \in BOOLEAN, StreamHandlerSettles(r, throws)
        PROVE  ServerInv'
    <2> DEFINE n == IF throws \/ req[r].finals = 0 THEN req[r].finals + 1
                    ELSE req[r].finals
    <2>1. CallsInv'
      BY <1>5, CallsUncount DEF StreamHandlerSettles
    <2>2. /\ req[r].kind = "stream" /\ req[r].phase = "running"
          /\ req' = [req EXCEPT ![r] = [@ EXCEPT !.phase = "ended", !.finals = n]]
      BY <1>1, <1>5 DEF StreamHandlerSettles, Running, Request
    <2>3. /\ controllers' = [controllers EXCEPT ![req[r].task] = NoRequest]
          /\ inflightSync' = inflightSync - 0 /\ inflightStream' = inflightStream - 1
          /\ UNCHANGED <<store, stopped>>
      BY <1>5 DEF StreamHandlerSettles, Uncount
    <2>4. n \in 0 .. 2 /\ n > 0
      BY <1>1, <2>2 DEF InOrder
    <2> HIDE DEF n
    <2> QED
      BY <2>1, <2>2, <2>3, <2>4, RequestGoesOn
  <1> QED
    BY <1>2, <1>3, <1>4, <1>5 DEF Handle

-----------------------------------------------------------------------------
(* The task store and CancelTask.                                          *)

\* The requests differ in who was aborted at most.
SameBut(reqs) ==
  \A r \in Requests :
    /\ reqs[r].kind = req[r].kind /\ reqs[r].task = req[r].task
    /\ reqs[r].phase = req[r].phase /\ reqs[r].finals = req[r].finals

\* Kinds and tasks stay, nobody begins to run, controllers stay.
LEMMA ControllersStay ==
  ASSUME ServerInv, controllers' = controllers,
         \A r \in Requests :
           /\ req'[r].kind = req[r].kind /\ req'[r].task = req[r].task
           /\ req'[r].phase = "running" => req[r].phase = "running"
  PROVE  ControllersKept'
  <1> SUFFICES ASSUME NEW r \in Requests,
                      req'[r].phase = "running", NamedOnce(r)'
               PROVE  controllers'[req'[r].task] = r
    BY DEF ControllersKept
  <1>1. NamedOnce(r)
    BY DEF NamedOnce
  <1> QED
    BY <1>1 DEF ServerInv, ControllersKept

LEMMA StoreUpdateInv ==
  ASSUME ServerInv, NEW t \in TaskIds, NEW s \in StoreStates \cup {"canceled"},
         NEW reqs \in [Requests -> Request], SameBut(reqs),
         StoreUpdate(t, s, reqs), controllers' = controllers
  PROVE  ServerInv'
  <1> DEFINE F == Followers(t)
  <1>1. /\ store' \in [TaskIds -> StoreStates \cup {"absent", "canceled"}]
        /\ \A u \in TaskIds : store'[u] = IF u = t THEN s ELSE store[u]
    BY DEF StoreUpdate, ServerInv, TypeOK
  <1>2. \A r \in Requests : InOrder(req[r])
    BY DEF ServerInv, RequestsInOrder
  <1>3. CASE /\ req' = [r \in Requests |-> IF r \in F
                         THEN [reqs[r] EXCEPT !.phase = "ended", !.finals = 1]
                         ELSE reqs[r]]
             /\ Uncount(0, Cardinality(F))
    <2>1. F \subseteq Counted("subscribe", {"open", "broken"})
      BY DEF Followers, Counted
    <2>2. IsFiniteSet(F) /\ Cardinality(F) \in Nat
      BY <2>1, CountedFinite, FS_Subset, FS_CardinalityType
    <2>3. CallsInv'
      BY <1>3, <2>2, CallsUncount
    <2>4. \A r \in Requests :
            /\ req'[r] \in Request /\ req'[r].kind = req[r].kind
            /\ req'[r].task = req[r].task
            /\ req'[r].phase = IF r \in F THEN "ended" ELSE req[r].phase
            /\ req'[r].finals = IF r \in F THEN 1 ELSE req[r].finals
      <3> SUFFICES ASSUME NEW r \in Requests
                   PROVE  /\ req'[r] \in Request /\ req'[r].kind = req[r].kind
                          /\ req'[r].task = req[r].task
                          /\ req'[r].phase = IF r \in F THEN "ended" ELSE req[r].phase
                          /\ req'[r].finals = IF r \in F THEN 1 ELSE req[r].finals
        OBVIOUS
      <3> HIDE DEF F
      <3>1. CASE r \in F
        <4>1. req'[r] = [reqs[r] EXCEPT !.phase = "ended", !.finals = 1]
          BY <1>3, <3>1
        <4>2. reqs[r] \in Request /\ "ended" \in Phases /\ 1 \in 0 .. 2
          BY DEF Phases
        <4>3. req'[r] \in Request
          BY <4>1, <4>2 DEF Request
        <4>4. /\ req'[r].kind = reqs[r].kind /\ req'[r].task = reqs[r].task
              /\ req'[r].phase = "ended" /\ req'[r].finals = 1
          BY <4>1, <4>2 DEF Request
        <4> QED
          BY <3>1, <4>3, <4>4 DEF SameBut
      <3>2. CASE r \notin F
        <4>1. req'[r] = reqs[r]
          BY <1>3, <3>2
        <4> QED
          BY <3>2, <4>1 DEF SameBut
      <3> QED
        BY <3>1, <3>2
    <2>5. req' \in [Requests -> Request]
      BY <1>3, <2>4
    <2>6. \A r \in F : req[r].kind = "subscribe" /\ req[r].phase = "open"
                       /\ req[r].task = t
      BY DEF Followers
    <2>7. ASSUME NEW r \in Requests PROVE InOrder(req[r])'
      <3>1. CASE r \in F
        BY <1>2, <2>4, <2>6, <3>1 DEF InOrder
      <3>2. CASE r \notin F
        <4>1. req[r].phase = "open" => req[r].task # t \/ req[r].kind # "subscribe"
          BY <3>2 DEF Followers
        <4> QED
          BY <1>1, <1>2, <2>4, <3>2, <4>1 DEF InOrder
      <3> QED
        BY <3>1, <3>2
    <2>8. ControllersKept'
      BY <2>4, ControllersStay
    <2>9. /\ Counted("sync", {"running"})' = Counted("sync", {"running"})
          /\ Counted("stream", {"running"})' = Counted("stream", {"running"})
          /\ Counted("subscribe", {"open", "broken"})' =
               Counted("subscribe", {"open", "broken"}) \ F
      BY <2>4, <2>6 DEF Counted
    <2>10. Cardinality(Counted("subscribe", {"open", "broken"}) \ F) =
             Cardinality(Counted("subscribe", {"open", "broken"})) - Cardinality(F)
      <3>1. Counted("subscribe", {"open", "broken"}) \cap F = F
        BY <2>1
      <3> QED
        BY <3>1, CountedFinite, FS_Difference
    <2>11. /\ inflightSync' = inflightSync - 0
           /\ inflightStream' = inflightStream - Cardinality(F)
           /\ stopped' = stopped
      BY <1>3 DEF Uncount
    <2>12. CountersMatch'
      <3>1. SUFFICES ASSUME ~stopped PROVE CountersMatch'
        BY <2>11 DEF CountersMatch
      <3>2. /\ inflightSync = Cardinality(Counted("sync", {"running"}))
            /\ inflightStream = Cardinality(Counted("stream", {"running"}))
                 + Cardinality(Counted("subscribe", {"open", "broken"}))
        BY <3>1 DEF CountersMatch, ServerInv
      <3>3. /\ Cardinality(Counted("sync", {"running"})) \in Nat
            /\ Cardinality(Counted("stream", {"running"})) \in Nat
            /\ Cardinality(Counted("subscribe", {"open", "broken"})) \in Nat
        BY CountedFinite
      <3>4. inflightSync' = Cardinality(Counted("sync", {"running"})')
        BY <2>9, <2>11, <3>2, <3>3
      <3>5. inflightStream' = Cardinality(Counted("stream", {"running"})')
              + Cardinality(Counted("subscribe", {"open", "broken"})')
        <4> HIDE DEF F
        <4>1. Cardinality(Counted("subscribe", {"open", "broken"})') =
                Cardinality(Counted("subscribe", {"open", "broken"})) - Cardinality(F)
          BY <2>9, <2>10
        <4>2. Cardinality(Counted("stream", {"running"})') =
                Cardinality(Counted("stream", {"running"}))
          BY <2>9
        <4> QED
          BY <2>2, <2>11, <3>2, <3>3, <4>1, <4>2
      <3> QED
        BY <3>4, <3>5 DEF CountersMatch
    <2>13. TypeOK'
      BY <1>1, <2>3, <2>5 DEF ServerInv, TypeOK, CallsInv, ServerTypeOK
    <2> QED
      BY <2>3, <2>7, <2>8, <2>12, <2>13
      DEF ServerInv, RequestsInOrder, CallsInv
  <1>4. CASE /\ s \notin FinalStates \/ F = {}
             /\ req' = reqs /\ UNCHANGED server
    <2>1. CallsInv'
      BY <1>4, CallsRest
    <2>2. \A r \in Requests :
            /\ req'[r].kind = req[r].kind /\ req'[r].task = req[r].task
            /\ req'[r].phase = req[r].phase /\ req'[r].finals = req[r].finals
      BY <1>4 DEF SameBut
    <2>3. ASSUME NEW r \in Requests PROVE InOrder(req[r])'
      <3>1. req[r].phase = "open" /\ req[r].task = t => s \notin FinalStates
        BY <1>2, <1>4 DEF Followers, InOrder
      <3> QED
        BY <1>1, <1>2, <2>2, <3>1 DEF InOrder
    <2>4. ControllersKept'
      BY <2>2, ControllersStay
    <2>5. \A k, p : Counted(k, p)' = Counted(k, p)
      BY <2>2 DEF Counted
    <2>6. CountersMatch'
      BY <1>4, <2>5 DEF CountersMatch, ServerInv, server
    <2>7. TypeOK'
      BY <1>1, <1>4, <2>1 DEF ServerInv, TypeOK, CallsInv, ServerTypeOK
    <2> QED
      BY <2>1, <2>3, <2>4, <2>6, <2>7 DEF ServerInv, RequestsInOrder, CallsInv
  <1> QED
    BY <1>3, <1>4 DEF StoreUpdate

LEMMA AbortedType ==
  ASSUME ServerInv, NEW t \in TaskIds
  PROVE  Aborted(t) \in [Requests -> Request] /\ SameBut(Aborted(t))
  BY DEF ServerInv, TypeOK, Aborted, SameBut, Request

LEMMA CancelTaskInv ==
  ASSUME ServerInv, NEW t \in TaskIds, CancelTask(t)
  PROVE  ServerInv'
  <1>1. CASE StoreUpdate(t, "canceled", Aborted(t))
    BY <1>1, AbortedType, StoreUpdateInv DEF CancelTask
  <1>2. CASE req' = Aborted(t) /\ UNCHANGED <<store, server>>
    <2>1. CallsInv'
      BY <1>2, CallsRest
    <2>2. \A r \in Requests :
            /\ req'[r].kind = req[r].kind /\ req'[r].task = req[r].task
            /\ req'[r].phase = req[r].phase /\ req'[r].finals = req[r].finals
      BY <1>2, AbortedType DEF SameBut
    <2>3. RequestsInOrder'
      BY <1>2, <2>2 DEF ServerInv, RequestsInOrder, InOrder
    <2>4. controllers' = controllers /\ ControllersKept'
      BY <2>2, ControllersStay DEF CancelTask
    <2>5. \A k, p : Counted(k, p)' = Counted(k, p)
      BY <2>2 DEF Counted
    <2>6. CountersMatch'
      BY <1>2, <2>5 DEF CountersMatch, ServerInv, server
    <2>7. TypeOK'
      BY <1>2, <2>1, <2>4, AbortedType
      DEF ServerInv, TypeOK, CallsInv, ServerTypeOK
    <2> QED
      BY <2>1, <2>3, <2>4, <2>6, <2>7 DEF ServerInv, CallsInv
  <1> QED
    BY <1>1, <1>2 DEF CancelTask

LEMMA StoreWriteInv ==
  ASSUME ServerInv, NEW t \in TaskIds, NEW s \in StoreStates, StoreWrite(t, s)
  PROVE  ServerInv'
  <1>1. req \in [Requests -> Request] /\ SameBut(req)
    BY DEF ServerInv, TypeOK, SameBut
  <1> QED
    BY <1>1, StoreUpdateInv DEF StoreWrite

-----------------------------------------------------------------------------
(* Shutdown.                                                               *)

\* The requests rest while a call moves, or stop() throws the counts away.
LEMMA CallMoves ==
  ASSUME ServerInv, UNCHANGED <<req, controllers, store>>, CallsInv',
         stopped' \/ UNCHANGED <<inflightSync, inflightStream, stopped>>
  PROVE  ServerInv'
  <1>1. TypeOK'
    BY DEF ServerInv, TypeOK, CallsInv, ServerTypeOK
  <1>2. RequestsInOrder'
    BY DEF ServerInv, RequestsInOrder, InOrder
  <1>3. ControllersKept'
    BY ControllersStay
  <1>4. CountersMatch'
    BY DEF ServerInv, CountersMatch, Counted
  <1> QED
    BY <1>1, <1>2, <1>3, <1>4 DEF ServerInv, CallsInv

LEMMA ShutdownInv ==
  ASSUME ServerInv, NEW c \in Callers,
         Shutdown(c) \/ DrainTimeout(c) \/ ShutdownReturns(c)
  PROVE  ServerInv'
  <1> USE DEF ServerInv, TypeOK, CallsInv, ServerTypeOK, CallsInOrder,
              CallInOrder, Call, CallPhases
  <1>1. CASE Shutdown(c)
    <2>1. CallsInv'
      BY <1>1 DEF Shutdown
    <2> HIDE DEF CallsInv, ServerInv
    <2> QED
      BY <1>1, <2>1, CallMoves DEF Shutdown
  <1>2. CASE DrainTimeout(c)
    <2>1. CallsInv'
      BY <1>2 DEF DrainTimeout
    <2> HIDE DEF CallsInv, ServerInv
    <2> QED
      BY <1>2, <2>1, CallMoves DEF DrainTimeout
  <1>3. CASE ShutdownReturns(c)
    <2>1. CallsInv'
      BY <1>3 DEF ShutdownReturns
    <2> HIDE DEF CallsInv, ServerInv
    <2> QED
      BY <1>3, <2>1, CallMoves DEF ShutdownReturns
  <1> QED
    BY <1>1, <1>2, <1>3

LEMMA StopInv ==
  ASSUME ServerInv, Stop
  PROVE  ServerInv'
  <1>1. ServerTypeOK'
    <2>1. inflightSync' \in Int /\ inflightStream' \in Int
      BY DEF Stop
    <2>2. call' \in [Callers -> Call]
      BY DEF Stop, ServerInv, TypeOK
    <2>3. shuttingDown' \in BOOLEAN /\ listening' \in BOOLEAN /\ stopped' \in BOOLEAN
      BY Zenon DEF Stop
    <2> QED
      BY <2>1, <2>2, <2>3 DEF ServerTypeOK
  <1>2. CallsInOrder'
    BY DEF Stop, CallsInOrder, CallInOrder
  <1> QED
    BY <1>1, <1>2, CallMoves DEF Stop, CallsInv

LEMMA ServerStep ==
  ASSUME ServerInv, [Next]_vars
  PROVE  ServerInv'
  <1>1. CASE UNCHANGED vars
    <2>1. UNCHANGED server
      BY <1>1 DEF vars, server
    <2> QED
      BY <1>1, <2>1, CallsRest, CallMoves DEF vars
  <1> QED
    BY <1>1, ArriveInv, SendMessageInv, SendPushMessageInv, StreamSendInv,
       StreamSubscribeInv, HandleInv, StoreWriteInv, CancelTaskInv,
       ShutdownInv, StopInv DEF Next

-----------------------------------------------------------------------------
(* The properties.                                                         *)

LEMMA DrainedLeavesNobody ==
  ASSUME ServerInv
  PROVE  DrainedShutdownLeavesNobody
  <1> SUFFICES ASSUME NEW c \in Callers, call[c].phase = "returned",
                      ~call[c].late, ~stopped
               PROVE  /\ Counted("sync", {"running"}) = {}
                      /\ Counted("stream", {"running"}) = {}
                      /\ Counted("subscribe", {"open"}) = {}
    BY DEF DrainedShutdownLeavesNobody
  <1>1. inflightSync <= 0 /\ inflightStream <= 0
    BY DEF ServerInv, CallsInOrder, CallInOrder, Drained
  <1>2. /\ Cardinality(Counted("sync", {"running"})) \in Nat
        /\ Cardinality(Counted("stream", {"running"})) \in Nat
        /\ Cardinality(Counted("subscribe", {"open", "broken"})) \in Nat
    BY CountedFinite
  <1>3. /\ Cardinality(Counted("sync", {"running"})) = 0
        /\ Cardinality(Counted("stream", {"running"})) = 0
        /\ Cardinality(Counted("subscribe", {"open", "broken"})) = 0
    BY <1>1, <1>2 DEF ServerInv, CountersMatch
  <1>4. /\ Counted("sync", {"running"}) = {}
        /\ Counted("stream", {"running"}) = {}
        /\ Counted("subscribe", {"open", "broken"}) = {}
    BY <1>3, CountedFinite, FS_EmptySet
  <1>5. Counted("subscribe", {"open"}) \subseteq Counted("subscribe", {"open", "broken"})
    BY DEF Counted
  <1> QED
    BY <1>4, <1>5

(***************************************************************************)
(* However requests, cancellations, store writes and calls of shutdown()   *)
(* interleave: until stop(), one counter equals the blocking requests at   *)
(* work and the other the open streams plus the broken subscriptions.      *)
(***************************************************************************)
THEOREM CountersCount == Spec => []CountersMatch
  <1>1. ServerInv => CountersMatch
    BY DEF ServerInv
  <1> QED
    BY <1>1, ServerInit, ServerStep, PTL DEF Spec

(***************************************************************************)
(* A shutdown that returned because the counters were at zero, and not     *)
(* because its time was up, leaves no blocking request and no stream at    *)
(* work.                                                                   *)
(***************************************************************************)
THEOREM DrainIsSound == Spec => []DrainedShutdownLeavesNobody
  <1>1. ServerInv => DrainedShutdownLeavesNobody
    BY DrainedLeavesNobody
  <1> QED
    BY <1>1, ServerInit, ServerStep, PTL DEF Spec

(***************************************************************************)
(* No call of shutdown() waits for a drain that nobody is left to bring    *)
(* about: while one waits, some counted request is still at work.          *)
(***************************************************************************)
THEOREM NobodyWaitsInVain == Spec => []WaiterHasSomethingToWaitFor
  <1>1. ServerInv => WaiterHasSomethingToWaitFor
    BY DEF ServerInv, TypeOK, CallsInOrder, CallInOrder, Drained,
           WaiterHasSomethingToWaitFor
  <1> QED
    BY <1>1, ServerInit, ServerStep, PTL DEF Spec

(***************************************************************************)
(* Whatever is written to the store and by whom, a stream that is over     *)
(* carried a final frame, and no subscription stays open on a task that    *)
(* has ended.                                                              *)
(***************************************************************************)
THEOREM StreamsSayHowItEnded == Spec => []StreamsTellTheEnd
  <1>1. ServerInv => StreamsTellTheEnd
    BY DEF ServerInv, RequestsInOrder, InOrder, Counted, StreamsTellTheEnd
  <1> QED
    BY <1>1, ServerInit, ServerStep, PTL DEF Spec

(***************************************************************************)
(* The step that marks a task as canceled aborts the handler that runs it, *)
(* if no other request that registers a controller ever named the task.    *)
(***************************************************************************)
THEOREM CancellationArrives == Spec => CancelReachesHandler
  <1>1. ASSUME ServerInv, Next, NEW r \in Requests,
               req[r].phase = "running", NamedOnce(r),
               store[req[r].task] # "canceled", store'[req[r].task] = "canceled"
        PROVE  req'[r].aborted
    <2> DEFINE t == req[r].task
    <2>1. /\ t \in TaskIds /\ req[r].kind # "subscribe" /\ controllers[t] = r
          /\ store \in [TaskIds -> StoreStates \cup {"absent", "canceled"}]
      BY <1>1 DEF ServerInv, TypeOK, RequestsInOrder, InOrder, ControllersKept
    <2>2. store' # store
      BY <1>1
    <2>3. \/ \E u \in TaskIds : CancelTask(u)
          \/ \E u \in TaskIds, s \in StoreStates : StoreWrite(u, s)
      <3>1. ~Handle(r)
        BY <2>2 DEF Handle, HandlerSettles, PushHandlerSettles, StreamEvent,
                    StreamHandlerSettles
      <3> QED
        BY <1>1, <2>2, <3>1
        DEF Next, Handle, HandlerSettles, PushHandlerSettles, StreamEvent,
            StreamHandlerSettles, Arrive, SendMessage, SendPushMessage,
            StreamSend, StreamSubscribe, Shutdown, DrainTimeout,
            ShutdownReturns, Stop
    <2>4. CancelTask(t) /\ StoreUpdate(t, "canceled", Aborted(t))
      <3>1. ASSUME NEW u \in TaskIds, NEW s, NEW reqs, StoreUpdate(u, s, reqs)
            PROVE  u = t /\ s = "canceled"
        BY <1>1, <2>1, <3>1 DEF StoreUpdate
      <3>2. PICK u \in TaskIds : CancelTask(u)
        BY <2>3, <3>1, A2AServerAssumption DEF StoreWrite
      <3> QED
        BY <2>2, <3>1, <3>2 DEF CancelTask
    <2>5. /\ req[r] \in Request /\ r \notin Followers(t)
          /\ Aborted(t)[r] = [req[r] EXCEPT !.aborted = TRUE]
      <3>1. req[r] \in Request
        BY <1>1 DEF ServerInv, TypeOK
      <3>2. r \notin Followers(t)
        BY <2>1 DEF Followers
      <3>3. Aborted(t)[r] = [req[r] EXCEPT !.aborted = TRUE]
        BY <1>1, <2>1 DEF Aborted
      <3> QED
        BY <3>1, <3>2, <3>3
    <2>6. req'[r] = Aborted(t)[r]
      BY <2>4, <2>5, AbortedType DEF StoreUpdate
    <2> QED
      BY <2>5, <2>6 DEF Request
  <1>2. ServerInv /\ [Next]_vars =>
          [\A r \in Requests :
             /\ req[r].phase = "running" /\ NamedOnce(r)
             /\ store[req[r].task] # "canceled" /\ store'[req[r].task] = "canceled"
             => req'[r].aborted]_vars
    BY <1>1
  <1> QED
    BY <1>2, ServerInit, ServerStep, PTL DEF Spec, CancelReachesHandler
=============================================================================

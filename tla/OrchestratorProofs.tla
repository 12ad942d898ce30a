------------------------- MODULE OrchestratorProofs -------------------------
(***************************************************************************)
(* Proofs about Orchestrator, for any sets of tasks, agents and callers,   *)
(* any bounds, either task store, and with or without a dispatcher.        *)
(***************************************************************************)
EXTENDS Orchestrator, TLAPS

-----------------------------------------------------------------------------
(* Rows, one field at a time.                                              *)

LEMMA RowFields ==
  ASSUME NEW r \in Row
  PROVE  /\ r.state \in States \cup {"absent"}
         /\ r.msgs \in Nat
         /\ r.retries \in Nat
         /\ r.dlq \in Seq(Nat)
         /\ r.trail \in Seq(States \X States)
  BY DEF Row

LEMMA SetState ==
  ASSUME NEW r \in Row, NEW s \in States
  PROVE  [r EXCEPT !.state = s] \in Row
  BY DEF Row

LEMMA SetMsgs ==
  ASSUME NEW r \in Row, NEW n \in Nat
  PROVE  [r EXCEPT !.msgs = n] \in Row
  BY DEF Row

LEMMA SetLast ==
  ASSUME NEW r \in Row, NEW k \in MessageKinds
  PROVE  [r EXCEPT !.last = k] \in Row
  BY DEF Row

LEMMA SetRetries ==
  ASSUME NEW r \in Row, NEW n \in Nat
  PROVE  [r EXCEPT !.retries = n] \in Row
  BY DEF Row

LEMMA SetDLQ ==
  ASSUME NEW r \in Row, NEW q \in Seq(Nat)
  PROVE  [r EXCEPT !.dlq = q] \in Row
  BY DEF Row

LEMMA SetTrail ==
  ASSUME NEW r \in Row, NEW q \in Seq(States \X States)
  PROVE  [r EXCEPT !.trail = q] \in Row
  BY DEF Row

-----------------------------------------------------------------------------
(* What the row operators return.                                          *)

LEMMA NoRowType == NoRow \in Row
  BY DEF NoRow, Row, MessageKinds

LEMMA CreatedType ==
  ASSUME NEW r \in Row
  PROVE  /\ Created(r) \in Row
         /\ Created(r).state = "submitted"
         /\ Created(r).retries = 0
         /\ Created(r).dlq = <<>> \/ Created(r).dlq = r.dlq
  <1> DEFINE q == IF Backend = "memory" THEN r.dlq ELSE <<>>
  <1>1. q \in Seq(Nat)
    BY RowFields
  <1>2. [NoRow EXCEPT !.state = "submitted"] \in Row
    BY NoRowType, SetState DEF States
  <1>3. Created(r) = [[NoRow EXCEPT !.state = "submitted"] EXCEPT !.dlq = q]
    BY DEF Created
  <1>4. Created(r).dlq = <<>> \/ Created(r).dlq = r.dlq
    BY DEF Created, NoRow
  <1>5. Created(r).state = "submitted" /\ Created(r).retries = 0
    BY DEF Created, NoRow
  <1> HIDE DEF q
  <1>6. [[NoRow EXCEPT !.state = "submitted"] EXCEPT !.dlq = q] \in Row
    BY <1>1, <1>2, SetDLQ
  <1> QED
    BY <1>3, <1>4, <1>5, <1>6

LEMMA StateUpdatedType ==
  ASSUME NEW r \in Row, Exists(r), NEW s \in States
  PROVE  /\ StateUpdated(r, s) \in Row
         /\ StateUpdated(r, s).state = s
         /\ StateUpdated(r, s).retries = r.retries
         /\ StateUpdated(r, s).dlq = r.dlq
  <1> DEFINE tr == IF Backend = "sqlite" /\ r.state # s
                   THEN Append(r.trail, <<r.state, s>>) ELSE r.trail
  <1>1. tr \in Seq(States \X States)
    <2>1. <<r.state, s>> \in States \X States
      BY RowFields DEF Exists
    <2> QED
      BY <2>1, RowFields
  <1>2. TransitionRecorded(r, s) = [r EXCEPT !.trail = tr]
    BY DEF TransitionRecorded
  <1>3. TransitionRecorded(r, s) \in Row
    BY <1>1, <1>2, SetTrail
  <1>4. /\ TransitionRecorded(r, s).retries = r.retries
        /\ TransitionRecorded(r, s).dlq = r.dlq
    BY DEF TransitionRecorded, Row
  <1>5. StateUpdated(r, s) \in Row
    BY <1>3, SetState DEF StateUpdated
  <1>6. /\ StateUpdated(r, s).state = s
        /\ StateUpdated(r, s).retries = TransitionRecorded(r, s).retries
        /\ StateUpdated(r, s).dlq = TransitionRecorded(r, s).dlq
    BY <1>3 DEF StateUpdated, Row
  <1> QED
    BY <1>4, <1>5, <1>6

LEMMA MessageAppendedType ==
  ASSUME NEW r \in Row, NEW k \in MessageKinds
  PROVE  /\ MessageAppended(r, k) \in Row
         /\ MessageAppended(r, k).state = r.state
         /\ MessageAppended(r, k).retries = r.retries
         /\ MessageAppended(r, k).dlq = r.dlq
  <1>1. MessageAppended(r, k)
          = [[r EXCEPT !.msgs = r.msgs + 1] EXCEPT !.last = k]
    BY DEF MessageAppended
  <1>2. r.msgs + 1 \in Nat
    BY RowFields
  <1>3. [r EXCEPT !.msgs = r.msgs + 1] \in Row
    BY <1>2, SetMsgs
  <1>4. MessageAppended(r, k) \in Row
    BY <1>1, <1>3, SetLast
  <1> QED
    BY <1>4 DEF MessageAppended, Row

LEMMA RetryIncrementedType ==
  ASSUME NEW r \in Row
  PROVE  /\ RetryIncremented(r) \in Row
         /\ RetryIncremented(r).state = r.state
         /\ RetryIncremented(r).retries = r.retries + 1
         /\ RetryIncremented(r).dlq = r.dlq
  <1>1. r.retries + 1 \in Nat
    BY RowFields
  <1>2. RetryIncremented(r) \in Row
    BY <1>1, SetRetries DEF RetryIncremented
  <1> QED
    BY <1>2 DEF RetryIncremented, Row

LEMMA MovedToDLQType ==
  ASSUME NEW r \in Row
  PROVE  /\ MovedToDLQ(r) \in Row
         /\ MovedToDLQ(r).state = r.state
         /\ MovedToDLQ(r).retries = r.retries
         /\ r.dlq = <<>> => MovedToDLQ(r).dlq = <<r.retries>>
  <1> DEFINE q == IF Backend = "sqlite" THEN Append(r.dlq, r.retries)
                                        ELSE <<r.retries>>
  <1>1. q \in Seq(Nat)
    BY RowFields
  <1>2. r.dlq = <<>> => q = <<r.retries>>
    BY RowFields
  <1>3. MovedToDLQ(r) = [r EXCEPT !.dlq = q]
    BY DEF MovedToDLQ
  <1> HIDE DEF q
  <1>4. MovedToDLQ(r) \in Row
    BY <1>1, <1>3, SetDLQ
  <1> QED
    BY <1>2, <1>3, <1>4 DEF Row

LEMMA DLQRemovedType ==
  ASSUME NEW r \in Row
  PROVE  /\ DLQRemoved(r) \in Row
         /\ DLQRemoved(r).state = r.state
         /\ DLQRemoved(r).retries = r.retries
         /\ DLQRemoved(r).dlq = <<>>
  <1>1. <<>> \in Seq(Nat)
    OBVIOUS
  <1>2. DLQRemoved(r) \in Row
    BY <1>1, SetDLQ DEF DLQRemoved
  <1> QED
    BY <1>2 DEF DLQRemoved, Row

LEMMA RetriedFromDLQType ==
  ASSUME NEW r \in Row
  PROVE  /\ RetriedFromDLQ(r) \in Row
         /\ RetriedFromDLQ(r).state = "submitted"
         /\ RetriedFromDLQ(r).retries = r.retries
         /\ RetriedFromDLQ(r).dlq = <<>>
  <1>1. RetriedFromDLQ(r) = [DLQRemoved(r) EXCEPT !.state = "submitted"]
    BY DEF RetriedFromDLQ, Requeued
  <1>2. RetriedFromDLQ(r) \in Row
    BY <1>1, DLQRemovedType, SetState DEF States
  <1> QED
    BY <1>1, <1>2, DLQRemovedType DEF Row

LEMMA CompletedRowType ==
  ASSUME NEW r \in Row, Exists(r)
  PROVE  /\ CompletedRow(r) \in Row
         /\ CompletedRow(r).state = "completed"
         /\ CompletedRow(r).retries = r.retries
         /\ CompletedRow(r).dlq = r.dlq
  <1>1. "completed" \in States /\ "answer" \in MessageKinds
    BY DEF States, MessageKinds
  <1> QED
    BY <1>1, StateUpdatedType, MessageAppendedType DEF CompletedRow

LEMMA FailedRowType ==
  ASSUME NEW r \in Row, Exists(r)
  PROVE  /\ FailedRow(r) \in Row
         /\ FailedRow(r).state = "failed"
         /\ FailedRow(r).retries = r.retries
         /\ FailedRow(r).dlq = r.dlq
  <1>1. "failed" \in States /\ "error" \in MessageKinds
    BY DEF States, MessageKinds
  <1> QED
    BY <1>1, StateUpdatedType, MessageAppendedType DEF FailedRow

LEMMA ThrownRowType ==
  ASSUME NEW r \in Row, Exists(r), NEW timeout \in BOOLEAN,
         r.dlq = <<>>, r.retries <= MaxRetries
  PROVE  /\ ThrownRow(r, timeout) \in Row
         /\ ThrownRow(r, timeout).retries <= MaxRetries
         /\ PutBack(r, timeout) =>
              /\ ThrownRow(r, timeout).state = "submitted"
              /\ ThrownRow(r, timeout).dlq = <<>>
         /\ ~PutBack(r, timeout) =>
              /\ ThrownRow(r, timeout).state = "failed"
              /\ ThrownRow(r, timeout).retries = r.retries
              /\ ThrownRow(r, timeout).dlq \in {<<>>, <<MaxRetries>>}
              /\ ~timeout => ThrownRow(r, timeout).dlq = <<>>
  <1>1. r.retries \in Nat /\ MaxRetries \in Nat
    BY RowFields, OrchestratorAssumption
  <1>2. CASE PutBack(r, timeout)
    <2>1. ThrownRow(r, timeout) = StateUpdated(RetryIncremented(r), "submitted")
      BY <1>2 DEF ThrownRow
    <2>2. Exists(RetryIncremented(r)) /\ "submitted" \in States
      BY RetryIncrementedType DEF Exists, States
    <2>3. /\ ThrownRow(r, timeout) \in Row
          /\ ThrownRow(r, timeout).state = "submitted"
          /\ ThrownRow(r, timeout).retries = r.retries + 1
          /\ ThrownRow(r, timeout).dlq = <<>>
      BY <2>1, <2>2, RetryIncrementedType, StateUpdatedType
    <2>4. r.retries + 1 <= MaxRetries
      BY <1>1, <1>2 DEF PutBack
    <2> QED
      BY <1>2, <2>3, <2>4
  <1>3. CASE ~PutBack(r, timeout) /\ timeout
    <2>1. r.retries = MaxRetries
      BY <1>1, <1>3 DEF PutBack
    <2>2. ThrownRow(r, timeout) = MovedToDLQ(FailedRow(r))
      BY <1>3 DEF ThrownRow
    <2>3. /\ FailedRow(r) \in Row /\ FailedRow(r).state = "failed"
          /\ FailedRow(r).retries = r.retries /\ FailedRow(r).dlq = <<>>
      BY FailedRowType
    <2>4. /\ ThrownRow(r, timeout) \in Row
          /\ ThrownRow(r, timeout).state = "failed"
          /\ ThrownRow(r, timeout).retries = r.retries
          /\ ThrownRow(r, timeout).dlq = <<r.retries>>
      BY <2>2, <2>3, MovedToDLQType
    <2> QED
      BY <1>3, <2>1, <2>4
  <1>4. CASE ~PutBack(r, timeout) /\ ~timeout
    <2>1. ThrownRow(r, timeout) = FailedRow(r)
      BY <1>4 DEF ThrownRow
    <2> QED
      BY <1>4, <2>1, FailedRowType
  <1> QED
    BY <1>2, <1>3, <1>4

LEMMA BegunRowType ==
  ASSUME NEW r \in Row, Exists(r), NEW forced, NEW acl,
         r.dlq = <<>>, r.retries <= MaxRetries
  PROVE  /\ BegunRow(r, forced, acl) \in Row
         /\ BegunRow(r, forced, acl).retries = r.retries
         /\ BegunRow(r, forced, acl).dlq = <<>>
         /\ BegunRow(r, forced, acl).state =
              IF Denied(forced, acl) THEN "failed" ELSE "working"
  <1> DEFINE w == StateUpdated(r, "working")
  <1>1. /\ w \in Row /\ w.state = "working"
        /\ w.retries = r.retries /\ w.dlq = <<>>
    BY StateUpdatedType DEF States
  <1>2. Exists(w) /\ w.retries <= MaxRetries /\ ~PutBack(w, FALSE)
    BY <1>1 DEF Exists, PutBack
  <1> HIDE DEF w
  <1>3. CASE Denied(forced, acl)
    <2>1. BegunRow(r, forced, acl) = ThrownRow(w, FALSE)
      BY <1>3 DEF BegunRow, w
    <2> QED
      BY <1>1, <1>2, <1>3, <2>1, ThrownRowType
  <1>4. CASE ~Denied(forced, acl)
    <2>1. BegunRow(r, forced, acl) = w
      BY <1>4 DEF BegunRow, w
    <2> QED
      BY <1>1, <1>4, <2>1
  <1> QED
    BY <1>3, <1>4

-----------------------------------------------------------------------------
(* Executions.                                                             *)

\* Two executions at different points of the loop, or with different outcomes.
SamePlace(e, f) == f.chain = e.chain /\ f.depth = e.depth

LEMMA SetPc ==
  ASSUME NEW e \in Execution, NEW p \in Points
  PROVE  LET f == [e EXCEPT !.pc = p]
         IN  f \in Execution /\ f.pc = p /\ SamePlace(e, f)
             /\ f.agent = e.agent /\ f.child = e.child
  BY DEF Execution, SamePlace

LEMMA SetAgent ==
  ASSUME NEW e \in Execution, NEW a \in Agents
  PROVE  LET f == [e EXCEPT !.agent = a]
         IN  f \in Execution /\ f.agent = a /\ SamePlace(e, f) /\ f.pc = e.pc
  BY DEF Execution, SamePlace

LEMMA SetChild ==
  ASSUME NEW e \in Execution, NEW c \in TaskIds
  PROVE  LET f == [e EXCEPT !.child = c]
         IN  f \in Execution /\ f.child = c /\ SamePlace(e, f)
             /\ f.pc = e.pc /\ f.agent = e.agent
  BY DEF Execution, SamePlace

LEMMA SetResult ==
  ASSUME NEW e \in Execution, NEW x \in Targets
  PROVE  LET f == [e EXCEPT !.result = x]
         IN  f \in Execution /\ SamePlace(e, f)
             /\ f.pc = e.pc /\ f.agent = e.agent /\ f.child = e.child
  BY DEF Execution, SamePlace

LEMMA SetPeer ==
  ASSUME NEW e \in Execution, NEW a \in Agents \cup {NoAgent}
  PROVE  LET f == [e EXCEPT !.peer = a]
         IN  f \in Execution /\ SamePlace(e, f)
             /\ f.pc = e.pc /\ f.agent = e.agent /\ f.child = e.child
  BY DEF Execution, SamePlace

LEMMA IdleType == Idle \in Execution
  BY DEF Idle, Execution, Points, Targets

LEMMA BegunType ==
  ASSUME NEW forced \in Agents \cup {NoAgent}, NEW acl \in SUBSET Agents,
         NEW caller \in SUBSET Agents,
         NEW chain \in Seq(Agents), NEW depth \in Nat
  PROVE  Begun(forced, acl, caller, chain, depth) \in Execution
  <1> DEFINE e == [pc |-> IF forced = NoAgent THEN "routing" ELSE "resolving",
                   agent |-> forced, acl |-> acl, chain |-> chain,
                   depth |-> depth, child |-> NoTask, result |-> NoAgent,
                   peer |-> NoAgent, caller |-> caller]
  <1>1. e \in Execution
    BY DEF Execution, Points, Targets
  <1>2. ~Denied(forced, acl) => Begun(forced, acl, caller, chain, depth) = e
    BY DEF Begun, Idle
  <1>3. Denied(forced, acl) => Begun(forced, acl, caller, chain, depth) = Idle
    BY DEF Begun
  <1> QED
    BY <1>1, <1>2, <1>3, IdleType

-----------------------------------------------------------------------------
(* The inductive invariant.                                                *)

\* What a step leaves alone in an execution it is not about, even if it wakes
\* it or takes it out of its transfer.
Keeps(e, f) ==
  /\ f.agent = e.agent /\ f.chain = e.chain
  /\ f.depth = e.depth /\ f.child = e.child
  /\ f.pc \in {"idle", "syncing"} <=> e.pc \in {"idle", "syncing"}
  /\ f.pc \in {"idle", "routing"} <=> e.pc \in {"idle", "routing"}
  /\ f.pc = "transferring" => e.pc = "transferring"

LEMMA SettledType ==
  ASSUME NEW e \in [TaskIds -> Execution], NEW t \in TaskIds
  PROVE  /\ Settled(e, t) \in [TaskIds -> Execution]
         /\ Settled(e, t)[t] = Idle
         /\ \A u \in TaskIds \ {t} : Keeps(e[u], Settled(e, t)[u])
  <1>1. ASSUME NEW u \in TaskIds
        PROVE  /\ Settled(e, t)[u] \in Execution
               /\ u # t => Keeps(e[u], Settled(e, t)[u])
    <2>1. e[u] \in Execution /\ "resuming" \in Points
      BY DEF Points
    <2>2. [e[u] EXCEPT !.pc = "resuming"] \in Execution
      BY <2>1, SetPc
    <2>3. CASE u = t
      BY <2>3, IdleType DEF Settled
    <2>4. CASE u # t /\ e[u].pc = "awaitingChild" /\ e[u].child = t
      <3>1. Settled(e, t)[u] = [e[u] EXCEPT !.pc = "resuming"]
        BY <2>4 DEF Settled
      <3>2. Keeps(e[u], [e[u] EXCEPT !.pc = "resuming"])
        BY <2>1, <2>4 DEF Keeps, Execution
      <3> QED
        BY <2>2, <3>1, <3>2
    <2>5. CASE u # t /\ ~(e[u].pc = "awaitingChild" /\ e[u].child = t)
      <3>1. Settled(e, t)[u] = e[u]
        BY <2>5 DEF Settled
      <3> QED
        BY <2>1, <3>1 DEF Keeps
    <2> QED
      BY <2>3, <2>4, <2>5
  <1>2. Settled(e, t)[t] = Idle
    BY DEF Settled
  <1>3. Settled(e, t) = [u \in TaskIds |-> Settled(e, t)[u]]
    BY DEF Settled
  <1> QED
    BY <1>1, <1>2, <1>3

\* The counters the invariant says nothing about.
HistoryTyped ==
  /\ ev' \in [TaskIds -> Events]
  /\ lost' \in SUBSET TaskIds /\ lost \subseteq lost'
  /\ crashes' \in Nat

\* What the invariant asks of one task, if no handover is under way in it.
TaskInOrder(r, e, l) ==
  /\ e.pc \notin {"idle", "syncing"} => r.state = "working"
  /\ r.state = "working" => e.pc \notin {"idle", "syncing"} \/ l
  /\ r.retries <= MaxRetries
  /\ r.dlq # <<>> => /\ r.dlq = <<MaxRetries>>
                     /\ r.state = "failed"
  /\ e.depth <= MaxDepth /\ Len(e.chain) = e.depth
  /\ e.pc \notin {"idle", "routing"} => e.agent \in Agents
  /\ e.pc # "transferring"

\* A step that changes the row of one task at most, and of none that a handover
\* under way is about to begin, preserves the invariant.
LEMMA OneTaskChanges ==
  ASSUME Inv, HistoryTyped, NEW t \in TaskIds,
         rows' \in [TaskIds -> Row], exec' \in [TaskIds -> Execution],
         \A u \in TaskIds \ {t} : rows'[u] = rows[u],
         \A u \in TaskIds \ {t} : Keeps(exec[u], exec'[u]),
         TaskInOrder(rows'[t], exec'[t], t \in lost'),
         rows'[t] = rows[t] \/ \A p \in TaskIds \ {t} :
           exec'[p].pc = "transferring" => exec[p].child # t
  PROVE  Inv'
  <1>1. TypeOK'
    BY DEF HistoryTyped, TypeOK
  <1>2. WorkingHasRunner'
    <2>1. ASSUME NEW u \in TaskIds, u # t
          PROVE  /\ Running(u)' => rows'[u].state = "working"
                 /\ rows'[u].state = "working" => Running(u)' \/ u \in lost'
      BY <2>1 DEF Inv, WorkingHasRunner, Running, Keeps, HistoryTyped
    <2>2. /\ Running(t)' => rows'[t].state = "working"
          /\ rows'[t].state = "working" => Running(t)' \/ t \in lost'
      BY DEF TaskInOrder, Running
    <2> QED
      BY <2>1, <2>2 DEF WorkingHasRunner
  <1>3. DeadLettersExhausted'
    <2>1. ASSUME NEW u \in TaskIds, u # t
          PROVE  /\ rows'[u].retries <= MaxRetries
                 /\ rows'[u].dlq # <<>> => /\ rows'[u].dlq = <<MaxRetries>>
                                           /\ rows'[u].state = "failed"
                                           /\ ~Running(u)'
      BY <2>1 DEF Inv, DeadLettersExhausted, Running, Keeps
    <2>2. /\ rows'[t].retries <= MaxRetries
          /\ rows'[t].dlq # <<>> => /\ rows'[t].dlq = <<MaxRetries>>
                                    /\ rows'[t].state = "failed"
                                    /\ ~Running(t)'
      BY DEF TaskInOrder, Running
    <2> QED
      BY <2>1, <2>2 DEF DeadLettersExhausted
  <1>4. HandoverBounded'
    BY DEF Inv, HandoverBounded, TaskInOrder, Keeps
  <1>5. NewChildWaits'
    <2> SUFFICES ASSUME NEW u \in TaskIds, exec'[u].pc = "transferring"
                 PROVE  /\ exec'[u].depth < MaxDepth
                        /\ exec'[u].child \in TaskIds
                        /\ rows'[exec'[u].child].state = "submitted"
                        /\ rows'[exec'[u].child].retries = 0
      BY DEF NewChildWaits, Transferring
    <2>1. u # t
      BY DEF TaskInOrder
    <2>2. exec[u].pc = "transferring" /\ exec'[u].child = exec[u].child
          /\ exec'[u].depth = exec[u].depth
      BY <2>1 DEF Keeps
    <2>3. rows'[exec[u].child] = rows[exec[u].child]
      BY <2>1, <2>2 DEF Inv, NewChildWaits, Transferring
    <2> QED
      BY <2>2, <2>3 DEF Inv, NewChildWaits, Transferring
  <1>6. NewChildHasOneParent'
    BY DEF Inv, NewChildHasOneParent, Transferring, TaskInOrder, Keeps
  <1>7. AgentKnown'
    BY DEF Inv, AgentKnown, TaskInOrder, Keeps
  <1> QED
    BY <1>1, <1>2, <1>3, <1>4, <1>5, <1>6, <1>7 DEF Inv

-----------------------------------------------------------------------------
(* The initial states, and what is common to many steps.                   *)

LEMMA InitInv == Init => Inv
  <1> SUFFICES ASSUME Init PROVE Inv
    OBVIOUS
  <1>1. TypeOK
    BY NoRowType, IdleType DEF Init, TypeOK, NoEvents, Events
  <1>2. \A t \in TaskIds : exec[t] = Idle /\ rows[t] = NoRow
    BY DEF Init
  <1>3. \A t \in TaskIds : exec[t].pc = "idle" /\ exec[t].depth = 0
                           /\ exec[t].chain = <<>>
    BY <1>2 DEF Idle
  <1>4. \A t \in TaskIds : rows[t].state = "absent" /\ rows[t].retries = 0
                           /\ rows[t].dlq = <<>>
    BY <1>2 DEF NoRow
  <1>5. MaxDepth \in Nat /\ MaxRetries \in Nat
    BY OrchestratorAssumption
  <1>6. WorkingHasRunner /\ DeadLettersExhausted /\ HandoverBounded
    BY <1>3, <1>4, <1>5
       DEF WorkingHasRunner, DeadLettersExhausted, HandoverBounded, Running
  <1>7. NewChildWaits /\ NewChildHasOneParent /\ AgentKnown
    BY <1>3 DEF NewChildWaits, NewChildHasOneParent, AgentKnown, Transferring
  <1> QED
    BY <1>1, <1>6, <1>7 DEF Inv

LEMMA EventsType ==
  ASSUME NEW e \in Events
  PROVE  /\ Created1(e) \in Events
         /\ Completed1(e) \in Events
         /\ Failed1(e) \in Events
  BY DEF Events, Created1, Completed1, Failed1

LEMMA BegunEventsType ==
  ASSUME NEW e \in Events, NEW forced, NEW acl
  PROVE  BegunEvents(e, forced, acl) \in Events
  BY EventsType DEF BegunEvents

\* The history after a step that emits something about one task at most.
LEMMA HistoryTypedBy ==
  ASSUME TypeOK, NEW t \in TaskIds, NEW e \in Events,
         ev' = ev \/ ev' = [ev EXCEPT ![t] = e],
         UNCHANGED <<lost, crashes>>
  PROVE  HistoryTyped
  BY DEF TypeOK, HistoryTyped

LEMMA RunningRow ==
  ASSUME Inv, NEW t \in TaskIds, Running(t)
  PROVE  /\ rows[t] \in Row /\ Exists(rows[t])
         /\ rows[t].state = "working"
         /\ rows[t].retries <= MaxRetries
         /\ rows[t].dlq = <<>>
  BY DEF Inv, TypeOK, WorkingHasRunner, DeadLettersExhausted, Exists

\* No handover is about to begin a task that is not a fresh child.
LEMMA NotANewChild ==
  ASSUME Inv, NEW t \in TaskIds,
         rows[t].state # "submitted" \/ rows[t].retries # 0,
         \A u \in TaskIds \ {t} : Keeps(exec[u], exec'[u])
  PROVE  \A p \in TaskIds \ {t} :
           exec'[p].pc = "transferring" => exec[p].child # t
  BY DEF Inv, NewChildWaits, Transferring, Keeps

\* An execution ends and leaves a row that is not at work.
LEMMA ExecutionEnds ==
  ASSUME Inv, HistoryTyped, NEW t \in TaskIds, NEW r \in Row,
         Running(t),
         rows' = [rows EXCEPT ![t] = r], exec' = Settled(exec, t),
         r.state # "working", r.retries <= MaxRetries,
         r.dlq # <<>> => r.dlq = <<MaxRetries>> /\ r.state = "failed"
  PROVE  Inv'
  <1>1. /\ rows \in [TaskIds -> Row] /\ exec \in [TaskIds -> Execution]
        /\ MaxDepth \in Nat
    BY OrchestratorAssumption DEF Inv, TypeOK
  <1>2. /\ rows' \in [TaskIds -> Row] /\ rows'[t] = r
        /\ \A u \in TaskIds \ {t} : rows'[u] = rows[u]
    BY <1>1
  <1>3. /\ exec' \in [TaskIds -> Execution] /\ exec'[t] = Idle
        /\ \A u \in TaskIds \ {t} : Keeps(exec[u], exec'[u])
    BY <1>1, SettledType
  <1>4. TaskInOrder(r, Idle, t \in lost')
    BY <1>1 DEF TaskInOrder, Idle
  <1>5. \A p \in TaskIds \ {t} :
          exec'[p].pc = "transferring" => exec[p].child # t
    BY <1>3, RunningRow, NotANewChild
  <1> QED
    BY <1>2, <1>3, <1>4, <1>5, OneTaskChanges

\* The execution of one task moves on within the loop.
LEMMA ExecutionMoves ==
  ASSUME Inv, HistoryTyped, NEW t \in TaskIds, NEW r \in Row, NEW e \in Execution,
         Running(t),
         rows' = [rows EXCEPT ![t] = r], exec' = [exec EXCEPT ![t] = e],
         TaskInOrder(r, e, t \in lost')
  PROVE  Inv'
  <1>1. /\ rows \in [TaskIds -> Row] /\ exec \in [TaskIds -> Execution]
    BY DEF Inv, TypeOK
  <1>2. /\ rows' \in [TaskIds -> Row] /\ rows'[t] = r
        /\ \A u \in TaskIds \ {t} : rows'[u] = rows[u]
    BY <1>1
  <1>3. /\ exec' \in [TaskIds -> Execution] /\ exec'[t] = e
        /\ \A u \in TaskIds \ {t} : exec'[u] = exec[u]
    BY <1>1
  <1>4. \A u \in TaskIds \ {t} : Keeps(exec[u], exec'[u])
    BY <1>3 DEF Keeps
  <1>5. \A p \in TaskIds \ {t} :
          exec'[p].pc = "transferring" => exec[p].child # t
    BY <1>4, RunningRow, NotANewChild
  <1> QED
    BY <1>2, <1>3, <1>4, <1>5, OneTaskChanges

-----------------------------------------------------------------------------
(* One lemma per action.                                                   *)

LEMMA ThrowInv ==
  ASSUME Inv, NEW t \in TaskIds, NEW timeout \in BOOLEAN,
         Running(t), Throw(t, timeout)
  PROVE  Inv'
  <1> DEFINE r == ThrownRow(rows[t], timeout)
  <1>1. /\ r \in Row /\ r.state # "working" /\ r.retries <= MaxRetries
        /\ r.dlq # <<>> => r.dlq = <<MaxRetries>> /\ r.state = "failed"
    BY RunningRow, ThrownRowType
  <1>2. HistoryTyped
    <2>1. Failed1(ev[t]) \in Events
      BY EventsType DEF Inv, TypeOK
    <2>2. ev' = ev \/ ev' = [ev EXCEPT ![t] = Failed1(ev[t])]
      BY DEF Throw
    <2> QED
      BY <2>1, <2>2, HistoryTypedBy DEF Throw, Inv
  <1>3. rows' = [rows EXCEPT ![t] = r] /\ exec' = Settled(exec, t)
    BY DEF Throw
  <1> HIDE DEF r
  <1> QED
    BY <1>1, <1>2, <1>3, ExecutionEnds

LEMMA RejectCircularInv ==
  ASSUME Inv, NEW t \in TaskIds, Running(t), RejectCircular(t)
  PROVE  Inv'
  <1> DEFINE r == FailedRow(rows[t])
  <1>1. /\ r \in Row /\ r.state = "failed" /\ r.retries <= MaxRetries
        /\ r.dlq = <<>>
    BY RunningRow, FailedRowType
  <1>2. HistoryTyped
    BY EventsType, HistoryTypedBy DEF RejectCircular, Inv, TypeOK
  <1>3. rows' = [rows EXCEPT ![t] = r] /\ exec' = Settled(exec, t)
    BY DEF RejectCircular
  <1> HIDE DEF r
  <1> QED
    BY <1>1, <1>2, <1>3, ExecutionEnds

LEMMA ResumeInv ==
  ASSUME Inv, NEW t \in TaskIds, Resume(t)
  PROVE  Inv'
  <1> DEFINE r == CompletedRow(rows[t])
  <1>1. Running(t)
    BY DEF Resume, Running
  <1>2. /\ r \in Row /\ r.state = "completed" /\ r.retries <= MaxRetries
        /\ r.dlq = <<>>
    BY <1>1, RunningRow, CompletedRowType
  <1>3. HistoryTyped
    BY EventsType, HistoryTypedBy DEF Resume, Inv, TypeOK
  <1>4. rows' = [rows EXCEPT ![t] = r] /\ exec' = Settled(exec, t)
    BY DEF Resume
  <1> HIDE DEF r
  <1> QED
    BY <1>1, <1>2, <1>3, <1>4, ExecutionEnds

LEMMA CompleteInv ==
  ASSUME Inv, NEW t \in TaskIds, Running(t), exec[t].pc # "routing", Complete(t)
  PROVE  Inv'
  <1> DEFINE r == CompletedRow(rows[t])
             e == [[exec[t] EXCEPT !.pc = "syncing"] EXCEPT !.peer = NoAgent]
  <1>1. exec[t] \in Execution /\ exec \in [TaskIds -> Execution]
    BY DEF Inv, TypeOK
  <1>2. /\ r \in Row /\ r.state = "completed" /\ r.retries <= MaxRetries
        /\ r.dlq = <<>>
    BY RunningRow, CompletedRowType
  <1>3. e \in Execution
    BY <1>1, SetPc, SetPeer DEF Points
  <1>4. /\ e.pc = "syncing" /\ e.agent = exec[t].agent
        /\ e.chain = exec[t].chain /\ e.depth = exec[t].depth
    BY <1>1 DEF Execution
  <1>5. HistoryTyped
    BY EventsType, HistoryTypedBy DEF Complete, Inv, TypeOK
  <1>6. rows' = [rows EXCEPT ![t] = r] /\ exec' = [exec EXCEPT ![t] = e]
    BY <1>1 DEF Complete
  <1> HIDE DEF r, e
  <1>7. TaskInOrder(r, e, t \in lost')
    BY <1>2, <1>4 DEF TaskInOrder, Inv, HandoverBounded, AgentKnown, Running
  <1> QED
    BY <1>2, <1>3, <1>5, <1>6, <1>7, ExecutionMoves

\* The execution of one task goes on to a point past its routing, and nothing
\* else happens.
LEMMA ExecutionGoesOn ==
  ASSUME Inv, NEW t \in TaskIds, NEW e \in Execution,
         Running(t), exec' = [exec EXCEPT ![t] = e],
         UNCHANGED <<rows, ev, lost, crashes>>,
         e.pc \notin {"idle", "syncing", "routing", "transferring"},
         e.agent \in Agents, SamePlace(exec[t], e)
  PROVE  Inv'
  <1>1. HistoryTyped
    BY DEF HistoryTyped, Inv, TypeOK
  <1>2. /\ rows[t] \in Row /\ rows' = [rows EXCEPT ![t] = rows[t]]
    BY DEF Inv, TypeOK
  <1>3. TaskInOrder(rows[t], e, t \in lost')
    BY RunningRow DEF TaskInOrder, Inv, HandoverBounded, SamePlace
  <1> QED
    BY <1>1, <1>2, <1>3, ExecutionMoves

LEMMA RouteInv ==
  ASSUME Inv, NEW t \in TaskIds, NEW a \in Agents, Route(t, a)
  PROVE  Inv'
  <1>1. Running(t)
    BY DEF Route, Running
  <1>2. CASE MayInvoke(exec[t].acl, a)
    <2> DEFINE f == [exec[t] EXCEPT !.pc = "resolving"]
               e == [f EXCEPT !.agent = a]
    <2>1. exec[t] \in Execution /\ exec \in [TaskIds -> Execution]
      BY DEF Inv, TypeOK
    <2>2. f \in Execution /\ f.pc = "resolving" /\ SamePlace(exec[t], f)
      BY <2>1, SetPc DEF Points
    <2>3. exec' = [exec EXCEPT ![t] = e]
      BY <1>2, <2>1 DEF Route
    <2> HIDE DEF f
    <2>4. e \in Execution /\ e.pc = "resolving" /\ e.agent = a
          /\ SamePlace(f, e)
      BY <2>2, SetAgent
    <2>5. SamePlace(exec[t], e)
      BY <2>2, <2>4 DEF SamePlace
    <2>6. UNCHANGED <<rows, ev, lost, crashes>>
      BY <1>2 DEF Route
    <2> HIDE DEF e
    <2> QED
      BY <1>1, <2>3, <2>4, <2>5, <2>6, ExecutionGoesOn
  <1>3. CASE ~MayInvoke(exec[t].acl, a)
    <2>1. Throw(t, FALSE)
      BY <1>3 DEF Route
    <2> QED
      BY <1>1, <2>1, ThrowInv
  <1> QED
    BY <1>2, <1>3

LEMMA ResolveInv ==
  ASSUME Inv, NEW t \in TaskIds, Resolve(t)
  PROVE  Inv'
  <1> DEFINE e == [exec[t] EXCEPT !.pc = "delegating"]
  <1>1. exec[t] \in Execution /\ exec \in [TaskIds -> Execution]
        /\ exec[t].pc = "resolving"
    BY DEF Resolve, Inv, TypeOK
  <1>2. e \in Execution /\ e.pc = "delegating" /\ e.agent = exec[t].agent
        /\ SamePlace(exec[t], e)
    BY <1>1, SetPc DEF Points
  <1>3. e.agent \in Agents
    BY <1>1, <1>2 DEF Inv, AgentKnown
  <1>4. Running(t) /\ exec' = [exec EXCEPT ![t] = e]
        /\ UNCHANGED <<rows, ev, lost, crashes>>
    BY <1>1 DEF Resolve, Running
  <1> HIDE DEF e
  <1> QED
    BY <1>2, <1>3, <1>4, ExecutionGoesOn

LEMMA DelegateReturnsForVerificationInv ==
  ASSUME Inv, NEW t \in TaskIds, NEW target \in Targets,
         DelegateReturnsForVerification(t, target)
  PROVE  Inv'
  <1> DEFINE f == [exec[t] EXCEPT !.pc = "verifying"]
             e == [f EXCEPT !.result = target]
  <1>1. exec[t] \in Execution /\ exec \in [TaskIds -> Execution]
        /\ exec[t].pc = "delegating"
    BY DEF DelegateReturnsForVerification, Inv, TypeOK
  <1>2. f \in Execution /\ f.pc = "verifying" /\ f.agent = exec[t].agent
        /\ SamePlace(exec[t], f)
    BY <1>1, SetPc DEF Points
  <1>3. Running(t) /\ exec' = [exec EXCEPT ![t] = e]
        /\ UNCHANGED <<rows, ev, lost, crashes>>
    BY <1>1 DEF DelegateReturnsForVerification, Running
  <1> HIDE DEF f
  <1>4. e \in Execution /\ e.pc = "verifying" /\ e.agent = exec[t].agent
        /\ SamePlace(exec[t], e)
    BY <1>2, SetResult DEF SamePlace
  <1>5. e.agent \in Agents
    BY <1>1, <1>4 DEF Inv, AgentKnown
  <1> HIDE DEF e
  <1> QED
    BY <1>3, <1>4, <1>5, ExecutionGoesOn

LEMMA AskPeerInv ==
  ASSUME Inv, NEW t \in TaskIds, NEW a \in Agents, AskPeer(t, a)
  PROVE  Inv'
  <1> DEFINE e == [exec[t] EXCEPT !.peer = a]
  <1>1. exec[t] \in Execution /\ exec \in [TaskIds -> Execution]
        /\ exec[t].pc = "verifying"
    BY DEF AskPeer, Inv, TypeOK
  <1>2. e \in Execution /\ e.pc = "verifying" /\ e.agent = exec[t].agent
        /\ SamePlace(exec[t], e)
    BY <1>1, SetPeer
  <1>3. e.agent \in Agents
    BY <1>1, <1>2 DEF Inv, AgentKnown
  <1>4. Running(t) /\ exec' = [exec EXCEPT ![t] = e]
        /\ UNCHANGED <<rows, ev, lost, crashes>>
    BY <1>1 DEF AskPeer, Running
  <1> HIDE DEF e
  <1> QED
    BY <1>2, <1>3, <1>4, ExecutionGoesOn

\* A task that is not at work is executed from the start, for whoever asks.
LEMMA ExecutionBegins ==
  ASSUME Inv, NEW t \in TaskIds, NEW r \in Row, NEW acl \in SUBSET Agents,
         rows[t].state # "submitted" \/ rows[t].retries # 0,
         Exists(r), r.dlq = <<>>, r.retries <= MaxRetries,
         rows' = [rows EXCEPT ![t] = BegunRow(r, NoAgent, acl)],
         exec' = [exec EXCEPT ![t] = Begun(NoAgent, acl, acl, <<>>, 0)],
         ev' = [ev EXCEPT ![t] = BegunEvents(ev[t], NoAgent, acl)],
         UNCHANGED <<lost, crashes>>
  PROVE  Inv'
  <1> DEFINE q == BegunRow(r, NoAgent, acl)
             e == Begun(NoAgent, acl, acl, <<>>, 0)
  <1>1. /\ rows \in [TaskIds -> Row] /\ exec \in [TaskIds -> Execution]
        /\ MaxDepth \in Nat /\ <<>> \in Seq(Agents)
    BY OrchestratorAssumption DEF Inv, TypeOK
  <1>2. ~Denied(NoAgent, acl)
    BY DEF Denied
  <1>3. q \in Row /\ q.state = "working" /\ q.retries = r.retries /\ q.dlq = <<>>
    BY <1>2, BegunRowType
  <1>4. e \in Execution /\ e.pc = "routing" /\ e.chain = <<>> /\ e.depth = 0
    <2>1. NoAgent \in Agents \cup {NoAgent} /\ 0 \in Nat
      OBVIOUS
    <2>2. e \in Execution
      BY <1>1, <2>1, BegunType
    <2>3. e.pc = "routing" /\ e.chain = <<>> /\ e.depth = 0
      BY <1>2 DEF Begun, Idle
    <2> QED
      BY <2>2, <2>3
  <1>5. HistoryTyped
    <2>1. BegunEvents(ev[t], NoAgent, acl) \in Events
      BY BegunEventsType DEF Inv, TypeOK
    <2> QED
      BY <2>1, HistoryTypedBy DEF Inv
  <1> HIDE DEF q, e
  <1>6. /\ rows' \in [TaskIds -> Row] /\ rows'[t] = q
        /\ \A u \in TaskIds \ {t} : rows'[u] = rows[u]
    BY <1>1, <1>3 DEF q
  <1>7. /\ exec' \in [TaskIds -> Execution] /\ exec'[t] = e
        /\ \A u \in TaskIds \ {t} : Keeps(exec[u], exec'[u])
    BY <1>1, <1>4 DEF e, Keeps
  <1>8. TaskInOrder(q, e, t \in lost')
    BY <1>1, <1>3, <1>4 DEF TaskInOrder
  <1>9. \A p \in TaskIds \ {t} :
          exec'[p].pc = "transferring" => exec[p].child # t
    BY <1>7, NotANewChild
  <1> QED
    BY <1>5, <1>6, <1>7, <1>8, <1>9, OneTaskChanges

LEMMA SubmitInv ==
  ASSUME Inv, NEW t \in TaskIds, NEW acl \in ACLs, Submit(t, acl)
  PROVE  Inv'
  <1> DEFINE r == Created(rows[t])
  <1>1. rows[t] \in Row /\ rows[t].state = "absent"
    BY DEF Inv, TypeOK, Submit, Exists
  <1>2. rows[t].dlq = <<>>
    BY <1>1 DEF Inv, DeadLettersExhausted
  <1>3. MaxRetries \in Nat /\ acl \in SUBSET Agents
    BY OrchestratorAssumption
  <1>4. r \in Row /\ Exists(r) /\ r.dlq = <<>> /\ r.retries <= MaxRetries
    BY <1>1, <1>2, <1>3, CreatedType DEF Exists
  <1>5. /\ rows' = [rows EXCEPT ![t] = BegunRow(r, NoAgent, acl)]
        /\ exec' = [exec EXCEPT ![t] = Begun(NoAgent, acl, acl, <<>>, 0)]
        /\ ev' = [ev EXCEPT ![t] = BegunEvents(ev[t], NoAgent, acl)]
        /\ UNCHANGED <<lost, crashes>>
    BY DEF Submit
  <1> HIDE DEF r
  <1> QED
    BY <1>1, <1>3, <1>4, <1>5, ExecutionBegins

LEMMA RedispatchInv ==
  ASSUME Inv, NEW t \in TaskIds, Redispatch(t)
  PROVE  Inv'
  <1> DEFINE r == rows[t]
  <1>1. r \in Row /\ r.state = "submitted" /\ r.retries # 0
    BY DEF Inv, TypeOK, Redispatch
  <1>2. Exists(r) /\ r.dlq = <<>> /\ r.retries <= MaxRetries
    BY <1>1 DEF Exists, Inv, DeadLettersExhausted
  <1>3. {} \in SUBSET Agents
    OBVIOUS
  <1>4. /\ rows' = [rows EXCEPT ![t] = BegunRow(r, NoAgent, {})]
        /\ exec' = [exec EXCEPT ![t] = Begun(NoAgent, {}, {}, <<>>, 0)]
        /\ ev' = [ev EXCEPT ![t] = BegunEvents(ev[t], NoAgent, {})]
        /\ UNCHANGED <<lost, crashes>>
    BY DEF Redispatch
  <1> QED
    BY <1>1, <1>2, <1>3, <1>4, ExecutionBegins

\* The operator changes a dead letter's row; nobody executes the task.
LEMMA OperatorInv ==
  ASSUME Inv, NEW t \in TaskIds, OperatorRetry(t) \/ OperatorPurge(t)
  PROVE  Inv'
  <1> DEFINE r == IF OperatorRetry(t) THEN RetriedFromDLQ(rows[t])
                                      ELSE DLQRemoved(rows[t])
  <1>1. /\ rows \in [TaskIds -> Row] /\ exec \in [TaskIds -> Execution]
    BY DEF Inv, TypeOK
  <1>2. /\ rows[t].state = "failed" /\ ~Running(t)
        /\ rows[t].retries <= MaxRetries
    BY DEF Inv, DeadLettersExhausted, OperatorRetry, OperatorPurge
  <1>3. /\ r \in Row /\ r.state \in {"failed", "submitted"}
        /\ r.retries <= MaxRetries /\ r.dlq = <<>>
    BY <1>1, <1>2, RetriedFromDLQType, DLQRemovedType
  <1>4. rows' = [rows EXCEPT ![t] = r] /\ UNCHANGED <<exec, ev, lost, crashes>>
    BY DEF OperatorRetry, OperatorPurge
  <1> HIDE DEF r
  <1>5. HistoryTyped
    BY <1>4 DEF HistoryTyped, Inv, TypeOK
  <1>6. /\ rows' \in [TaskIds -> Row] /\ rows'[t] = r
        /\ \A u \in TaskIds \ {t} : rows'[u] = rows[u]
    BY <1>1, <1>3, <1>4
  <1>7. \A u \in TaskIds \ {t} : Keeps(exec[u], exec'[u])
    BY <1>4 DEF Keeps
  <1>8. TaskInOrder(r, exec[t], t \in lost')
    BY <1>2, <1>3
       DEF TaskInOrder, Inv, HandoverBounded, AgentKnown, Running
  <1>9. \A p \in TaskIds \ {t} :
          exec'[p].pc = "transferring" => exec[p].child # t
    BY <1>2, <1>7, NotANewChild
  <1> QED
    BY <1>1, <1>4, <1>5, <1>6, <1>7, <1>8, <1>9, OneTaskChanges

LEMMA SyncInv ==
  ASSUME Inv, NEW t \in TaskIds, Sync(t)
  PROVE  Inv'
  <1>1. /\ rows \in [TaskIds -> Row] /\ exec \in [TaskIds -> Execution]
        /\ MaxDepth \in Nat
    BY OrchestratorAssumption DEF Inv, TypeOK
  <1>2. UNCHANGED <<rows, ev, lost, crashes>> /\ exec' = Settled(exec, t)
    BY DEF Sync
  <1>3. HistoryTyped
    BY <1>2 DEF HistoryTyped, Inv, TypeOK
  <1>4. /\ exec' \in [TaskIds -> Execution] /\ exec'[t] = Idle
        /\ \A u \in TaskIds \ {t} : Keeps(exec[u], exec'[u])
    BY <1>1, <1>2, SettledType
  <1>5. ~Running(t)
    BY DEF Sync, Running
  <1>6. TaskInOrder(rows[t], Idle, t \in lost')
    BY <1>1, <1>2, <1>5
       DEF TaskInOrder, Idle, Inv, WorkingHasRunner, DeadLettersExhausted
  <1> QED
    BY <1>1, <1>2, <1>3, <1>4, <1>6, OneTaskChanges

LEMMA CrashInv ==
  ASSUME Inv, Crash
  PROVE  Inv'
  <1>1. /\ rows' = rows /\ exec' = [t \in TaskIds |-> Idle]
        /\ lost' = lost \cup {t \in TaskIds : Running(t)}
        /\ UNCHANGED ev /\ crashes' = crashes + 1
    BY DEF Crash
  <1>2. TypeOK'
    BY <1>1, IdleType DEF Inv, TypeOK
  <1>3. \A t \in TaskIds : /\ exec'[t].pc = "idle" /\ exec'[t].depth = 0
                           /\ exec'[t].chain = <<>>
    BY <1>1 DEF Idle
  <1>4. WorkingHasRunner' /\ DeadLettersExhausted'
    BY <1>1, <1>3 DEF Inv, WorkingHasRunner, DeadLettersExhausted, Running
  <1>5. HandoverBounded'
    BY <1>3, OrchestratorAssumption DEF HandoverBounded
  <1>6. NewChildWaits' /\ NewChildHasOneParent' /\ AgentKnown'
    BY <1>3 DEF NewChildWaits, NewChildHasOneParent, AgentKnown, Transferring
  <1> QED
    BY <1>2, <1>4, <1>5, <1>6 DEF Inv

\* Two tasks change: the parent stays at work, and the child comes to wait.
LEMMA HandOverInv ==
  ASSUME Inv, NEW t \in TaskIds, NEW target \in Targets, NEW c \in TaskIds,
         Running(t), exec[t].pc # "routing", exec[t].depth < MaxDepth,
         HandOver(t, target, c)
  PROVE  Inv'
  <1> DEFINE m == MessageAppended(rows[t], "handover")
             r == StateUpdated(m, "working")
             k == Created(rows[c])
             f == [exec[t] EXCEPT !.pc = "transferring"]
             g == [f EXCEPT !.child = c]
             h == [g EXCEPT !.result = target]
             e == [h EXCEPT !.peer = NoAgent]
  <1>1. /\ rows \in [TaskIds -> Row] /\ exec \in [TaskIds -> Execution]
        /\ rows[c].state = "absent"
    BY DEF Inv, TypeOK, HandOver, Exists
  <1>2. t # c /\ ~Running(c)
    BY <1>1, RunningRow DEF Inv, WorkingHasRunner
  <1>3. r \in Row /\ r.state = "working" /\ r.retries <= MaxRetries /\ r.dlq = <<>>
    <2>1. /\ m \in Row /\ Exists(m)
          /\ m.retries = rows[t].retries /\ m.dlq = <<>>
      BY RunningRow, MessageAppendedType DEF MessageKinds, Exists
    <2> HIDE DEF m
    <2> QED
      BY <2>1, RunningRow, StateUpdatedType DEF States
  <1>4. k \in Row /\ k.state = "submitted" /\ k.retries = 0 /\ k.dlq = <<>>
    <2>1. rows[c].dlq = <<>>
      BY <1>1 DEF Inv, DeadLettersExhausted
    <2> QED
      BY <1>1, <2>1, CreatedType
  <1>5. /\ e \in Execution /\ e.pc = "transferring" /\ e.child = c
        /\ e.agent = exec[t].agent /\ SamePlace(exec[t], e)
    <2>1. /\ f \in Execution /\ f.pc = "transferring"
          /\ f.agent = exec[t].agent /\ SamePlace(exec[t], f)
      BY <1>1, SetPc DEF Points
    <2> HIDE DEF f
    <2>2. /\ g \in Execution /\ g.pc = "transferring" /\ g.child = c
          /\ g.agent = exec[t].agent /\ SamePlace(f, g)
      BY <2>1, SetChild
    <2> HIDE DEF g
    <2>3. /\ h \in Execution /\ h.pc = "transferring" /\ h.child = c
          /\ h.agent = exec[t].agent /\ SamePlace(g, h)
      BY <2>2, SetResult
    <2> HIDE DEF h
    <2>4. /\ e \in Execution /\ e.pc = "transferring" /\ e.child = c
          /\ e.agent = exec[t].agent /\ SamePlace(h, e)
      BY <2>3, SetPeer
    <2> QED
      BY <2>1, <2>2, <2>3, <2>4 DEF SamePlace
  <1>6. /\ rows' = [rows EXCEPT ![t] = r, ![c] = k]
        /\ exec' = [exec EXCEPT ![t] = e]
        /\ UNCHANGED <<ev, lost, crashes>>
    BY <1>1 DEF HandOver
  <1> HIDE DEF r, k, e
  <1>7. /\ rows' \in [TaskIds -> Row] /\ rows'[t] = r /\ rows'[c] = k
        /\ \A u \in TaskIds \ {t, c} : rows'[u] = rows[u]
    BY <1>1, <1>2, <1>3, <1>4, <1>6
  <1>8. /\ exec' \in [TaskIds -> Execution] /\ exec'[t] = e
        /\ \A u \in TaskIds \ {t} : exec'[u] = exec[u]
    BY <1>1, <1>5, <1>6
  <1>9. /\ Running(t)' /\ ~Running(c)'
        /\ \A u \in TaskIds : Running(u)' <=> Running(u)
    BY <1>2, <1>5, <1>8 DEF Running
  <1>10. TypeOK'
    BY <1>6, <1>7, <1>8 DEF Inv, TypeOK
  <1>11. WorkingHasRunner'
    BY <1>3, <1>4, <1>6, <1>7, <1>9 DEF Inv, WorkingHasRunner
  <1>12. DeadLettersExhausted'
    <2>1. 0 <= MaxRetries
      BY OrchestratorAssumption
    <2> QED
      BY <1>3, <1>4, <1>7, <1>9, <2>1 DEF Inv, DeadLettersExhausted
  <1>13. HandoverBounded'
    BY <1>5, <1>8 DEF Inv, HandoverBounded, SamePlace
  <1>14. NewChildWaits'
    <2> SUFFICES ASSUME NEW u \in TaskIds, exec'[u].pc = "transferring"
                 PROVE  /\ exec'[u].depth < MaxDepth
                        /\ exec'[u].child \in TaskIds
                        /\ rows'[exec'[u].child].state = "submitted"
                        /\ rows'[exec'[u].child].retries = 0
      BY DEF NewChildWaits, Transferring
    <2>1. CASE u = t
      BY <1>4, <1>5, <1>7, <1>8, <2>1 DEF SamePlace
    <2>2. CASE u # t
      <3>1. exec'[u] = exec[u]
        BY <1>8, <2>2
      <3>2. /\ exec[u].depth < MaxDepth /\ exec[u].child \in TaskIds
            /\ rows[exec[u].child].state = "submitted"
            /\ rows[exec[u].child].retries = 0
        BY <3>1 DEF Inv, NewChildWaits, Transferring
      <3>3. exec[u].child # c /\ exec[u].child # t
        BY <1>1, <3>2, RunningRow
      <3> QED
        BY <1>7, <3>1, <3>2, <3>3
    <2> QED
      BY <2>1, <2>2
  <1>15. NewChildHasOneParent'
    <2>1. ASSUME NEW u \in TaskIds, u # t, exec'[u].pc = "transferring"
          PROVE  exec[u].pc = "transferring" /\ exec'[u] = exec[u]
                 /\ exec[u].child # c
      BY <1>1, <1>8, <2>1 DEF Inv, NewChildWaits, Transferring
    <2> QED
      BY <1>5, <1>8, <2>1 DEF Inv, NewChildHasOneParent, Transferring
  <1>16. AgentKnown'
    BY <1>5, <1>8 DEF Inv, AgentKnown, Running
  <1> QED
    BY <1>10, <1>11, <1>12, <1>13, <1>14, <1>15, <1>16 DEF Inv

LEMMA ConcludeInv ==
  ASSUME Inv, NEW t \in TaskIds, NEW target \in Targets,
         Running(t), exec[t].pc # "routing", Conclude(t, target)
  PROVE  Inv'
  <1>1. CASE Complete(t)
    BY <1>1, CompleteInv
  <1>2. CASE RejectCircular(t)
    BY <1>2, RejectCircularInv
  <1>3. ASSUME NEW c \in TaskIds, exec[t].depth < MaxDepth,
               HandOver(t, target, c)
        PROVE  Inv'
    BY <1>3, HandOverInv
  <1> QED
    BY <1>1, <1>2, <1>3 DEF Conclude

LEMMA DelegateReturnsInv ==
  ASSUME Inv, NEW t \in TaskIds, NEW target \in Targets,
         DelegateReturns(t, target)
  PROVE  Inv'
  BY ConcludeInv DEF DelegateReturns, Running

LEMMA VerifyInv ==
  ASSUME Inv, NEW t \in TaskIds, NEW contested \in BOOLEAN,
         Verify(t, contested)
  PROVE  Inv'
  <1> DEFINE target == IF contested THEN NoAgent ELSE exec[t].result
  <1>1. target \in Targets
    BY DEF Inv, TypeOK, Execution, Targets
  <1>2. Running(t) /\ exec[t].pc # "routing" /\ Conclude(t, target)
    BY DEF Verify, Running
  <1> HIDE DEF target
  <1> QED
    BY <1>1, <1>2, ConcludeInv

LEMMA DelegateThrowsInv ==
  ASSUME Inv, NEW t \in TaskIds, NEW timeout \in BOOLEAN,
         DelegateThrows(t, timeout)
  PROVE  Inv'
  BY ThrowInv DEF DelegateThrows, Running

\* The child's row and execution change; of its parent, only where it is.
LEMMA TransferInv ==
  ASSUME Inv, NEW t \in TaskIds, Transfer(t)
  PROVE  Inv'
  <1> DEFINE me     == exec[t]
             c      == me.child
             forced == IF me.result \in Agents THEN me.result ELSE NoAgent
             chain  == ExtendChain(me.chain, me.agent)
             m      == MessageAppended(rows[c], "request")
             r      == BegunRow(m, forced, me.acl)
             e      == Begun(forced, me.acl, me.caller, chain, me.depth + 1)
             p      == IF Denied(forced, me.acl) THEN "resuming"
                                                 ELSE "awaitingChild"
             f      == [me EXCEPT !.pc = p]
  <1>1. /\ rows \in [TaskIds -> Row] /\ exec \in [TaskIds -> Execution]
        /\ me \in Execution /\ me.pc = "transferring" /\ Running(t)
    BY DEF Inv, TypeOK, Transfer, Running
  <1>2. /\ me.depth < MaxDepth /\ c \in TaskIds
        /\ rows[c] \in Row /\ rows[c].state = "submitted" /\ rows[c].retries = 0
    BY <1>1 DEF Inv, NewChildWaits, Transferring
  <1>3. c # t
    BY <1>1, <1>2, RunningRow
  <1>4. MaxRetries \in Nat /\ MaxDepth \in Nat
    BY OrchestratorAssumption
  <1>5. /\ r \in Row /\ r.retries <= MaxRetries /\ r.dlq = <<>>
        /\ r.state = IF Denied(forced, me.acl) THEN "failed" ELSE "working"
    <2>1. rows[c].dlq = <<>>
      BY <1>2 DEF Inv, DeadLettersExhausted
    <2>2. m \in Row /\ Exists(m) /\ m.retries = 0 /\ m.dlq = <<>>
      BY <1>2, <2>1, MessageAppendedType DEF MessageKinds, Exists
    <2> HIDE DEF m
    <2> QED
      BY <1>4, <2>2, BegunRowType
  <1>6. /\ chain \in Seq(Agents) /\ Len(chain) = me.depth + 1
        /\ me.depth \in Nat /\ me.acl \in SUBSET Agents
        /\ me.caller \in SUBSET Agents
        /\ forced \in Agents \cup {NoAgent}
    <2>1. me.agent \in Agents
      BY <1>1 DEF Inv, AgentKnown
    <2>2. me.chain \in Seq(Agents) /\ Len(me.chain) = me.depth
          /\ me.depth \in Nat /\ me.acl \in SUBSET Agents
          /\ me.caller \in SUBSET Agents
      BY <1>1 DEF Inv, HandoverBounded, Execution
    <2>3. chain = Append(me.chain, me.agent)
      BY DEF ExtendChain
    <2> QED
      BY <2>1, <2>2, <2>3
  <1>7. /\ e \in Execution
        /\ Denied(forced, me.acl) => e = Idle
        /\ ~Denied(forced, me.acl) =>
             /\ e.pc = IF forced = NoAgent THEN "routing" ELSE "resolving"
             /\ e.agent = forced /\ e.depth = me.depth + 1 /\ e.chain = chain
    <2>1. me.depth + 1 \in Nat
      BY <1>6
    <2> HIDE DEF chain, forced, me
    <2>2. e \in Execution
      BY <1>6, <2>1, BegunType
    <2>3. /\ Denied(forced, me.acl) => e = Idle
          /\ ~Denied(forced, me.acl) =>
               /\ e.pc = IF forced = NoAgent THEN "routing" ELSE "resolving"
               /\ e.agent = forced /\ e.depth = me.depth + 1 /\ e.chain = chain
      BY DEF Begun, Idle
    <2> QED
      BY <2>2, <2>3
  <1>8. f \in Execution /\ Keeps(me, f) /\ f.pc # "transferring"
    <2>1. p \in Points /\ p \in {"resuming", "awaitingChild"}
      BY DEF Points
    <2> HIDE DEF p
    <2>2. /\ f \in Execution /\ f.pc = p /\ SamePlace(me, f)
          /\ f.agent = me.agent /\ f.child = me.child
      BY <1>1, <2>1, SetPc
    <2> QED
      BY <1>1, <2>1, <2>2 DEF Keeps, SamePlace
  <1>9. /\ rows' = [rows EXCEPT ![c] = r]
        /\ exec' = [exec EXCEPT ![t] = f, ![c] = e]
        /\ ev' = [ev EXCEPT ![c] = BegunEvents(ev[c], forced, me.acl)]
        /\ UNCHANGED <<lost, crashes>>
    BY <1>1 DEF Transfer
  <1>10. HistoryTyped
    <2>1. BegunEvents(ev[c], forced, me.acl) \in Events
      BY <1>2, BegunEventsType DEF Inv, TypeOK
    <2> QED
      BY <1>2, <1>9, <2>1, HistoryTypedBy DEF Inv
  <1>11. TaskInOrder(r, e, c \in lost')
    <2>1. CASE Denied(forced, me.acl)
      <3>1. e.pc = "idle" /\ e.depth = 0 /\ e.chain = <<>>
        BY <1>7, <2>1 DEF Idle
      <3>2. r.state = "failed"
        BY <1>5, <2>1
      <3> HIDE DEF r, e
      <3> QED
        BY <1>4, <1>5, <3>1, <3>2 DEF TaskInOrder
    <2>2. CASE ~Denied(forced, me.acl)
      <3>1. /\ e.pc \in {"routing", "resolving"} /\ e.depth = me.depth + 1
            /\ Len(e.chain) = e.depth
            /\ e.pc = "resolving" => e.agent \in Agents
        BY <1>6, <1>7, <2>2
      <3>2. r.state = "working"
        BY <1>5, <2>2
      <3>3. me.depth + 1 <= MaxDepth
        BY <1>2, <1>4, <1>6
      <3> HIDE DEF r, e
      <3> QED
        BY <1>5, <3>1, <3>2, <3>3 DEF TaskInOrder
    <2> QED
      BY <2>1, <2>2
  <1> HIDE DEF r, e, f
  <1>12. /\ rows' \in [TaskIds -> Row] /\ rows'[c] = r
         /\ \A u \in TaskIds \ {c} : rows'[u] = rows[u]
    BY <1>1, <1>2, <1>5, <1>9
  <1>13. /\ exec' \in [TaskIds -> Execution] /\ exec'[c] = e /\ exec'[t] = f
         /\ \A u \in TaskIds \ {c, t} : exec'[u] = exec[u]
    BY <1>1, <1>2, <1>3, <1>7, <1>8, <1>9
  <1>14. \A u \in TaskIds \ {c} : Keeps(exec[u], exec'[u])
    BY <1>8, <1>13 DEF Keeps
  <1>15. \A u \in TaskIds \ {c} :
           exec'[u].pc = "transferring" => exec[u].child # c
    BY <1>1, <1>8, <1>13 DEF Inv, NewChildHasOneParent, Transferring
  <1> QED
    BY <1>2, <1>10, <1>11, <1>12, <1>13, <1>14, <1>15, OneTaskChanges

LEMMA StutterInv ==
  ASSUME Inv, UNCHANGED vars
  PROVE  Inv'
  BY DEF vars, Inv, TypeOK, WorkingHasRunner, DeadLettersExhausted,
         HandoverBounded, NewChildWaits, NewChildHasOneParent, AgentKnown,
         Running, Transferring

LEMMA NextInv ==
  ASSUME Inv, [Next]_vars
  PROVE  Inv'
  <1>1. ASSUME NEW t \in TaskIds, NEW acl \in ACLs, Submit(t, acl)
        PROVE  Inv'
    BY <1>1, SubmitInv
  <1>2. ASSUME NEW t \in TaskIds, Step(t)
        PROVE  Inv'
    BY <1>2, RouteInv, ResolveInv, DelegateReturnsInv,
       DelegateReturnsForVerificationInv, DelegateThrowsInv, AskPeerInv,
       VerifyInv, TransferInv, ResumeInv, SyncInv
       DEF Step
  <1>3. ASSUME NEW t \in TaskIds, OperatorRetry(t) \/ OperatorPurge(t)
        PROVE  Inv'
    BY <1>3, OperatorInv
  <1>4. ASSUME NEW t \in TaskIds, Redispatch(t)
        PROVE  Inv'
    BY <1>4, RedispatchInv
  <1>5. CASE Crash
    BY <1>5, CrashInv
  <1>6. CASE UNCHANGED vars
    BY <1>6, StutterInv
  <1> QED
    BY <1>1, <1>2, <1>3, <1>4, <1>5, <1>6 DEF Next

-----------------------------------------------------------------------------
(***************************************************************************)
(* The inductive invariant holds in every reachable state.                 *)
(***************************************************************************)
THEOREM Invariance == Spec => []Inv
  <1>1. Init => Inv
    BY InitInv
  <1>2. Inv /\ [Next]_vars => Inv'
    BY NextInv
  <1> QED
    BY <1>1, <1>2, PTL DEF Spec

(***************************************************************************)
(* Every row, execution and counter is of its type: in particular the      *)
(* retry counts stay natural numbers and the chains name agents.           *)
(***************************************************************************)
THEOREM TypeCorrect == Spec => []TypeOK
  <1>1. Inv => TypeOK
    BY DEF Inv
  <1> QED
    BY <1>1, Invariance, PTL

(***************************************************************************)
(* No path through executeWithDepth, alone or interleaved with others,     *)
(* leaves a task "working" that nobody works on, short of a crash.         *)
(***************************************************************************)
THEOREM NoWorkWithoutRunner == Spec => []WorkingHasRunner
  <1>1. Inv => WorkingHasRunner
    BY DEF Inv
  <1> QED
    BY <1>1, Invariance, PTL

(***************************************************************************)
(* The retry limit of the catch block holds, whatever the operator and the *)
(* dispatcher do, and only exhausted, failed tasks become dead letters.    *)
(***************************************************************************)
THEOREM RetriesBounded == Spec => []DeadLettersExhausted
  <1>1. Inv => DeadLettersExhausted
    BY DEF Inv
  <1> QED
    BY <1>1, Invariance, PTL

(***************************************************************************)
(* Handovers are at most MAX_HANDOVER_DEPTH deep, and the chain lists one  *)
(* agent for each.                                                         *)
(***************************************************************************)
THEOREM HandoversBounded == Spec => []HandoverBounded
  <1>1. Inv => HandoverBounded
    BY DEF Inv
  <1> QED
    BY <1>1, Invariance, PTL
=============================================================================

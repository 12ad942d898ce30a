------------------------ MODULE OrchestratorHistory -------------------------
(***************************************************************************)
(* What the loop leaves behind about a task: that its rows follow the life *)
(* cycle of TaskLifecycle, the events it emitted and the trail of its      *)
(* states.  And what a handover passes on: the caller's permissions, the   *)
(* chain and the named agent, from the execution that awaits to the one it *)
(* awaits.  Proved for any sets of tasks, agents and callers, any bounds,  *)
(* either task store, and with or without a dispatcher.                    *)
(***************************************************************************)
EXTENDS OrchestratorProofs

-----------------------------------------------------------------------------
(* The mapping, and how it follows a step that changes one row.            *)

StateOf == [t \in TaskIds |-> rows[t].state]

Live == {t \in TaskIds : Running(t)}

Dead == {t \in TaskIds : rows[t].dlq # <<>>}

LEMMA RowMaps ==
  ASSUME rows \in [TaskIds -> Row], NEW t \in TaskIds, NEW r,
         rows' = [rows EXCEPT ![t] = r]
  PROVE  /\ StateOf' = [StateOf EXCEPT ![t] = r.state]
         /\ r.dlq = rows[t].dlq => Dead' = Dead
         /\ r.dlq # <<>> => Dead' = Dead \cup {t}
         /\ r.dlq = <<>> => Dead' = Dead \ {t}
  <1>1. \A u \in TaskIds : rows'[u] = IF u = t THEN r ELSE rows[u]
    OBVIOUS
  <1>2. StateOf' = [StateOf EXCEPT ![t] = r.state]
    BY <1>1 DEF StateOf
  <1> QED
    BY <1>1, <1>2 DEF Dead

LEMMA LiveMaps ==
  ASSUME NEW t \in TaskIds,
         \A u \in TaskIds \ {t} : Running(u)' <=> Running(u)
  PROVE  /\ Running(t)' => Live' = Live \cup {t}
         /\ ~Running(t)' => Live' = Live \ {t}
  BY DEF Live

\* A step that changes neither states, nor who works, nor the dead letters.
LEMMA NothingMoves ==
  ASSUME rows' = rows, \A u \in TaskIds : Running(u)' <=> Running(u)
  PROVE  UNCHANGED Lifecycle!vars
  <1>1. StateOf' = StateOf /\ Live' = Live /\ Dead' = Dead
    BY DEF StateOf, Live, Dead
  <1> QED
    BY <1>1 DEF Lifecycle!vars, StateOf, Live, Dead

\* An execution that returns frees its own task and no other.
LEMMA SettledRunning ==
  ASSUME Inv, NEW t \in TaskIds, exec' = Settled(exec, t)
  PROVE  /\ ~Running(t)'
         /\ \A u \in TaskIds \ {t} : Running(u)' <=> Running(u)
  <1>1. exec \in [TaskIds -> Execution]
    BY DEF Inv, TypeOK
  <1>2. /\ exec'[t] = Idle
        /\ \A u \in TaskIds \ {t} : Keeps(exec[u], exec'[u])
    BY <1>1, SettledType
  <1> QED
    BY <1>2 DEF Running, Keeps, Idle

-----------------------------------------------------------------------------
(* The four ways in which a working task stops being worked on or begins.  *)

LEMMA EndsInLifecycle ==
  ASSUME Inv, NEW t \in TaskIds, NEW r, Running(t),
         rows' = [rows EXCEPT ![t] = r],
         ~Running(t)', \A u \in TaskIds \ {t} : Running(u)' <=> Running(u),
         \/ r.state \in {"completed", "failed"} /\ r.dlq = <<>>
         \/ r.state = "submitted" /\ r.dlq = <<>>
         \/ r.state = "failed" /\ r.dlq # <<>>
  PROVE  Lifecycle!Next
  <1>1. rows \in [TaskIds -> Row]
    BY DEF Inv, TypeOK
  <1>2. rows[t].state = "working" /\ rows[t].dlq = <<>>
    BY RunningRow
  <1>3. t \in Live \ Dead /\ StateOf[t] = "working"
    BY <1>2 DEF Live, Dead, StateOf
  <1>4. Live' = Live \ {t} /\ StateOf' = [StateOf EXCEPT ![t] = r.state]
    BY <1>1, LiveMaps, RowMaps
  <1>5. CASE r.state \in {"completed", "failed"} /\ r.dlq = <<>>
    <2>1. Dead' = Dead
      BY <1>1, <1>2, <1>5, RowMaps
    <2>2. Lifecycle!Finish(t, r.state)
      BY <1>3, <1>4, <2>1 DEF Lifecycle!Finish, StateOf, Live, Dead
    <2> QED
      BY <1>5, <2>2 DEF Lifecycle!Next, Lifecycle!Ended
  <1>6. CASE r.state = "submitted" /\ r.dlq = <<>>
    <2>1. Dead' = Dead
      BY <1>1, <1>2, <1>6, RowMaps
    <2>2. Lifecycle!PutBack(t)
      BY <1>3, <1>4, <1>6, <2>1 DEF Lifecycle!PutBack, StateOf, Live, Dead
    <2> QED
      BY <2>2 DEF Lifecycle!Next
  <1>7. CASE r.state = "failed" /\ r.dlq # <<>>
    <2>1. Dead' = Dead \cup {t}
      BY <1>1, <1>7, RowMaps
    <2>2. Lifecycle!GiveUp(t)
      BY <1>3, <1>4, <1>7, <2>1 DEF Lifecycle!GiveUp, StateOf, Live, Dead
    <2> QED
      BY <2>2 DEF Lifecycle!Next
  <1> QED
    BY <1>5, <1>6, <1>7

\* executeWithDepth begins a task: it works, or is turned away at once.
LEMMA BeginsInLifecycle ==
  ASSUME Inv, NEW t \in TaskIds, NEW r, ~Running(t),
         rows[t].state \in {"absent", "submitted"}, r.dlq = <<>>,
         rows' = [rows EXCEPT ![t] = r],
         \A u \in TaskIds \ {t} : Running(u)' <=> Running(u),
         \/ r.state = "working" /\ Running(t)'
         \/ /\ r.state = "failed" /\ ~Running(t)'
            /\ rows[t].state = "submitted"
  PROVE  Lifecycle!Next
  <1>1. rows \in [TaskIds -> Row]
    BY DEF Inv, TypeOK
  <1>2. rows[t].dlq = <<>>
    BY DEF Inv, DeadLettersExhausted
  <1>3. t \notin Live /\ StateOf[t] = rows[t].state
    BY DEF Live, StateOf
  <1>4. Dead' = Dead /\ StateOf' = [StateOf EXCEPT ![t] = r.state]
    BY <1>1, <1>2, RowMaps
  <1>5. CASE r.state = "working" /\ Running(t)'
    <2>1. Live' = Live \cup {t}
      BY <1>5, LiveMaps
    <2>2. Lifecycle!Start(t)
      BY <1>3, <1>4, <1>5, <2>1 DEF Lifecycle!Start, StateOf, Live, Dead
    <2> QED
      BY <2>2 DEF Lifecycle!Next
  <1>6. CASE /\ r.state = "failed" /\ ~Running(t)'
             /\ rows[t].state = "submitted"
    <2>1. Live' = Live
      BY <1>3, <1>6, LiveMaps
    <2>2. Lifecycle!Refuse(t)
      BY <1>3, <1>4, <1>6, <2>1 DEF Lifecycle!Refuse, StateOf, Live, Dead
    <2> QED
      BY <2>2 DEF Lifecycle!Next
  <1> QED
    BY <1>5, <1>6

-----------------------------------------------------------------------------
(* One lemma per action.                                                   *)

LEMMA ThrowMaps ==
  ASSUME Inv, NEW t \in TaskIds, NEW timeout \in BOOLEAN,
         Running(t), Throw(t, timeout)
  PROVE  Lifecycle!Next
  <1> DEFINE r == ThrownRow(rows[t], timeout)
  <1>1. \/ r.state = "submitted" /\ r.dlq = <<>>
        \/ r.state = "failed" /\ r.dlq \in {<<>>, <<MaxRetries>>}
    BY RunningRow, ThrownRowType
  <1>2. <<MaxRetries>> # <<>>
    OBVIOUS
  <1>3. rows' = [rows EXCEPT ![t] = r] /\ exec' = Settled(exec, t)
    BY DEF Throw
  <1> HIDE DEF r
  <1> QED
    BY <1>1, <1>2, <1>3, SettledRunning, EndsInLifecycle

LEMMA RejectCircularMaps ==
  ASSUME Inv, NEW t \in TaskIds, Running(t), RejectCircular(t)
  PROVE  Lifecycle!Next
  <1> DEFINE r == FailedRow(rows[t])
  <1>1. r.state = "failed" /\ r.dlq = <<>>
    BY RunningRow, FailedRowType
  <1>2. rows' = [rows EXCEPT ![t] = r] /\ exec' = Settled(exec, t)
    BY DEF RejectCircular
  <1> HIDE DEF r
  <1> QED
    BY <1>1, <1>2, SettledRunning, EndsInLifecycle

LEMMA ResumeMaps ==
  ASSUME Inv, NEW t \in TaskIds, Resume(t)
  PROVE  Lifecycle!Next
  <1> DEFINE r == CompletedRow(rows[t])
  <1>1. Running(t)
    BY DEF Resume, Running
  <1>2. r.state = "completed" /\ r.dlq = <<>>
    BY <1>1, RunningRow, CompletedRowType
  <1>3. rows' = [rows EXCEPT ![t] = r] /\ exec' = Settled(exec, t)
    BY DEF Resume
  <1> HIDE DEF r
  <1> QED
    BY <1>1, <1>2, <1>3, SettledRunning, EndsInLifecycle

LEMMA CompleteMaps ==
  ASSUME Inv, NEW t \in TaskIds, Running(t), Complete(t)
  PROVE  Lifecycle!Next
  <1> DEFINE r == CompletedRow(rows[t])
  <1>1. r.state = "completed" /\ r.dlq = <<>>
    BY RunningRow, CompletedRowType
  <1>2. rows' = [rows EXCEPT ![t] = r]
    BY DEF Complete
  <1>3. /\ exec'[t].pc = "syncing"
        /\ \A u \in TaskIds \ {t} : exec'[u] = exec[u]
    BY DEF Complete, Inv, TypeOK, Execution
  <1>4. /\ ~Running(t)'
        /\ \A u \in TaskIds \ {t} : Running(u)' <=> Running(u)
    BY <1>3 DEF Running
  <1> HIDE DEF r
  <1> QED
    BY <1>1, <1>2, <1>4, EndsInLifecycle

\* A handover creates its child, and its own task stays at work.
LEMMA HandOverMaps ==
  ASSUME Inv, NEW t \in TaskIds, NEW target \in Targets, NEW c \in TaskIds,
         Running(t), HandOver(t, target, c)
  PROVE  Lifecycle!Next
  <1> DEFINE m == MessageAppended(rows[t], "handover")
             r == StateUpdated(m, "working")
             k == Created(rows[c])
  <1>1. rows \in [TaskIds -> Row] /\ exec \in [TaskIds -> Execution]
    BY DEF Inv, TypeOK
  <1>2. rows[c].state = "absent" /\ rows[c].dlq = <<>>
    BY DEF HandOver, Exists, Inv, DeadLettersExhausted
  <1>3. rows[t].state = "working" /\ rows[t].dlq = <<>>
    BY RunningRow
  <1>4. r.state = "working" /\ r.dlq = <<>>
    <2>1. m \in Row /\ Exists(m) /\ m.dlq = <<>>
      BY RunningRow, MessageAppendedType DEF MessageKinds, Exists
    <2> HIDE DEF m
    <2> QED
      BY <2>1, StateUpdatedType DEF States
  <1>5. k.state = "submitted" /\ k.dlq = <<>>
    BY <1>1, <1>2, CreatedType
  <1>6. rows' = [rows EXCEPT ![t] = r, ![c] = k]
    BY DEF HandOver
  <1>7. \A u \in TaskIds : Running(u)' <=> Running(u)
    <2>1. /\ exec'[t].pc = "transferring"
          /\ \A u \in TaskIds \ {t} : exec'[u] = exec[u]
      BY <1>1 DEF HandOver, Execution
    <2> QED
      BY <2>1 DEF Running
  <1> HIDE DEF r, k
  <1>8. \A u \in TaskIds : /\ u # c => rows'[u].state = rows[u].state
                           /\ rows'[u].dlq = rows[u].dlq
    BY <1>1, <1>2, <1>3, <1>4, <1>5, <1>6
  <1>9. rows'[c].state = "submitted"
    BY <1>1, <1>5, <1>6
  <1>10. StateOf' = [StateOf EXCEPT ![c] = "submitted"]
    BY <1>8, <1>9 DEF StateOf
  <1>11. Live' = Live /\ Dead' = Dead /\ StateOf[c] = "absent"
    BY <1>2, <1>7, <1>8 DEF Live, Dead, StateOf
  <1>12. Lifecycle!Create(c)
    BY <1>10, <1>11 DEF Lifecycle!Create, StateOf, Live, Dead
  <1> QED
    BY <1>12 DEF Lifecycle!Next

LEMMA ConcludeMaps ==
  ASSUME Inv, NEW t \in TaskIds, NEW target \in Targets,
         Running(t), Conclude(t, target)
  PROVE  Lifecycle!Next
  BY CompleteMaps, RejectCircularMaps, HandOverMaps DEF Conclude

LEMMA VerifyMaps ==
  ASSUME Inv, NEW t \in TaskIds, NEW contested \in BOOLEAN,
         Verify(t, contested)
  PROVE  Lifecycle!Next
  <1> DEFINE target == IF contested THEN NoAgent ELSE exec[t].result
  <1>1. target \in Targets
    BY DEF Inv, TypeOK, Execution, Targets
  <1>2. Running(t) /\ Conclude(t, target)
    BY DEF Verify, Running
  <1> HIDE DEF target
  <1> QED
    BY <1>1, <1>2, ConcludeMaps

\* The awaits between which nothing is stored.
LEMMA SilentStepMaps ==
  ASSUME Inv, NEW t \in TaskIds,
         \/ Resolve(t)
         \/ \E target \in Targets : DelegateReturnsForVerification(t, target)
         \/ \E a \in Agents : AskPeer(t, a)
         \/ Sync(t)
  PROVE  UNCHANGED Lifecycle!vars
  <1>1. exec \in [TaskIds -> Execution]
    BY DEF Inv, TypeOK
  <1>2. CASE Resolve(t)
    <2>1. /\ exec'[t].pc = "delegating"
          /\ \A u \in TaskIds \ {t} : exec'[u] = exec[u]
      BY <1>1, <1>2 DEF Resolve, Execution
    <2>2. \A u \in TaskIds : Running(u)' <=> Running(u)
      BY <1>2, <2>1 DEF Resolve, Running
    <2> QED
      BY <1>2, <2>2, NothingMoves DEF Resolve
  <1>3. ASSUME NEW target \in Targets, DelegateReturnsForVerification(t, target)
        PROVE  UNCHANGED Lifecycle!vars
    <2>1. /\ exec'[t].pc = "verifying"
          /\ \A u \in TaskIds \ {t} : exec'[u] = exec[u]
      BY <1>1, <1>3 DEF DelegateReturnsForVerification, Execution
    <2>2. \A u \in TaskIds : Running(u)' <=> Running(u)
      BY <1>3, <2>1 DEF DelegateReturnsForVerification, Running
    <2> QED
      BY <1>3, <2>2, NothingMoves DEF DelegateReturnsForVerification
  <1>4. CASE Sync(t)
    <2>1. \A u \in TaskIds : Running(u)' <=> Running(u)
      BY <1>4, SettledRunning DEF Sync, Running
    <2> QED
      BY <1>4, <2>1, NothingMoves DEF Sync
  <1>5. ASSUME NEW a \in Agents, AskPeer(t, a)
        PROVE  UNCHANGED Lifecycle!vars
    <2>1. \A u \in TaskIds : exec'[u].pc = exec[u].pc
      BY <1>1, <1>5 DEF AskPeer, Execution
    <2>2. \A u \in TaskIds : Running(u)' <=> Running(u)
      BY <2>1 DEF Running
    <2> QED
      BY <1>5, <2>2, NothingMoves DEF AskPeer
  <1> QED
    BY <1>2, <1>3, <1>4, <1>5

LEMMA RouteMaps ==
  ASSUME Inv, NEW t \in TaskIds, NEW a \in Agents, Route(t, a)
  PROVE  [Lifecycle!Next]_(Lifecycle!vars)
  <1>1. Running(t)
    BY DEF Route, Running
  <1>2. CASE MayInvoke(exec[t].acl, a)
    <2>1. /\ exec'[t].pc = "resolving"
          /\ \A u \in TaskIds \ {t} : exec'[u] = exec[u]
      BY <1>2 DEF Route, Inv, TypeOK, Execution
    <2>2. \A u \in TaskIds : Running(u)' <=> Running(u)
      BY <1>1, <2>1 DEF Running
    <2> QED
      BY <1>2, <2>2, NothingMoves DEF Route
  <1>3. CASE ~MayInvoke(exec[t].acl, a)
    BY <1>1, <1>3, ThrowMaps DEF Route
  <1> QED
    BY <1>2, <1>3

\* A task begun for whoever asks is not denied: its agent is still to be found.
LEMMA UnforcedBegins ==
  ASSUME Inv, NEW t \in TaskIds, NEW r \in Row, NEW acl,
         Exists(r), r.dlq = <<>>, r.retries <= MaxRetries,
         ~Running(t), rows[t].state \in {"absent", "submitted"},
         rows' = [rows EXCEPT ![t] = BegunRow(r, NoAgent, acl)],
         exec' = [exec EXCEPT ![t] = Begun(NoAgent, acl, acl, <<>>, 0)]
  PROVE  Lifecycle!Next
  <1> DEFINE q == BegunRow(r, NoAgent, acl)
  <1>1. ~Denied(NoAgent, acl)
    BY DEF Denied
  <1>2. q.state = "working" /\ q.dlq = <<>>
    BY <1>1, BegunRowType
  <1>3. exec \in [TaskIds -> Execution]
    BY DEF Inv, TypeOK
  <1>4. Begun(NoAgent, acl, acl, <<>>, 0).pc = "routing"
    BY <1>1 DEF Begun, Idle
  <1>5. /\ Running(t)'
        /\ \A u \in TaskIds \ {t} : Running(u)' <=> Running(u)
    BY <1>3, <1>4 DEF Running
  <1> HIDE DEF q
  <1> QED
    BY <1>2, <1>5, BeginsInLifecycle DEF q

LEMMA SubmitMaps ==
  ASSUME Inv, NEW t \in TaskIds, NEW acl \in ACLs, Submit(t, acl)
  PROVE  Lifecycle!Next
  <1> DEFINE r == Created(rows[t])
  <1>1. rows[t] \in Row /\ rows[t].state = "absent"
    BY DEF Inv, TypeOK, Submit, Exists
  <1>2. rows[t].dlq = <<>> /\ ~Running(t)
    BY <1>1 DEF Inv, DeadLettersExhausted, WorkingHasRunner
  <1>3. MaxRetries \in Nat
    BY OrchestratorAssumption
  <1>4. r \in Row /\ Exists(r) /\ r.dlq = <<>> /\ r.retries <= MaxRetries
    BY <1>1, <1>2, <1>3, CreatedType DEF Exists
  <1>5. /\ rows' = [rows EXCEPT ![t] = BegunRow(r, NoAgent, acl)]
        /\ exec' = [exec EXCEPT ![t] = Begun(NoAgent, acl, acl, <<>>, 0)]
    BY DEF Submit
  <1> HIDE DEF r
  <1> QED
    BY <1>1, <1>2, <1>4, <1>5, UnforcedBegins

LEMMA RedispatchMaps ==
  ASSUME Inv, NEW t \in TaskIds, Redispatch(t)
  PROVE  Lifecycle!Next
  <1>1. rows[t] \in Row /\ rows[t].state = "submitted"
    BY DEF Inv, TypeOK, Redispatch
  <1>2. /\ Exists(rows[t]) /\ rows[t].dlq = <<>> /\ ~Running(t)
        /\ rows[t].retries <= MaxRetries
    BY <1>1 DEF Exists, Inv, DeadLettersExhausted, WorkingHasRunner
  <1>3. /\ rows' = [rows EXCEPT ![t] = BegunRow(rows[t], NoAgent, {})]
        /\ exec' = [exec EXCEPT ![t] = Begun(NoAgent, {}, {}, <<>>, 0)]
    BY DEF Redispatch
  <1> QED
    BY <1>1, <1>2, <1>3, UnforcedBegins

LEMMA TransferMaps ==
  ASSUME Inv, NEW t \in TaskIds, Transfer(t)
  PROVE  Lifecycle!Next
  <1>1. /\ exec \in [TaskIds -> Execution] /\ exec[t] \in Execution
        /\ exec[t].pc = "transferring" /\ Running(t)
    BY DEF Inv, TypeOK, Transfer, Running
  <1> SUFFICES ASSUME NEW c \in TaskIds, exec[t].child = c
               PROVE  Lifecycle!Next
    BY <1>1 DEF Inv, NewChildWaits, Transferring
  <1> DEFINE me     == exec[t]
             forced == IF me.result \in Agents THEN me.result ELSE NoAgent
             denied == Denied(forced, me.acl)
             chain  == ExtendChain(me.chain, me.agent)
             m      == MessageAppended(rows[c], "request")
             r      == BegunRow(m, forced, me.acl)
             e      == Begun(forced, me.acl, me.caller, chain, me.depth + 1)
             f      == [me EXCEPT !.pc = IF denied THEN "resuming"
                                                   ELSE "awaitingChild"]
  <1>2. /\ rows[c] \in Row
        /\ rows[c].state = "submitted" /\ rows[c].retries = 0
    BY <1>1 DEF Inv, TypeOK, NewChildWaits, Transferring
  <1>3. c # t /\ rows[c].dlq = <<>> /\ ~Running(c)
    BY <1>1, <1>2 DEF Inv, WorkingHasRunner, DeadLettersExhausted
  <1>4. r.dlq = <<>> /\ r.state = IF denied THEN "failed" ELSE "working"
    <2>1. MaxRetries \in Nat
      BY OrchestratorAssumption
    <2>2. m \in Row /\ Exists(m) /\ m.retries = 0 /\ m.dlq = <<>>
      BY <1>2, <1>3, MessageAppendedType DEF MessageKinds, Exists
    <2> HIDE DEF m
    <2> QED
      BY <2>1, <2>2, BegunRowType
  <1>5. e.pc \in IF denied THEN {"idle"} ELSE {"routing", "resolving"}
    <2> HIDE DEF forced, chain, me
    <2> QED
      BY DEF Begun, Idle
  <1>6. f.pc \in {"resuming", "awaitingChild"}
    BY <1>1 DEF Execution
  <1>7. /\ rows' = [rows EXCEPT ![c] = r]
        /\ exec' = [exec EXCEPT ![t] = f, ![c] = e]
    BY <1>1 DEF Transfer
  <1> HIDE DEF me, denied, r, e, f
  <1>8. /\ exec'[t] = f /\ exec'[c] = e
        /\ \A u \in TaskIds \ {c, t} : exec'[u] = exec[u]
    BY <1>1, <1>3, <1>7
  <1>9. \A u \in TaskIds \ {c} : Running(u)' <=> Running(u)
    BY <1>1, <1>6, <1>8 DEF Running
  <1>10. \/ r.state = "working" /\ Running(c)'
         \/ r.state = "failed" /\ ~Running(c)'
    BY <1>4, <1>5, <1>8 DEF Running
  <1> QED
    BY <1>2, <1>3, <1>4, <1>7, <1>9, <1>10, BeginsInLifecycle

\* The operator takes a dead letter out, with or without a second chance.
LEMMA OperatorMaps ==
  ASSUME Inv, NEW t \in TaskIds, OperatorRetry(t) \/ OperatorPurge(t)
  PROVE  Lifecycle!Next
  <1>1. rows \in [TaskIds -> Row]
    BY DEF Inv, TypeOK
  <1>2. /\ rows[t].dlq # <<>> /\ rows[t].state = "failed"
        /\ t \in Dead /\ StateOf[t] = "failed"
    BY DEF Inv, DeadLettersExhausted, OperatorRetry, OperatorPurge,
           Dead, StateOf
  <1>3. Live' = Live
    BY DEF OperatorRetry, OperatorPurge, Live, Running
  <1>4. CASE OperatorRetry(t)
    <2> DEFINE r == RetriedFromDLQ(rows[t])
    <2>1. r.state = "submitted" /\ r.dlq = <<>>
      BY <1>1, RetriedFromDLQType
    <2>2. rows' = [rows EXCEPT ![t] = r]
      BY <1>4 DEF OperatorRetry
    <2> HIDE DEF r
    <2>3. StateOf' = [StateOf EXCEPT ![t] = "submitted"] /\ Dead' = Dead \ {t}
      BY <1>1, <2>1, <2>2, RowMaps
    <2>4. Lifecycle!Revive(t)
      BY <1>2, <1>3, <2>3 DEF Lifecycle!Revive, StateOf, Live, Dead
    <2> QED
      BY <2>4 DEF Lifecycle!Next
  <1>5. CASE OperatorPurge(t)
    <2> DEFINE r == DLQRemoved(rows[t])
    <2>1. r.state = "failed" /\ r.dlq = <<>>
      BY <1>1, <1>2, DLQRemovedType
    <2>2. rows' = [rows EXCEPT ![t] = r]
      BY <1>5 DEF OperatorPurge
    <2> HIDE DEF r
    <2>3. StateOf' = [StateOf EXCEPT ![t] = "failed"] /\ Dead' = Dead \ {t}
      BY <1>1, <2>1, <2>2, RowMaps
    <2>4. StateOf' = StateOf
      BY <1>2, <2>3 DEF StateOf
    <2>5. Lifecycle!Purge(t)
      BY <1>2, <1>3, <2>3, <2>4 DEF Lifecycle!Purge, StateOf, Live, Dead
    <2> QED
      BY <2>5 DEF Lifecycle!Next
  <1> QED
    BY <1>4, <1>5

LEMMA CrashMaps ==
  ASSUME Crash
  PROVE  Lifecycle!Next
  <1>1. rows' = rows /\ \A t \in TaskIds : exec'[t] = Idle
    BY DEF Crash
  <1>2. StateOf' = StateOf /\ Dead' = Dead /\ Live' = {}
    BY <1>1 DEF StateOf, Dead, Live, Running, Idle
  <1>3. Lifecycle!Crash
    BY <1>2 DEF Lifecycle!Crash, StateOf, Live, Dead
  <1> QED
    BY <1>3 DEF Lifecycle!Next

-----------------------------------------------------------------------------
LEMMA StepMaps ==
  ASSUME Inv, NEW t \in TaskIds, Step(t)
  PROVE  [Lifecycle!Next]_(Lifecycle!vars)
  <1>1. ASSUME NEW target \in Targets, DelegateReturns(t, target)
        PROVE  Lifecycle!Next
    BY <1>1, ConcludeMaps DEF DelegateReturns, Running
  <1>2. ASSUME NEW timeout \in BOOLEAN, DelegateThrows(t, timeout)
        PROVE  Lifecycle!Next
    BY <1>2, ThrowMaps DEF DelegateThrows, Running
  <1> QED
    BY <1>1, <1>2, RouteMaps, SilentStepMaps, VerifyMaps, TransferMaps,
       ResumeMaps
       DEF Step

LEMMA NextMaps ==
  ASSUME Inv, [Next]_vars
  PROVE  [Lifecycle!Next]_(Lifecycle!vars)
  <1>1. CASE UNCHANGED vars
    BY <1>1, NothingMoves DEF vars, Running
  <1>2. CASE Next
    BY <1>2, SubmitMaps, StepMaps, OperatorMaps, RedispatchMaps, CrashMaps
       DEF Next
  <1> QED
    BY <1>1, <1>2

LEMMA InitMaps == Init => Lifecycle!Init
  <1> SUFFICES ASSUME Init PROVE Lifecycle!Init
    OBVIOUS
  <1>1. \A t \in TaskIds : /\ rows[t].state = "absent" /\ rows[t].dlq = <<>>
                           /\ exec[t].pc = "idle"
    BY DEF Init, NoRow, Idle
  <1> QED
    BY <1>1 DEF Lifecycle!Init, Running

(***************************************************************************)
(* Whatever executeWithDepth, its catch block, its handovers, the operator *)
(* and crashes do to a task is a step of its life cycle: it is worked on   *)
(* at most once at a time, only that work ends it, and once ended it comes *)
(* back only through the dead letter queue.                                *)
(***************************************************************************)
THEOREM LoopImplementsLifecycle == Spec => ImplementsLifecycle
  <1>1. Init => Lifecycle!Init
    BY InitMaps
  <1>2. Inv /\ [Next]_vars => [Lifecycle!Next]_(Lifecycle!vars)
    BY NextMaps
  <1> QED
    BY <1>1, <1>2, Invariance, PTL DEF Spec, ImplementsLifecycle, Lifecycle!Spec

-----------------------------------------------------------------------------
(* The inductive invariant.                                                *)

\* No transition of the trail leaves a final state.
TrailOpen(r) ==
  \A i \in 1 .. Len(r.trail) : r.trail[i][1] \notin FinalStates

\* The events of a task add up; nothing was announced of a task there is no row
\* for; and a task that a crash cut short still looks like work.
Accounted(t) ==
  /\ ev[t].created = ev[t].completed + ev[t].failed + rows[t].retries
                      + (IF Running(t) \/ t \in lost THEN 1 ELSE 0)
  /\ rows[t].state = "completed" <=> ev[t].completed > 0
  /\ rows[t].state = "failed" => ev[t].failed > 0
  /\ rows[t].state = "absent" => ev[t].created = 0
  /\ t \in lost => rows[t].state = "working" /\ ~Running(t)

HistInv == \A t \in TaskIds : Accounted(t) /\ TrailOpen(rows[t])

-----------------------------------------------------------------------------
(* Trails, one row operation at a time.                                    *)

LEMMA StateUpdatedTrail ==
  ASSUME NEW r \in Row, Exists(r), NEW s \in States,
         r.state \notin FinalStates, TrailOpen(r)
  PROVE  TrailOpen(StateUpdated(r, s))
  <1> DEFINE step == <<r.state, s>>
             tr   == IF Backend = "sqlite" /\ r.state # s
                     THEN Append(r.trail, step) ELSE r.trail
  <1>1. r.trail \in Seq(States \X States) /\ step \in States \X States
    BY RowFields DEF Exists
  <1>2. StateUpdated(r, s).trail = tr
    BY DEF StateUpdated, TransitionRecorded, Row
  <1>3. step[1] \notin FinalStates
    OBVIOUS
  <1> HIDE DEF step
  <1>4. \A i \in 1 .. Len(tr) : tr[i][1] \notin FinalStates
    <2>1. CASE tr = r.trail
      BY <2>1 DEF TrailOpen
    <2>2. CASE tr = Append(r.trail, step)
      <3> SUFFICES ASSUME NEW i \in 1 .. Len(tr)
                   PROVE  tr[i][1] \notin FinalStates
        OBVIOUS
      <3> HIDE DEF tr
      <3>1. CASE i = Len(r.trail) + 1
        <4>1. tr[i] = step
          BY <1>1, <2>2, <3>1
        <4> QED
          BY <1>3, <4>1
      <3>2. CASE i # Len(r.trail) + 1
        <4>1. i \in 1 .. Len(r.trail) /\ tr[i] = r.trail[i]
          BY <1>1, <2>2, <3>2
        <4> QED
          BY <4>1 DEF TrailOpen
      <3> QED
        BY <3>1, <3>2
    <2> QED
      BY <2>1, <2>2
  <1> HIDE DEF tr
  <1> QED
    BY <1>2, <1>4 DEF TrailOpen

LEMMA SameTrail ==
  ASSUME NEW r \in Row, NEW k \in MessageKinds
  PROVE  /\ MessageAppended(r, k).trail = r.trail
         /\ RetryIncremented(r).trail = r.trail
         /\ MovedToDLQ(r).trail = r.trail
         /\ DLQRemoved(r).trail = r.trail
         /\ RetriedFromDLQ(r).trail = r.trail
         /\ Created(r).trail = <<>>
  BY DEF Row, MessageAppended, RetryIncremented, MovedToDLQ, DLQRemoved,
         RetriedFromDLQ, Requeued, Created, NoRow

LEMMA TrailOpenBy ==
  ASSUME NEW r, NEW q, TrailOpen(r), q.trail = r.trail
  PROVE  TrailOpen(q)
  BY DEF TrailOpen

LEMMA NotFinal == /\ "working" \notin FinalStates
                  /\ "submitted" \notin FinalStates
  BY DEF FinalStates

\* The rows a running task is left with.
LEMMA CompletedRowTrail ==
  ASSUME NEW r \in Row, r.state = "working", TrailOpen(r)
  PROVE  TrailOpen(CompletedRow(r))
  <1> DEFINE q == StateUpdated(r, "completed")
  <1>1. "completed" \in States /\ "answer" \in MessageKinds /\ Exists(r)
    BY DEF States, MessageKinds, Exists
  <1>2. q \in Row /\ TrailOpen(q)
    BY <1>1, NotFinal, StateUpdatedType, StateUpdatedTrail
  <1> HIDE DEF q
  <1>3. CompletedRow(r) = MessageAppended(q, "answer")
    BY DEF CompletedRow, q
  <1> QED
    BY <1>1, <1>2, <1>3, SameTrail, TrailOpenBy

LEMMA FailedRowTrail ==
  ASSUME NEW r \in Row, r.state = "working", TrailOpen(r)
  PROVE  TrailOpen(FailedRow(r))
  <1> DEFINE q == StateUpdated(r, "failed")
  <1>1. "failed" \in States /\ "error" \in MessageKinds /\ Exists(r)
    BY DEF States, MessageKinds, Exists
  <1>2. q \in Row /\ TrailOpen(q)
    BY <1>1, NotFinal, StateUpdatedType, StateUpdatedTrail
  <1> HIDE DEF q
  <1>3. FailedRow(r) = MessageAppended(q, "error")
    BY DEF FailedRow, q
  <1> QED
    BY <1>1, <1>2, <1>3, SameTrail, TrailOpenBy

LEMMA ThrownRowHistory ==
  ASSUME NEW r \in Row, r.state = "working", NEW timeout \in BOOLEAN,
         TrailOpen(r)
  PROVE  /\ TrailOpen(ThrownRow(r, timeout))
         /\ PutBack(r, timeout) =>
              ThrownRow(r, timeout).retries = r.retries + 1
  <1>1. Exists(r) /\ "submitted" \in States /\ "none" \in MessageKinds
    BY DEF Exists, States, MessageKinds
  <1>2. CASE PutBack(r, timeout)
    <2> DEFINE q == RetryIncremented(r)
    <2>1. /\ q \in Row /\ q.state = "working" /\ q.retries = r.retries + 1
          /\ TrailOpen(q) /\ Exists(q)
      BY <1>1, RetryIncrementedType, SameTrail, TrailOpenBy DEF Exists
    <2> HIDE DEF q
    <2>2. ThrownRow(r, timeout) = StateUpdated(q, "submitted")
      BY <1>2 DEF ThrownRow, q
    <2> QED
      BY <1>1, <2>1, <2>2, NotFinal, StateUpdatedType, StateUpdatedTrail
  <1>3. CASE ~PutBack(r, timeout)
    <2> DEFINE q == FailedRow(r)
    <2>1. q \in Row /\ TrailOpen(q)
      BY <1>1, FailedRowType, FailedRowTrail
    <2> HIDE DEF q
    <2>2. ThrownRow(r, timeout) = IF timeout THEN MovedToDLQ(q) ELSE q
      BY <1>3 DEF ThrownRow, q
    <2> QED
      BY <1>1, <1>3, <2>1, <2>2, SameTrail, TrailOpenBy
  <1> QED
    BY <1>2, <1>3

LEMMA BegunRowTrail ==
  ASSUME NEW r \in Row, r.state = "submitted", NEW forced, NEW acl, TrailOpen(r)
  PROVE  TrailOpen(BegunRow(r, forced, acl))
  <1> DEFINE w == StateUpdated(r, "working")
  <1>1. "working" \in States /\ Exists(r)
    BY DEF States, Exists
  <1>2. w \in Row /\ w.state = "working" /\ TrailOpen(w)
    BY <1>1, NotFinal, StateUpdatedType, StateUpdatedTrail
  <1> HIDE DEF w
  <1>3. BegunRow(r, forced, acl)
          = IF Denied(forced, acl) THEN ThrownRow(w, FALSE) ELSE w
    BY DEF BegunRow, w
  <1> QED
    BY <1>2, <1>3, ThrownRowHistory

-----------------------------------------------------------------------------
(* The kinds of steps.                                                     *)

LEMMA OneTaskHistory ==
  ASSUME HistInv, NEW t \in TaskIds, UNCHANGED lost,
         \A u \in TaskIds \ {t} : /\ rows'[u] = rows[u] /\ ev'[u] = ev[u]
                                  /\ Running(u)' <=> Running(u),
         Accounted(t)', TrailOpen(rows'[t])
  PROVE  HistInv'
  <1>1. ASSUME NEW u \in TaskIds, u # t
        PROVE  Accounted(u)' /\ TrailOpen(rows'[u])
    BY <1>1 DEF HistInv, Accounted
  <1> QED
    BY <1>1 DEF HistInv

\* Nothing is stored or announced, and nobody starts or stops working.
LEMMA NoHistory ==
  ASSUME HistInv, UNCHANGED <<rows, ev, lost>>,
         \A u \in TaskIds : Running(u)' <=> Running(u)
  PROVE  HistInv'
  BY DEF HistInv, Accounted

\* A task's work ends: put back, failed or completed.
LEMMA EndsHistory ==
  ASSUME Inv, HistInv, NEW t \in TaskIds, NEW r, NEW e, Running(t),
         rows' = [rows EXCEPT ![t] = r], ev' = [ev EXCEPT ![t] = e],
         UNCHANGED lost, ~Running(t)',
         \A u \in TaskIds \ {t} : Running(u)' <=> Running(u),
         TrailOpen(r),
         \/ /\ r.state = "submitted" /\ e = ev[t]
            /\ r.retries = rows[t].retries + 1
         \/ /\ r.state = "failed" /\ e = Failed1(ev[t])
            /\ r.retries = rows[t].retries
         \/ /\ r.state = "completed" /\ e = Completed1(ev[t])
            /\ r.retries = rows[t].retries
  PROVE  HistInv'
  <1>1. rows \in [TaskIds -> Row] /\ ev \in [TaskIds -> Events]
    BY DEF Inv, TypeOK
  <1>2. /\ rows'[t] = r /\ ev'[t] = e
        /\ \A u \in TaskIds \ {t} : rows'[u] = rows[u] /\ ev'[u] = ev[u]
    BY <1>1
  <1>3. /\ rows[t].state = "working" /\ rows[t].retries \in Nat
        /\ ev[t].created \in Nat /\ ev[t].completed \in Nat
        /\ ev[t].failed \in Nat
    BY <1>1, RunningRow, RowFields DEF Events
  <1>4. /\ ev[t].created = ev[t].completed + ev[t].failed + rows[t].retries + 1
        /\ ev[t].completed = 0 /\ t \notin lost
    BY <1>3 DEF HistInv, Accounted
  <1>5. \/ /\ r.state = "submitted" /\ r.retries = rows[t].retries + 1
           /\ e.created = ev[t].created /\ e.completed = 0
           /\ e.failed = ev[t].failed
        \/ /\ r.state = "failed" /\ r.retries = rows[t].retries
           /\ e.created = ev[t].created /\ e.completed = 0
           /\ e.failed = ev[t].failed + 1
        \/ /\ r.state = "completed" /\ r.retries = rows[t].retries
           /\ e.created = ev[t].created /\ e.completed = 1
           /\ e.failed = ev[t].failed
    BY <1>1, <1>4 DEF Events, Failed1, Completed1
  <1>6. Accounted(t)'
    <2>1. ~Running(t)' /\ t \notin lost'
      BY <1>4
    <2>2. e.created = e.completed + e.failed + r.retries
      BY <1>3, <1>4, <1>5
    <2>3. r.state = "completed" <=> e.completed > 0
      BY <1>5
    <2>4. r.state = "failed" => e.failed > 0
      BY <1>3, <1>5
    <2>5. r.state # "absent" /\ e.failed \in Nat /\ r.retries \in Nat
      BY <1>3, <1>5
    <2>6. e.completed \in Nat
      BY <1>5
    <2> QED
      BY <1>2, <2>1, <2>2, <2>3, <2>4, <2>5, <2>6 DEF Accounted
  <1> QED
    BY <1>2, <1>6, OneTaskHistory

\* A task is announced, and works or is turned away at once.
LEMMA BeginsHistory ==
  ASSUME Inv, HistInv, NEW t \in TaskIds, NEW r, NEW e, ~Running(t),
         rows[t].state \in {"absent", "submitted"},
         rows[t].state = "submitted" => r.retries = rows[t].retries,
         rows[t].state = "absent" => r.retries = 0,
         rows' = [rows EXCEPT ![t] = r], ev' = [ev EXCEPT ![t] = e],
         UNCHANGED lost,
         \A u \in TaskIds \ {t} : Running(u)' <=> Running(u),
         TrailOpen(r),
         \/ r.state = "working" /\ e = Created1(ev[t]) /\ Running(t)'
         \/ r.state = "failed" /\ e = Failed1(Created1(ev[t])) /\ ~Running(t)'
  PROVE  HistInv'
  <1>1. rows \in [TaskIds -> Row] /\ ev \in [TaskIds -> Events]
    BY DEF Inv, TypeOK
  <1>2. /\ rows'[t] = r /\ ev'[t] = e
        /\ \A u \in TaskIds \ {t} : rows'[u] = rows[u] /\ ev'[u] = ev[u]
    BY <1>1
  <1>3. /\ rows[t].retries \in Nat /\ ev[t].created \in Nat
        /\ ev[t].completed \in Nat /\ ev[t].failed \in Nat
    BY <1>1, RowFields DEF Events
  <1>4. /\ ev[t].created = ev[t].completed + ev[t].failed + rows[t].retries
        /\ ev[t].completed = 0 /\ t \notin lost
        /\ rows[t].state = "absent" => ev[t].created = 0
    BY <1>3 DEF HistInv, Accounted
  <1>5. r.retries = rows[t].retries
    BY <1>3, <1>4
  <1>6. \/ /\ r.state = "working" /\ Running(t)'
           /\ e.created = ev[t].created + 1 /\ e.completed = 0
           /\ e.failed = ev[t].failed
        \/ /\ r.state = "failed" /\ ~Running(t)'
           /\ e.created = ev[t].created + 1 /\ e.completed = 0
           /\ e.failed = ev[t].failed + 1
    BY <1>1, <1>4 DEF Events, Failed1, Created1
  <1>7. Accounted(t)'
    <2>1. t \notin lost'
      BY <1>4
    <2>2. CASE r.state = "working"
      <3>1. Running(t)' /\ e.failed = ev[t].failed
        BY <1>6, <2>2
      <3>2. e.created = e.completed + e.failed + r.retries + 1
        BY <1>3, <1>4, <1>5, <1>6, <3>1
      <3> QED
        BY <1>2, <1>6, <2>1, <2>2, <3>1, <3>2 DEF Accounted
    <2>3. CASE r.state = "failed"
      <3>1. ~Running(t)' /\ e.failed = ev[t].failed + 1
        BY <1>6, <2>3
      <3>2. /\ e.created = e.completed + e.failed + r.retries + 0
            /\ e.failed > 0 /\ ~(e.completed > 0)
        BY <1>3, <1>4, <1>5, <1>6, <3>1
      <3> QED
        BY <1>2, <2>1, <2>3, <3>1, <3>2 DEF Accounted
    <2> QED
      BY <1>6, <2>2, <2>3
  <1> QED
    BY <1>2, <1>7, OneTaskHistory

-----------------------------------------------------------------------------
(* One lemma per action.                                                   *)

LEMMA InitHistory == Init => HistInv
  <1> SUFFICES ASSUME Init, NEW t \in TaskIds
               PROVE  Accounted(t) /\ TrailOpen(rows[t])
    BY DEF HistInv
  <1>1. /\ rows[t].state = "absent" /\ rows[t].retries = 0
        /\ rows[t].trail = <<>> /\ exec[t].pc = "idle" /\ lost = {}
        /\ ev[t].created = 0 /\ ev[t].completed = 0 /\ ev[t].failed = 0
    BY DEF Init, NoRow, Idle, NoEvents
  <1>2. Accounted(t)
    BY <1>1 DEF Accounted, Running
  <1>3. TrailOpen(rows[t])
    BY <1>1 DEF TrailOpen
  <1> QED
    BY <1>2, <1>3

LEMMA ThrowHistory ==
  ASSUME Inv, HistInv, NEW t \in TaskIds, NEW timeout \in BOOLEAN,
         Running(t), Throw(t, timeout)
  PROVE  HistInv'
  <1> DEFINE r == ThrownRow(rows[t], timeout)
             e == IF PutBack(rows[t], timeout) THEN ev[t] ELSE Failed1(ev[t])
  <1>1. rows[t] \in Row /\ rows[t].state = "working" /\ TrailOpen(rows[t])
    BY RunningRow DEF HistInv
  <1>2. /\ TrailOpen(r)
        /\ \/ /\ r.state = "submitted" /\ e = ev[t]
              /\ r.retries = rows[t].retries + 1
           \/ /\ r.state = "failed" /\ e = Failed1(ev[t])
              /\ r.retries = rows[t].retries
    BY <1>1, RunningRow, ThrownRowType, ThrownRowHistory
  <1>3. /\ rows' = [rows EXCEPT ![t] = r] /\ exec' = Settled(exec, t)
        /\ UNCHANGED lost
    BY DEF Throw
  <1>4. ev' = [ev EXCEPT ![t] = e]
    BY DEF Throw, Inv, TypeOK
  <1> HIDE DEF r, e
  <1> QED
    BY <1>2, <1>3, <1>4, SettledRunning, EndsHistory

LEMMA RejectCircularHistory ==
  ASSUME Inv, HistInv, NEW t \in TaskIds, Running(t), RejectCircular(t)
  PROVE  HistInv'
  <1> DEFINE r == FailedRow(rows[t])
             e == Failed1(ev[t])
  <1>1. /\ TrailOpen(r) /\ r.state = "failed" /\ r.retries = rows[t].retries
    BY RunningRow, FailedRowType, FailedRowTrail DEF HistInv
  <1>2. /\ rows' = [rows EXCEPT ![t] = r] /\ exec' = Settled(exec, t)
        /\ ev' = [ev EXCEPT ![t] = e] /\ UNCHANGED lost
    BY DEF RejectCircular
  <1> HIDE DEF r
  <1> QED
    BY <1>1, <1>2, SettledRunning, EndsHistory

LEMMA ResumeHistory ==
  ASSUME Inv, HistInv, NEW t \in TaskIds, Resume(t)
  PROVE  HistInv'
  <1> DEFINE r == CompletedRow(rows[t])
             e == Completed1(ev[t])
  <1>1. Running(t)
    BY DEF Resume, Running
  <1>2. /\ TrailOpen(r) /\ r.state = "completed" /\ r.retries = rows[t].retries
    BY <1>1, RunningRow, CompletedRowType, CompletedRowTrail DEF HistInv
  <1>3. /\ rows' = [rows EXCEPT ![t] = r] /\ exec' = Settled(exec, t)
        /\ ev' = [ev EXCEPT ![t] = e] /\ UNCHANGED lost
    BY DEF Resume
  <1> HIDE DEF r
  <1> QED
    BY <1>1, <1>2, <1>3, SettledRunning, EndsHistory

LEMMA CompleteHistory ==
  ASSUME Inv, HistInv, NEW t \in TaskIds, Running(t), Complete(t)
  PROVE  HistInv'
  <1> DEFINE r == CompletedRow(rows[t])
             e == Completed1(ev[t])
  <1>1. /\ TrailOpen(r) /\ r.state = "completed" /\ r.retries = rows[t].retries
    BY RunningRow, CompletedRowType, CompletedRowTrail DEF HistInv
  <1>2. /\ rows' = [rows EXCEPT ![t] = r]
        /\ ev' = [ev EXCEPT ![t] = e] /\ UNCHANGED lost
    BY DEF Complete
  <1>3. /\ exec'[t].pc = "syncing"
        /\ \A u \in TaskIds \ {t} : exec'[u] = exec[u]
    BY DEF Complete, Inv, TypeOK, Execution
  <1>4. /\ ~Running(t)'
        /\ \A u \in TaskIds \ {t} : Running(u)' <=> Running(u)
    BY <1>3 DEF Running
  <1> HIDE DEF r
  <1> QED
    BY <1>1, <1>2, <1>4, EndsHistory

\* A handover announces nothing: its child is announced when it begins.
LEMMA HandOverHistory ==
  ASSUME Inv, HistInv, NEW t \in TaskIds, NEW target \in Targets,
         NEW c \in TaskIds, Running(t), HandOver(t, target, c)
  PROVE  HistInv'
  <1> DEFINE m == MessageAppended(rows[t], "handover")
             r == StateUpdated(m, "working")
             k == Created(rows[c])
  <1>1. /\ rows \in [TaskIds -> Row] /\ exec \in [TaskIds -> Execution]
        /\ ev \in [TaskIds -> Events]
    BY DEF Inv, TypeOK
  <1>2. /\ rows[t] \in Row /\ rows[t].state = "working" /\ TrailOpen(rows[t])
        /\ rows[c].state = "absent" /\ t # c
    BY RunningRow DEF HandOver, Exists, HistInv
  <1>3. /\ r.state = "working" /\ r.retries = rows[t].retries /\ TrailOpen(r)
    <2>1. "handover" \in MessageKinds /\ "working" \in States
      BY DEF MessageKinds, States
    <2>2. /\ m \in Row /\ Exists(m) /\ m.state = "working"
          /\ m.retries = rows[t].retries /\ TrailOpen(m)
      BY <1>2, <2>1, MessageAppendedType, SameTrail, TrailOpenBy DEF Exists
    <2> HIDE DEF m
    <2> QED
      BY <2>1, <2>2, NotFinal, StateUpdatedType, StateUpdatedTrail
  <1>4. k.state = "submitted" /\ k.retries = 0 /\ TrailOpen(k)
    <2>1. "none" \in MessageKinds
      BY DEF MessageKinds
    <2>2. k.trail = <<>>
      BY <1>1, <2>1, SameTrail
    <2> QED
      BY <1>1, <2>2, CreatedType DEF TrailOpen
  <1>5. /\ rows' = [rows EXCEPT ![t] = r, ![c] = k]
        /\ UNCHANGED <<ev, lost>>
    BY DEF HandOver
  <1> HIDE DEF r, k
  <1>6. /\ rows'[t] = r /\ rows'[c] = k
        /\ \A u \in TaskIds \ {t, c} : rows'[u] = rows[u]
    BY <1>1, <1>2, <1>5
  <1>7. \A u \in TaskIds : Running(u)' <=> Running(u)
    <2>1. /\ exec'[t].pc = "transferring"
          /\ \A u \in TaskIds \ {t} : exec'[u] = exec[u]
      BY <1>1 DEF HandOver, Execution
    <2> QED
      BY <2>1 DEF Running
  <1>8. ASSUME NEW u \in TaskIds, u # c
        PROVE  Accounted(u)' /\ TrailOpen(rows'[u])
    <2>1. /\ rows'[u].state = rows[u].state
          /\ rows'[u].retries = rows[u].retries /\ TrailOpen(rows'[u])
      BY <1>2, <1>3, <1>6, <1>8 DEF HistInv
    <2> QED
      BY <1>5, <1>7, <2>1 DEF HistInv, Accounted
  <1>9. Accounted(c)'
    <2>1. /\ ev[c].created \in Nat /\ ev[c].completed \in Nat
          /\ ev[c].failed \in Nat /\ rows[c].retries \in Nat
      BY <1>1, RowFields DEF Events
    <2>2. /\ ev[c].created = 0 /\ c \notin lost /\ ~Running(c)
          /\ ev[c].created = ev[c].completed + ev[c].failed + rows[c].retries
      BY <1>2, <2>1 DEF HistInv, Accounted, Inv, WorkingHasRunner
    <2>3. ev[c].completed = 0 /\ ev[c].failed = 0
      BY <2>1, <2>2
    <2>4. /\ rows'[c].state = "submitted" /\ rows'[c].retries = 0
          /\ ev' = ev /\ lost' = lost /\ ~Running(c)'
      BY <1>4, <1>5, <1>6, <1>7, <2>2
    <2> QED
      BY <2>2, <2>3, <2>4 DEF Accounted
  <1> QED
    BY <1>4, <1>6, <1>8, <1>9 DEF HistInv

LEMMA ConcludeHistory ==
  ASSUME Inv, HistInv, NEW t \in TaskIds, NEW target \in Targets,
         Running(t), Conclude(t, target)
  PROVE  HistInv'
  BY CompleteHistory, RejectCircularHistory, HandOverHistory DEF Conclude

LEMMA VerifyHistory ==
  ASSUME Inv, HistInv, NEW t \in TaskIds, NEW contested \in BOOLEAN,
         Verify(t, contested)
  PROVE  HistInv'
  <1> DEFINE target == IF contested THEN NoAgent ELSE exec[t].result
  <1>1. target \in Targets
    BY DEF Inv, TypeOK, Execution, Targets
  <1>2. Running(t) /\ Conclude(t, target)
    BY DEF Verify, Running
  <1> HIDE DEF target
  <1> QED
    BY <1>1, <1>2, ConcludeHistory

LEMMA RouteHistory ==
  ASSUME Inv, HistInv, NEW t \in TaskIds, NEW a \in Agents, Route(t, a)
  PROVE  HistInv'
  <1>1. Running(t)
    BY DEF Route, Running
  <1>2. CASE MayInvoke(exec[t].acl, a)
    <2>1. /\ exec'[t].pc = "resolving"
          /\ \A u \in TaskIds \ {t} : exec'[u] = exec[u]
      BY <1>2 DEF Route, Inv, TypeOK, Execution
    <2>2. \A u \in TaskIds : Running(u)' <=> Running(u)
      BY <1>1, <2>1 DEF Running
    <2> QED
      BY <1>2, <2>2, NoHistory DEF Route
  <1>3. CASE ~MayInvoke(exec[t].acl, a)
    BY <1>1, <1>3, ThrowHistory DEF Route
  <1> QED
    BY <1>2, <1>3

LEMMA SilentStepHistory ==
  ASSUME Inv, HistInv, NEW t \in TaskIds,
         \/ Resolve(t)
         \/ \E target \in Targets : DelegateReturnsForVerification(t, target)
         \/ \E a \in Agents : AskPeer(t, a)
         \/ Sync(t)
  PROVE  HistInv'
  <1>1. UNCHANGED <<rows, ev, lost>>
    BY DEF Resolve, DelegateReturnsForVerification, AskPeer, Sync
  <1>2. CASE Sync(t)
    <2>1. \A u \in TaskIds : Running(u)' <=> Running(u)
      BY <1>2, SettledRunning DEF Sync, Running
    <2> QED
      BY <1>1, <2>1, NoHistory
  <1>3. CASE \/ Resolve(t)
             \/ \E target \in Targets :
                  DelegateReturnsForVerification(t, target)
    <2>1. /\ exec'[t].pc \in {"delegating", "verifying"} /\ Running(t)
          /\ \A u \in TaskIds \ {t} : exec'[u] = exec[u]
      BY <1>3
         DEF Resolve, DelegateReturnsForVerification, Inv, TypeOK, Execution,
             Running
    <2>2. \A u \in TaskIds : Running(u)' <=> Running(u)
      BY <2>1 DEF Running
    <2> QED
      BY <1>1, <2>2, NoHistory
  <1>4. ASSUME NEW a \in Agents, AskPeer(t, a)
        PROVE  HistInv'
    <2>1. \A u \in TaskIds : exec'[u].pc = exec[u].pc
      BY <1>4 DEF AskPeer, Inv, TypeOK, Execution
    <2>2. \A u \in TaskIds : Running(u)' <=> Running(u)
      BY <2>1 DEF Running
    <2> QED
      BY <1>1, <2>2, NoHistory
  <1> QED
    BY <1>2, <1>3, <1>4

\* A task begun for whoever asks.
LEMMA UnforcedHistory ==
  ASSUME Inv, HistInv, NEW t \in TaskIds, NEW r \in Row, NEW acl,
         r.state = "submitted", TrailOpen(r), r.dlq = <<>>,
         r.retries <= MaxRetries, ~Running(t),
         rows[t].state \in {"absent", "submitted"},
         rows[t].state = "submitted" => r.retries = rows[t].retries,
         rows[t].state = "absent" => r.retries = 0,
         rows' = [rows EXCEPT ![t] = BegunRow(r, NoAgent, acl)],
         exec' = [exec EXCEPT ![t] = Begun(NoAgent, acl, acl, <<>>, 0)],
         ev' = [ev EXCEPT ![t] = BegunEvents(ev[t], NoAgent, acl)],
         UNCHANGED lost
  PROVE  HistInv'
  <1> DEFINE q == BegunRow(r, NoAgent, acl)
             e == BegunEvents(ev[t], NoAgent, acl)
  <1>1. ~Denied(NoAgent, acl) /\ Exists(r)
    BY DEF Denied, Exists
  <1>2. /\ q.state = "working" /\ q.retries = r.retries /\ TrailOpen(q)
        /\ e = Created1(ev[t])
    BY <1>1, BegunRowType, BegunRowTrail DEF BegunEvents
  <1>3. exec \in [TaskIds -> Execution]
    BY DEF Inv, TypeOK
  <1>4. Begun(NoAgent, acl, acl, <<>>, 0).pc = "routing"
    BY <1>1 DEF Begun, Idle
  <1>5. /\ Running(t)'
        /\ \A u \in TaskIds \ {t} : Running(u)' <=> Running(u)
    BY <1>3, <1>4 DEF Running
  <1>6. rows' = [rows EXCEPT ![t] = q] /\ ev' = [ev EXCEPT ![t] = e]
    OBVIOUS
  <1> HIDE DEF q, e
  <1> QED
    BY <1>2, <1>5, <1>6, BeginsHistory

LEMMA SubmitHistory ==
  ASSUME Inv, HistInv, NEW t \in TaskIds, NEW acl \in ACLs, Submit(t, acl)
  PROVE  HistInv'
  <1> DEFINE r == Created(rows[t])
  <1>1. rows[t] \in Row /\ rows[t].state = "absent"
    BY DEF Inv, TypeOK, Submit, Exists
  <1>2. rows[t].dlq = <<>> /\ ~Running(t)
    BY <1>1 DEF Inv, DeadLettersExhausted, WorkingHasRunner
  <1>3. MaxRetries \in Nat /\ "none" \in MessageKinds
    BY OrchestratorAssumption DEF MessageKinds
  <1>4. /\ r \in Row /\ r.state = "submitted" /\ r.dlq = <<>> /\ r.retries = 0
        /\ r.retries <= MaxRetries /\ TrailOpen(r)
    <2>1. r.trail = <<>>
      BY <1>1, <1>3, SameTrail
    <2> QED
      BY <1>1, <1>2, <1>3, <2>1, CreatedType DEF TrailOpen
  <1>5. /\ rows' = [rows EXCEPT ![t] = BegunRow(r, NoAgent, acl)]
        /\ exec' = [exec EXCEPT ![t] = Begun(NoAgent, acl, acl, <<>>, 0)]
        /\ ev' = [ev EXCEPT ![t] = BegunEvents(ev[t], NoAgent, acl)]
        /\ UNCHANGED lost
    BY DEF Submit
  <1> HIDE DEF r
  <1> QED
    BY <1>1, <1>2, <1>4, <1>5, UnforcedHistory

LEMMA RedispatchHistory ==
  ASSUME Inv, HistInv, NEW t \in TaskIds, Redispatch(t)
  PROVE  HistInv'
  <1>1. rows[t] \in Row /\ rows[t].state = "submitted" /\ TrailOpen(rows[t])
    BY DEF Inv, TypeOK, Redispatch, HistInv
  <1>2. rows[t].dlq = <<>> /\ ~Running(t) /\ rows[t].retries <= MaxRetries
    BY <1>1 DEF Inv, DeadLettersExhausted, WorkingHasRunner
  <1>3. /\ rows' = [rows EXCEPT ![t] = BegunRow(rows[t], NoAgent, {})]
        /\ exec' = [exec EXCEPT ![t] = Begun(NoAgent, {}, {}, <<>>, 0)]
        /\ ev' = [ev EXCEPT ![t] = BegunEvents(ev[t], NoAgent, {})]
        /\ UNCHANGED lost
    BY DEF Redispatch
  <1> QED
    BY <1>1, <1>2, <1>3, UnforcedHistory

LEMMA TransferHistory ==
  ASSUME Inv, HistInv, NEW t \in TaskIds, Transfer(t)
  PROVE  HistInv'
  <1>1. /\ exec \in [TaskIds -> Execution] /\ exec[t] \in Execution
        /\ exec[t].pc = "transferring" /\ Running(t)
    BY DEF Inv, TypeOK, Transfer, Running
  <1> SUFFICES ASSUME NEW c \in TaskIds, exec[t].child = c
               PROVE  HistInv'
    BY <1>1 DEF Inv, NewChildWaits, Transferring
  <1> DEFINE me     == exec[t]
             forced == IF me.result \in Agents THEN me.result ELSE NoAgent
             denied == Denied(forced, me.acl)
             chain  == ExtendChain(me.chain, me.agent)
             m      == MessageAppended(rows[c], "request")
             r      == BegunRow(m, forced, me.acl)
             h      == BegunEvents(ev[c], forced, me.acl)
             e      == Begun(forced, me.acl, me.caller, chain, me.depth + 1)
             f      == [me EXCEPT !.pc = IF denied THEN "resuming"
                                                   ELSE "awaitingChild"]
  <1>2. /\ rows[c] \in Row /\ TrailOpen(rows[c])
        /\ rows[c].state = "submitted" /\ rows[c].retries = 0
    BY <1>1 DEF Inv, TypeOK, NewChildWaits, Transferring, HistInv
  <1>3. c # t /\ rows[c].dlq = <<>> /\ ~Running(c)
    BY <1>1, <1>2 DEF Inv, WorkingHasRunner, DeadLettersExhausted
  <1>4. /\ r.retries = 0 /\ TrailOpen(r)
        /\ r.state = IF denied THEN "failed" ELSE "working"
    <2>1. MaxRetries \in Nat /\ "request" \in MessageKinds
      BY OrchestratorAssumption DEF MessageKinds
    <2>2. /\ m \in Row /\ Exists(m) /\ m.retries = 0 /\ m.dlq = <<>>
          /\ m.state = "submitted" /\ TrailOpen(m)
      BY <1>2, <1>3, <2>1, MessageAppendedType, SameTrail, TrailOpenBy
         DEF Exists
    <2> HIDE DEF m
    <2> QED
      BY <2>1, <2>2, BegunRowType, BegunRowTrail
  <1>5. e.pc \in IF denied THEN {"idle"} ELSE {"routing", "resolving"}
    <2> HIDE DEF forced, chain, me
    <2> QED
      BY DEF Begun, Idle
  <1>6. f.pc \in {"resuming", "awaitingChild"}
    BY <1>1 DEF Execution
  <1>7. h = IF denied THEN Failed1(Created1(ev[c])) ELSE Created1(ev[c])
    BY DEF BegunEvents
  <1>8. /\ rows' = [rows EXCEPT ![c] = r] /\ ev' = [ev EXCEPT ![c] = h]
        /\ exec' = [exec EXCEPT ![t] = f, ![c] = e] /\ UNCHANGED lost
    BY <1>1 DEF Transfer
  <1> HIDE DEF me, denied, r, h, e, f
  <1>9. /\ exec'[t] = f /\ exec'[c] = e
        /\ \A u \in TaskIds \ {c, t} : exec'[u] = exec[u]
    BY <1>1, <1>3, <1>8
  <1>10. \A u \in TaskIds \ {c} : Running(u)' <=> Running(u)
    BY <1>1, <1>6, <1>9 DEF Running
  <1>11. \/ r.state = "working" /\ h = Created1(ev[c]) /\ Running(c)'
         \/ r.state = "failed" /\ h = Failed1(Created1(ev[c])) /\ ~Running(c)'
    BY <1>4, <1>5, <1>7, <1>9 DEF Running
  <1> QED
    BY <1>2, <1>3, <1>4, <1>8, <1>10, <1>11, BeginsHistory

\* The operator announces nothing, and its UPDATE records no transition.
LEMMA OperatorHistory ==
  ASSUME Inv, HistInv, NEW t \in TaskIds, OperatorRetry(t) \/ OperatorPurge(t)
  PROVE  HistInv'
  <1> DEFINE r == IF OperatorRetry(t) THEN RetriedFromDLQ(rows[t])
                                      ELSE DLQRemoved(rows[t])
  <1>1. rows \in [TaskIds -> Row] /\ TrailOpen(rows[t])
    BY DEF Inv, TypeOK, HistInv
  <1>2. rows[t].state = "failed" /\ ~Running(t)
    BY DEF Inv, DeadLettersExhausted, OperatorRetry, OperatorPurge
  <1>3. /\ r.state \in {"failed", "submitted"} /\ r.retries = rows[t].retries
        /\ TrailOpen(r)
    <2>1. "none" \in MessageKinds
      BY DEF MessageKinds
    <2>2. r.trail = rows[t].trail
      BY <1>1, <2>1, SameTrail
    <2>3. TrailOpen(r)
      BY <1>1, <2>2, TrailOpenBy
    <2> QED
      BY <1>1, <1>2, <2>3, RetriedFromDLQType, DLQRemovedType
  <1>4. rows' = [rows EXCEPT ![t] = r] /\ UNCHANGED <<exec, ev, lost>>
    BY DEF OperatorRetry, OperatorPurge
  <1> HIDE DEF r
  <1>5. rows'[t] = r /\ \A u \in TaskIds \ {t} : rows'[u] = rows[u]
    BY <1>1, <1>4
  <1>6. \A u \in TaskIds : Running(u)' <=> Running(u)
    BY <1>4 DEF Running
  <1>7. Accounted(t)'
    <2>1. t \notin lost' /\ ~(ev[t].completed > 0) /\ ev[t].failed > 0
      BY <1>2, <1>4 DEF HistInv, Accounted
    <2> QED
      BY <1>2, <1>3, <1>4, <1>5, <1>6, <2>1 DEF HistInv, Accounted
  <1> QED
    BY <1>3, <1>4, <1>5, <1>6, <1>7, OneTaskHistory

\* Whoever was at work becomes lost, and its row stays working.
LEMMA CrashHistory ==
  ASSUME Inv, HistInv, Crash
  PROVE  HistInv'
  <1>1. /\ UNCHANGED <<rows, ev>>
        /\ lost' = lost \cup {t \in TaskIds : Running(t)}
        /\ \A t \in TaskIds : exec'[t].pc = "idle"
    BY DEF Crash, Idle
  <1>2. ASSUME NEW t \in TaskIds
        PROVE  Accounted(t)' /\ TrailOpen(rows'[t])
    <2>1. ~Running(t)' /\ (t \in lost' <=> t \in lost \/ Running(t))
      BY <1>1 DEF Running
    <2>2. Running(t) => rows[t].state = "working"
      BY DEF Inv, WorkingHasRunner
    <2> QED
      BY <1>1, <2>1, <2>2 DEF HistInv, Accounted
  <1> QED
    BY <1>2 DEF HistInv

LEMMA NextHistory ==
  ASSUME Inv, HistInv, [Next]_vars
  PROVE  HistInv'
  <1>1. ASSUME NEW t \in TaskIds, NEW target \in Targets,
               DelegateReturns(t, target)
        PROVE  HistInv'
    BY <1>1, ConcludeHistory DEF DelegateReturns, Running
  <1>2. ASSUME NEW t \in TaskIds, NEW timeout \in BOOLEAN,
               DelegateThrows(t, timeout)
        PROVE  HistInv'
    BY <1>2, ThrowHistory DEF DelegateThrows, Running
  <1>3. ASSUME NEW t \in TaskIds, Step(t)
        PROVE  HistInv'
    BY <1>1, <1>2, <1>3, RouteHistory, SilentStepHistory, VerifyHistory,
       TransferHistory, ResumeHistory
       DEF Step
  <1>4. CASE UNCHANGED vars
    BY <1>4, NoHistory DEF vars, Running
  <1>5. CASE Next
    BY <1>3, <1>5, SubmitHistory, OperatorHistory, RedispatchHistory,
       CrashHistory
       DEF Next
  <1> QED
    BY <1>4, <1>5

-----------------------------------------------------------------------------
LEMMA HistoryAlways == Spec => []HistInv
  <1>1. Init => HistInv
    BY InitHistory
  <1>2. Inv /\ HistInv /\ [Next]_vars => HistInv'
    BY NextHistory
  <1> QED
    BY <1>1, <1>2, Invariance, PTL DEF Spec

(***************************************************************************)
(* Every execution that emitTaskCreated announced is closed by one event,  *)
(* unless it was put back, still runs or was cut short, and the event      *)
(* agrees with the state that is stored.                                   *)
(***************************************************************************)
THEOREM EventsAddUp == Spec => []EventBalance
  <1>1. HistInv => EventBalance
    BY DEF HistInv, Accounted, EventBalance
  <1> QED
    BY <1>1, HistoryAlways, PTL

(***************************************************************************)
(* No path of the loop, the operator's retry included, records that a task *)
(* left the state it had ended in.                                         *)
(***************************************************************************)
THEOREM TrailsStop == Spec => []TrailStopsAtEnd
  <1>1. HistInv => TrailStopsAtEnd
    BY DEF HistInv, TrailOpen, TrailStopsAtEnd
  <1> QED
    BY <1>1, HistoryAlways, PTL

-----------------------------------------------------------------------------
(* Handovers: the inductive invariant.                                     *)

\* Execution f is the child that e awaits: begun further down the same chain,
\* and with the agent e named, if it named one.
Kin(e, f) ==
  /\ f.pc # "idle"
  /\ f.chain = ExtendChain(e.chain, e.agent)
  /\ e.result \in Agents => f.agent = e.result /\ f.pc # "routing"

AwaitedIsKin ==
  \A p, c \in TaskIds : Awaits(p, c) => Kin(exec[p], exec[c])

\* While its board is brought up to date, a task is over: nothing begins it.
SyncingIsOver ==
  \A t \in TaskIds : exec[t].pc = "syncing" => rows[t].state = "completed"

\* The list that is handed down is the caller's, and the agent was checked
\* against it.
Permitted(e) ==
  /\ e.acl = e.caller
  /\ e.pc \in {"resolving", "delegating", "verifying"} =>
       MayInvoke(e.acl, e.agent)

NoCycleAhead(e) ==
  e.pc \in {"transferring", "awaitingChild"} =>
    ~WouldCreateCycle(e.chain, e.result)

KinInv ==
  /\ AwaitedIsKin
  /\ SyncingIsOver
  /\ \A t \in TaskIds : Permitted(exec[t])
  /\ \A t \in TaskIds : NoCycleAhead(exec[t])

\* The rows of the other tasks that are syncing stay in their state.
OthersOver(t) ==
  \A u \in TaskIds \ {t} :
    exec[u].pc = "syncing" => rows'[u].state = rows[u].state

-----------------------------------------------------------------------------
(* The kinds of steps.                                                     *)

\* One execution moves to another await, keeping what it was begun with.
LEMMA MovesKin ==
  ASSUME KinInv, NEW t \in TaskIds, OthersOver(t),
         \A u \in TaskIds \ {t} : exec'[u] = exec[u],
         exec[t].pc # "idle",
         exec'[t].pc \notin {"idle", "routing", "awaitingChild"},
         exec'[t].chain = exec[t].chain,
         exec[t].pc # "routing" => exec'[t].agent = exec[t].agent,
         exec'[t].pc = "syncing" => rows'[t].state = "completed",
         Permitted(exec'[t]), NoCycleAhead(exec'[t])
  PROVE  KinInv'
  <1>1. ASSUME NEW p \in TaskIds, NEW c \in TaskIds, Awaits(p, c)'
        PROVE  /\ p # t /\ exec'[p] = exec[p] /\ Awaits(p, c)
               /\ Kin(exec'[p], exec'[c])
    <2>1. p # t /\ exec'[p] = exec[p] /\ Awaits(p, c)
      BY <1>1 DEF Awaits
    <2>2. Kin(exec[p], exec[c])
      BY <2>1 DEF KinInv, AwaitedIsKin
    <2>3. CASE c = t
      BY <2>1, <2>2, <2>3 DEF Kin
    <2>4. CASE c # t
      BY <2>1, <2>2, <2>4
    <2> QED
      BY <2>1, <2>3, <2>4
  <1>2. AwaitedIsKin'
    BY <1>1 DEF KinInv, AwaitedIsKin
  <1>3. SyncingIsOver'
    BY DEF KinInv, SyncingIsOver, OthersOver
  <1>4. \A u \in TaskIds : Permitted(exec'[u]) /\ NoCycleAhead(exec'[u])
    BY DEF KinInv
  <1> QED
    BY <1>2, <1>3, <1>4 DEF KinInv

\* An execution returns: whoever awaited it awaits no more.
LEMMA SettlesKin ==
  ASSUME KinInv, exec \in [TaskIds -> Execution], NEW t \in TaskIds,
         exec' = Settled(exec, t), OthersOver(t)
  PROVE  KinInv'
  <1>1. exec'[t] = Idle /\ Idle.pc = "idle" /\ Idle.acl = Idle.caller
    BY DEF Settled, Idle
  <1>2. ASSUME NEW u \in TaskIds, u # t
        PROVE  \/ /\ exec'[u] = exec[u]
                  /\ ~Awaits(u, t)
               \/ /\ exec'[u].pc = "resuming" /\ exec[u].pc = "awaitingChild"
                  /\ exec'[u].acl = exec[u].acl
                  /\ exec'[u].caller = exec[u].caller
                  /\ exec'[u].chain = exec[u].chain
                  /\ exec'[u].agent = exec[u].agent
    <2>1. exec[u] \in Execution
      OBVIOUS
    <2>2. CASE exec[u].pc = "awaitingChild" /\ exec[u].child = t
      <3>1. exec'[u] = [exec[u] EXCEPT !.pc = "resuming"]
        BY <1>2, <2>2 DEF Settled
      <3> QED
        BY <2>1, <2>2, <3>1 DEF Execution
    <2>3. CASE ~(exec[u].pc = "awaitingChild" /\ exec[u].child = t)
      BY <1>2, <2>3 DEF Settled, Awaits
    <2> QED
      BY <2>2, <2>3
  <1>3. ASSUME NEW p \in TaskIds, NEW c \in TaskIds, Awaits(p, c)'
        PROVE  Awaits(p, c) /\ Kin(exec'[p], exec'[c])
    <2>1. p # t /\ exec'[p] = exec[p] /\ Awaits(p, c) /\ c # t
      BY <1>1, <1>2, <1>3 DEF Awaits
    <2>2. Kin(exec[p], exec[c])
      BY <2>1 DEF KinInv, AwaitedIsKin
    <2> QED
      BY <1>2, <2>1, <2>2 DEF Kin
  <1>4. AwaitedIsKin'
    BY <1>3 DEF KinInv, AwaitedIsKin
  <1>5. SyncingIsOver'
    BY <1>1, <1>2 DEF KinInv, SyncingIsOver, OthersOver
  <1>6. \A u \in TaskIds : Permitted(exec'[u]) /\ NoCycleAhead(exec'[u])
    BY <1>1, <1>2 DEF KinInv, Permitted, NoCycleAhead
  <1> QED
    BY <1>4, <1>5, <1>6 DEF KinInv

\* A task nobody works on is begun from the start: nobody awaits it either.
LEMMA BeginsKin ==
  ASSUME KinInv, exec \in [TaskIds -> Execution],
         NEW t \in TaskIds, NEW acl, OthersOver(t),
         exec[t].pc = "idle",
         exec' = [exec EXCEPT ![t] = Begun(NoAgent, acl, acl, <<>>, 0)]
  PROVE  KinInv'
  <1>1. /\ exec'[t].pc = "routing" /\ exec'[t].acl = exec'[t].caller
        /\ \A u \in TaskIds \ {t} : exec'[u] = exec[u]
    <2> DEFINE e == Begun(NoAgent, acl, acl, <<>>, 0)
    <2>1. e.pc = "routing" /\ e.acl = acl /\ e.caller = acl
      BY DEF Begun, Denied, Idle
    <2> QED
      BY <2>1
  <1>2. ASSUME NEW p \in TaskIds, NEW c \in TaskIds, Awaits(p, c)'
        PROVE  Awaits(p, c) /\ Kin(exec'[p], exec'[c])
    <2>1. p # t /\ exec'[p] = exec[p] /\ Awaits(p, c)
      BY <1>1, <1>2 DEF Awaits
    <2>2. Kin(exec[p], exec[c])
      BY <2>1 DEF KinInv, AwaitedIsKin
    <2>3. c # t
      BY <2>2 DEF Kin
    <2> QED
      BY <1>1, <2>1, <2>2, <2>3
  <1>3. AwaitedIsKin'
    BY <1>2 DEF KinInv, AwaitedIsKin
  <1>4. SyncingIsOver'
    BY <1>1 DEF KinInv, SyncingIsOver, OthersOver
  <1>5. \A u \in TaskIds : Permitted(exec'[u]) /\ NoCycleAhead(exec'[u])
    BY <1>1 DEF KinInv, Permitted, NoCycleAhead
  <1> QED
    BY <1>3, <1>4, <1>5 DEF KinInv

-----------------------------------------------------------------------------
(* One lemma per action.                                                   *)

LEMMA InitKin == Init => KinInv
  <1> SUFFICES ASSUME Init PROVE KinInv
    OBVIOUS
  <1>1. \A t \in TaskIds : exec[t].pc = "idle" /\ exec[t].acl = exec[t].caller
    BY DEF Init, Idle
  <1> QED
    BY <1>1 DEF KinInv, AwaitedIsKin, SyncingIsOver, Permitted,
                NoCycleAhead, Awaits

\* Steps that write one row leave the others as they are.
LEMMA OneRowWritten ==
  ASSUME rows \in [TaskIds -> Row], NEW t \in TaskIds, NEW r,
         rows' = [rows EXCEPT ![t] = r] \/ rows' = rows
  PROVE  OthersOver(t)
  BY DEF OthersOver

LEMMA ThrowKin ==
  ASSUME Inv, KinInv, NEW t \in TaskIds, NEW timeout \in BOOLEAN,
         Throw(t, timeout)
  PROVE  KinInv'
  <1>1. OthersOver(t)
    BY OneRowWritten DEF Throw, Inv, TypeOK
  <1> QED
    BY <1>1, SettlesKin DEF Throw, Inv, TypeOK

LEMMA RejectCircularKin ==
  ASSUME Inv, KinInv, NEW t \in TaskIds, RejectCircular(t)
  PROVE  KinInv'
  <1>1. OthersOver(t)
    BY OneRowWritten DEF RejectCircular, Inv, TypeOK
  <1> QED
    BY <1>1, SettlesKin DEF RejectCircular, Inv, TypeOK

LEMMA ResumeKin ==
  ASSUME Inv, KinInv, NEW t \in TaskIds, Resume(t)
  PROVE  KinInv'
  <1>1. OthersOver(t)
    BY OneRowWritten DEF Resume, Inv, TypeOK
  <1> QED
    BY <1>1, SettlesKin DEF Resume, Inv, TypeOK

LEMMA SyncKin ==
  ASSUME Inv, KinInv, NEW t \in TaskIds, Sync(t)
  PROVE  KinInv'
  <1>1. OthersOver(t)
    BY DEF Sync, OthersOver
  <1> QED
    BY <1>1, SettlesKin DEF Sync, Inv, TypeOK

LEMMA CompleteKin ==
  ASSUME Inv, KinInv, NEW t \in TaskIds, Running(t), exec[t].pc # "routing",
         Complete(t)
  PROVE  KinInv'
  <1>1. OthersOver(t)
    BY OneRowWritten DEF Complete, Inv, TypeOK
  <1>2. rows'[t].state = "completed"
    BY RunningRow, CompletedRowType DEF Complete, Inv, TypeOK
  <1>3. /\ \A u \in TaskIds \ {t} : exec'[u] = exec[u]
        /\ exec'[t].pc = "syncing" /\ exec'[t].acl = exec[t].acl
        /\ exec'[t].caller = exec[t].caller
        /\ exec'[t].chain = exec[t].chain /\ exec'[t].agent = exec[t].agent
    BY DEF Complete, Inv, TypeOK, Execution
  <1>4. Permitted(exec'[t]) /\ NoCycleAhead(exec'[t])
    BY <1>3 DEF KinInv, Permitted, NoCycleAhead
  <1> QED
    BY <1>1, <1>2, <1>3, <1>4, MovesKin DEF Running

LEMMA RouteKin ==
  ASSUME Inv, KinInv, NEW t \in TaskIds, NEW a \in Agents, Route(t, a)
  PROVE  KinInv'
  <1>1. CASE MayInvoke(exec[t].acl, a)
    <2>1. OthersOver(t)
      BY <1>1 DEF Route, OthersOver
    <2>2. /\ \A u \in TaskIds \ {t} : exec'[u] = exec[u]
          /\ exec[t].pc = "routing"
          /\ exec'[t].pc = "resolving" /\ exec'[t].acl = exec[t].acl
          /\ exec'[t].caller = exec[t].caller
          /\ exec'[t].chain = exec[t].chain /\ exec'[t].agent = a
      BY <1>1 DEF Route, Inv, TypeOK, Execution
    <2>3. Permitted(exec'[t]) /\ NoCycleAhead(exec'[t])
      BY <1>1, <2>2 DEF KinInv, Permitted, NoCycleAhead
    <2> QED
      BY <2>1, <2>2, <2>3, MovesKin
  <1>2. CASE ~MayInvoke(exec[t].acl, a)
    BY <1>2, ThrowKin DEF Route
  <1> QED
    BY <1>1, <1>2

\* Resolve, a delegation to be verified, and the peer of a verification: one
\* await to the next.
LEMMA OnwardKin ==
  ASSUME Inv, KinInv, NEW t \in TaskIds,
         \/ Resolve(t)
         \/ \E target \in Targets : DelegateReturnsForVerification(t, target)
         \/ \E a \in Agents : AskPeer(t, a)
  PROVE  KinInv'
  <1>1. OthersOver(t)
    BY DEF Resolve, DelegateReturnsForVerification, AskPeer, OthersOver
  <1>2. /\ \A u \in TaskIds \ {t} : exec'[u] = exec[u]
        /\ exec[t].pc \in {"resolving", "delegating", "verifying"}
        /\ exec'[t].pc \in {"delegating", "verifying"}
        /\ exec'[t].acl = exec[t].acl
        /\ exec'[t].caller = exec[t].caller
        /\ exec'[t].chain = exec[t].chain /\ exec'[t].agent = exec[t].agent
    <2>1. CASE Resolve(t)
      BY <2>1 DEF Resolve, Inv, TypeOK, Execution
    <2>2. ASSUME NEW target \in Targets, DelegateReturnsForVerification(t, target)
          PROVE  /\ \A u \in TaskIds \ {t} : exec'[u] = exec[u]
                 /\ exec[t].pc = "delegating" /\ exec'[t].pc = "verifying"
                 /\ exec'[t].acl = exec[t].acl
                 /\ exec'[t].caller = exec[t].caller
                 /\ exec'[t].chain = exec[t].chain
                 /\ exec'[t].agent = exec[t].agent
      BY <2>2 DEF DelegateReturnsForVerification, Inv, TypeOK, Execution
    <2>3. CASE \E a \in Agents : AskPeer(t, a)
      BY <2>3 DEF AskPeer, Inv, TypeOK, Execution
    <2> QED
      BY <2>1, <2>2, <2>3
  <1>3. Permitted(exec'[t]) /\ NoCycleAhead(exec'[t])
    BY <1>2 DEF KinInv, Permitted, NoCycleAhead
  <1> QED
    BY <1>1, <1>2, <1>3, MovesKin

LEMMA HandOverKin ==
  ASSUME Inv, KinInv,
         NEW t \in TaskIds, NEW target \in Targets, NEW c \in TaskIds,
         Running(t), exec[t].pc # "routing", HandOver(t, target, c),
         ~WouldCreateCycle(exec[t].chain, target)
  PROVE  KinInv'
  <1>1. rows \in [TaskIds -> Row] /\ exec \in [TaskIds -> Execution]
    BY DEF Inv, TypeOK
  <1>2. OthersOver(t)
    <2>1. exec[c].pc # "syncing"
      BY DEF HandOver, Exists, KinInv, SyncingIsOver
    <2>2. \A u \in TaskIds \ {t, c} : rows'[u] = rows[u]
      BY <1>1 DEF HandOver
    <2> QED
      BY <2>1, <2>2 DEF OthersOver
  <1>3. /\ \A u \in TaskIds \ {t} : exec'[u] = exec[u]
        /\ exec'[t].pc = "transferring" /\ exec'[t].acl = exec[t].acl
        /\ exec'[t].caller = exec[t].caller
        /\ exec'[t].chain = exec[t].chain /\ exec'[t].agent = exec[t].agent
        /\ exec'[t].result = target
    BY <1>1 DEF HandOver, Execution
  <1>4. Permitted(exec'[t]) /\ NoCycleAhead(exec'[t])
    BY <1>3 DEF KinInv, Permitted, NoCycleAhead
  <1> QED
    BY <1>2, <1>3, <1>4, MovesKin DEF Running

LEMMA ConcludeKin ==
  ASSUME Inv, KinInv, NEW t \in TaskIds, NEW target \in Targets,
         Running(t), exec[t].pc # "routing", Conclude(t, target)
  PROVE  KinInv'
  BY CompleteKin, RejectCircularKin, HandOverKin DEF Conclude

LEMMA VerifyKin ==
  ASSUME Inv, KinInv, NEW t \in TaskIds, NEW contested \in BOOLEAN,
         Verify(t, contested)
  PROVE  KinInv'
  <1> DEFINE target == IF contested THEN NoAgent ELSE exec[t].result
  <1>1. target \in Targets
    BY DEF Inv, TypeOK, Execution, Targets
  <1>2. Running(t) /\ exec[t].pc # "routing" /\ Conclude(t, target)
    BY DEF Verify, Running
  <1> HIDE DEF target
  <1> QED
    BY <1>1, <1>2, ConcludeKin

\* The child is begun with what its parent has; if it is turned away at once,
\* nobody awaits it.
LEMMA TransferKin ==
  ASSUME Inv, KinInv, NEW t \in TaskIds, Transfer(t)
  PROVE  KinInv'
  <1>1. /\ exec \in [TaskIds -> Execution] /\ exec[t] \in Execution
        /\ exec[t].pc = "transferring"
        /\ rows \in [TaskIds -> Row]
    BY DEF Inv, TypeOK, Transfer
  <1> SUFFICES ASSUME NEW c \in TaskIds, exec[t].child = c
               PROVE  KinInv'
    BY <1>1 DEF Inv, NewChildWaits, Transferring
  <1> DEFINE me     == exec[t]
             forced == IF me.result \in Agents THEN me.result ELSE NoAgent
             denied == Denied(forced, me.acl)
             chain  == ExtendChain(me.chain, me.agent)
             e      == Begun(forced, me.acl, me.caller, chain, me.depth + 1)
             f      == [me EXCEPT !.pc = IF denied THEN "resuming"
                                                   ELSE "awaitingChild"]
  <1>2. exec[c].pc = "idle" /\ c # t
    <2>1. rows[c].state = "submitted"
      BY <1>1 DEF Inv, NewChildWaits, Transferring
    <2> QED
      BY <1>1, <2>1
         DEF Inv, WorkingHasRunner, Running, KinInv, SyncingIsOver
  <1>3. OthersOver(c)
    BY <1>1 DEF Transfer, OthersOver
  <1>4. exec' = [exec EXCEPT ![t] = f, ![c] = e]
    BY <1>1 DEF Transfer
  <1>5. /\ f.acl = me.acl /\ f.caller = me.caller /\ f.chain = me.chain /\ f.agent = me.agent
        /\ f.child = c /\ f.result = me.result
        /\ f.pc = IF denied THEN "resuming" ELSE "awaitingChild"
    <2> HIDE DEF denied
    <2>1. exec[t].child = c /\ me \in Execution
      BY <1>1
    <2> QED
      BY <2>1 DEF Execution
  <1>6. /\ denied => e.pc = "idle" /\ e.acl = e.caller
        /\ ~denied =>
             /\ e.pc = IF forced = NoAgent THEN "routing" ELSE "resolving"
             /\ e.acl = me.acl /\ e.caller = me.caller
             /\ e.chain = chain /\ e.agent = forced
    <2> HIDE DEF forced, chain, me
    <2> QED
      BY DEF Begun, Idle
  <1>7. me.result \in Agents => forced = me.result /\ forced # NoAgent
    BY OrchestratorAssumption
  <1>8. ~denied /\ e.pc = "resolving" => MayInvoke(me.acl, forced)
    BY <1>6 DEF Denied
  <1>9. ~WouldCreateCycle(me.chain, me.result)
    BY <1>1 DEF KinInv, NoCycleAhead
  <1> HIDE DEF denied, forced, chain, e, f
  <1>10. /\ exec'[t] = f /\ exec'[c] = e
         /\ \A u \in TaskIds \ {c, t} : exec'[u] = exec[u]
    BY <1>1, <1>2, <1>4
  <1>11. ASSUME NEW p \in TaskIds, Awaits(p, c)
         PROVE  FALSE
    BY <1>2, <1>11 DEF KinInv, AwaitedIsKin, Kin
  <1>12. ~denied => Kin(f, e)
    BY <1>5, <1>6, <1>7 DEF Kin, chain
  <1>13. ASSUME NEW p \in TaskIds, NEW d \in TaskIds, Awaits(p, d)'
         PROVE  /\ \/ p = t /\ d = c
                   \/ p \notin {t, c} /\ d # c /\ Awaits(p, d)
                /\ Kin(exec'[p], exec'[d])
    <2>1. CASE p = t
      <3>1. d = c /\ ~denied
        BY <1>5, <1>10, <1>13, <2>1 DEF Awaits
      <3> QED
        BY <1>10, <1>12, <2>1, <3>1
    <2>2. CASE p = c
      BY <1>6, <1>10, <1>13, <2>2 DEF Awaits
    <2>3. CASE p \notin {t, c}
      <3>1. exec'[p] = exec[p] /\ Awaits(p, d) /\ d # c
        BY <1>10, <1>11, <1>13, <2>3 DEF Awaits
      <3>2. Kin(exec[p], exec[d])
        BY <3>1 DEF KinInv, AwaitedIsKin
      <3>3. CASE d = t
        BY <1>5, <1>10, <2>3, <3>1, <3>2, <3>3 DEF Kin
      <3>4. CASE d # t
        BY <1>10, <2>3, <3>1, <3>2, <3>4
      <3> QED
        BY <3>1, <3>3, <3>4, <2>3
    <2> QED
      BY <2>1, <2>2, <2>3
  <1>14. AwaitedIsKin'
    BY <1>13 DEF KinInv, AwaitedIsKin
  <1>15. SyncingIsOver'
    BY <1>3, <1>5, <1>6, <1>10 DEF KinInv, SyncingIsOver, OthersOver
  <1>16. \A u \in TaskIds : Permitted(exec'[u])
    <2>1. me.acl = me.caller
      BY DEF KinInv, Permitted
    <2>2. Permitted(f) /\ Permitted(e)
      BY <1>5, <1>6, <1>8, <2>1 DEF Permitted
    <2> QED
      BY <1>10, <2>2 DEF KinInv
  <1>17. \A u \in TaskIds : NoCycleAhead(exec'[u])
    <2>1. NoCycleAhead(f) /\ NoCycleAhead(e)
      BY <1>5, <1>6, <1>9 DEF NoCycleAhead
    <2> QED
      BY <1>10, <2>1 DEF KinInv
  <1> QED
    BY <1>14, <1>15, <1>16, <1>17 DEF KinInv

LEMMA SubmitKin ==
  ASSUME Inv, KinInv, NEW t \in TaskIds, NEW acl \in ACLs, Submit(t, acl)
  PROVE  KinInv'
  <1>1. OthersOver(t)
    BY OneRowWritten DEF Submit, Inv, TypeOK
  <1>2. exec[t].pc = "idle"
    BY DEF Submit, Exists, Inv, WorkingHasRunner, Running, KinInv, SyncingIsOver
  <1> QED
    BY <1>1, <1>2, BeginsKin DEF Submit, Inv, TypeOK

LEMMA RedispatchKin ==
  ASSUME Inv, KinInv, NEW t \in TaskIds, Redispatch(t)
  PROVE  KinInv'
  <1>1. OthersOver(t)
    BY OneRowWritten DEF Redispatch, Inv, TypeOK
  <1>2. exec[t].pc = "idle"
    BY DEF Redispatch, Inv, WorkingHasRunner, Running, KinInv, SyncingIsOver
  <1> QED
    BY <1>1, <1>2, BeginsKin DEF Redispatch, Inv, TypeOK

\* The operator's task has failed, so nobody is at it.
LEMMA OperatorKin ==
  ASSUME Inv, KinInv, NEW t \in TaskIds, OperatorRetry(t) \/ OperatorPurge(t)
  PROVE  KinInv'
  <1>1. exec' = exec
    BY DEF OperatorRetry, OperatorPurge
  <1>2. OthersOver(t)
    BY OneRowWritten DEF OperatorRetry, OperatorPurge, Inv, TypeOK
  <1>3. exec[t].pc # "syncing"
    BY DEF OperatorRetry, OperatorPurge, Inv, DeadLettersExhausted,
           KinInv, SyncingIsOver
  <1>4. SyncingIsOver'
    BY <1>1, <1>2, <1>3 DEF KinInv, SyncingIsOver, OthersOver
  <1> QED
    BY <1>1, <1>4 DEF KinInv, AwaitedIsKin, Awaits

LEMMA CrashKin ==
  ASSUME Crash
  PROVE  KinInv'
  <1>1. \A t \in TaskIds : /\ exec'[t].pc = "idle"
                           /\ exec'[t].acl = exec'[t].caller
    BY DEF Crash, Idle
  <1> QED
    BY <1>1 DEF KinInv, AwaitedIsKin, SyncingIsOver, Permitted,
                NoCycleAhead, Awaits

LEMMA NextKin ==
  ASSUME Inv, KinInv, [Next]_vars
  PROVE  KinInv'
  <1>1. ASSUME NEW t \in TaskIds, NEW target \in Targets,
               DelegateReturns(t, target)
        PROVE  KinInv'
    BY <1>1, ConcludeKin DEF DelegateReturns, Running
  <1>2. ASSUME NEW t \in TaskIds, NEW timeout \in BOOLEAN,
               DelegateThrows(t, timeout)
        PROVE  KinInv'
    BY <1>2, ThrowKin DEF DelegateThrows
  <1>3. ASSUME NEW t \in TaskIds, Step(t)
        PROVE  KinInv'
    BY <1>1, <1>2, <1>3, RouteKin, OnwardKin, VerifyKin, TransferKin, ResumeKin,
       SyncKin
       DEF Step
  <1>4. CASE UNCHANGED vars
    BY <1>4 DEF vars, KinInv, AwaitedIsKin, SyncingIsOver, Awaits
  <1>5. CASE Next
    BY <1>3, <1>5, SubmitKin, OperatorKin, RedispatchKin, CrashKin DEF Next
  <1> QED
    BY <1>4, <1>5

-----------------------------------------------------------------------------
LEMMA KinAlways == Spec => [](Inv /\ KinInv)
  <1>1. Init => KinInv
    BY InitKin
  <1>2. Inv /\ KinInv /\ [Next]_vars => KinInv'
    BY NextKin
  <1> QED
    BY <1>1, <1>2, Invariance, PTL DEF Spec

(***************************************************************************)
(* A caller limited to some agents has its work done by those, in the task *)
(* it sent and in every task that is handed over on its behalf, however    *)
(* deep.  Not covered: replays, which nobody's permissions travel with,    *)
(* and the second opinion of a verification, which is asked of any agent.  *)
(***************************************************************************)
THEOREM PermissionsFollowTheWork == Spec => []CallerRespected
  <1>1. KinInv => CallerRespected
    BY DEF KinInv, Permitted, CallerRespected
  <1> QED
    BY <1>1, KinAlways, PTL

(***************************************************************************)
(* The chain an awaited child carries is its parent's, and the parent; and *)
(* the search of that chain rejects every named handover to an agent on    *)
(* it: named work does not come back to an agent it has left, at any       *)
(* depth and for any length of the chain.                                  *)
(***************************************************************************)
THEOREM NoWorkReturns == Spec => []NoReturn
  <1>1. KinInv => NoReturn
    <2> SUFFICES ASSUME KinInv, NEW p \in TaskIds, NEW c \in TaskIds,
                        Awaits(p, c)
                 PROVE  /\ exec[c].chain = Append(exec[p].chain, exec[p].agent)
                        /\ Forced(p) => \A i \in DOMAIN exec[p].chain :
                                          exec[p].chain[i] # exec[c].agent
      BY DEF NoReturn
    <2>1. Kin(exec[p], exec[c])
      BY DEF KinInv, AwaitedIsKin
    <2>2. exec[c].chain = Append(exec[p].chain, exec[p].agent)
      BY <2>1 DEF Kin, ExtendChain
    <2>3. Forced(p) => exec[c].agent = exec[p].result
      BY <2>1 DEF Kin, Forced
    <2>4. ~WouldCreateCycle(exec[p].chain, exec[p].result)
      BY DEF KinInv, NoCycleAhead, Awaits
    <2> QED
      BY <2>2, <2>3, <2>4 DEF WouldCreateCycle
  <1> QED
    BY <1>1, KinAlways, PTL
=============================================================================

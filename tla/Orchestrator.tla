---------------------------- MODULE Orchestrator ----------------------------
(***************************************************************************)
(* JabirAgent.executeWithDepth: one execution per task, from the event     *)
(* that announces it to the state it leaves in the task store.  The code   *)
(* between two awaits is one action; while an execution awaits, any other  *)
(* may take a step, and the process may crash.                             *)
(*                                                                         *)
(* Left out: the text of tasks and answers (what an agent answers, whether *)
(* the text asks for verification, and how two answers score are free      *)
(* choices), the memory log, the metrics, and the token budget (an         *)
(* exhausted one is an error delegateTask throws).  Store writes succeed:  *)
(* the database waits 5 s for a lock.                                      *)
(***************************************************************************)
EXTENDS TaskRows

CONSTANTS TaskIds,      \* task ids; crypto.randomUUID picks an unused one
          Agents,       \* the agents of the registry
          Stranger,     \* a handover target that has no URL
          NoAgent,      \* no agent; as the result of an agent: a plain answer
          NoTask,
          ACLs,         \* what the callers may invoke; {} stands for anything
          MaxDepth,     \* MAX_HANDOVER_DEPTH
          MaxRetries,   \* DLQ_MAX_RETRIES
          Dispatcher,   \* does anything execute a task that was put back?
          MaxRuns,      \* bound: executions of one task
          MaxCrashes    \* bound: crashes of the process

ASSUME OrchestratorAssumption ==
  /\ Stranger \notin Agents /\ NoAgent \notin Agents /\ NoAgent # Stranger
  /\ NoTask \notin TaskIds
  /\ ACLs \subseteq SUBSET Agents
  /\ {MaxDepth, MaxRetries, MaxRuns, MaxCrashes} \subseteq Nat
  /\ Dispatcher \in BOOLEAN

VARIABLES rows,     \* the task store
          exec,     \* the execution of each task, as its locals and its await
          ev,       \* history: the lifecycle events emitted for each task
          lost,     \* history: tasks whose execution a crash cut short
          crashes

vars == <<rows, exec, ev, lost, crashes>>

(***************************************************************************)
(* Where an execution is.  routing: knowledge.query and routeTask;         *)
(* resolving: getAgentUrl, getCard and budget.consume; transferring:       *)
(* getAgentUrl of the handover target; resuming: the child has settled and *)
(* the continuation is queued; syncing: syncToKanban, all else being done. *)
(***************************************************************************)
Points == {"idle", "routing", "resolving", "delegating", "verifying",
           "transferring", "awaitingChild", "resuming", "syncing"}

Targets == Agents \cup {Stranger, NoAgent}

\* acl: the allowedAgents of the caller handed down.  peer: the agent a
\* verification asked besides.  caller (history): what the caller of the
\* request behind this execution may invoke; a replay has no caller.
Execution == [pc : Points, agent : Agents \cup {NoAgent}, acl : SUBSET Agents,
              chain : Seq(Agents), depth : Nat,
              child : TaskIds \cup {NoTask}, result : Targets,
              peer : Agents \cup {NoAgent}, caller : SUBSET Agents]

Idle == [pc |-> "idle", agent |-> NoAgent, acl |-> {}, chain |-> <<>>,
         depth |-> 0, child |-> NoTask, result |-> NoAgent,
         peer |-> NoAgent, caller |-> {}]

Events == [created : Nat, completed : Nat, failed : Nat]

NoEvents == [created |-> 0, completed |-> 0, failed |-> 0]

TypeOK ==
  /\ rows \in [TaskIds -> Row]
  /\ exec \in [TaskIds -> Execution]
  /\ ev \in [TaskIds -> Events]
  /\ lost \in SUBSET TaskIds
  /\ crashes \in Nat

Init ==
  /\ rows = [t \in TaskIds |-> NoRow]
  /\ exec = [t \in TaskIds |-> Idle]
  /\ ev = [t \in TaskIds |-> NoEvents]
  /\ lost = {}
  /\ crashes = 0

\* The task is being worked on: its final event is still to come.
Running(t) == exec[t].pc \notin {"idle", "syncing"}

-----------------------------------------------------------------------------
(* Pieces of the loop.                                                     *)

\* caller.allowedAgents, where the empty list allows every agent.
MayInvoke(acl, a) == acl = {} \/ a \in acl

\* Fault: the agent the chain began with is not looked at.
WouldCreateLaterCycle(chain, next) == \E i \in 2 .. Len(chain) : chain[i] = next

WouldCreateCycle(chain, next) == \E i \in 1 .. Len(chain) : chain[i] = next

ExtendChain(chain, a) == Append(chain, a)

Created1(e) == [e EXCEPT !.created = @ + 1]
Completed1(e) == [e EXCEPT !.completed = @ + 1]
Failed1(e) == [e EXCEPT !.failed = @ + 1]

\* Both orders in the code: the state first, then the message.
CompletedRow(r) == MessageAppended(StateUpdated(r, "completed"), "answer")
FailedRow(r) == MessageAppended(StateUpdated(r, "failed"), "error")

\* The catch block: a timeout puts the task back while retries are left.
\* Fault: one retry too many.
PutBackOnceMore(r, timeout) == timeout /\ r.retries <= MaxRetries

PutBack(r, timeout) == timeout /\ r.retries < MaxRetries

ThrownRow(r, timeout) ==
  IF PutBack(r, timeout) THEN StateUpdated(RetryIncremented(r), "submitted")
  ELSE IF timeout THEN MovedToDLQ(FailedRow(r))
  ELSE FailedRow(r)

\* Fault: the parent is not told.
SettledSilently(e, t) == [e EXCEPT ![t] = Idle]

\* The execution of t is over: whoever awaits it has its continuation queued.
Settled(e, t) ==
  [u \in TaskIds |->
     IF u = t THEN Idle
     ELSE IF e[u].pc = "awaitingChild" /\ e[u].child = t
          THEN [e[u] EXCEPT !.pc = "resuming"]
          ELSE e[u]]

\* executeWithDepth up to its first await: the task is announced and set to
\* working.  A forced agent needs no routing and is checked at once.
Denied(forced, acl) == forced # NoAgent /\ ~MayInvoke(acl, forced)

Begun(forced, acl, caller, chain, depth) ==
  IF Denied(forced, acl) THEN Idle
  ELSE [Idle EXCEPT !.pc = IF forced = NoAgent THEN "routing" ELSE "resolving",
                    !.agent = forced, !.acl = acl, !.caller = caller,
                    !.chain = chain, !.depth = depth]

BegunRow(r, forced, acl) ==
  IF Denied(forced, acl) THEN ThrownRow(StateUpdated(r, "working"), FALSE)
                         ELSE StateUpdated(r, "working")

BegunEvents(e, forced, acl) ==
  IF Denied(forced, acl) THEN Failed1(Created1(e)) ELSE Created1(e)

-----------------------------------------------------------------------------
(* The actions.                                                            *)

\* Fault: the failure is announced before the retry is considered.
ThrowLoudly(t, timeout) ==
  /\ rows' = [rows EXCEPT ![t] = ThrownRow(@, timeout)]
  /\ ev' = [ev EXCEPT ![t] = Failed1(@)]
  /\ exec' = Settled(exec, t)
  /\ UNCHANGED <<lost, crashes>>

Throw(t, timeout) ==
  /\ rows' = [rows EXCEPT ![t] = ThrownRow(@, timeout)]
  /\ ev' = IF PutBack(rows[t], timeout) THEN ev
           ELSE [ev EXCEPT ![t] = Failed1(@)]
  /\ exec' = Settled(exec, t)
  /\ UNCHANGED <<lost, crashes>>

\* onTask: a new task, executed at depth 0 with the caller's permissions.
Submit(t, acl) ==
  /\ ~Exists(rows[t])
  /\ rows' = [rows EXCEPT ![t] = BegunRow(Created(@), NoAgent, acl)]
  /\ exec' = [exec EXCEPT ![t] = Begun(NoAgent, acl, acl, <<>>, 0)]
  /\ ev' = [ev EXCEPT ![t] = BegunEvents(@, NoAgent, acl)]
  /\ UNCHANGED <<lost, crashes>>

\* routeTask settles on some agent, and the caller must be allowed to use it.
Route(t, a) ==
  /\ exec[t].pc = "routing"
  /\ IF MayInvoke(exec[t].acl, a)
     THEN /\ exec' = [exec EXCEPT ![t].pc = "resolving", ![t].agent = a]
          /\ UNCHANGED <<rows, ev, lost, crashes>>
     ELSE Throw(t, FALSE)

Resolve(t) ==
  /\ exec[t].pc = "resolving"
  /\ exec' = [exec EXCEPT ![t].pc = "delegating"]
  /\ UNCHANGED <<rows, ev, lost, crashes>>

\* The result is stored as the answer, even where it asks for a handover that
\* is one too many.
Complete(t) ==
  /\ rows' = [rows EXCEPT ![t] = CompletedRow(@)]
  /\ ev' = [ev EXCEPT ![t] = Completed1(@)]
  /\ exec' = [exec EXCEPT ![t].pc = "syncing", ![t].peer = NoAgent]
  /\ UNCHANGED <<lost, crashes>>

\* Fault: the rejection is announced and not stored.
RejectCircularUnstored(t) ==
  /\ rows' = [rows EXCEPT ![t] = MessageAppended(@, "error")]
  /\ ev' = [ev EXCEPT ![t] = Failed1(@)]
  /\ exec' = Settled(exec, t)
  /\ UNCHANGED <<lost, crashes>>

\* Fault: the rejection does not return, and the answer is stored after all.
RejectCircularGoesOn(t) ==
  /\ rows' = [rows EXCEPT ![t] = CompletedRow(FailedRow(@))]
  /\ ev' = [ev EXCEPT ![t] = Completed1(Failed1(@))]
  /\ exec' = [exec EXCEPT ![t].pc = "syncing", ![t].peer = NoAgent]
  /\ UNCHANGED <<lost, crashes>>

RejectCircular(t) ==
  /\ rows' = [rows EXCEPT ![t] = FailedRow(@)]
  /\ ev' = [ev EXCEPT ![t] = Failed1(@)]
  /\ exec' = Settled(exec, t)
  /\ UNCHANGED <<lost, crashes>>

HandOver(t, target, c) ==
  /\ ~Exists(rows[c])
  /\ rows' = [rows EXCEPT
                ![t] = StateUpdated(MessageAppended(@, "handover"), "working"),
                ![c] = Created(@)]
  /\ exec' = [exec EXCEPT ![t].pc = "transferring", ![t].child = c,
                          ![t].result = target, ![t].peer = NoAgent]
  /\ UNCHANGED <<ev, lost, crashes>>

\* What follows a delegation that returned, verified or not.
Conclude(t, target) ==
  LET handover == target # NoAgent /\ exec[t].depth < MaxDepth
      cycle    == WouldCreateCycle(exec[t].chain, target)
  IN  \/ ~handover /\ Complete(t)
      \/ handover /\ cycle /\ RejectCircular(t)
      \/ handover /\ ~cycle /\ \E c \in TaskIds : HandOver(t, target, c)

DelegateReturns(t, target) ==
  exec[t].pc = "delegating" /\ Conclude(t, target)

\* shouldVerifyTask: the result waits for runVerification.
DelegateReturnsForVerification(t, target) ==
  /\ exec[t].pc = "delegating"
  /\ exec' = [exec EXCEPT ![t].pc = "verifying", ![t].result = target]
  /\ UNCHANGED <<rows, ev, lost, crashes>>

DelegateThrows(t, timeout) ==
  exec[t].pc = "delegating" /\ Throw(t, timeout)

\* runVerification delegates the task once more, to the first other agent of
\* the configuration.  The caller's permissions are not looked at.
AskPeer(t, a) ==
  /\ exec[t].pc = "verifying" /\ exec[t].peer = NoAgent
  /\ a # exec[t].agent
  /\ exec' = [exec EXCEPT ![t].peer = a]
  /\ UNCHANGED <<rows, ev, lost, crashes>>

\* Without a cognitive loop or a peer nothing is compared, and a peer that
\* fails is skipped: only two answers can be contested.  The note that appends
\* makes decodeHandover fail (the text after its marker is no longer JSON),
\* and the result is an answer.
Verify(t, contested) ==
  /\ exec[t].pc = "verifying"
  /\ contested => exec[t].peer # NoAgent
  /\ Conclude(t, IF contested THEN NoAgent ELSE exec[t].result)

\* Fault: the child starts at the depth of its parent.
TransferSameDepth(t) ==
  LET me     == exec[t]
      c      == me.child
      forced == IF me.result \in Agents THEN me.result ELSE NoAgent
      chain  == ExtendChain(me.chain, me.agent)
  IN  /\ me.pc = "transferring"
      /\ rows' = [rows EXCEPT
           ![c] = BegunRow(MessageAppended(@, "request"), forced, me.acl)]
      /\ exec' = [exec EXCEPT
           ![t].pc = IF Denied(forced, me.acl) THEN "resuming"
                                               ELSE "awaitingChild",
           ![c] = Begun(forced, me.acl, me.caller, chain, me.depth)]
      /\ ev' = [ev EXCEPT ![c] = BegunEvents(@, forced, me.acl)]
      /\ UNCHANGED <<lost, crashes>>

\* Fault: the child is executed for nobody in particular.
TransferAnonymously(t) ==
  LET me     == exec[t]
      c      == me.child
      forced == IF me.result \in Agents THEN me.result ELSE NoAgent
      chain  == ExtendChain(me.chain, me.agent)
  IN  /\ me.pc = "transferring"
      /\ rows' = [rows EXCEPT
           ![c] = BegunRow(MessageAppended(@, "request"), forced, {})]
      /\ exec' = [exec EXCEPT
           ![t].pc = "awaitingChild",
           ![c] = Begun(forced, {}, me.caller, chain, me.depth + 1)]
      /\ ev' = [ev EXCEPT ![c] = BegunEvents(@, forced, {})]
      /\ UNCHANGED <<lost, crashes>>

\* The child inherits the caller; an unknown target leaves it to routeTask.
Transfer(t) ==
  LET me     == exec[t]
      c      == me.child
      forced == IF me.result \in Agents THEN me.result ELSE NoAgent
      chain  == ExtendChain(me.chain, me.agent)
  IN  /\ me.pc = "transferring"
      /\ rows' = [rows EXCEPT
           ![c] = BegunRow(MessageAppended(@, "request"), forced, me.acl)]
      /\ exec' = [exec EXCEPT
           ![t].pc = IF Denied(forced, me.acl) THEN "resuming"
                                               ELSE "awaitingChild",
           ![c] = Begun(forced, me.acl, me.caller, chain, me.depth + 1)]
      /\ ev' = [ev EXCEPT ![c] = BegunEvents(@, forced, me.acl)]
      /\ UNCHANGED <<lost, crashes>>

\* The parent completes with whatever its child left, failed or not.
Resume(t) ==
  /\ exec[t].pc = "resuming"
  /\ rows' = [rows EXCEPT ![t] = CompletedRow(@)]
  /\ ev' = [ev EXCEPT ![t] = Completed1(@)]
  /\ exec' = Settled(exec, t)
  /\ UNCHANGED <<lost, crashes>>

Sync(t) ==
  /\ exec[t].pc = "syncing"
  /\ exec' = Settled(exec, t)
  /\ UNCHANGED <<rows, ev, lost, crashes>>

-----------------------------------------------------------------------------
(* The environment.                                                        *)

\* task-dlq.ts --retry and --purge on a dead letter.
OperatorRetry(t) ==
  /\ rows[t].dlq # <<>>
  /\ rows' = [rows EXCEPT ![t] = RetriedFromDLQ(@)]
  /\ UNCHANGED <<exec, ev, lost, crashes>>

OperatorPurge(t) ==
  /\ rows[t].dlq # <<>>
  /\ rows' = [rows EXCEPT ![t] = DLQRemoved(@)]
  /\ UNCHANGED <<exec, ev, lost, crashes>>

\* The dispatcher the comments speak of: it takes up a task that was put back
\* and calls execute again, without a caller, for none is stored.  No code of
\* the repository does.
Redispatch(t) ==
  /\ Dispatcher
  /\ rows[t].state = "submitted" /\ rows[t].retries > 0
  /\ ev[t].created < MaxRuns
  /\ rows' = [rows EXCEPT ![t] = BegunRow(@, NoAgent, {})]
  /\ exec' = [exec EXCEPT ![t] = Begun(NoAgent, {}, {}, <<>>, 0)]
  /\ ev' = [ev EXCEPT ![t] = BegunEvents(@, NoAgent, {})]
  /\ UNCHANGED <<lost, crashes>>

\* The process dies while executions await; the store is a file.
Crash ==
  /\ crashes < MaxCrashes
  /\ \E t \in TaskIds : exec[t].pc # "idle"
  /\ crashes' = crashes + 1
  /\ exec' = [t \in TaskIds |-> Idle]
  /\ lost' = lost \cup {t \in TaskIds : Running(t)}
  /\ UNCHANGED <<rows, ev>>

-----------------------------------------------------------------------------
Step(t) ==
  \/ \E a \in Agents : Route(t, a)
  \/ Resolve(t)
  \/ \E target \in Targets : DelegateReturns(t, target)
  \/ \E target \in Targets : DelegateReturnsForVerification(t, target)
  \/ \E timeout \in BOOLEAN : DelegateThrows(t, timeout)
  \/ \E a \in Agents : AskPeer(t, a)
  \/ \E contested \in BOOLEAN : Verify(t, contested)
  \/ Transfer(t)
  \/ Resume(t)
  \/ Sync(t)

Next ==
  \/ \E t \in TaskIds :
       \/ \E acl \in ACLs : Submit(t, acl)
       \/ Step(t)
       \/ OperatorRetry(t)
       \/ OperatorPurge(t)
       \/ Redispatch(t)
  \/ Crash

Spec == Init /\ [][Next]_vars

\* Every await settles: requests have the platform's timeout, and the other
\* awaited calls are local.  Nothing is assumed of callers and operators.
FairSpec == Spec /\ \A t \in TaskIds : WF_vars(Step(t))

-----------------------------------------------------------------------------
(* Properties.                                                             *)

\* Execution p is suspended in the recursive call for c.
Awaits(p, c) == exec[p].pc = "awaitingChild" /\ exec[p].child = c

\* The handover of p named an agent of the registry.
Forced(p) == exec[p].result \in Agents

(***************************************************************************)
(* A stored "working" means that an execution is at it, or that a crash    *)
(* took it: no path through the loop returns and leaves the task working.  *)
(***************************************************************************)
WorkingHasRunner ==
  \A t \in TaskIds :
    /\ Running(t) => rows[t].state = "working"
    /\ rows[t].state = "working" => Running(t) \/ t \in lost

(***************************************************************************)
(* Every announced execution is closed by exactly one event, completed or  *)
(* failed, except when it was put back for a retry (silently), is still    *)
(* running, or was cut short by a crash; and the store agrees with the     *)
(* event that closed the last one.                                         *)
(***************************************************************************)
EventBalance ==
  \A t \in TaskIds :
    /\ ev[t].created = ev[t].completed + ev[t].failed + rows[t].retries
                        + (IF Running(t) \/ t \in lost THEN 1 ELSE 0)
    /\ rows[t].state = "completed" <=> ev[t].completed > 0
    /\ rows[t].state = "failed" => ev[t].failed > 0

(***************************************************************************)
(* A task has at most DLQ_MAX_RETRIES retries, and a dead letter is a      *)
(* failed task, at rest, that has used them up; it is filed once.          *)
(***************************************************************************)
DeadLettersExhausted ==
  \A t \in TaskIds :
    /\ rows[t].retries <= MaxRetries
    /\ rows[t].dlq # <<>> => /\ rows[t].dlq = <<MaxRetries>>
                             /\ rows[t].state = "failed"
                             /\ ~Running(t)

(***************************************************************************)
(* Handovers end: no execution is deeper than MAX_HANDOVER_DEPTH, and the  *)
(* chain it carries names one agent for every handover before it.          *)
(***************************************************************************)
HandoverBounded ==
  \A t \in TaskIds :
    exec[t].depth <= MaxDepth /\ Len(exec[t].chain) = exec[t].depth

(***************************************************************************)
(* Work handed to a named agent never comes back, by name, to an agent it  *)
(* has left, however many handovers ago (A to B to A, A to B to C to A):   *)
(* while a child is awaited its chain is the chain of its parent and the   *)
(* parent's agent, so it names the agents of all executions above it, and  *)
(* an agent named by the parent is none of those above the parent.  The    *)
(* parent's own agent is not excluded: see SelfHandoverRejected.           *)
(***************************************************************************)
NoReturn ==
  \A p, c \in TaskIds :
    Awaits(p, c) /\ Running(c) =>
      /\ exec[c].chain = Append(exec[p].chain, exec[p].agent)
      /\ Forced(p) =>
           \A i \in DOMAIN exec[p].chain : exec[p].chain[i] # exec[c].agent

(***************************************************************************)
(* No agent is handed its own work: the "self-loop detected (A->A)" of     *)
(* tests/security/handover-chain.test.ts:39, of the chain in use.          *)
(***************************************************************************)
SelfHandoverRejected ==
  \A p, c \in TaskIds :
    Awaits(p, c) /\ Forced(p) /\ Running(c) => exec[c].agent # exec[p].agent

(***************************************************************************)
(* The agent at work on a task is one that the caller of the request may   *)
(* invoke: in the task that was sent and in every task it is handed over   *)
(* to, however many handovers down, whether the agent was named or routed  *)
(* to.  Outside of this are a replay, which has no caller any more, and    *)
(* the peer of a verification, for which nobody asks (AskPeer).            *)
(***************************************************************************)
CallerRespected ==
  \A t \in TaskIds :
    exec[t].pc \in {"resolving", "delegating", "verifying"} =>
      MayInvoke(exec[t].caller, exec[t].agent)

(***************************************************************************)
(* The audit trail never shows a task leaving the state it ended in.       *)
(***************************************************************************)
TrailStopsAtEnd ==
  \A t \in TaskIds : \A i \in 1 .. Len(rows[t].trail) :
    rows[t].trail[i][1] \notin FinalStates

(***************************************************************************)
(* The inductive invariant behind WorkingHasRunner, DeadLettersExhausted   *)
(* and HandoverBounded.  What they need besides themselves: the child of a *)
(* handover under way belongs to that handover alone and nobody has begun  *)
(* it, so that the step which begins it finds a task that waits; and an    *)
(* execution past its routing knows its agent.                             *)
(***************************************************************************)
Transferring(t) == exec[t].pc = "transferring"

NewChildWaits ==
  \A t \in TaskIds :
    Transferring(t) =>
      /\ exec[t].depth < MaxDepth
      /\ exec[t].child \in TaskIds
      /\ rows[exec[t].child].state = "submitted"
      /\ rows[exec[t].child].retries = 0

NewChildHasOneParent ==
  \A p, q \in TaskIds :
    Transferring(p) /\ Transferring(q) /\ exec[p].child = exec[q].child => p = q

AgentKnown ==
  \A t \in TaskIds :
    exec[t].pc \notin {"idle", "routing"} => exec[t].agent \in Agents

Inv == /\ TypeOK
       /\ WorkingHasRunner
       /\ DeadLettersExhausted
       /\ HandoverBounded
       /\ NewChildWaits
       /\ NewChildHasOneParent
       /\ AgentKnown

(***************************************************************************)
(* The loop implements the life cycle of TaskLifecycle.                    *)
(***************************************************************************)
Lifecycle == INSTANCE TaskLifecycle WITH
  state <- [t \in TaskIds |-> rows[t].state],
  live  <- {t \in TaskIds : Running(t)},
  dead  <- {t \in TaskIds : rows[t].dlq # <<>>}

ImplementsLifecycle == Lifecycle!Spec

(***************************************************************************)
(* Work ends: a task that is working is completed, failed or put back at   *)
(* some time, unless the process crashes.                                  *)
(***************************************************************************)
WorkEnds ==
  \A t \in TaskIds :
    rows[t].state = "working" ~>
      (rows[t].state \in {"completed", "failed", "submitted"} \/ t \in lost)

(***************************************************************************)
(* "Auto-retry: increment retry count and re-dispatch" (jabir.ts:395): a   *)
(* task that was put back is executed again, unless the process crashes.   *)
(***************************************************************************)
RetriedTaskRuns ==
  \A t \in TaskIds :
    rows[t].state = "submitted" /\ rows[t].retries > 0 ~>
      (rows[t].state = "working" \/ crashes > 0)
=============================================================================

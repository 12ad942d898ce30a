----------------------------- MODULE TaskStore -----------------------------
(***************************************************************************)
(* A task store at work: the port operations its process performs, the     *)
(* subscribers it notifies, restarts of that process, and task-dlq.ts, a   *)
(* second process that edits the same SQLite file statement by statement.  *)
(***************************************************************************)
EXTENDS TaskRows, FiniteSetsExt

CONSTANTS TaskIds,        \* task ids
          Subscribers,    \* callbacks passed to subscribe
          NoTask,         \* not a task id
          UsedStates,     \* the states updateState is called with
          UsedKinds,      \* the kinds of message appendMessage is called with
          MaxTrail,       \* bounds on the rows of all tasks together:
          MaxMsgs,        \*   transitions, messages with artifacts,
          MaxRetryCount,  \*   retries
          MaxDLQ,         \*   and dead letters;
          MaxKills        \* and on the deaths between two statements

ASSUME TaskStoreAssumption ==
  /\ NoTask \notin TaskIds
  /\ UsedStates \subseteq States
  /\ UsedKinds \subseteq MessageKinds
  /\ {MaxTrail, MaxMsgs, MaxRetryCount, MaxDLQ, MaxKills} \subseteq Nat

VARIABLES rows,   \* the tables tasks, messages, artifacts, transitions, DLQ
          sub,    \* the task each subscriber follows
          seen,   \* the snapshot each subscriber was last handed
          cli,    \* the statement task-dlq.ts runs next
          dead,   \* history: tasks moved to the DLQ, neither purged nor requeued
          torn,   \* history: tasks with a transition recorded and not applied
          kills   \* history: how often a process died between two statements

history == <<dead, torn, kills>>
vars == <<rows, sub, seen, cli, history>>

\* How many records of some kind the database holds.
Count(size(_)) == MapThenSumSet(LAMBDA t : size(rows[t]), TaskIds)

\* What a subscriber can tell apart in the Task object it is handed.
Snapshot(r) == [state |-> r.state, msgs |-> r.msgs, arts |-> r.arts]

Snapshots == [state : States \cup {"absent"}, msgs : Nat, arts : Nat]

\* todo: how many rows of the SELECT are still to process, by task (a task can
\* have several); half: the task deleted from the queue and not yet reset.
CliIdle == [todo |-> [t \in TaskIds |-> 0], half |-> NoTask]

TypeOK ==
  /\ rows \in [TaskIds -> Row]
  /\ sub  \in [Subscribers -> TaskIds \cup {NoTask}]
  /\ seen \in [Subscribers -> Snapshots]
  /\ cli  \in [todo : [TaskIds -> Nat], half : TaskIds \cup {NoTask}]
  /\ dead \in SUBSET TaskIds
  /\ torn \in SUBSET TaskIds
  /\ kills \in Nat

Init ==
  /\ rows = [t \in TaskIds |-> NoRow]
  /\ sub  = [c \in Subscribers |-> NoTask]
  /\ seen = [c \in Subscribers |-> Snapshot(NoRow)]
  /\ cli  = CliIdle
  /\ dead = {}
  /\ torn = {}
  /\ kills = 0

-----------------------------------------------------------------------------
(* Writes of the store's own process.                                      *)

Put(t, r) == rows' = [rows EXCEPT ![t] = r]

\* Fault: followers are told of a change of state only.
NotifyStateOnly(t, r) ==
  seen' = [c \in Subscribers |-> IF sub[c] = t /\ seen[c].state # r.state
                                 THEN Snapshot(r) ELSE seen[c]]

\* notifySubscribers: every callback of the task is handed the new snapshot.
Notify(t, r) ==
  seen' = [c \in Subscribers |-> IF sub[c] = t THEN Snapshot(r) ELSE seen[c]]

\* create tells no subscriber.
Create(t) ==
  /\ Put(t, Created(rows[t]))
  /\ dead' = IF Backend = "sqlite" THEN dead \ {t} ELSE dead
  /\ torn' = torn \ {t}
  /\ UNCHANGED <<sub, seen, cli, kills>>

UpdateState(t, s) ==
  /\ Exists(rows[t])
  /\ Count(LAMBDA r : Len(r.trail)) < MaxTrail
  /\ Put(t, StateUpdated(rows[t], s))
  /\ Notify(t, StateUpdated(rows[t], s))
  /\ UNCHANGED <<sub, cli, history>>

AppendMessage(t, kind) ==
  /\ Exists(rows[t])
  /\ Count(LAMBDA r : r.msgs + r.arts) < MaxMsgs
  /\ Put(t, MessageAppended(rows[t], kind))
  /\ Notify(t, MessageAppended(rows[t], kind))
  /\ UNCHANGED <<sub, cli, history>>

AppendArtifact(t) ==
  /\ Exists(rows[t])
  /\ Count(LAMBDA r : r.msgs + r.arts) < MaxMsgs
  /\ Put(t, ArtifactAppended(rows[t]))
  /\ Notify(t, ArtifactAppended(rows[t]))
  /\ UNCHANGED <<sub, cli, history>>

\* incrementRetryCount tells no subscriber.
IncrementRetryCount(t) ==
  /\ Exists(rows[t])
  /\ Count(LAMBDA r : r.retries) < MaxRetryCount
  /\ Put(t, RetryIncremented(rows[t]))
  /\ UNCHANGED <<sub, seen, cli, history>>

MoveToDLQ(t) ==
  /\ Exists(rows[t])
  /\ Count(LAMBDA r : Len(r.dlq)) < MaxDLQ
  /\ Put(t, MovedToDLQ(rows[t]))
  /\ dead' = dead \cup {t}
  /\ UNCHANGED <<sub, seen, cli, torn, kills>>

\* retryFromDLQ: TaskMemory notifies, SqliteTaskStore does not.
RetryFromDLQ(t) ==
  /\ rows[t].dlq # <<>>
  /\ Put(t, RetriedFromDLQ(rows[t]))
  /\ IF Backend = "memory" THEN Notify(t, RetriedFromDLQ(rows[t]))
                           ELSE UNCHANGED seen
  /\ dead' = dead \ {t}
  /\ UNCHANGED <<sub, cli, torn, kills>>

PurgeDLQ(t) ==
  /\ rows[t].dlq # <<>>
  /\ Put(t, DLQRemoved(rows[t]))
  /\ dead' = dead \ {t}
  /\ UNCHANGED <<sub, seen, cli, torn, kills>>

PurgeAllDLQ ==
  /\ \E t \in TaskIds : rows[t].dlq # <<>>
  /\ rows' = [t \in TaskIds |-> DLQRemoved(rows[t])]
  /\ dead' = dead \ {t \in TaskIds : rows[t].dlq # <<>>}
  /\ UNCHANGED <<sub, seen, cli, torn, kills>>

\* subscribe hands the stored task over at once, if there is one.
Subscribe(c, t) ==
  /\ sub[c] = NoTask
  /\ sub'  = [sub EXCEPT ![c] = t]
  /\ seen' = [seen EXCEPT ![c] = Snapshot(rows[t])]
  /\ UNCHANGED <<rows, cli, history>>

Unsubscribe(c) ==
  /\ sub[c] # NoTask
  /\ sub'  = [sub EXCEPT ![c] = NoTask]
  /\ seen' = [seen EXCEPT ![c] = Snapshot(NoRow)]
  /\ UNCHANGED <<rows, cli, history>>

\* The callbacks go with the process that registered them.
LoseSubscribers ==
  /\ sub'  = [c \in Subscribers |-> NoTask]
  /\ seen' = [c \in Subscribers |-> Snapshot(NoRow)]

\* The process ends between two calls; TaskMemory loses everything.
Restart ==
  /\ sub # [c \in Subscribers |-> NoTask]
  /\ LoseSubscribers
  /\ rows' = IF Backend = "sqlite" THEN rows ELSE [t \in TaskIds |-> NoRow]
  /\ dead' = IF Backend = "sqlite" THEN dead ELSE {}
  /\ UNCHANGED <<cli, torn, kills>>

\* It dies inside a call: the statements of one call commit one by one.
Dies ==
  /\ Backend = "sqlite"
  /\ kills < MaxKills
  /\ kills' = kills + 1
  /\ LoseSubscribers

\* In updateState, after the transition is recorded and before the UPDATE.
DiesInUpdateState(t, s) ==
  /\ Exists(rows[t]) /\ rows[t].state # s
  /\ Count(LAMBDA r : Len(r.trail)) < MaxTrail
  /\ Dies
  /\ Put(t, TransitionRecorded(rows[t], s))
  /\ torn' = torn \cup {t}
  /\ UNCHANGED <<cli, dead>>

\* In retryFromDLQ, after the DELETE and before the UPDATE.
DiesInRetryFromDLQ(t) ==
  /\ rows[t].dlq # <<>>
  /\ Dies
  /\ Put(t, DLQRemoved(rows[t]))
  /\ UNCHANGED <<cli, dead, torn>>

-----------------------------------------------------------------------------
(* task-dlq.ts: each statement commits by itself.                          *)

DeadLetters == {t \in TaskIds : rows[t].dlq # <<>>}

\* --retry looks for one row of the task, --retry-all takes every row.
CliRetry(t) ==
  /\ Backend = "sqlite" /\ cli = CliIdle
  /\ t \in DeadLetters
  /\ cli' = [cli EXCEPT !.todo[t] = 1]
  /\ UNCHANGED <<rows, sub, seen, history>>

CliRetryAll ==
  /\ Backend = "sqlite" /\ cli = CliIdle
  /\ DeadLetters # {}
  /\ cli' = [cli EXCEPT !.todo = [t \in TaskIds |-> Len(rows[t].dlq)]]
  /\ UNCHANGED <<rows, sub, seen, history>>

\* Fault: one DELETE empties the queue before the tasks are reset.
CliDeleteAllFirst(t) ==
  /\ cli.todo[t] > 0 /\ cli.half = NoTask
  /\ rows' = [u \in TaskIds |-> DLQRemoved(rows[u])]
  /\ cli' = [todo |-> [cli.todo EXCEPT ![t] = @ - 1], half |-> t]
  /\ UNCHANGED <<sub, seen, history>>

CliDelete(t) ==
  /\ cli.todo[t] > 0 /\ cli.half = NoTask
  /\ Put(t, DLQRemoved(rows[t]))
  /\ cli' = [todo |-> [cli.todo EXCEPT ![t] = @ - 1], half |-> t]
  /\ UNCHANGED <<sub, seen, history>>

\* UPDATE tasks SET state = 'submitted': whatever the state is by now.
CliReset ==
  /\ cli.half # NoTask
  /\ IF Exists(rows[cli.half]) THEN Put(cli.half, Requeued(rows[cli.half]))
                               ELSE UNCHANGED rows
  /\ dead' = dead \ {cli.half}
  /\ cli' = [cli EXCEPT !.half = NoTask]
  /\ UNCHANGED <<sub, seen, torn, kills>>

CliPurge ==
  /\ Backend = "sqlite" /\ cli = CliIdle
  /\ PurgeAllDLQ \/ \E t \in TaskIds : PurgeDLQ(t)

\* The script dies between two of its statements.
CliKilled ==
  /\ cli # CliIdle
  /\ kills < MaxKills
  /\ cli' = CliIdle
  /\ kills' = kills + 1
  /\ UNCHANGED <<rows, sub, seen, dead, torn>>

-----------------------------------------------------------------------------
Next ==
  \/ \E t \in TaskIds :
       \/ Create(t)
       \/ \E s \in UsedStates : UpdateState(t, s)
       \/ \E k \in UsedKinds : AppendMessage(t, k)
       \/ AppendArtifact(t)
       \/ IncrementRetryCount(t)
       \/ MoveToDLQ(t)
       \/ \E s \in UsedStates : DiesInUpdateState(t, s)
       \/ RetryFromDLQ(t)
       \/ DiesInRetryFromDLQ(t)
       \/ PurgeDLQ(t)
       \/ CliRetry(t)
       \/ CliDelete(t)
  \/ PurgeAllDLQ
  \/ \E c \in Subscribers :
       \/ \E t \in TaskIds : Subscribe(c, t)
       \/ Unsubscribe(c)
  \/ Restart
  \/ CliRetryAll
  \/ CliPurge
  \/ CliReset
  \/ CliKilled

Spec == Init /\ [][Next]_vars

-----------------------------------------------------------------------------
(***************************************************************************)
(* The transition history of a task ends in the state the task is in,      *)
(* unless a raw UPDATE put the task back to "submitted" (retryFromDLQ and  *)
(* task-dlq.ts record nothing) or the process died inside updateState.     *)
(***************************************************************************)
TrailRecorded ==
  \A t \in TaskIds \ torn :
    rows[t].state \notin {"absent", "submitted"} =>
      /\ rows[t].trail # <<>>
      /\ rows[t].trail[Len(rows[t].trail)][2] = rows[t].state

(***************************************************************************)
(* The history reads as one walk: every entry changes the state and starts *)
(* where the one before ended, or at "submitted" after a requeue.          *)
(***************************************************************************)
TrailConnected ==
  \A t \in TaskIds \ torn : \A i \in 1 .. Len(rows[t].trail) :
    LET entry == rows[t].trail[i] IN
      /\ entry[1] # entry[2]
      /\ entry[1] # "submitted" =>
           i > 1 /\ rows[t].trail[i - 1][2] = entry[1]

(***************************************************************************)
(* Whoever follows a task holds its current snapshot.  The writes that     *)
(* tell nobody (create, the requeue of retryFromDLQ and of task-dlq.ts)    *)
(* all leave the task "submitted", so a stale view is possible only there: *)
(* no follower ever misses that a task ended, or what it answered.         *)
(***************************************************************************)
FollowersUpToDate ==
  \A c \in Subscribers :
    sub[c] # NoTask =>
      \/ seen[c] = Snapshot(rows[sub[c]])
      \/ rows[sub[c]].state = "submitted"

(***************************************************************************)
(* A dead letter is about the task as it is stored now: it was filed with  *)
(* no more retries than the task has had, and none outlives its task when  *)
(* the id is created again (the cascade of INSERT OR REPLACE).             *)
(***************************************************************************)
DeadLettersBelongToTask ==
  \A t \in TaskIds : \A i \in 1 .. Len(rows[t].dlq) :
    Exists(rows[t]) /\ rows[t].dlq[i] <= rows[t].retries

(***************************************************************************)
(* A dead letter leaves the queue by being purged or by going back to      *)
(* "submitted".  The two statements of a retry are no transaction, so a    *)
(* process that dies between them loses the one task it was at, not the    *)
(* rest of --retry-all.                                                    *)
(***************************************************************************)
DeadLettersLostOnlyByDying ==
  Cardinality({t \in dead : rows[t].dlq = <<>> /\ cli.half # t}) <= kills
=============================================================================

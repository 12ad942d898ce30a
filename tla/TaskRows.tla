------------------------------ MODULE TaskRows ------------------------------
(***************************************************************************)
(* One task as a TaskStorePort keeps it, and what every port operation     *)
(* makes of it.  Both implementations are covered: SqliteTaskStore (the    *)
(* orchestrator's store) and TaskMemory (the specialist agents' store).    *)
(* They differ in the transition history, in the dead letter queue and in  *)
(* what creating a task again throws away.                                 *)
(*                                                                         *)
(* A row keeps the number of messages and the kind of the last one instead *)
(* of their text, and of a dead letter only the retry count it was filed   *)
(* with.                                                                   *)
(***************************************************************************)
EXTENDS Naturals, Sequences

CONSTANT Backend            \* which implementation of TaskStorePort is used

ASSUME BackendAssumption == Backend \in {"sqlite", "memory"}

(***************************************************************************)
(* The states of the A2A task life cycle, and those V1_FINAL_STATES calls  *)
(* final.  "absent" stands for a task id the store has no row for.         *)
(***************************************************************************)
States == {"submitted", "working", "input-required", "completed", "failed",
           "canceled", "rejected", "auth-required", "unknown"}

FinalStates == {"completed", "failed", "canceled", "rejected", "auth-required"}

\* What the last message of a task is: nothing yet, the user's request, an
\* agent's answer, the text around a handover, or an error report.
MessageKinds == {"none", "request", "answer", "handover", "error"}

Row == [state   : States \cup {"absent"},
        msgs    : Nat,
        last    : MessageKinds,
        arts    : Nat,
        retries : Nat,
        dlq     : Seq(Nat),
        trail   : Seq(States \X States)]

NoRow == [state |-> "absent", msgs |-> 0, last |-> "none", arts |-> 0,
          retries |-> 0, dlq |-> <<>>, trail |-> <<>>]

Exists(r) == r.state # "absent"

-----------------------------------------------------------------------------
\* Fault: without PRAGMA foreign_keys nothing cascades to the dead letters.
CreatedNoCascade(r) == [NoRow EXCEPT !.state = "submitted", !.dlq = r.dlq]

(***************************************************************************)
(* create: SQLite runs INSERT OR REPLACE, which deletes an old row, and    *)
(* with it (ON DELETE CASCADE) its messages, artifacts, transitions and    *)
(* dead letters.  TaskMemory replaces the task object and keeps the dead   *)
(* letter of the old one.                                                  *)
(***************************************************************************)
Created(r) ==
  [NoRow EXCEPT !.state = "submitted",
                !.dlq   = IF Backend = "memory" THEN r.dlq ELSE <<>>]

\* Fault: a call that leaves the state alone is recorded too.
RecordedAlways(r, s) == [r EXCEPT !.trail = Append(@, <<r.state, s>>)]

\* TaskMemory has no list to push the transition to (task-memory.ts:40).
TransitionRecorded(r, s) ==
  [r EXCEPT !.trail = IF Backend = "sqlite" /\ r.state # s
                      THEN Append(@, <<r.state, s>>) ELSE @]

StateUpdated(r, s) == [TransitionRecorded(r, s) EXCEPT !.state = s]

MessageAppended(r, kind) == [r EXCEPT !.msgs = @ + 1, !.last = kind]

ArtifactAppended(r) == [r EXCEPT !.arts = @ + 1]

RetryIncremented(r) == [r EXCEPT !.retries = @ + 1]

\* moveToDLQ: dead_letter_queue has no unique key, so INSERT OR REPLACE adds
\* a row each time; TaskMemory keeps one entry per task.
MovedToDLQ(r) ==
  [r EXCEPT !.dlq = IF Backend = "sqlite" THEN Append(@, r.retries)
                                          ELSE <<r.retries>>]

DLQRemoved(r) == [r EXCEPT !.dlq = <<>>]

\* Fault: a task taken from the queue counts as running.
RequeuedAsWorking(r) == [r EXCEPT !.state = "working"]

\* The raw UPDATE that puts a task back: no transition is recorded and the
\* retry count stays.
Requeued(r) == [r EXCEPT !.state = "submitted"]

RetriedFromDLQ(r) == Requeued(DLQRemoved(r))
=============================================================================

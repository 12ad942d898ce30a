--------------------------- MODULE TaskLifecycle ---------------------------
(***************************************************************************)
(* What the orchestrator promises about a task, without agents, handovers  *)
(* or messages: a task is worked on at most once at a time, only work      *)
(* ends it, a task that has ended stays as it is, and the one way back is  *)
(* an operator's retry of a dead letter.                                   *)
(***************************************************************************)
CONSTANT TaskIds

VARIABLES state,   \* the stored state of each task
          live,    \* the tasks being worked on
          dead     \* the tasks in the dead letter queue

vars == <<state, live, dead>>

Ended == {"completed", "failed"}

Init ==
  /\ state = [t \in TaskIds |-> "absent"]
  /\ live = {}
  /\ dead = {}

Create(t) ==
  /\ state[t] = "absent"
  /\ state' = [state EXCEPT ![t] = "submitted"]
  /\ UNCHANGED <<live, dead>>

\* Work begins on a task that waits for it, or on one that is new.
Start(t) ==
  /\ t \notin live
  /\ state[t] \in {"absent", "submitted"}
  /\ state' = [state EXCEPT ![t] = "working"]
  /\ live' = live \cup {t}
  /\ UNCHANGED dead

\* A waiting task is turned away without any work.
Refuse(t) ==
  /\ t \notin live
  /\ state[t] = "submitted"
  /\ state' = [state EXCEPT ![t] = "failed"]
  /\ UNCHANGED <<live, dead>>

Finish(t, s) ==
  /\ t \in live
  /\ state[t] = "working"
  /\ state' = [state EXCEPT ![t] = s]
  /\ live' = live \ {t}
  /\ UNCHANGED dead

PutBack(t) ==
  /\ t \in live
  /\ state[t] = "working"
  /\ state' = [state EXCEPT ![t] = "submitted"]
  /\ live' = live \ {t}
  /\ UNCHANGED dead

GiveUp(t) ==
  /\ t \in live \ dead
  /\ state[t] = "working"
  /\ state' = [state EXCEPT ![t] = "failed"]
  /\ live' = live \ {t}
  /\ dead' = dead \cup {t}

Revive(t) ==
  /\ t \in dead
  /\ state[t] = "failed"
  /\ state' = [state EXCEPT ![t] = "submitted"]
  /\ dead' = dead \ {t}
  /\ UNCHANGED live

Purge(t) ==
  /\ t \in dead
  /\ dead' = dead \ {t}
  /\ UNCHANGED <<state, live>>

\* All work stops; what is stored stays.
Crash ==
  /\ live' = {}
  /\ UNCHANGED <<state, dead>>

Next ==
  \/ \E t \in TaskIds :
       \/ Create(t)
       \/ Start(t)
       \/ Refuse(t)
       \/ \E s \in Ended : Finish(t, s)
       \/ PutBack(t)
       \/ GiveUp(t)
       \/ Revive(t)
       \/ Purge(t)
  \/ Crash

Spec == Init /\ [][Next]_vars
=============================================================================

-------------------------- MODULE TaskStoreProofs ---------------------------
(***************************************************************************)
(* Proofs about TaskStore, for any sets of tasks and subscribers and any   *)
(* bounds; where the two implementations differ, the theorem says which of *)
(* them it is about.                                                       *)
(***************************************************************************)
EXTENDS TaskStore, FiniteSetTheorems, TLAPS

-----------------------------------------------------------------------------
(* Rows.                                                                   *)

LEMMA RowFields ==
  ASSUME NEW r \in Row
  PROVE  /\ r.state \in States \cup {"absent"}
         /\ r.msgs \in Nat /\ r.arts \in Nat /\ r.retries \in Nat
         /\ r.dlq \in Seq(Nat) /\ r.trail \in Seq(States \X States)
  BY DEF Row

LEMMA NoRowType == NoRow \in Row
  BY DEF NoRow, Row, MessageKinds

\* What a write sets in a row, and what it leaves alone.
LEMMA SetState ==
  ASSUME NEW r \in Row, NEW s \in States
  PROVE  /\ [r EXCEPT !.state = s] \in Row
         /\ [r EXCEPT !.state = s].state = s
         /\ [r EXCEPT !.state = s].trail = r.trail
         /\ [r EXCEPT !.state = s].dlq = r.dlq
         /\ [r EXCEPT !.state = s].retries = r.retries
  BY DEF Row

LEMMA SetTrail ==
  ASSUME NEW r \in Row, NEW q \in Seq(States \X States)
  PROVE  /\ [r EXCEPT !.trail = q] \in Row
         /\ [r EXCEPT !.trail = q].trail = q
         /\ [r EXCEPT !.trail = q].state = r.state
         /\ [r EXCEPT !.trail = q].dlq = r.dlq
         /\ [r EXCEPT !.trail = q].retries = r.retries
  BY DEF Row

LEMMA SetDLQ ==
  ASSUME NEW r \in Row, NEW q \in Seq(Nat)
  PROVE  /\ [r EXCEPT !.dlq = q] \in Row
         /\ [r EXCEPT !.dlq = q].dlq = q
         /\ [r EXCEPT !.dlq = q].state = r.state
         /\ [r EXCEPT !.dlq = q].trail = r.trail
         /\ [r EXCEPT !.dlq = q].retries = r.retries
         /\ Snapshot([r EXCEPT !.dlq = q]) = Snapshot(r)
  BY DEF Row, Snapshot

LEMMA CreatedType ==
  ASSUME NEW r \in Row
  PROVE  /\ Created(r) \in Row
         /\ Created(r).state = "submitted"
         /\ Created(r).trail = << >>
         /\ Created(r).dlq = IF Backend = "memory" THEN r.dlq ELSE << >>
  <1> DEFINE q == IF Backend = "memory" THEN r.dlq ELSE << >>
             n == [NoRow EXCEPT !.state = "submitted"]
  <1>1. q \in Seq(Nat)
    BY RowFields
  <1>2. n \in Row /\ n.state = "submitted" /\ n.trail = << >>
    BY NoRowType, SetState DEF States, NoRow
  <1>3. Created(r) = [n EXCEPT !.dlq = q]
    BY DEF Created
  <1> HIDE DEF n, q
  <1>4. /\ [n EXCEPT !.dlq = q] \in Row
        /\ [n EXCEPT !.dlq = q].state = "submitted"
        /\ [n EXCEPT !.dlq = q].trail = << >>
        /\ [n EXCEPT !.dlq = q].dlq = q
    BY <1>1, <1>2, SetDLQ
  <1> QED
    BY <1>3, <1>4 DEF q

LEMMA TransitionType ==
  ASSUME NEW r \in Row, Exists(r), NEW s \in States
  PROVE  /\ TransitionRecorded(r, s) \in Row
         /\ TransitionRecorded(r, s).state = r.state
         /\ TransitionRecorded(r, s).dlq = r.dlq
         /\ TransitionRecorded(r, s).retries = r.retries
         /\ TransitionRecorded(r, s).trail =
              IF Backend = "sqlite" /\ r.state # s
              THEN Append(r.trail, <<r.state, s>>) ELSE r.trail
  <1> DEFINE tr == IF Backend = "sqlite" /\ r.state # s
                   THEN Append(r.trail, <<r.state, s>>) ELSE r.trail
  <1>1. tr \in Seq(States \X States)
    <2>1. <<r.state, s>> \in States \X States
      BY RowFields DEF Exists
    <2> QED
      BY <2>1, RowFields
  <1>2. TransitionRecorded(r, s) = [r EXCEPT !.trail = tr]
    BY DEF TransitionRecorded
  <1> HIDE DEF tr
  <1>3. /\ [r EXCEPT !.trail = tr] \in Row
        /\ [r EXCEPT !.trail = tr].trail = tr
        /\ [r EXCEPT !.trail = tr].state = r.state
        /\ [r EXCEPT !.trail = tr].dlq = r.dlq
        /\ [r EXCEPT !.trail = tr].retries = r.retries
    BY <1>1, SetTrail
  <1> QED
    BY <1>2, <1>3 DEF tr

LEMMA StateUpdatedType ==
  ASSUME NEW r \in Row, Exists(r), NEW s \in States
  PROVE  /\ StateUpdated(r, s) \in Row
         /\ StateUpdated(r, s).state = s
         /\ StateUpdated(r, s).dlq = r.dlq
         /\ StateUpdated(r, s).retries = r.retries
         /\ StateUpdated(r, s).trail =
              IF Backend = "sqlite" /\ r.state # s
              THEN Append(r.trail, <<r.state, s>>) ELSE r.trail
  BY TransitionType, SetState DEF StateUpdated

\* The writes that leave state and trail alone.
LEMMA MessageAppendedType ==
  ASSUME NEW r \in Row, NEW k \in MessageKinds
  PROVE  /\ MessageAppended(r, k) \in Row
         /\ MessageAppended(r, k).state = r.state
         /\ MessageAppended(r, k).trail = r.trail
         /\ MessageAppended(r, k).dlq = r.dlq
         /\ MessageAppended(r, k).retries = r.retries
  <1> DEFINE n == r.msgs + 1
             m == [r EXCEPT !.msgs = n]
  <1>0. n \in Nat
    BY RowFields
  <1> HIDE DEF n
  <1>1. /\ m \in Row /\ m.state = r.state /\ m.trail = r.trail
        /\ m.dlq = r.dlq /\ m.retries = r.retries
    BY <1>0 DEF Row
  <1>2. MessageAppended(r, k) = [m EXCEPT !.last = k]
    BY DEF MessageAppended, n
  <1> HIDE DEF m
  <1> QED
    BY <1>1, <1>2 DEF Row

LEMMA SetArts ==
  ASSUME NEW r \in Row, NEW n \in Nat
  PROVE  /\ [r EXCEPT !.arts = n] \in Row
         /\ [r EXCEPT !.arts = n].state = r.state
         /\ [r EXCEPT !.arts = n].trail = r.trail
         /\ [r EXCEPT !.arts = n].dlq = r.dlq
         /\ [r EXCEPT !.arts = n].retries = r.retries
  BY DEF Row

LEMMA ArtifactAppendedType ==
  ASSUME NEW r \in Row
  PROVE  /\ ArtifactAppended(r) \in Row
         /\ ArtifactAppended(r).state = r.state
         /\ ArtifactAppended(r).trail = r.trail
         /\ ArtifactAppended(r).dlq = r.dlq
         /\ ArtifactAppended(r).retries = r.retries
  <1>1. r.arts + 1 \in Nat
    BY RowFields
  <1> QED
    BY <1>1, SetArts DEF ArtifactAppended

LEMMA SetRetries ==
  ASSUME NEW r \in Row, NEW n \in Nat
  PROVE  /\ [r EXCEPT !.retries = n] \in Row
         /\ [r EXCEPT !.retries = n].state = r.state
         /\ [r EXCEPT !.retries = n].trail = r.trail
         /\ [r EXCEPT !.retries = n].dlq = r.dlq
         /\ [r EXCEPT !.retries = n].retries = n
         /\ Snapshot([r EXCEPT !.retries = n]) = Snapshot(r)
  BY DEF Row, Snapshot

LEMMA RetryIncrementedType ==
  ASSUME NEW r \in Row
  PROVE  /\ RetryIncremented(r) \in Row
         /\ RetryIncremented(r).state = r.state
         /\ RetryIncremented(r).trail = r.trail
         /\ RetryIncremented(r).dlq = r.dlq
         /\ RetryIncremented(r).retries = r.retries + 1
         /\ Snapshot(RetryIncremented(r)) = Snapshot(r)
  <1>1. r.retries + 1 \in Nat
    BY RowFields
  <1> QED
    BY <1>1, SetRetries DEF RetryIncremented

LEMMA MovedToDLQType ==
  ASSUME NEW r \in Row
  PROVE  /\ MovedToDLQ(r) \in Row
         /\ MovedToDLQ(r).state = r.state
         /\ MovedToDLQ(r).trail = r.trail
         /\ MovedToDLQ(r).retries = r.retries
         /\ MovedToDLQ(r).dlq = IF Backend = "sqlite"
                                THEN Append(r.dlq, r.retries) ELSE <<r.retries>>
         /\ MovedToDLQ(r).dlq # << >>
         /\ Snapshot(MovedToDLQ(r)) = Snapshot(r)
  <1> DEFINE q == IF Backend = "sqlite" THEN Append(r.dlq, r.retries)
                                        ELSE <<r.retries>>
  <1>1. q \in Seq(Nat) /\ q # << >>
    BY RowFields
  <1>2. MovedToDLQ(r) = [r EXCEPT !.dlq = q]
    BY DEF MovedToDLQ
  <1> HIDE DEF q
  <1>3. /\ MovedToDLQ(r) \in Row
        /\ MovedToDLQ(r).state = r.state /\ MovedToDLQ(r).trail = r.trail
        /\ MovedToDLQ(r).retries = r.retries /\ MovedToDLQ(r).dlq = q
        /\ Snapshot(MovedToDLQ(r)) = Snapshot(r)
    BY <1>1, <1>2, SetDLQ
  <1> QED
    BY <1>1, <1>3 DEF q

LEMMA DLQRemovedType ==
  ASSUME NEW r \in Row
  PROVE  /\ DLQRemoved(r) \in Row
         /\ DLQRemoved(r).state = r.state
         /\ DLQRemoved(r).trail = r.trail
         /\ DLQRemoved(r).retries = r.retries
         /\ DLQRemoved(r).dlq = << >>
         /\ Snapshot(DLQRemoved(r)) = Snapshot(r)
  <1>1. << >> \in Seq(Nat)
    OBVIOUS
  <1> QED
    BY <1>1, SetDLQ DEF DLQRemoved

LEMMA RequeuedType ==
  ASSUME NEW r \in Row
  PROVE  /\ Requeued(r) \in Row
         /\ Requeued(r).state = "submitted"
         /\ Requeued(r).trail = r.trail
         /\ Requeued(r).dlq = r.dlq
         /\ Requeued(r).retries = r.retries
  BY SetState DEF Requeued, States

LEMMA RetriedFromDLQType ==
  ASSUME NEW r \in Row
  PROVE  /\ RetriedFromDLQ(r) \in Row
         /\ RetriedFromDLQ(r).state = "submitted"
         /\ RetriedFromDLQ(r).trail = r.trail
         /\ RetriedFromDLQ(r).dlq = << >>
         /\ RetriedFromDLQ(r).retries = r.retries
  BY DLQRemovedType, RequeuedType DEF RetriedFromDLQ

-----------------------------------------------------------------------------
(* What one step does to one task.                                         *)

\* The row stays as it is.
Rests(t) == rows'[t] = rows[t] /\ (t \in torn' <=> t \in torn)

\* A write that leaves state, trail and dead letters alone.
Grows(t) ==
  /\ Exists(rows[t]) /\ (t \in torn' <=> t \in torn)
  /\ \/ \E k \in MessageKinds : rows'[t] = MessageAppended(rows[t], k)
     \/ rows'[t] = ArtifactAppended(rows[t])
     \/ rows'[t] = RetryIncremented(rows[t])

\* A dead letter is filed or removed.
Refiled(t) ==
  /\ t \in torn' <=> t \in torn
  /\ \/ Exists(rows[t]) /\ rows'[t] = MovedToDLQ(rows[t])
     \/ rows'[t] = DLQRemoved(rows[t])

\* The raw UPDATE; in retryFromDLQ it follows the DELETE at once.
PutBack(t) ==
  /\ t \in torn' <=> t \in torn
  /\ \/ rows'[t] = RetriedFromDLQ(rows[t])
     \/ Exists(rows[t]) /\ rows'[t] = Requeued(rows[t])

\* A change of state, whole or cut short by the death of the process.
Moves(t) ==
  /\ Exists(rows[t])
  /\ \E s \in States :
       \/ rows'[t] = StateUpdated(rows[t], s) /\ (t \in torn' <=> t \in torn)
       \/ rows'[t] = TransitionRecorded(rows[t], s) /\ t \in torn'

\* The row is made anew, or the process that held it is gone.
Replaced(t) ==
  \/ rows'[t] = Created(rows[t]) /\ t \notin torn'
  \/ /\ Backend # "sqlite" /\ rows'[t] = NoRow
     /\ t \in torn' <=> t \in torn

Touched(t) ==
  Rests(t) \/ Grows(t) \/ Refiled(t) \/ PutBack(t) \/ Moves(t) \/ Replaced(t)

LEMMA PutOne ==
  ASSUME TypeOK, NEW t \in TaskIds, NEW r, Put(t, r), NEW u \in TaskIds
  PROVE  rows'[u] = IF u = t THEN r ELSE rows[u]
  BY DEF TypeOK, Put

LEMMA EveryStepTouches ==
  ASSUME TypeOK, Next, NEW u \in TaskIds
  PROVE  Touched(u)
  <1> USE DEF history
  <1>1. ASSUME NEW t \in TaskIds, Create(t) PROVE Touched(u)
    BY <1>1, PutOne DEF Create, Touched, Rests, Replaced
  <1>2. ASSUME NEW t \in TaskIds, NEW s \in UsedStates, UpdateState(t, s)
        PROVE  Touched(u)
    BY <1>2, PutOne, TaskStoreAssumption
       DEF UpdateState, Touched, Rests, Moves
  <1>3. ASSUME NEW t \in TaskIds, NEW k \in UsedKinds, AppendMessage(t, k)
        PROVE  Touched(u)
    BY <1>3, PutOne, TaskStoreAssumption
       DEF AppendMessage, Touched, Rests, Grows
  <1>4. ASSUME NEW t \in TaskIds, AppendArtifact(t) PROVE Touched(u)
    BY <1>4, PutOne DEF AppendArtifact, Touched, Rests, Grows
  <1>5. ASSUME NEW t \in TaskIds, IncrementRetryCount(t) PROVE Touched(u)
    BY <1>5, PutOne DEF IncrementRetryCount, Touched, Rests, Grows
  <1>6. ASSUME NEW t \in TaskIds, MoveToDLQ(t) PROVE Touched(u)
    BY <1>6, PutOne DEF MoveToDLQ, Touched, Rests, Refiled
  <1>7. ASSUME NEW t \in TaskIds, NEW s \in UsedStates, DiesInUpdateState(t, s)
        PROVE  Touched(u)
    BY <1>7, PutOne, TaskStoreAssumption
       DEF DiesInUpdateState, Touched, Rests, Moves
  <1>8. ASSUME NEW t \in TaskIds, RetryFromDLQ(t) PROVE Touched(u)
    BY <1>8, PutOne DEF RetryFromDLQ, Touched, Rests, PutBack
  <1>9. ASSUME NEW t \in TaskIds, DiesInRetryFromDLQ(t) PROVE Touched(u)
    BY <1>9, PutOne DEF DiesInRetryFromDLQ, Touched, Rests, Refiled
  <1>10. ASSUME NEW t \in TaskIds, PurgeDLQ(t) PROVE Touched(u)
    BY <1>10, PutOne DEF PurgeDLQ, Touched, Rests, Refiled
  <1>11. ASSUME NEW t \in TaskIds, CliRetry(t) PROVE Touched(u)
    BY <1>11 DEF CliRetry, Touched, Rests
  <1>12. ASSUME NEW t \in TaskIds, CliDelete(t) PROVE Touched(u)
    BY <1>12, PutOne DEF CliDelete, Touched, Rests, Refiled
  <1>13. ASSUME PurgeAllDLQ PROVE Touched(u)
    BY <1>13 DEF PurgeAllDLQ, Touched, Refiled
  <1>14. ASSUME NEW c \in Subscribers, NEW t \in TaskIds, Subscribe(c, t)
         PROVE  Touched(u)
    BY <1>14 DEF Subscribe, Touched, Rests
  <1>15. ASSUME NEW c \in Subscribers, Unsubscribe(c) PROVE Touched(u)
    BY <1>15 DEF Unsubscribe, Touched, Rests
  <1>16. ASSUME Restart PROVE Touched(u)
    BY <1>16 DEF Restart, Touched, Rests, Replaced
  <1>17. ASSUME CliRetryAll PROVE Touched(u)
    BY <1>17 DEF CliRetryAll, Touched, Rests
  <1>18. ASSUME CliPurge PROVE Touched(u)
    BY <1>10, <1>13, <1>18 DEF CliPurge
  <1>19. ASSUME CliReset PROVE Touched(u)
    <2>1. cli.half \in TaskIds
      BY <1>19 DEF CliReset, TypeOK
    <2> QED
      BY <1>19, <2>1, PutOne DEF CliReset, Touched, Rests, PutBack
  <1>20. ASSUME CliKilled PROVE Touched(u)
    BY <1>20 DEF CliKilled, Touched, Rests
  <1> QED
    BY <1>1, <1>2, <1>3, <1>4, <1>5, <1>6, <1>7, <1>8, <1>9, <1>10, <1>11,
       <1>12, <1>13, <1>14, <1>15, <1>16, <1>17, <1>18, <1>19, <1>20 DEF Next
-----------------------------------------------------------------------------
(* What one step does to one subscriber.                                   *)

\* It no longer follows a task: it unsubscribed, or went with its process.
Gone(c) == sub'[c] = NoTask /\ seen'[c] = Snapshot(NoRow)

\* It is handed the task it follows as the step leaves it.
Told(c) == sub'[c] \in TaskIds /\ seen'[c] = Snapshot(rows'[sub'[c]])

\* Nobody tells it anything: there is nothing to tell of the task it follows,
\* or that is put back to "submitted".
Untold(c) ==
  /\ sub'[c] = sub[c] /\ seen'[c] = seen[c]
  /\ sub[c] # NoTask =>
       \/ Snapshot(rows'[sub[c]]) = Snapshot(rows[sub[c]])
       \/ rows'[sub[c]].state = "submitted"

LEMMA NotifyTells ==
  ASSUME TypeOK, NEW t \in TaskIds, NEW r, Put(t, r), Notify(t, r),
         UNCHANGED sub, NEW c \in Subscribers
  PROVE  Told(c) \/ Untold(c)
  <1>1. sub[c] \in TaskIds \cup {NoTask}
    BY DEF TypeOK
  <1>2. CASE sub[c] = t
    BY <1>2, PutOne DEF Notify, Told
  <1>3. CASE sub[c] # t
    <2>1. sub[c] # NoTask => rows'[sub[c]] = rows[sub[c]]
      BY <1>1, <1>3, PutOne
    <2> QED
      BY <1>3, <2>1 DEF Notify, Untold
  <1> QED
    BY <1>2, <1>3

\* A write of one task that tells nobody.
LEMMA SilentPut ==
  ASSUME TypeOK, NEW t \in TaskIds, NEW r, Put(t, r), UNCHANGED <<sub, seen>>,
         Snapshot(r) = Snapshot(rows[t]) \/ r.state = "submitted",
         NEW c \in Subscribers
  PROVE  Untold(c)
  <1>1. sub[c] \in TaskIds \cup {NoTask}
    BY DEF TypeOK
  <1>2. sub[c] # NoTask => rows'[sub[c]] = IF sub[c] = t THEN r ELSE rows[sub[c]]
    BY <1>1, PutOne
  <1> QED
    BY <1>2 DEF Untold

LEMMA EveryStepTells ==
  ASSUME TypeOK, Next, NEW c \in Subscribers
  PROVE  Gone(c) \/ Told(c) \/ Untold(c)
  <1> USE DEF history
  <1>0. sub[c] \in TaskIds \cup {NoTask} /\ \A t \in TaskIds : rows[t] \in Row
    BY DEF TypeOK
  <1>1. ASSUME NEW t \in TaskIds, Create(t) PROVE Untold(c)
    BY <1>0, <1>1, CreatedType, SilentPut DEF Create
  <1>2. ASSUME NEW t \in TaskIds, NEW s \in UsedStates, UpdateState(t, s)
        PROVE  Told(c) \/ Untold(c)
    BY <1>2, NotifyTells DEF UpdateState
  <1>3. ASSUME NEW t \in TaskIds, NEW k \in UsedKinds, AppendMessage(t, k)
        PROVE  Told(c) \/ Untold(c)
    BY <1>3, NotifyTells DEF AppendMessage
  <1>4. ASSUME NEW t \in TaskIds, AppendArtifact(t)
        PROVE  Told(c) \/ Untold(c)
    BY <1>4, NotifyTells DEF AppendArtifact
  <1>5. ASSUME NEW t \in TaskIds, IncrementRetryCount(t) PROVE Untold(c)
    BY <1>0, <1>5, RetryIncrementedType, SilentPut DEF IncrementRetryCount
  <1>6. ASSUME NEW t \in TaskIds, MoveToDLQ(t) PROVE Untold(c)
    BY <1>0, <1>6, MovedToDLQType, SilentPut DEF MoveToDLQ
  <1>7. ASSUME NEW t \in TaskIds, NEW s \in UsedStates, DiesInUpdateState(t, s)
        PROVE  Gone(c)
    BY <1>7 DEF DiesInUpdateState, Dies, LoseSubscribers, Gone
  <1>8. ASSUME NEW t \in TaskIds, RetryFromDLQ(t) PROVE Told(c) \/ Untold(c)
    <2>1. CASE Backend = "memory"
      BY <1>8, <2>1, NotifyTells DEF RetryFromDLQ
    <2>2. CASE Backend # "memory"
      BY <1>0, <1>8, <2>2, RetriedFromDLQType, SilentPut DEF RetryFromDLQ
    <2> QED
      BY <2>1, <2>2
  <1>9. ASSUME NEW t \in TaskIds, DiesInRetryFromDLQ(t) PROVE Gone(c)
    BY <1>9 DEF DiesInRetryFromDLQ, Dies, LoseSubscribers, Gone
  <1>10. ASSUME NEW t \in TaskIds, PurgeDLQ(t) PROVE Untold(c)
    BY <1>0, <1>10, DLQRemovedType, SilentPut DEF PurgeDLQ
  <1>11. ASSUME NEW t \in TaskIds, CliRetry(t) PROVE Untold(c)
    BY <1>11 DEF CliRetry, Untold
  <1>12. ASSUME NEW t \in TaskIds, CliDelete(t) PROVE Untold(c)
    BY <1>0, <1>12, DLQRemovedType, SilentPut DEF CliDelete
  <1>13. ASSUME PurgeAllDLQ PROVE Untold(c)
    <2>1. \A t \in TaskIds : Snapshot(rows'[t]) = Snapshot(rows[t])
      BY <1>0, <1>13, DLQRemovedType DEF PurgeAllDLQ
    <2> QED
      BY <1>0, <1>13, <2>1 DEF PurgeAllDLQ, Untold
  <1>14. ASSUME NEW d \in Subscribers, NEW t \in TaskIds, Subscribe(d, t)
         PROVE  Told(c) \/ Untold(c)
    <2>1. sub'[d] = t /\ seen'[d] = Snapshot(rows'[t])
      BY <1>14 DEF Subscribe, TypeOK
    <2>2. c # d => sub'[c] = sub[c] /\ seen'[c] = seen[c] /\ rows' = rows
      BY <1>14 DEF Subscribe, TypeOK
    <2> QED
      BY <2>1, <2>2 DEF Told, Untold
  <1>15. ASSUME NEW d \in Subscribers, Unsubscribe(d)
         PROVE  Gone(c) \/ Untold(c)
    BY <1>15 DEF Unsubscribe, TypeOK, Gone, Untold
  <1>16. ASSUME Restart PROVE Gone(c)
    BY <1>16 DEF Restart, LoseSubscribers, Gone
  <1>17. ASSUME CliRetryAll PROVE Untold(c)
    BY <1>17 DEF CliRetryAll, Untold
  <1>18. ASSUME CliPurge PROVE Untold(c)
    BY <1>10, <1>13, <1>18 DEF CliPurge
  <1>19. ASSUME CliReset PROVE Untold(c)
    <2>1. cli.half \in TaskIds
      BY <1>19 DEF CliReset, TypeOK
    <2>2. CASE Exists(rows[cli.half])
      BY <1>0, <1>19, <2>1, <2>2, RequeuedType, SilentPut DEF CliReset
    <2>3. CASE ~Exists(rows[cli.half])
      BY <1>19, <2>3 DEF CliReset, Untold
    <2> QED
      BY <2>2, <2>3
  <1>20. ASSUME CliKilled PROVE Untold(c)
    BY <1>20 DEF CliKilled, Untold
  <1> QED
    BY <1>1, <1>2, <1>3, <1>4, <1>5, <1>6, <1>7, <1>8, <1>9, <1>10, <1>11,
       <1>12, <1>13, <1>14, <1>15, <1>16, <1>17, <1>18, <1>19, <1>20 DEF Next

-----------------------------------------------------------------------------
(* Types.                                                                  *)

LEMMA RowsKeepType ==
  ASSUME TypeOK, Next, NEW t \in TaskIds
  PROVE  rows'[t] \in Row
  <1>1. rows[t] \in Row /\ Touched(t)
    BY EveryStepTouches DEF TypeOK
  <1>2. CASE Rests(t)
    BY <1>1, <1>2 DEF Rests
  <1>3. CASE Grows(t)
    BY <1>1, <1>3, MessageAppendedType, ArtifactAppendedType,
       RetryIncrementedType DEF Grows
  <1>4. CASE Refiled(t)
    BY <1>1, <1>4, MovedToDLQType, DLQRemovedType DEF Refiled
  <1>5. CASE PutBack(t)
    BY <1>1, <1>5, RetriedFromDLQType, RequeuedType DEF PutBack
  <1>6. CASE Moves(t)
    BY <1>1, <1>6, StateUpdatedType, TransitionType DEF Moves
  <1>7. CASE Replaced(t)
    BY <1>1, <1>7, CreatedType, NoRowType DEF Replaced
  <1> QED
    BY <1>1, <1>2, <1>3, <1>4, <1>5, <1>6, <1>7 DEF Touched

LEMMA SnapshotType ==
  ASSUME NEW r \in Row
  PROVE  Snapshot(r) \in Snapshots
  BY RowFields DEF Snapshot, Snapshots

LEMMA Typed == Init => TypeOK
  <1>1. NoRow \in Row /\ Snapshot(NoRow) \in Snapshots
    BY NoRowType, SnapshotType
  <1> QED
    BY <1>1 DEF Init, TypeOK, CliIdle

CliTyped == cli \in [todo : [TaskIds -> Nat], half : TaskIds \cup {NoTask}]

LEMMA CliKeepsType ==
  ASSUME TypeOK, Next
  PROVE  CliTyped'
  <1> USE DEF history, CliTyped
  <1>0. CliTyped
    BY DEF TypeOK
  <1>1. CASE UNCHANGED cli
    BY <1>0, <1>1
  <1>2. ASSUME NEW t \in TaskIds, CliRetry(t) PROVE CliTyped'
    BY <1>0, <1>2 DEF CliRetry
  <1>3. ASSUME NEW t \in TaskIds, CliDelete(t) PROVE CliTyped'
    <2>1. cli.todo[t] \in Nat /\ cli.todo[t] > 0
      BY <1>0, <1>3 DEF CliDelete
    <2>2. cli.todo[t] - 1 \in Nat
      BY <2>1
    <2>3. [cli.todo EXCEPT ![t] = cli.todo[t] - 1] \in [TaskIds -> Nat]
      BY <1>0, <2>2
    <2> QED
      BY <1>3, <2>3 DEF CliDelete
  <1>4. ASSUME CliRetryAll PROVE CliTyped'
    <2>1. \A t \in TaskIds : Len(rows[t].dlq) \in Nat
      BY RowFields DEF TypeOK
    <2> QED
      BY <1>0, <1>4, <2>1 DEF CliRetryAll
  <1>5. ASSUME CliReset PROVE CliTyped'
    BY <1>0, <1>5 DEF CliReset
  <1>6. ASSUME CliKilled PROVE CliTyped'
    BY <1>6 DEF CliKilled, CliIdle
  <1>7. \/ UNCHANGED cli
        \/ \E t \in TaskIds : CliRetry(t) \/ CliDelete(t)
        \/ CliRetryAll \/ CliReset \/ CliKilled
    BY DEF Next, Create, UpdateState, AppendMessage, AppendArtifact,
           IncrementRetryCount, MoveToDLQ, DiesInUpdateState, RetryFromDLQ,
           DiesInRetryFromDLQ, PurgeDLQ, PurgeAllDLQ, Subscribe, Unsubscribe,
           Restart, CliPurge
  <1> QED
    BY <1>1, <1>2, <1>3, <1>4, <1>5, <1>6, <1>7

LEMMA PutWhole ==
  ASSUME TypeOK, NEW t \in TaskIds, NEW r, Put(t, r)
  PROVE  rows' = [u \in TaskIds |-> rows'[u]]
  BY DEF TypeOK, Put

\* Every action writes whole tables.
LEMMA RowsWhole ==
  ASSUME TypeOK, Next
  PROVE  rows' = [u \in TaskIds |-> rows'[u]]
  <1>1. ASSUME NEW t \in TaskIds, NEW s \in UsedStates,
               UpdateState(t, s) \/ DiesInUpdateState(t, s)
        PROVE  rows' = [u \in TaskIds |-> rows'[u]]
    BY <1>1, PutWhole DEF UpdateState, DiesInUpdateState
  <1>2. ASSUME NEW t \in TaskIds, NEW k \in UsedKinds, AppendMessage(t, k)
        PROVE  rows' = [u \in TaskIds |-> rows'[u]]
    BY <1>2, PutWhole DEF AppendMessage
  <1>3. ASSUME NEW t \in TaskIds,
               \/ Create(t) \/ AppendArtifact(t) \/ IncrementRetryCount(t)
               \/ MoveToDLQ(t) \/ RetryFromDLQ(t) \/ DiesInRetryFromDLQ(t)
               \/ PurgeDLQ(t) \/ CliDelete(t)
        PROVE  rows' = [u \in TaskIds |-> rows'[u]]
    BY <1>3, PutWhole
       DEF Create, AppendArtifact, IncrementRetryCount, MoveToDLQ,
           RetryFromDLQ, DiesInRetryFromDLQ, PurgeDLQ, CliDelete
  <1>4. ASSUME PurgeAllDLQ PROVE rows' = [u \in TaskIds |-> rows'[u]]
    BY <1>4 DEF PurgeAllDLQ
  <1>5. ASSUME UNCHANGED rows PROVE rows' = [u \in TaskIds |-> rows'[u]]
    BY <1>5 DEF TypeOK
  <1>6. ASSUME Restart PROVE rows' = [u \in TaskIds |-> rows'[u]]
    BY <1>6 DEF Restart, TypeOK
  <1>7. ASSUME CliPurge PROVE rows' = [u \in TaskIds |-> rows'[u]]
    BY <1>3, <1>4, <1>7 DEF CliPurge
  <1>8. ASSUME CliReset PROVE rows' = [u \in TaskIds |-> rows'[u]]
    <2>1. cli.half \in TaskIds
      BY <1>8 DEF CliReset, TypeOK
    <2> QED
      BY <1>5, <1>8, <2>1, PutWhole DEF CliReset
  <1>9. ASSUME NEW c \in Subscribers, NEW t \in TaskIds, Subscribe(c, t)
        PROVE  UNCHANGED rows
    BY <1>9 DEF Subscribe
  <1>10. ASSUME NEW c \in Subscribers, Unsubscribe(c) PROVE UNCHANGED rows
    BY <1>10 DEF Unsubscribe
  <1>11. ASSUME CliRetryAll \/ CliKilled \/ \E t \in TaskIds : CliRetry(t)
         PROVE  UNCHANGED rows
    BY <1>11 DEF CliRetryAll, CliKilled, CliRetry
  <1> QED
    BY <1>1, <1>2, <1>3, <1>4, <1>5, <1>6, <1>7, <1>8, <1>9, <1>10, <1>11
       DEF Next

LEMMA ViewsWhole ==
  ASSUME TypeOK, Next
  PROVE  sub' = [c \in Subscribers |-> sub'[c]]
         /\ seen' = [c \in Subscribers |-> seen'[c]]
  <1> DEFINE Whole == sub' = [c \in Subscribers |-> sub'[c]]
                      /\ seen' = [c \in Subscribers |-> seen'[c]]
  <1>1. ASSUME UNCHANGED <<sub, seen>> PROVE Whole
    BY <1>1 DEF TypeOK
  <1>2. ASSUME NEW t \in TaskIds, NEW r, Notify(t, r), UNCHANGED sub PROVE Whole
    BY <1>2 DEF Notify, TypeOK
  <1>3. ASSUME LoseSubscribers PROVE Whole
    BY <1>3 DEF LoseSubscribers
  <1> HIDE DEF Whole
  <1>4. ASSUME NEW t \in TaskIds, NEW s \in UsedStates,
               UpdateState(t, s) \/ DiesInUpdateState(t, s)
        PROVE  Whole
    BY <1>2, <1>3, <1>4 DEF UpdateState, DiesInUpdateState, Dies
  <1>5. ASSUME NEW t \in TaskIds, NEW k \in UsedKinds, AppendMessage(t, k)
        PROVE  Whole
    BY <1>2, <1>5 DEF AppendMessage
  <1>6. ASSUME NEW t \in TaskIds,
               AppendArtifact(t) \/ RetryFromDLQ(t) \/ DiesInRetryFromDLQ(t)
        PROVE  Whole
    BY <1>1, <1>2, <1>3, <1>6
       DEF AppendArtifact, RetryFromDLQ, DiesInRetryFromDLQ, Dies
  <1>7. ASSUME NEW t \in TaskIds,
               \/ Create(t) \/ IncrementRetryCount(t) \/ MoveToDLQ(t)
               \/ PurgeDLQ(t) \/ CliRetry(t) \/ CliDelete(t)
        PROVE  Whole
    BY <1>1, <1>7 DEF Create, IncrementRetryCount, MoveToDLQ, PurgeDLQ,
                      CliRetry, CliDelete, history
  <1>8. ASSUME \/ PurgeAllDLQ \/ CliPurge \/ CliRetryAll \/ CliReset
               \/ CliKilled
        PROVE  Whole
    BY <1>1, <1>7, <1>8 DEF PurgeAllDLQ, CliPurge, CliRetryAll, CliReset,
                            CliKilled, history
  <1>9. ASSUME NEW c \in Subscribers, NEW t \in TaskIds, Subscribe(c, t)
        PROVE  Whole
    BY <1>9 DEF Subscribe, TypeOK, Whole
  <1>10. ASSUME NEW c \in Subscribers, Unsubscribe(c) PROVE Whole
    BY <1>10 DEF Unsubscribe, TypeOK, Whole
  <1>11. ASSUME Restart PROVE Whole
    BY <1>3, <1>11 DEF Restart
  <1>12. Whole
    BY <1>4, <1>5, <1>6, <1>7, <1>8, <1>9, <1>10, <1>11 DEF Next
  <1> QED
    BY <1>12 DEF Whole

HistoryTyped ==
  dead \in SUBSET TaskIds /\ torn \in SUBSET TaskIds /\ kills \in Nat

LEMMA HistoryKeepsType ==
  ASSUME TypeOK, Next
  PROVE  HistoryTyped'
  <1> USE DEF history, HistoryTyped
  <1>0. HistoryTyped
    BY DEF TypeOK
  <1>1. ASSUME NEW t \in TaskIds,
               \/ Create(t) \/ MoveToDLQ(t) \/ RetryFromDLQ(t) \/ PurgeDLQ(t)
        PROVE  HistoryTyped'
    BY <1>0, <1>1 DEF Create, MoveToDLQ, RetryFromDLQ, PurgeDLQ
  <1>2. ASSUME NEW t \in TaskIds, NEW s \in UsedStates, DiesInUpdateState(t, s)
        PROVE  HistoryTyped'
    <2>1. kills' = kills + 1 /\ torn' = torn \cup {t} /\ dead' = dead
      BY <1>2 DEF DiesInUpdateState, Dies
    <2> QED
      BY <1>0, <2>1
  <1>3. ASSUME NEW t \in TaskIds, DiesInRetryFromDLQ(t) PROVE HistoryTyped'
    BY <1>0, <1>3 DEF DiesInRetryFromDLQ, Dies
  <1>4. ASSUME PurgeAllDLQ \/ Restart \/ CliReset PROVE HistoryTyped'
    BY <1>0, <1>4 DEF PurgeAllDLQ, Restart, CliReset
  <1>5. ASSUME CliKilled PROVE HistoryTyped'
    BY <1>0, <1>5 DEF CliKilled
  <1>6. ASSUME CliPurge PROVE HistoryTyped'
    BY <1>1, <1>4, <1>6 DEF CliPurge
  <1>7. ASSUME UNCHANGED history PROVE HistoryTyped'
    BY <1>0, <1>7
  <1>8. ASSUME NEW t \in TaskIds, NEW s \in UsedStates, UpdateState(t, s)
        PROVE  UNCHANGED history
    BY <1>8 DEF UpdateState
  <1>9. ASSUME NEW t \in TaskIds, NEW k \in UsedKinds, AppendMessage(t, k)
        PROVE  UNCHANGED history
    BY <1>9 DEF AppendMessage
  <1>10. ASSUME NEW t \in TaskIds,
                \/ AppendArtifact(t) \/ IncrementRetryCount(t)
                \/ CliRetry(t) \/ CliDelete(t)
         PROVE  UNCHANGED history
    BY <1>10 DEF AppendArtifact, IncrementRetryCount, CliRetry, CliDelete
  <1>11. ASSUME NEW c \in Subscribers, NEW t \in TaskIds, Subscribe(c, t)
         PROVE  UNCHANGED history
    BY <1>11 DEF Subscribe
  <1>12. ASSUME NEW c \in Subscribers, Unsubscribe(c) PROVE UNCHANGED history
    BY <1>12 DEF Unsubscribe
  <1>13. ASSUME CliRetryAll PROVE UNCHANGED history
    BY <1>13 DEF CliRetryAll
  <1> HIDE DEF history, HistoryTyped
  <1> QED
    BY <1>1, <1>2, <1>3, <1>4, <1>5, <1>6, <1>7, <1>8, <1>9, <1>10, <1>11,
       <1>12, <1>13 DEF Next

LEMMA TypeStep ==
  ASSUME TypeOK, Next
  PROVE  TypeOK'
  <1>1. rows' \in [TaskIds -> Row]
    <2>1. \A t \in TaskIds : rows'[t] \in Row
      BY RowsKeepType
    <2> QED
      BY <2>1, RowsWhole
  <1>2. /\ sub' \in [Subscribers -> TaskIds \cup {NoTask}]
        /\ seen' \in [Subscribers -> Snapshots]
    <2>1. /\ \A t \in TaskIds : Snapshot(rows'[t]) \in Snapshots
          /\ Snapshot(NoRow) \in Snapshots
      BY <1>1, SnapshotType, NoRowType
    <2>2. ASSUME NEW c \in Subscribers
          PROVE  sub'[c] \in TaskIds \cup {NoTask} /\ seen'[c] \in Snapshots
      BY <2>1, EveryStepTells DEF Gone, Told, Untold, TypeOK
    <2> QED
      BY <2>2, ViewsWhole
  <1> QED
    BY <1>1, <1>2, CliKeepsType, HistoryKeepsType
       DEF CliTyped, HistoryTyped, TypeOK

(***************************************************************************)
(* Every step of the stores, the subscribers and the script, a death in    *)
(* the middle of one included, leaves well-formed rows, views and history. *)
(***************************************************************************)
THEOREM TypesHold == Spec => []TypeOK
  <1>1. TypeOK /\ [Next]_vars => TypeOK'
    <2>1. TypeOK /\ UNCHANGED vars => TypeOK'
      BY DEF vars, history, TypeOK
    <2> QED
      BY <2>1, TypeStep
  <1> QED
    BY <1>1, Typed, PTL DEF Spec
-----------------------------------------------------------------------------
(* Trails.  What a transition is recorded from is the state the row is in, *)
(* so the walk goes on only if the trail ended there before: the two       *)
(* properties need each other.  TaskMemory records nothing at all.         *)

Recorded(r) ==
  r.state \notin {"absent", "submitted"} =>
    r.trail # << >> /\ r.trail[Len(r.trail)][2] = r.state

Connected(r) ==
  \A i \in 1 .. Len(r.trail) :
    /\ r.trail[i][1] # r.trail[i][2]
    /\ r.trail[i][1] # "submitted" =>
         i > 1 /\ r.trail[i - 1][2] = r.trail[i][1]

Walk(r) ==
  /\ Connected(r)
  /\ IF Backend = "sqlite" THEN Recorded(r) ELSE r.trail = << >>

TrailInv == \A t \in TaskIds \ torn : Walk(rows[t])

\* A row with the state and the trail of another walks like it.
LEMMA SameWalk ==
  ASSUME NEW r, NEW q, Walk(r), q.trail = r.trail,
         q.state = r.state \/ q.state = "submitted"
  PROVE  Walk(q)
  BY DEF Walk, Recorded, Connected

LEMMA FreshWalk ==
  ASSUME NEW r, r.trail = << >>, r.state \in {"absent", "submitted"}
  PROVE  Walk(r)
  BY DEF Walk, Recorded, Connected

\* The trail of a row that walks may be continued from the row's state.
LEMMA TrailContinues ==
  ASSUME NEW r \in Row, Exists(r), NEW s \in States, r.state # s,
         Connected(r), Recorded(r)
  PROVE  LET q == Append(r.trail, <<r.state, s>>)
         IN  /\ q # << >> /\ q[Len(q)][2] = s
             /\ \A i \in 1 .. Len(q) :
                  /\ q[i][1] # q[i][2]
                  /\ q[i][1] # "submitted" => i > 1 /\ q[i - 1][2] = q[i][1]
  <1> DEFINE step == <<r.state, s>>
             n == Len(r.trail)
             q == Append(r.trail, step)
  <1>1. r.trail \in Seq(States \X States) /\ step \in States \X States
    BY RowFields DEF Exists
  <1>2. step[1] = r.state /\ step[2] = s
    OBVIOUS
  <1> HIDE DEF step
  <1>3. /\ n \in Nat /\ Len(q) = n + 1 /\ q # << >> /\ q[n + 1] = step
        /\ \A i \in 1 .. n : q[i] = r.trail[i]
        /\ r.trail # << >> => n > 0
    BY <1>1
  <1>4. r.state \notin {"absent", "submitted"} => n > 0 /\ r.trail[n][2] = r.state
    BY <1>3 DEF Recorded
  <1>5. r.state # "absent"
    BY DEF Exists
  <1>6. \A i \in 1 .. n : /\ r.trail[i][1] # r.trail[i][2]
                          /\ r.trail[i][1] # "submitted" =>
                               i > 1 /\ r.trail[i - 1][2] = r.trail[i][1]
    BY DEF Connected
  <1> HIDE DEF n, q
  <1>7. ASSUME NEW i \in 1 .. n
        PROVE  /\ q[i][1] # q[i][2]
               /\ q[i][1] # "submitted" => i > 1 /\ q[i - 1][2] = q[i][1]
    <2>1. i > 1 => i - 1 \in 1 .. n
      BY <1>3
    <2> QED
      BY <1>3, <1>6, <2>1
  <1>8. /\ q[n + 1][1] # q[n + 1][2]
        /\ q[n + 1][1] # "submitted" =>
             n + 1 > 1 /\ q[(n + 1) - 1][2] = q[n + 1][1]
    <2>1. (n + 1) - 1 = n /\ (n > 0 => n \in 1 .. n /\ n + 1 > 1)
      BY <1>3
    <2> QED
      BY <1>2, <1>3, <1>4, <1>5, <2>1
  <1>9. \A i \in 1 .. Len(q) : i = n + 1 \/ i \in 1 .. n
    BY <1>3
  <1>10. q[Len(q)][2] = s
    BY <1>2, <1>3
  <1> QED
    BY <1>3, <1>7, <1>8, <1>9, <1>10 DEF q, step

LEMMA StateUpdatedWalk ==
  ASSUME NEW r \in Row, Exists(r), NEW s \in States, Walk(r)
  PROVE  Walk(StateUpdated(r, s))
  <1> DEFINE q == StateUpdated(r, s)
  <1>1. q.state = s
    BY StateUpdatedType
  <1>2. CASE Backend = "sqlite" /\ r.state # s
    <2>1. q.trail = Append(r.trail, <<r.state, s>>)
      BY <1>2, StateUpdatedType
    <2>2. Connected(r) /\ Recorded(r)
      BY <1>2 DEF Walk
    <2> HIDE DEF q
    <2>3. Connected(q) /\ Recorded(q)
      BY <1>1, <1>2, <2>1, <2>2, TrailContinues DEF Connected, Recorded
    <2> QED
      BY <1>2, <2>3 DEF Walk, q
  <1>3. CASE Backend # "sqlite"
    <2>1. q.trail = r.trail
      BY <1>3, StateUpdatedType
    <2> HIDE DEF q
    <2> QED
      BY <1>3, <2>1 DEF Walk, Connected, q
  <1>4. CASE r.state = s
    <2>1. q.trail = r.trail
      BY <1>4, StateUpdatedType
    <2> QED
      BY <1>1, <1>4, <2>1, SameWalk
  <1> QED
    BY <1>2, <1>3, <1>4

LEMMA TrailStep ==
  ASSUME TypeOK, TrailInv, Next
  PROVE  TrailInv'
  <1> SUFFICES ASSUME NEW t \in TaskIds, t \notin torn' PROVE Walk(rows'[t])
    BY DEF TrailInv
  <1>1. rows[t] \in Row /\ Touched(t)
    BY EveryStepTouches DEF TypeOK
  <1>2. t \notin torn => Walk(rows[t])
    BY DEF TrailInv
  <1>3. CASE Rests(t)
    BY <1>2, <1>3 DEF Rests
  <1>4. CASE Grows(t)
    BY <1>1, <1>2, <1>4, MessageAppendedType, ArtifactAppendedType,
       RetryIncrementedType, SameWalk DEF Grows
  <1>5. CASE Refiled(t)
    BY <1>1, <1>2, <1>5, MovedToDLQType, DLQRemovedType, SameWalk DEF Refiled
  <1>6. CASE PutBack(t)
    BY <1>1, <1>2, <1>6, RetriedFromDLQType, RequeuedType, SameWalk DEF PutBack
  <1>7. CASE Moves(t)
    BY <1>1, <1>2, <1>7, StateUpdatedWalk DEF Moves
  <1>8. CASE Replaced(t)
    <2>1. NoRow.trail = << >> /\ NoRow.state = "absent"
      BY DEF NoRow
    <2> QED
      BY <1>1, <1>8, <2>1, CreatedType, FreshWalk DEF Replaced
  <1> QED
    BY <1>1, <1>3, <1>4, <1>5, <1>6, <1>7, <1>8 DEF Touched

LEMMA TrailsHold == Spec => []TrailInv
  <1>1. Init => TrailInv
    <2>1. Walk(NoRow)
      BY FreshWalk DEF NoRow
    <2> QED
      BY <2>1 DEF Init, TrailInv
  <1>2. TypeOK /\ TrailInv /\ [Next]_vars => TrailInv'
    <2>1. TrailInv /\ UNCHANGED vars => TrailInv'
      BY DEF vars, history, TrailInv
    <2> QED
      BY <2>1, TrailStep
  <1> QED
    BY <1>1, <1>2, TypesHold, PTL DEF Spec

(***************************************************************************)
(* In SQLite the trail of a task ends in the state the task is in, unless  *)
(* it was put back or a process died inside updateState.                   *)
(***************************************************************************)
THEOREM TrailsAreRecorded ==
  ASSUME Backend = "sqlite"
  PROVE  Spec => []TrailRecorded
  <1>1. TrailInv => TrailRecorded
    BY DEF TrailInv, Walk, Recorded, TrailRecorded
  <1> QED
    BY <1>1, TrailsHold, PTL

(***************************************************************************)
(* In either store the trail of a task reads as one walk.                  *)
(***************************************************************************)
THEOREM TrailsConnect == Spec => []TrailConnected
  <1>1. TrailInv => TrailConnected
    BY DEF TrailInv, Walk, Connected, TrailConnected
  <1> QED
    BY <1>1, TrailsHold, PTL

-----------------------------------------------------------------------------
(***************************************************************************)
(* In either store nobody who follows a task misses what became of it,     *)
(* unless the task went back to "submitted".                               *)
(***************************************************************************)
THEOREM FollowersKeepUp == Spec => []FollowersUpToDate
  <1>1. Init => FollowersUpToDate
    BY DEF Init, FollowersUpToDate
  <1>2. TypeOK /\ FollowersUpToDate /\ [Next]_vars => FollowersUpToDate'
    <2>1. FollowersUpToDate /\ UNCHANGED vars => FollowersUpToDate'
      BY DEF vars, history, FollowersUpToDate, Snapshot
    <2>2. ASSUME TypeOK, FollowersUpToDate, Next PROVE FollowersUpToDate'
      <3> SUFFICES ASSUME NEW c \in Subscribers, sub'[c] # NoTask
                   PROVE  \/ seen'[c] = Snapshot(rows'[sub'[c]])
                          \/ rows'[sub'[c]].state = "submitted"
        BY DEF FollowersUpToDate, Snapshot
      <3>1. Gone(c) \/ Told(c) \/ Untold(c)
        BY <2>2, EveryStepTells
      <3>2. CASE Told(c)
        BY <3>2 DEF Told
      <3>3. CASE Untold(c)
        <4>1. sub[c] # NoTask /\ sub'[c] = sub[c] /\ seen'[c] = seen[c]
          BY <3>3 DEF Untold
        <4>2. \/ seen[c] = Snapshot(rows[sub[c]])
              \/ rows[sub[c]].state = "submitted"
          BY <2>2, <4>1 DEF FollowersUpToDate
        <4>3. \/ Snapshot(rows'[sub[c]]) = Snapshot(rows[sub[c]])
              \/ rows'[sub[c]].state = "submitted"
          BY <3>3, <4>1 DEF Untold
        <4>4. Snapshot(rows'[sub[c]]) = Snapshot(rows[sub[c]])
                => rows'[sub[c]].state = rows[sub[c]].state
          BY DEF Snapshot
        <4> QED
          BY <4>1, <4>2, <4>3, <4>4
      <3> QED
        BY <3>1, <3>2, <3>3 DEF Gone
    <2> QED
      BY <2>1, <2>2
  <1> QED
    BY <1>1, <1>2, TypesHold, PTL DEF Spec
-----------------------------------------------------------------------------
(* Dead letters.                                                           *)

Filed(r) ==
  \A i \in 1 .. Len(r.dlq) : Exists(r) /\ r.dlq[i] <= r.retries

\* A write that keeps the dead letters of a row and does not lower its retries.
LEMMA SameFiled ==
  ASSUME NEW r \in Row, NEW q \in Row, Filed(r), q.dlq = r.dlq,
         q.retries = r.retries \/ q.retries = r.retries + 1,
         Exists(r) => Exists(q)
  PROVE  Filed(q)
  <1>1. \A i \in 1 .. Len(r.dlq) : r.dlq[i] \in Nat
    BY RowFields
  <1> QED
    BY <1>1, RowFields DEF Filed

LEMMA NothingFiled ==
  ASSUME NEW r, r.dlq = << >>
  PROVE  Filed(r)
  BY DEF Filed

LEMMA MovedIsFiled ==
  ASSUME NEW r \in Row, Exists(r), Filed(r), Backend = "sqlite"
  PROVE  Filed(MovedToDLQ(r))
  <1> DEFINE q == MovedToDLQ(r)
             n == Len(r.dlq)
  <1>1. /\ q.dlq = Append(r.dlq, r.retries) /\ q.retries = r.retries
        /\ Exists(q) /\ r.dlq \in Seq(Nat) /\ r.retries \in Nat
    BY MovedToDLQType, RowFields DEF Exists
  <1> HIDE DEF q
  <1>2. /\ n \in Nat /\ Len(q.dlq) = n + 1 /\ q.dlq[n + 1] = r.retries
        /\ \A i \in 1 .. n : q.dlq[i] = r.dlq[i]
    BY <1>1
  <1>3. \A i \in 1 .. n : r.dlq[i] <= r.retries
    BY DEF Filed
  <1> HIDE DEF n
  <1>4. \A i \in 1 .. Len(q.dlq) : i = n + 1 \/ i \in 1 .. n
    BY <1>2
  <1>5. Filed(q)
    BY <1>1, <1>2, <1>3, <1>4 DEF Filed
  <1> QED
    BY <1>5 DEF q

LEMMA FiledStep ==
  ASSUME Backend = "sqlite", TypeOK, DeadLettersBelongToTask, Next,
         NEW t \in TaskIds
  PROVE  Filed(rows'[t])
  <1>1. /\ rows[t] \in Row /\ rows'[t] \in Row
        /\ Touched(t) /\ Filed(rows[t])
    BY EveryStepTouches, RowsKeepType
       DEF TypeOK, DeadLettersBelongToTask, Filed
  <1>2. CASE Rests(t)
    BY <1>1, <1>2 DEF Rests
  <1>3. CASE Grows(t)
    BY <1>1, <1>3, MessageAppendedType, ArtifactAppendedType,
       RetryIncrementedType, SameFiled DEF Grows, Exists
  <1>4. CASE Refiled(t)
    BY <1>1, <1>4, MovedIsFiled, DLQRemovedType, NothingFiled DEF Refiled
  <1>5. CASE PutBack(t)
    <2>1. CASE rows'[t] = RetriedFromDLQ(rows[t])
      BY <1>1, <2>1, RetriedFromDLQType, NothingFiled
    <2>2. CASE rows'[t] = Requeued(rows[t])
      BY <1>1, <2>2, RequeuedType, SameFiled DEF Exists
    <2> QED
      BY <1>5, <2>1, <2>2 DEF PutBack
  <1>6. CASE Moves(t)
    <2>1. PICK s \in States : \/ rows'[t] = StateUpdated(rows[t], s)
                              \/ rows'[t] = TransitionRecorded(rows[t], s)
      BY <1>6 DEF Moves
    <2>2. "absent" \notin States
      BY DEF States
    <2>3. Exists(rows[t])
      BY <1>6 DEF Moves
    <2>4. /\ rows'[t].dlq = rows[t].dlq /\ rows'[t].retries = rows[t].retries
          /\ rows'[t].state = s \/ rows'[t].state = rows[t].state
      <3>1. /\ StateUpdated(rows[t], s).dlq = rows[t].dlq
            /\ StateUpdated(rows[t], s).retries = rows[t].retries
            /\ StateUpdated(rows[t], s).state = s
        BY <1>1, <2>3, StateUpdatedType
      <3>2. /\ TransitionRecorded(rows[t], s).dlq = rows[t].dlq
            /\ TransitionRecorded(rows[t], s).retries = rows[t].retries
            /\ TransitionRecorded(rows[t], s).state = rows[t].state
        BY <1>1, <2>3, TransitionType
      <3> QED
        BY <2>1, <3>1, <3>2
    <2>5. Exists(rows'[t])
      BY <2>2, <2>3, <2>4 DEF Exists
    <2> QED
      BY <1>1, <2>4, <2>5, SameFiled
  <1>7. CASE Replaced(t)
    BY <1>1, <1>7, CreatedType, NothingFiled DEF Replaced
  <1> QED
    BY <1>1, <1>2, <1>3, <1>4, <1>5, <1>6, <1>7 DEF Touched

(***************************************************************************)
(* In SQLite a dead letter is about the task as it is stored now.          *)
(***************************************************************************)
THEOREM DeadLettersHaveTasks ==
  ASSUME Backend = "sqlite"
  PROVE  Spec => []DeadLettersBelongToTask
  <1>1. Init => DeadLettersBelongToTask
    BY DEF Init, NoRow, DeadLettersBelongToTask
  <1>2. TypeOK /\ DeadLettersBelongToTask /\ [Next]_vars
          => DeadLettersBelongToTask'
    <2>1. DeadLettersBelongToTask /\ UNCHANGED vars => DeadLettersBelongToTask'
      BY DEF vars, DeadLettersBelongToTask
    <2>2. ASSUME TypeOK, DeadLettersBelongToTask, Next
          PROVE  DeadLettersBelongToTask'
      BY <2>2, FiledStep DEF Filed, DeadLettersBelongToTask
    <2> QED
      BY <2>1, <2>2
  <1> QED
    BY <1>1, <1>2, TypesHold, PTL DEF Spec

-----------------------------------------------------------------------------
(* What is lost.  A task joins the lost ones only where the death of a     *)
(* process is counted in the same step, and one at a time.                 *)

Lost == {t \in dead : rows[t].dlq = << >> /\ cli.half # t}

LossesCounted == IsFiniteSet(Lost) /\ Cardinality(Lost) <= kills

LEMMA NoneLost ==
  ASSUME TypeOK, LossesCounted, Lost' \subseteq Lost, kills' = kills
  PROVE  LossesCounted'
  <1>1. IsFiniteSet(Lost') /\ Cardinality(Lost') <= Cardinality(Lost)
    BY FS_Subset DEF LossesCounted
  <1>2. Cardinality(Lost) \in Nat /\ Cardinality(Lost') \in Nat
    BY <1>1, FS_CardinalityType DEF LossesCounted
  <1> QED
    BY <1>1, <1>2 DEF LossesCounted, TypeOK

LEMMA OneLost ==
  ASSUME TypeOK, LossesCounted, NEW t, Lost' \subseteq Lost \cup {t},
         kills' = kills + 1
  PROVE  LossesCounted'
  <1>1. /\ IsFiniteSet(Lost \cup {t})
        /\ Cardinality(Lost \cup {t}) <= Cardinality(Lost) + 1
    <2>1. Cardinality(Lost) \in Nat
      BY FS_CardinalityType DEF LossesCounted
    <2> QED
      BY <2>1, FS_AddElement DEF LossesCounted
  <1>2. /\ IsFiniteSet(Lost')
        /\ Cardinality(Lost') <= Cardinality(Lost \cup {t})
    BY <1>1, FS_Subset
  <1>3. /\ Cardinality(Lost) \in Nat /\ Cardinality(Lost') \in Nat
        /\ Cardinality(Lost \cup {t}) \in Nat
    BY <1>1, <1>2, FS_CardinalityType DEF LossesCounted
  <1> QED
    BY <1>1, <1>2, <1>3 DEF LossesCounted, TypeOK

LEMMA SameDeadLetters ==
  ASSUME TypeOK, NEW t \in TaskIds, NEW r, Put(t, r), r.dlq = rows[t].dlq
  PROVE  \A u \in TaskIds : rows'[u].dlq = rows[u].dlq
  BY PutOne

LEMMA LossStep ==
  ASSUME TypeOK, LossesCounted, Next
  PROVE  LossesCounted'
  <1> USE DEF history
  <1>0. \A t \in TaskIds : rows[t] \in Row
    BY DEF TypeOK
  <1>1. ASSUME NEW t \in TaskIds, Create(t) PROVE LossesCounted'
    <2>1. /\ \A u \in TaskIds : rows'[u] = IF u = t THEN Created(rows[t]) ELSE rows[u]
          /\ cli' = cli /\ kills' = kills
          /\ dead' \subseteq dead /\ (Backend # "memory" => t \notin dead')
      BY <1>1, PutOne, BackendAssumption DEF Create
    <2>2. Backend = "memory" => Created(rows[t]).dlq = rows[t].dlq
      BY <1>0, CreatedType
    <2> QED
      BY <2>1, <2>2, NoneLost DEF Lost, TypeOK
  <1>2. ASSUME NEW t \in TaskIds, NEW s \in UsedStates,
               UpdateState(t, s) \/ DiesInUpdateState(t, s)
        PROVE  LossesCounted'
    <2>1. Exists(rows[t]) /\ s \in States
      BY <1>2, TaskStoreAssumption DEF UpdateState, DiesInUpdateState
    <2>2. /\ StateUpdated(rows[t], s).dlq = rows[t].dlq
          /\ TransitionRecorded(rows[t], s).dlq = rows[t].dlq
      BY <1>0, <2>1, StateUpdatedType, TransitionType
    <2>3. \A u \in TaskIds : rows'[u].dlq = rows[u].dlq
      BY <1>2, <2>2, SameDeadLetters DEF UpdateState, DiesInUpdateState
    <2>4. /\ dead' = dead /\ cli' = cli
          /\ kills' = kills \/ kills' = kills + 1
      BY <1>2 DEF UpdateState, DiesInUpdateState, Dies
    <2>5. Lost' \subseteq Lost
      BY <2>3, <2>4 DEF Lost, TypeOK
    <2> QED
      BY <2>4, <2>5, NoneLost, OneLost
  <1>3. ASSUME NEW t \in TaskIds, NEW k \in UsedKinds, AppendMessage(t, k)
        PROVE  LossesCounted'
    <2>1. k \in MessageKinds
      BY TaskStoreAssumption
    <2>2. /\ \A u \in TaskIds : rows'[u].dlq = rows[u].dlq
          /\ dead' = dead /\ cli' = cli /\ kills' = kills
      <3>1. MessageAppended(rows[t], k).dlq = rows[t].dlq
        BY <1>0, <2>1, MessageAppendedType
      <3> QED
        BY <1>3, <3>1, SameDeadLetters DEF AppendMessage
    <2> QED
      BY <2>2, NoneLost DEF Lost, TypeOK
  <1>4. ASSUME NEW t \in TaskIds, AppendArtifact(t) \/ IncrementRetryCount(t)
        PROVE  LossesCounted'
    <2>1. /\ \A u \in TaskIds : rows'[u].dlq = rows[u].dlq
          /\ dead' = dead /\ cli' = cli /\ kills' = kills
      <3>1. /\ ArtifactAppended(rows[t]).dlq = rows[t].dlq
            /\ RetryIncremented(rows[t]).dlq = rows[t].dlq
        BY <1>0, ArtifactAppendedType, RetryIncrementedType
      <3> QED
        BY <1>4, <3>1, SameDeadLetters DEF AppendArtifact, IncrementRetryCount
    <2> QED
      BY <2>1, NoneLost DEF Lost, TypeOK
  <1>5. ASSUME NEW t \in TaskIds, MoveToDLQ(t) PROVE LossesCounted'
    <2>1. /\ \A u \in TaskIds : rows'[u] = IF u = t THEN MovedToDLQ(rows[t]) ELSE rows[u]
          /\ dead' = dead \cup {t} /\ cli' = cli /\ kills' = kills
      BY <1>5, PutOne DEF MoveToDLQ
    <2>2. MovedToDLQ(rows[t]).dlq # << >>
      BY <1>0, MovedToDLQType
    <2> QED
      BY <2>1, <2>2, NoneLost DEF Lost, TypeOK
  <1>6. ASSUME NEW t \in TaskIds, RetryFromDLQ(t) \/ PurgeDLQ(t)
        PROVE  LossesCounted'
    <2>1. /\ \A u \in TaskIds : u # t => rows'[u] = rows[u]
          /\ dead' = dead \ {t} /\ cli' = cli /\ kills' = kills
      BY <1>6, PutOne DEF RetryFromDLQ, PurgeDLQ
    <2> QED
      BY <2>1, NoneLost DEF Lost, TypeOK
  <1>7. ASSUME NEW t \in TaskIds, DiesInRetryFromDLQ(t) PROVE LossesCounted'
    <2>1. /\ \A u \in TaskIds : u # t => rows'[u] = rows[u]
          /\ dead' = dead /\ cli' = cli /\ kills' = kills + 1
      BY <1>7, PutOne DEF DiesInRetryFromDLQ, Dies
    <2>2. Lost' \subseteq Lost \cup {t}
      BY <2>1 DEF Lost, TypeOK
    <2> QED
      BY <2>1, <2>2, OneLost
  <1>8. ASSUME PurgeAllDLQ PROVE LossesCounted'
    <2>1. Lost' \subseteq Lost
      BY <1>8 DEF PurgeAllDLQ, Lost, TypeOK
    <2> QED
      BY <1>8, <2>1, NoneLost DEF PurgeAllDLQ
  <1>9. ASSUME NEW t \in TaskIds, CliDelete(t) PROVE LossesCounted'
    <2>1. /\ \A u \in TaskIds : u # t => rows'[u] = rows[u]
          /\ dead' = dead /\ cli.half = NoTask /\ cli'.half = t /\ kills' = kills
      BY <1>9, PutOne DEF CliDelete
    <2>2. NoTask \notin TaskIds
      BY TaskStoreAssumption
    <2> QED
      BY <2>1, <2>2, NoneLost DEF Lost, TypeOK
  <1>10. ASSUME CliReset PROVE LossesCounted'
    <2>1. cli.half \in TaskIds /\ cli'.half = NoTask
      BY <1>10 DEF CliReset, TypeOK
    <2>2. /\ \A u \in TaskIds : rows'[u].dlq = rows[u].dlq
          /\ dead' = dead \ {cli.half} /\ kills' = kills
      BY <1>0, <1>10, <2>1, PutOne, RequeuedType DEF CliReset
    <2> QED
      BY <2>1, <2>2, NoneLost DEF Lost, TypeOK
  <1>11. ASSUME CliKilled PROVE LossesCounted'
    <2>1. /\ rows' = rows /\ dead' = dead /\ kills' = kills + 1
          /\ cli'.half = NoTask
      BY <1>11 DEF CliKilled, CliIdle
    <2>2. Lost' \subseteq Lost \cup {cli.half}
      BY <2>1 DEF Lost
    <2> QED
      BY <2>1, <2>2, OneLost
  <1>12. ASSUME Restart PROVE LossesCounted'
    <2>1. Lost' \subseteq Lost /\ kills' = kills
      BY <1>12 DEF Restart, Lost
    <2> QED
      BY <2>1, NoneLost
  <1>13. ASSUME CliPurge PROVE LossesCounted'
    BY <1>6, <1>8, <1>13 DEF CliPurge
  <1>14. ASSUME \/ CliRetryAll
                \/ \E t \in TaskIds : CliRetry(t)
                \/ \E c \in Subscribers :
                     Unsubscribe(c) \/ \E t \in TaskIds : Subscribe(c, t)
         PROVE  LossesCounted'
    <2>1. UNCHANGED <<rows, dead, kills>> /\ cli'.half = cli.half
      BY <1>14 DEF CliRetryAll, CliRetry, Subscribe, Unsubscribe, TypeOK
    <2> QED
      BY <2>1, NoneLost DEF Lost
  <1> QED
    BY <1>1, <1>2, <1>3, <1>4, <1>5, <1>6, <1>7, <1>8, <1>9, <1>10, <1>11,
       <1>12, <1>13, <1>14 DEF Next

(***************************************************************************)
(* Whatever the store and the script do at once, every dead letter that    *)
(* vanished without being purged or put back is one death of a process.    *)
(***************************************************************************)
THEOREM LossesAreDeaths == Spec => []DeadLettersLostOnlyByDying
  <1>1. Init => LossesCounted
    <2>1. Init => Lost = {} /\ kills = 0
      BY DEF Init, Lost
    <2> QED
      BY <2>1, FS_EmptySet DEF LossesCounted
  <1>2. TypeOK /\ LossesCounted /\ [Next]_vars => LossesCounted'
    <2>1. LossesCounted /\ UNCHANGED vars => LossesCounted'
      BY DEF vars, history, LossesCounted, Lost
    <2> QED
      BY <2>1, LossStep
  <1>3. LossesCounted => DeadLettersLostOnlyByDying
    BY DEF LossesCounted, Lost, DeadLettersLostOnlyByDying
  <1> QED
    BY <1>1, <1>2, <1>3, TypesHold, PTL DEF Spec
=============================================================================

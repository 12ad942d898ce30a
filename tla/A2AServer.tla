----------------------------- MODULE A2AServer -----------------------------
(***************************************************************************)
(* The request handlers of A2AServer that run tasks, their cancellation,   *)
(* the streams that follow a task in the store, and the graceful shutdown  *)
(* that waits for them.  A server with a task store is modelled.           *)
(*                                                                         *)
(* Authentication, payment, rate limiting and the wire format are left     *)
(* out: "arrived" is a request somewhere before the handler's core.        *)
(***************************************************************************)
EXTENDS Integers, FiniteSets

CONSTANTS Requests,     \* HTTP requests
          TaskIds,      \* task ids the requests name
          Callers,      \* calls of shutdown()
          NoRequest,
          NoTask,       \* of a request that was not read yet
          StoreStates   \* the states the agent behind the server writes

\* V1_FINAL_STATES
FinalStates == {"completed", "failed", "canceled", "rejected", "auth-required"}

\* Only CancelTask writes "canceled".
ASSUME A2AServerAssumption ==
  /\ IsFiniteSet(Requests)
  /\ NoRequest \notin Requests /\ NoTask \notin TaskIds
  /\ {"absent", "canceled"} \cap StoreStates = {}

VARIABLES req,             \* the requests
          controllers,     \* taskAbortControllers: whose controller a task has
          store,           \* the state of each task in the task store
          inflightSync,
          inflightStream,
          shuttingDown,
          listening,       \* Bun.serve is running
          call,            \* the calls of shutdown()
          stopped          \* history: stop() was called

vars == <<req, controllers, store, inflightSync, inflightStream,
          shuttingDown, listening, call, stopped>>

server == <<inflightSync, inflightStream, shuttingDown, listening, call,
            stopped>>

(***************************************************************************)
(* running: the handler of a sync, push or stream request has not settled; *)
(* open: the subscription follows its task; ended: the reply or the last   *)
(* frame is out; refused: an error reply without any work; broken: the     *)
(* handler threw after it was counted.  finals: final frames sent.         *)
(***************************************************************************)
Kinds  == {"none", "sync", "push", "stream", "subscribe"}
Phases == {"unused", "arrived", "running", "open", "ended", "refused", "broken"}

Request == [kind : Kinds, task : TaskIds \cup {NoTask}, phase : Phases,
            finals : 0 .. 2, aborted : BOOLEAN]

\* draining: awaits the timed waiter; queued: awaits an untimed one; woken:
\* the waiter was resolved, or its timer fired (late).
CallPhases == {"idle", "draining", "queued", "woken", "returned"}
Call == [phase : CallPhases, first : BOOLEAN, late : BOOLEAN]

TypeOK ==
  /\ req \in [Requests -> Request]
  /\ controllers \in [TaskIds -> Requests \cup {NoRequest}]
  /\ store \in [TaskIds -> StoreStates \cup {"absent", "canceled"}]
  /\ inflightSync \in Int /\ inflightStream \in Int
  /\ {shuttingDown, listening, stopped} \subseteq BOOLEAN
  /\ call \in [Callers -> Call]

Init ==
  /\ req = [r \in Requests |-> [kind |-> "none", task |-> NoTask, finals |-> 0,
                                phase |-> "unused", aborted |-> FALSE]]
  /\ controllers = [t \in TaskIds |-> NoRequest]
  /\ store = [t \in TaskIds |-> "absent"]
  /\ inflightSync = 0 /\ inflightStream = 0
  /\ shuttingDown = FALSE /\ listening = TRUE /\ stopped = FALSE
  /\ call = [c \in Callers |-> [phase |-> "idle", first |-> FALSE, late |-> FALSE]]

-----------------------------------------------------------------------------
(* Counting.                                                               *)

Drained(sync, stream) == sync <= 0 /\ stream <= 0

\* _resolveDrainWaiters, after the counters have become these.
ResolveDrainWaiters(sync, stream) ==
  call' = [c \in Callers |->
             IF Drained(sync, stream) /\ call[c].phase \in {"draining", "queued"}
             THEN [call[c] EXCEPT !.phase = "woken"] ELSE call[c]]

\* Fault: nobody looks whether a shutdown waits for this.
UncountSilently(m, n) ==
  /\ inflightSync' = inflightSync - m
  /\ inflightStream' = inflightStream - n
  /\ UNCHANGED <<shuttingDown, listening, call, stopped>>

\* The finally of a counted handler: n streams and m blocking requests less.
Uncount(m, n) ==
  /\ inflightSync' = inflightSync - m
  /\ inflightStream' = inflightStream - n
  /\ ResolveDrainWaiters(inflightSync - m, inflightStream - n)
  /\ UNCHANGED <<shuttingDown, listening, stopped>>

Count(m, n) ==
  /\ inflightSync' = inflightSync + m
  /\ inflightStream' = inflightStream + n
  /\ UNCHANGED <<shuttingDown, listening, call, stopped>>

Becomes(r, k, t, p) ==
  req' = [req EXCEPT ![r] = [@ EXCEPT !.kind = k, !.task = t, !.phase = p]]

-----------------------------------------------------------------------------
(* Requests.                                                               *)

Arrive(r) ==
  /\ listening
  /\ req[r].phase = "unused"
  /\ req' = [req EXCEPT ![r].phase = "arrived"]
  /\ UNCHANGED <<controllers, store, server>>

\* Fault: a controller is made for streams only.
SendMessageUncontrolled(r, t) ==
  /\ req[r].phase = "arrived"
  /\ IF shuttingDown
     THEN /\ Becomes(r, "sync", t, "refused")
          /\ UNCHANGED <<controllers, store, server>>
     ELSE /\ Becomes(r, "sync", t, "running")
          /\ Count(1, 0)
          /\ UNCHANGED <<controllers, store>>

\* Fault: the shutdown flag is not looked at.
SendMessageUnguarded(r, t) ==
  /\ req[r].phase = "arrived"
  /\ Becomes(r, "sync", t, "running")
  /\ controllers' = [controllers EXCEPT ![t] = r]
  /\ Count(1, 0)
  /\ UNCHANGED store

\* SendMessage without a callback URL blocks until the handler settles.
SendMessage(r, t) ==
  /\ req[r].phase = "arrived"
  /\ IF shuttingDown
     THEN /\ Becomes(r, "sync", t, "refused")
          /\ UNCHANGED <<controllers, store, server>>
     ELSE /\ Becomes(r, "sync", t, "running")
          /\ controllers' = [controllers EXCEPT ![t] = r]
          /\ Count(1, 0)
          /\ UNCHANGED store

\* With a callback URL the task is started and the reply is immediate; such
\* a task is neither counted nor refused during a shutdown.
SendPushMessage(r, t) ==
  /\ req[r].phase = "arrived"
  /\ Becomes(r, "push", t, "running")
  /\ controllers' = [controllers EXCEPT ![t] = r]
  /\ UNCHANGED <<store, server>>

\* A stream refused during a shutdown has replaced, and then removes, the
\* controller of its task; it was counted for a moment.
StreamSend(r, t) ==
  /\ req[r].phase = "arrived"
  /\ IF shuttingDown
     THEN /\ Becomes(r, "stream", t, "refused")
          /\ controllers' = [controllers EXCEPT ![t] = NoRequest]
          /\ Uncount(0, 0)
     ELSE /\ Becomes(r, "stream", t, "running")
          /\ controllers' = [controllers EXCEPT ![t] = r]
          /\ Count(0, 1)
  /\ UNCHANGED store

\* The store calls back while subscribe still runs.  If the task has ended,
\* the callback throws (its unsubscribe is not initialised yet): the request
\* fails, still counted, with the callback left in the store.
StreamSubscribe(r, t) ==
  /\ req[r].phase = "arrived"
  /\ IF store[t] = "absent"
     THEN Becomes(r, "subscribe", t, "refused") /\ UNCHANGED server
     ELSE IF shuttingDown
     THEN Becomes(r, "subscribe", t, "refused") /\ Uncount(0, 0)
     ELSE IF store[t] \in FinalStates
     THEN Becomes(r, "subscribe", t, "broken") /\ Count(0, 1)
     ELSE Becomes(r, "subscribe", t, "open") /\ Count(0, 1)
  /\ UNCHANGED <<controllers, store>>

-----------------------------------------------------------------------------
(* Handlers.                                                               *)

Running(r, k) == req[r].kind = k /\ req[r].phase = "running"

\* Fault: the count goes down on the way to a reply only.
HandlerSettlesUncounted(r, throws) ==
  /\ Running(r, "sync")
  /\ req' = [req EXCEPT ![r].phase = "ended"]
  /\ IF throws THEN UNCHANGED <<controllers, server>>
     ELSE /\ controllers' = [controllers EXCEPT ![req[r].task] = NoRequest]
          /\ Uncount(1, 0)
  /\ UNCHANGED store

\* A blocking request that throws leaves its controller behind.
HandlerSettles(r, throws) ==
  /\ Running(r, "sync")
  /\ req' = [req EXCEPT ![r].phase = "ended"]
  /\ controllers' = IF throws THEN controllers
                    ELSE [controllers EXCEPT ![req[r].task] = NoRequest]
  /\ Uncount(1, 0)
  /\ UNCHANGED store

PushHandlerSettles(r) ==
  /\ Running(r, "push")
  /\ req' = [req EXCEPT ![r].phase = "ended"]
  /\ controllers' = [controllers EXCEPT ![req[r].task] = NoRequest]
  /\ UNCHANGED <<store, server>>

\* The streaming handler reports a final state; it may go on after that, and
\* report another.
StreamEvent(r) ==
  /\ Running(r, "stream")
  /\ req[r].finals = 0
  /\ req' = [req EXCEPT ![r].finals = 1]
  /\ UNCHANGED <<controllers, store, server>>

\* Fault: the stream is closed as the handler left it.
StreamHandlerSettlesBare(r, throws) ==
  /\ Running(r, "stream")
  /\ req' = [req EXCEPT ![r].phase = "ended",
                        ![r].finals = IF throws THEN @ + 1 ELSE @]
  /\ controllers' = [controllers EXCEPT ![req[r].task] = NoRequest]
  /\ Uncount(0, 1)
  /\ UNCHANGED store

\* A handler that returns without a final frame gets one; one that throws
\* gets "failed" whatever it has sent.
StreamHandlerSettles(r, throws) ==
  /\ Running(r, "stream")
  /\ req' = [req EXCEPT ![r].phase = "ended",
                        ![r].finals = IF throws \/ @ = 0 THEN @ + 1 ELSE @]
  /\ controllers' = [controllers EXCEPT ![req[r].task] = NoRequest]
  /\ Uncount(0, 1)
  /\ UNCHANGED store

-----------------------------------------------------------------------------
(* The task store and CancelTask.                                          *)

Followers(t) == {r \in Requests : /\ req[r].kind = "subscribe"
                                  /\ req[r].phase = "open"
                                  /\ req[r].task = t}

\* updateState: followers get a frame, and a final state ends their streams.
\* The counters go down one stream at a time, before anything else runs.
StoreUpdate(t, s, reqs) ==
  /\ store' = [store EXCEPT ![t] = s]
  /\ IF s \in FinalStates /\ Followers(t) # {}
     THEN /\ req' = [r \in Requests |->
               IF r \in Followers(t)
               THEN [reqs[r] EXCEPT !.phase = "ended", !.finals = 1]
               ELSE reqs[r]]
          /\ Uncount(0, Cardinality(Followers(t)))
     ELSE req' = reqs /\ UNCHANGED server

\* The agent behind the server creates and updates tasks.
StoreWrite(t, s) ==
  /\ StoreUpdate(t, s, req)
  /\ UNCHANGED controllers

Aborted(t) == [r \in Requests |-> IF controllers[t] = r
                                  THEN [req[r] EXCEPT !.aborted = TRUE]
                                  ELSE req[r]]

\* The abort comes first, whatever the store answers.
CancelTask(t) ==
  /\ IF store[t] = "absent" \/ store[t] \in FinalStates
     THEN req' = Aborted(t) /\ UNCHANGED <<store, server>>
     ELSE StoreUpdate(t, "canceled", Aborted(t))
  /\ UNCHANGED controllers

-----------------------------------------------------------------------------
(* Shutdown.                                                               *)

Shutdown(c) ==
  /\ call[c].phase = "idle"
  /\ shuttingDown' = TRUE
  /\ call' = [call EXCEPT ![c] =
       [phase |-> IF Drained(inflightSync, inflightStream) THEN "woken"
                  ELSE IF shuttingDown THEN "queued" ELSE "draining",
        first |-> ~shuttingDown, late |-> FALSE]]
  /\ UNCHANGED <<req, controllers, store, inflightSync, inflightStream,
                 listening, stopped>>

\* After drainTimeoutMs, only for the call that began the shutdown.
DrainTimeout(c) ==
  /\ call[c].phase = "draining"
  /\ call' = [call EXCEPT ![c].phase = "woken", ![c].late = TRUE]
  /\ UNCHANGED <<req, controllers, store, inflightSync, inflightStream,
                 shuttingDown, listening, stopped>>

\* The continuation of the call that began it stops the server.
ShutdownReturns(c) ==
  /\ call[c].phase = "woken"
  /\ call' = [call EXCEPT ![c].phase = "returned"]
  /\ listening' = (listening /\ ~call[c].first)
  /\ UNCHANGED <<req, controllers, store, inflightSync, inflightStream,
                 shuttingDown, stopped>>

\* stop() wakes nobody, and handlers it forgot still count down later.
Stop ==
  /\ ~stopped
  /\ stopped' = TRUE
  /\ shuttingDown' = TRUE /\ listening' = FALSE
  /\ inflightSync' = 0 /\ inflightStream' = 0
  /\ UNCHANGED <<req, controllers, store, call>>

-----------------------------------------------------------------------------
Handle(r) ==
  \/ \E throws \in BOOLEAN : HandlerSettles(r, throws)
  \/ PushHandlerSettles(r)
  \/ StreamEvent(r)
  \/ \E throws \in BOOLEAN : StreamHandlerSettles(r, throws)

Next ==
  \/ \E r \in Requests :
       \/ Arrive(r)
       \/ \E t \in TaskIds :
            \/ SendMessage(r, t)
            \/ SendPushMessage(r, t)
            \/ StreamSend(r, t)
            \/ StreamSubscribe(r, t)
       \/ Handle(r)
  \/ \E t \in TaskIds :
       \/ \E s \in StoreStates : StoreWrite(t, s)
       \/ CancelTask(t)
  \/ \E c \in Callers :
       \/ Shutdown(c)
       \/ DrainTimeout(c)
       \/ ShutdownReturns(c)
  \/ Stop

Spec == Init /\ [][Next]_vars

-----------------------------------------------------------------------------
(* Properties.                                                             *)

Counted(k, p) == {r \in Requests : req[r].kind = k /\ req[r].phase \in p}

(***************************************************************************)
(* Until stop() resets them, the counters count what they are named for:   *)
(* blocking requests at work, and streams that are open, plus the          *)
(* subscriptions that broke after they were counted.                       *)
(***************************************************************************)
CountersMatch ==
  ~stopped =>
    /\ inflightSync = Cardinality(Counted("sync", {"running"}))
    /\ inflightStream = Cardinality(Counted("stream", {"running"}))
                        + Cardinality(Counted("subscribe", {"open", "broken"}))

(***************************************************************************)
(* A shutdown that returned without its timeout has let every blocking     *)
(* request and every stream finish, and none has been admitted since.      *)
(* (Push tasks are not waited for.)                                        *)
(***************************************************************************)
DrainedShutdownLeavesNobody ==
  \A c \in Callers :
    call[c].phase = "returned" /\ ~call[c].late /\ ~stopped =>
      Counted("sync", {"running"}) \cup Counted("stream", {"running"})
        \cup Counted("subscribe", {"open"}) = {}

(***************************************************************************)
(* No wake-up is lost: whoever waits for the drain waits for some counted  *)
(* request, unless stop() has thrown the counts away.                      *)
(***************************************************************************)
WaiterHasSomethingToWaitFor ==
  \A c \in Callers :
    call[c].phase \in {"draining", "queued"} /\ ~stopped =>
      inflightSync > 0 \/ inflightStream > 0

\* No other request that registers a controller has named the task of r.
NamedOnce(r) ==
  \A q \in Requests \ {r} :
    req[q].task = req[r].task => req[q].kind = "subscribe"

(***************************************************************************)
(* CancelTask does not only mark the task: when a task becomes "canceled", *)
(* the handler at work on it is told, if one request ran it and no other   *)
(* ever named it (a second one takes over its controller, or removes it).  *)
(***************************************************************************)
CancelReachesHandler ==
  [][\A r \in Requests :
       /\ req[r].phase = "running" /\ NamedOnce(r)
       /\ store[req[r].task] # "canceled" /\ store'[req[r].task] = "canceled"
       => req'[r].aborted]_vars

(***************************************************************************)
(* Streams tell the end of their task: one that is over carried a final    *)
(* frame, and none stays open on a task that has ended, whoever ended it,  *)
(* the agent or CancelTask (a2a-server.ts:1744, 1939).                     *)
(***************************************************************************)
StreamsTellTheEnd ==
  /\ \A r \in Requests :
       req[r].kind \in {"stream", "subscribe"} /\ req[r].phase = "ended" =>
         req[r].finals > 0
  /\ \A r \in Counted("subscribe", {"open"}) :
       store[req[r].task] \notin FinalStates

(***************************************************************************)
(* "the stream ends when a final state arrives" (a2a-server.ts:1939): no   *)
(* subscription stays counted once its task has ended.                     *)
(***************************************************************************)
SubscriptionEndsAtFinal ==
  \A r \in Requests :
    req[r].kind = "subscribe" /\ store[req[r].task] \in FinalStates =>
      req[r].phase \in {"ended", "refused"}
=============================================================================

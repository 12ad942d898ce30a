----------------------------- MODULE StdioBridge -----------------------------
(***************************************************************************)
(* The bridge between an editor on stdin and the orchestrator:             *)
(* src/adapters/http/stdio-bridge.ts.  Every line is handled as it         *)
(* arrives, without waiting for the one before; only the request to the    *)
(* orchestrator is awaited, and all of them share currentSessionId.        *)
(***************************************************************************)
EXTENDS Integers, Sequences

CONSTANTS Lines,      \* requests of the editor
          Sessions,   \* ids of sessions
          NoSession

VARIABLES line,       \* [phase, named, filed] of each request
          session,    \* the histories of the sessions there are
          current,    \* currentSessionId
          toolCall,   \* the updates the editor got about each request's diff
          deleted     \* sessions that were deleted

bridgeVars == <<line, session, current, toolCall, deleted>>

BridgeInit ==
  /\ line = [l \in Lines |->
              [phase |-> "idle", named |-> NoSession, filed |-> NoSession]]
  /\ session = << >> /\ current = NoSession /\ deleted = {}
  /\ toolCall = [l \in Lines |-> << >>]

Open(s) == s \in DOMAIN session
Or(s, default) == IF s # NoSession THEN s ELSE default

Entry(role, l) == [role |-> role, of |-> l]

\* recordMessage, for an id that is known.
Record(sessions, s, entry) ==
  LET h == IF s \in DOMAIN sessions THEN sessions[s] ELSE << >>
  IN [t \in DOMAIN sessions \cup {s} |->
        IF t = s THEN Append(h, entry) ELSE sessions[t]]

\* The session an exchange goes to: the one its request names, else the
\* current one, else a new one.
GoesTo(named) ==
  IF Or(named, current) # NoSession THEN {Or(named, current)}
  ELSE Sessions \ (DOMAIN session \cup deleted)

-----------------------------------------------------------------------------
(* Messages. *)

\* Fault: the user's entry is recorded before the orchestrator has answered.
MessageRecordedEarly(l, s) ==
  /\ line[l].phase = "idle"
  /\ line' = [line EXCEPT ![l].phase = "sent", ![l].named = s]
  /\ \E t \in GoesTo(s) : /\ session' = Record(session, t, Entry("user", l))
                          /\ current' = t
  /\ UNCHANGED <<toolCall, deleted>>

\* A message with a text is sent on to the orchestrator.
Message(l, s) ==
  /\ line[l].phase = "idle"
  /\ line' = [line EXCEPT ![l].phase = "sent", ![l].named = s]
  /\ UNCHANGED <<session, current, toolCall, deleted>>

\* A message without content or text, an unknown method, no JSON.
BadLine(l) ==
  /\ line[l].phase = "idle"
  /\ line' = [line EXCEPT ![l].phase = "refused"]
  /\ UNCHANGED <<session, current, toolCall, deleted>>

Responses(l, s) ==
  LET asked == Record(session, s, Entry("user", l))
  IN Record(asked, s, Entry("agent", l))

\* The orchestrator answers: both sides of the exchange are recorded, the
\* session they are in becomes the current one and is named to the editor.
MessageAnswered(l) ==
  /\ line[l].phase = "sent"
  /\ \E s \in GoesTo(line[l].named) :
       /\ session' = Responses(l, s)
       /\ current' = s
       /\ line' = [line EXCEPT ![l].phase = "answered", ![l].filed = s]
       /\ deleted' = deleted \ {s}
  /\ UNCHANGED toolCall

\* It cannot be reached, or answers with an error.
MessageFails(l) ==
  /\ line[l].phase = "sent"
  /\ line' = [line EXCEPT ![l].phase = "refused"]
  /\ UNCHANGED <<session, current, toolCall, deleted>>

-----------------------------------------------------------------------------
(* Sessions. *)

SessionDelete(s) ==
  /\ Open(s)
  /\ session' = [t \in DOMAIN session \ {s} |-> session[t]]
  /\ deleted' = deleted \cup {s}
  /\ current' = IF current = s THEN NoSession ELSE current
  /\ UNCHANGED <<line, toolCall>>

SessionResume(s) ==
  /\ Open(s) /\ current' = s
  /\ UNCHANGED <<line, session, toolCall, deleted>>

-----------------------------------------------------------------------------
(* Diffs: the editor is told that the tool call started and how it ended.  *)

Told(l, updates) == toolCall' = [toolCall EXCEPT ![l] = @ \o updates]

\* A replacement in a file is done at once; if the file cannot be read or
\* written the handler throws, and the editor hears no more.
DiffApplied(l) ==
  /\ line[l].phase = "idle"
  /\ \E end \in {<<"completed">>, <<"failed">>, << >>} :
       /\ Told(l, <<"started">> \o end)
       /\ line' = [line EXCEPT ![l].phase =
                     IF end = << >> THEN "unanswered" ELSE "answered"]
  /\ UNCHANGED <<session, current, deleted>>

\* A unified diff is left to the orchestrator.
DiffForwarded(l) ==
  /\ line[l].phase = "idle"
  /\ Told(l, <<"started">>)
  /\ line' = [line EXCEPT ![l].phase = "forwarded"]
  /\ UNCHANGED <<session, current, deleted>>

\* It counts as completed as soon as there is an answer, an error included; an
\* answer that is no object is reported as failed after that.
DiffAnswered(l) ==
  /\ line[l].phase = "forwarded"
  /\ \E end \in {<<"completed">>, <<"failed">>, <<"completed", "failed">>} :
       Told(l, end)
  /\ line' = [line EXCEPT ![l].phase = "answered"]
  /\ UNCHANGED <<session, current, deleted>>

BridgeNext ==
  \/ \E l \in Lines :
       \/ \E s \in Sessions \cup {NoSession} : Message(l, s)
       \/ BadLine(l) \/ MessageAnswered(l) \/ MessageFails(l)
       \/ DiffApplied(l) \/ DiffForwarded(l) \/ DiffAnswered(l)
  \/ \E s \in Sessions : SessionDelete(s) \/ SessionResume(s)

-----------------------------------------------------------------------------
(* Properties. *)

(***************************************************************************)
(* A session's history is a series of whole exchanges, each message        *)
(* followed by its own answer, however the requests of the editor overlap; *)
(* and an answered message is in the session its answer named, and in no   *)
(* other, until that one is deleted (stdio-bridge.ts:256).                 *)
(***************************************************************************)
SessionsHoldExchanges ==
  /\ \A s \in DOMAIN session : LET h == session[s] IN
       \A i \in DOMAIN h :
         IF i % 2 = 1
         THEN h[i].role = "user" /\ i + 1 \in DOMAIN h
         ELSE h[i] = Entry("agent", h[i - 1].of)
  /\ \A s \in DOMAIN session : \A i \in DOMAIN session[s] :
       line[session[s][i].of].filed = s
==============================================================================

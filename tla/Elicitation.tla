----------------------------- MODULE Elicitation -----------------------------
(***************************************************************************)
(* Tool calls of an agent to its MCP tool server                           *)
(* (src/adapters/mcp/mcp-client.ts), during which the server may ask the   *)
(* user something, and the ports the question can be put through           *)
(* (src/ports/elicitation-port.ts): none, the terminal, a Hermes board.    *)
(*                                                                         *)
(* One tool call asks at most one question.  A question of mode "url" has  *)
(* an id of its own, one of mode "form" has none and is kept under "".     *)
(***************************************************************************)
EXTENDS Integers

CONSTANTS ToolCalls, NoCall

ASSUME ElicitationAssumption == "no id" \notin ToolCalls

Ports == {"null", "readline", "hermes"}
Decisions == {"accept", "decline", "cancel"}
Modes == {"form", "url"}

VARIABLES client,    \* McpClientAdapter.client
          tool,      \* where each tool call is
          port,      \* elicitationPort
          question,  \* each call's question and its decision
          timer,     \* the questions whose timeout is armed
          prompt,    \* whose question the readline interface shows
          asking,    \* activePromise is set
          pending,   \* pendingRequests
          reply,     \* what the user said to each question
          decider      \* no state of the code: whose answer decided a question

clientVars == <<client, tool>>
elicitationVars == <<client, tool, port, question, timer, prompt, asking,
                     pending, reply, decider>>

NoQuestion == [via |-> "null", mode |-> "form", is |-> "none"]

ElicitationInit ==
  /\ client = "none"
  /\ tool = [c \in ToolCalls |-> "idle"]
  /\ port \in Ports
  /\ question = [c \in ToolCalls |-> NoQuestion]
  /\ timer = {} /\ prompt = NoCall /\ asking = FALSE
  /\ pending = << >>
  /\ reply = [c \in ToolCalls |-> "none"]
  /\ decider = [c \in ToolCalls |-> NoCall]

portVars == <<port, question, timer, prompt, asking, pending, reply, decider>>

-----------------------------------------------------------------------------
(* The client.  It is set before its connection stands; a call that finds  *)
(* it set goes on.                                                         *)

CallTool(c) ==
  /\ tool[c] = "idle"
  /\ IF client = "none"
     THEN client' = "connecting" /\ tool' = [tool EXCEPT ![c] = "connecting"]
     ELSE UNCHANGED client /\ tool' = [tool EXCEPT ![c] = "called"]
  /\ UNCHANGED portVars

\* Only now will the end of the transport be noticed.
Connected(c) ==
  /\ tool[c] = "connecting" /\ client' = "ready"
  /\ tool' = [tool EXCEPT ![c] = "called"]
  /\ UNCHANGED portVars

\* The client stays, without a connection; the call throws.
ConnectFails(c) ==
  /\ tool[c] = "connecting" /\ client' = "dead"
  /\ tool' = [tool EXCEPT ![c] = "over"]
  /\ UNCHANGED portVars

TransportCloses ==
  /\ client = "ready" /\ client' = "none"
  /\ UNCHANGED <<tool, portVars>>

\* The server answers, unless it waits for a decision; or the call fails: the
\* connection is not there, or the time for an answer is over.
CallEnds(c) ==
  /\ tool[c] = "called"
  /\ tool' = [tool EXCEPT ![c] = "over"]
  /\ UNCHANGED <<client, portVars>>

SetElicitationPort(p) ==
  /\ port' = p
  /\ UNCHANGED <<clientVars, question, timer, prompt, asking, pending, reply,
                 decider>>

-----------------------------------------------------------------------------
(* The ports. *)

\* Fault: the id a question came with is not used.
KeyOfForm(c, mode) == "no id"

Key(c, mode) == IF mode = "url" THEN c ELSE "no id"

Put(c, mode, d) ==
  question' = [question EXCEPT ![c] = [via |-> port, mode |-> mode, is |-> d]]

\* A question that is open gets decision d; one that is settled keeps its own.
Decided(c, d) ==
  IF question[c].is = "open" THEN [question EXCEPT ![c].is = d] ELSE question

Asks(c) == tool[c] = "called" /\ client = "ready" /\ question[c].is = "none"

\* No port, a terminal that is asking already, no Hermes.
ElicitDeclined(c, mode) ==
  /\ Asks(c)
  /\ \/ port = "null"
     \/ port = "readline" /\ asking
     \/ port = "hermes"
  /\ Put(c, mode, "decline")
  /\ UNCHANGED <<clientVars, port, timer, prompt, asking, pending, reply,
                 decider>>

\* The user is prompted; if that fails the question is declined, but the port
\* counts as asking until the timeout.
ElicitReadline(c, mode) ==
  /\ Asks(c) /\ port = "readline" /\ ~asking
  /\ \/ Put(c, mode, "open") /\ prompt' = c
     \/ Put(c, mode, "decline") /\ UNCHANGED prompt
  /\ asking' = TRUE /\ timer' = timer \cup {c}
  /\ UNCHANGED <<clientVars, port, pending, reply, decider>>

\* promptUser's line and close events: they end the prompt and the timeout and
\* resolve activePromise, which nobody awaits.
UserTypes(d) ==
  /\ prompt # NoCall
  /\ reply' = [reply EXCEPT ![prompt] = d]
  /\ timer' = timer \ {prompt} /\ prompt' = NoCall /\ asking' = FALSE
  /\ UNCHANGED <<clientVars, port, question, pending, decider>>

\* pendingRequests.set.
Filed(key, c) ==
  [k \in DOMAIN pending \cup {key} |-> IF k = key THEN c ELSE pending[k]]

\* The question is posted; if that fails it is declined, and its entry stays.
ElicitHermes(c, mode) ==
  /\ Asks(c) /\ port = "hermes"
  /\ Put(c, mode, "open") \/ Put(c, mode, "decline")
  /\ pending' = Filed(Key(c, mode), c)
  /\ timer' = timer \cup {c}
  /\ UNCHANGED <<clientVars, port, prompt, asking, reply, decider>>

\* The user answers the question of c on the board: resolveRequest, for
\* whoever is kept under its id now.
ResolveRequest(c, d) ==
  LET key == Key(c, question[c].mode) IN
  /\ question[c].via = "hermes" /\ question[c].is # "none"
  /\ reply[c] = "none" /\ reply' = [reply EXCEPT ![c] = d]
  /\ IF key \in DOMAIN pending
     THEN /\ question' = Decided(pending[key], d)
          /\ decider' = IF question[pending[key]].is = "open"
                      THEN [decider EXCEPT ![pending[key]] = c] ELSE decider
          /\ timer' = timer \ {pending[key]}
          /\ pending' = [k \in DOMAIN pending \ {key} |-> pending[k]]
     ELSE UNCHANGED <<question, timer, pending, decider>>
  /\ UNCHANGED <<clientVars, port, prompt, asking>>

\* A Hermes timeout deletes the entry under its id, whosever it is now.
Timeout(c) ==
  LET key == Key(c, question[c].mode) IN
  /\ c \in timer /\ timer' = timer \ {c}
  /\ question' = Decided(c, "decline")
  /\ IF question[c].via = "hermes"
     THEN /\ pending' = [k \in DOMAIN pending \ {key} |-> pending[k]]
          /\ UNCHANGED <<prompt, asking>>
     ELSE prompt' = NoCall /\ asking' = FALSE /\ UNCHANGED pending
  /\ UNCHANGED <<clientVars, port, reply, decider>>

ElicitationNext ==
  \/ TransportCloses
  \/ \E p \in Ports : SetElicitationPort(p)
  \/ \E d \in Decisions : UserTypes(d)
  \/ \E c \in ToolCalls :
       \/ CallTool(c) \/ Connected(c) \/ ConnectFails(c) \/ CallEnds(c)
       \/ \E m \in Modes : \/ ElicitDeclined(c, m) \/ ElicitReadline(c, m)
                           \/ ElicitHermes(c, m)
       \/ \E d \in Decisions : ResolveRequest(c, d)
       \/ Timeout(c)

-----------------------------------------------------------------------------
(* Properties. *)

\* A question without an id of its own, posted through Hermes.
OnBoard(c) == question[c].via = "hermes" /\ question[c].mode = "form"

(***************************************************************************)
(* The server is told "accept" only for an answer by which the user        *)
(* accepted, and it is the answer to this very question: no timeout,       *)
(* failed prompt or failed post accepts one, and neither does an answer to *)
(* another question.  But all forms on the Hermes board go under the same  *)
(* key (elicitation-port.ts:296, resolveRequest): the answer to a form     *)
(* decides whichever form is filed when it arrives, even when the form it  *)
(* was given to is long over.                                              *)
(***************************************************************************)
AcceptanceWasGiven ==
  \A c \in ToolCalls :
    question[c].is = "accept" =>
      /\ decider[c] \in ToolCalls /\ reply[decider[c]] = "accept"
      /\ decider[c] = c \/ (OnBoard(c) /\ OnBoard(decider[c]))

(***************************************************************************)
(* "The user's decision: accept, decline, or cancel"                       *)
(* (elicitation-port.ts:58): a question the user answered is decided.      *)
(***************************************************************************)
AnsweredQuestionsSettle ==
  \A c \in ToolCalls : reply[c] # "none" => question[c].is # "open"
==============================================================================

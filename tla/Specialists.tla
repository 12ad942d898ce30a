----------------------------- MODULE Specialists -----------------------------
(***************************************************************************)
(* The specialist agents, each in a process of its own: their execute      *)
(* methods (src/core), the processes that serve them (src/runtime/serve.ts *)
(* and src/runtime/agents) and the skill documents they write              *)
(* (src/adapters/skill-fs.ts).                                             *)
(*                                                                         *)
(* A task's text is abstracted to the branch of execute its keywords lead  *)
(* to.  What an agent awaits (a model, a search, a tool, its memory, the   *)
(* board) may fail; all it does between two awaits is one step.  The       *)
(* agents share the directory of skills only, under names of their own, so *)
(* a behaviour runs one of them.                                           *)
(***************************************************************************)
EXTENDS Integers, Sequences, FiniteSets

CONSTANTS Tasks,    \* requests, each with a task of its own in the agent's store
          Served    \* the agents there are

VARIABLES process,  \* of the agent that runs
          job,      \* each request
          skills    \* the slugs of the documents there are

specialistVars == <<process, job, skills>>

\* The agents runAgent serves, with a store of tasks.
RunAgents == {"oracle", "fixer", "librarian", "explorer", "designer",
              "verification"}

\* What each branch of an execute awaits: sequences of calls, side by side where
\* there are several (steward).  The dependencies of a package are looked up one
\* by one; one stands for all.  A model may be configured or not.
Nothing == << << >> >>
One(call) == << <<call>> >>

OracleAwaits    == [other |-> {One("llm"), Nothing}]
FixerAwaits     == [fibonacci |-> {One("llm"), Nothing}, other |-> {One("llm"), Nothing}]
LibrarianAwaits == [docs |-> {<< <<"search", "memory">> >>}, skill |-> {One("memory")}]
ExplorerAwaits  == [tool |-> {One("tool")}, other |-> {Nothing}]
DesignerAwaits  == [other |-> {Nothing}]
ScientistAwaits == ExplorerAwaits
VerificationAwaits ==
  [inputs |-> {One("llm"), Nothing}, malformed |-> {Nothing}, none |-> {Nothing}]
LlmAwaits       == [other |-> {One("llm")}]

\* The scan, the dependencies, and the three that ask the model once.
StewardAwaits ==
  << <<"llm">>, <<"tool", "search">>, <<"llm">>, <<"llm">>, <<"llm">> >>

JarvisAwaits ==
  [steward |-> {StewardAwaits}, help |-> {Nothing}, docs |-> {One("llm")},
   dependency |-> {<< <<"tool", "search">> >>, One("tool")}]

Awaits ==
  [oracle    |-> OracleAwaits,    fixer        |-> FixerAwaits,
   librarian |-> LibrarianAwaits, explorer     |-> ExplorerAwaits,
   designer  |-> DesignerAwaits,  scientist    |-> ScientistAwaits,
   jarvis    |-> JarvisAwaits,    verification |-> VerificationAwaits,
   llm       |-> LlmAwaits]

ASSUME SpecialistsAssumption == Served \subseteq DOMAIN Awaits

Idle == [phase |-> "idle", agent |-> "none", topic |-> "none", doing |-> << >>,
         reporting |-> FALSE, found |-> FALSE, task |-> "none", said |-> 0,
         artifact |-> FALSE, handsTo |-> "none", cause |-> "none"]

SpecialistsInit ==
  /\ \E runs \in Served : process = [a \in {runs} |-> "up"]
  /\ job = [t \in Tasks |-> Idle]
  /\ skills = {}

-----------------------------------------------------------------------------
(* Skill documents. *)

Done(j, s) == [job |-> j, skills |-> s]

Thrown(j, cause) == [j EXCEPT !.phase = "threw", !.cause = cause, !.doing = << >>]

\* SkillFS.save: what is there stays; the disk may fail.  The verification
\* agent catches that, and answers that it failed.
Saved(j, slug) ==
  IF slug \in skills THEN {Done(j, skills)}
  ELSE {Done(j, skills \cup {slug}),
        Done(IF j.agent = "verification"
             THEN [j EXCEPT !.task = "failed", !.cause = "disk"]
             ELSE Thrown(j, "disk"), skills)}

\* The documents a task may write.  Those with a time in their name are new
\* unless another of that millisecond has written one.
Slugs(j) ==
  IF j.agent \in {"librarian", "fixer"} THEN {<<j.agent, j.topic>>}
  ELSE {<<j.agent, "now">>, <<j.agent, "later">>}

-----------------------------------------------------------------------------
(* The end of execute. *)

\* updateState, appendMessage, appendArtifact, and onTask's answer.
Answered(j) ==
  LET stored == j.agent \notin {"scientist", "llm"} IN
  [j EXCEPT !.phase = "answered", !.doing = << >>,
            !.task = IF stored /\ @ # "failed" THEN "completed" ELSE @,
            !.said = IF stored THEN @ + 1 ELSE @,
            !.artifact = j.agent = "fixer" /\ j.topic = "fibonacci" /\ ~j.found]

\* VALID_TRANSFER_TARGETS: itself excluded.
ValidTransferTargets == {"fixer", "librarian", "explorer", "designer",
                         "scientist", "jarvis"}

\* decideRoute: whom the oracle's model may make it hand the task to; a reply
\* without a decision, or with another target, is an answer.
DecideRoute(target) == IF target \in ValidTransferTargets THEN target ELSE "none"

AllDone(j) == \A k \in DOMAIN j.doing : j.doing[k] = << >>

\* What follows when nothing is awaited any more.
Goes(j) ==
  IF ~AllDone(j) THEN {Done(j, skills)}
  ELSE IF j.topic = "steward" /\ ~j.reporting
  THEN {Done([j EXCEPT !.reporting = TRUE,
                       !.doing = << <<"memory">> \o IF j.found THEN <<"board">>
                                                    ELSE << >> >>], skills)}
  ELSE IF j.topic = "malformed"
  THEN {Done(Answered([j EXCEPT !.task = "failed", !.cause = "input"]), skills)}
  ELSE IF \/ j.agent = "fixer" /\ j.topic = "fibonacci" /\ ~j.found
          \/ j.agent = "verification" /\ j.found
  THEN {Done(IF o.job.phase = "threw" THEN o.job ELSE Answered(o.job), o.skills) :
          o \in UNION {Saved(j, s) : s \in Slugs(j)}}
  ELSE {Done(Answered(j), skills)}

\* Fault: the search of a librarian or of jarvis is not in a try.
AbsorbsAllButSearches(a, call) == call # "search" /\ a # "llm"

\* Whether the agent catches the failure of a call: all but handleTask do.
Absorbs(a, call) == a # "llm"

-----------------------------------------------------------------------------
(* Actions. *)

Becomes(t, outcomes) ==
  \E o \in outcomes : job' = [job EXCEPT ![t] = o.job] /\ skills' = o.skills

\* onTask: the task is created and execute begins.  The librarian writes its
\* document before it looks anything up.
OnTask(t, a, topic) ==
  /\ process[a] = "up" /\ job[t].phase = "idle"
  /\ \E p \in Awaits[a][topic], found \in BOOLEAN :
       LET j == [Idle EXCEPT !.phase = "working", !.agent = a, !.topic = topic,
                   !.doing = p,
                   !.task = IF a \in {"fixer", "librarian", "jarvis"} THEN "working"
                            ELSE IF a \in {"scientist", "llm"} THEN "none"
                            ELSE "submitted",
                   !.found = found /\ topic = "inputs"]
       IN Becomes(t, IF a = "librarian"
                     THEN UNION {Saved(j, s) : s \in Slugs(j)} ELSE Goes(j))
  /\ UNCHANGED process

\* A call returns what was asked for: a fixer's text, the findings of a scan
\* (its first call), which are written down.
CallReturns(t, k) ==
  LET j == [job[t] EXCEPT !.doing[k] = Tail(@)]
      finds == k = 1 /\ Head(job[t].doing[k]) = "llm"
               /\ (j.agent = "fixer" \/ j.topic = "steward")
      f == [j EXCEPT !.found = TRUE]
  IN /\ job[t].phase = "working" /\ job[t].doing[k] # << >>
     /\ \/ Becomes(t, Goes(j))
        \/ /\ j.agent = "oracle"
           /\ \E to \in Served \cup {"nobody"} :
                Becomes(t, Goes([j EXCEPT !.handsTo = DecideRoute(to)]))
        \/ /\ finds /\ f.agent = "fixer"
           /\ Becomes(t, Goes(f))
        \/ /\ finds /\ f.topic = "steward"
           /\ \E s \in Slugs(f) : \E o \in Saved(f, s) :
                IF o.job.phase = "threw" THEN Becomes(t, {o})
                ELSE /\ \E g \in Goes(f) : job' = [job EXCEPT ![t] = g.job]
                     /\ skills' = o.skills
     /\ UNCHANGED process

\* A call fails: what it was for is left out, and the rest of its try with it.
CallFails(t, k) ==
  LET call == Head(job[t].doing[k])
      rest == IF call = "tool" THEN << >> ELSE Tail(job[t].doing[k])
      j == [job[t] EXCEPT !.doing[k] = rest]
  IN /\ job[t].phase = "working" /\ job[t].doing[k] # << >>
     /\ IF Absorbs(j.agent, call) THEN Becomes(t, Goes(j))
        ELSE Becomes(t, {Done(Thrown(j, "call"), skills)})
     /\ UNCHANGED process

Busy(a) == {t \in Tasks : job[t].phase = "working" /\ job[t].agent = a}

\* The process ends, and what it was at with it.
Exits(a, cause) ==
  /\ process' = [process EXCEPT ![a] = "exited"]
  /\ job' = [t \in Tasks |-> IF t \in Busy(a)
                             THEN [job[t] EXCEPT !.phase = "lost", !.cause = cause,
                                                 !.doing = << >>]
                             ELSE job[t]]
  /\ UNCHANGED skills

\* The handler the agent's own file registers comes before runAgent's, and
\* exits.
Sigterm(a) ==
  /\ process[a] # "exited"
  /\ IF a \in RunAgents THEN Exits(a, "sigterm")
     ELSE process' = [process EXCEPT ![a] = "draining"] /\ UNCHANGED <<job, skills>>

Sigint(a) ==
  /\ process[a] = "up"
  /\ process' = [process EXCEPT ![a] = "draining"] /\ UNCHANGED <<job, skills>>

\* server.shutdown returns, and the process exits.
Drained(a) == process[a] = "draining" /\ Busy(a) = {} /\ Exits(a, "drained")
DrainTimesOut(a) ==
  process[a] = "draining" /\ Busy(a) # {} /\ Exits(a, "timeout")

SpecialistsNext ==
  \/ \E t \in Tasks : \/ \E a \in DOMAIN process : \E topic \in DOMAIN Awaits[a] :
                           OnTask(t, a, topic)
                      \/ \E k \in DOMAIN job[t].doing :
                           CallReturns(t, k) \/ CallFails(t, k)
  \/ \E a \in DOMAIN process : \/ Sigterm(a) \/ Sigint(a)
                                \/ Drained(a) \/ DrainTimesOut(a)

-----------------------------------------------------------------------------
(* Property. *)

(***************************************************************************)
(* Whatever fails around an agent, the task it was given is answered, with *)
(* one message, and over: only a skill document that cannot be written, or *)
(* the model of the plain LLM agent, makes execute throw and leaves the    *)
(* task as it was; and only a SIGTERM, or a drain that took too long, cuts *)
(* off a task at work (serve.ts:117).                                      *)
(***************************************************************************)
TasksEndAnswered ==
  \A t \in Tasks :
    /\ job[t].phase = "answered" =>
         IF job[t].agent \in {"scientist", "llm"}
         THEN job[t].task = "none"
         ELSE /\ job[t].said = 1
              /\ job[t].task = IF job[t].cause \in {"disk", "input"}
                               THEN "failed" ELSE "completed"
    /\ job[t].phase = "threw" => job[t].cause = "disk" \/ job[t].agent = "llm"
    /\ job[t].phase = "lost" =>
         \/ job[t].cause = "timeout"
         \/ job[t].cause = "sigterm" /\ job[t].agent \in RunAgents
==============================================================================

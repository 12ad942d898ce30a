------------------------------- MODULE Plugins -------------------------------
(***************************************************************************)
(* The plugins of the orchestrator: the registry of                        *)
(* src/core/plugin-registry.ts, the event bus of                           *)
(* src/ports/plugin-event-bus.ts it subscribes them to, and the lifecycle  *)
(* events of src/runtime/lifecycle.ts and src/core/tool-router.ts that the *)
(* bus carries.                                                            *)
(*                                                                         *)
(* initializeAll, shutdownAll and shutdown await code of the plugins, so   *)
(* several calls may be under way; each holds at most one plugin, the one  *)
(* it awaits.  Everything between two awaits is one step.  A plugin's      *)
(* declared events are abstracted to one.                                  *)
(***************************************************************************)
EXTENDS Integers, SequencesExt

CONSTANTS Plugins,            \* the names bundles may declare
          NoPlugin,
          MaxCalls, MaxEmits  \* bounds

VARIABLES entries,    \* the registry: [state, subscriptions] by name
          order,      \* its names in the order they were registered
          bus,        \* the registry's subscriptions: [id, owner]
          own,        \* the plugins that hold a subscription they made
          calls,      \* the calls of the registry under way
          begun,      \* calls begun so far
          disturbed,  \* plugins two calls held at once, or cleared by another
          heard,      \* onEvent calls each plugin got
          due,        \* onEvent calls it had coming while it ran
          emits

pluginVars == <<entries, order, bus, own, calls, begun, disturbed, heard, due,
                emits>>

States == {"Validated", "Loaded", "Running", "Shutdown", "Error"}
NewEntry == [state |-> "Validated", subscriptions |-> {}]
Registered == DOMAIN entries

PluginsInit ==
  /\ entries = << >> /\ order = << >> /\ bus = {} /\ own = {}
  /\ calls = << >> /\ begun = 0 /\ disturbed = {}
  /\ heard = [p \in Plugins |-> 0] /\ due = [p \in Plugins |-> 0]
  /\ emits = 0

events == <<heard, due, emits>>

-----------------------------------------------------------------------------
(* Loading. *)

With(p) ==
  [q \in Registered \cup {p} |-> IF q = p THEN NewEntry ELSE entries[q]]

\* Fault: a name that is taken is registered again.
Reregister(p) ==
  /\ entries' = With(p)
  /\ order' = IF p \in Registered THEN order ELSE Append(order, p)

\* register, after validation: the first plugin of a name.
Register(p) ==
  IF p \in Registered
    THEN UNCHANGED <<entries, order>>
    ELSE /\ entries' = With(p)
         /\ order' = Append(order, p)

\* The loader finds a usable bundle with this name; of the others it only
\* reports the error.
LoadPlugin(p) ==
  /\ Register(p)
  /\ UNCHANGED <<bus, own, calls, begun, disturbed, events>>

-----------------------------------------------------------------------------
(* Calls.  pos: how far initializeAll is in the registry, which it walks    *)
(* live; todo: the copy shutdownAll walks.                                  *)

Call(kind, todo) == [kind |-> kind, pos |-> 0, todo |-> todo, at |-> NoPlugin]

\* Fault: running plugins are initialized again.
InitializableAgain(e) == e.state \in {"Validated", "Loaded", "Running"}

Initializable(e) == e.state \in {"Validated", "Loaded"}

\* The positions a call may go on to, given the entries.
Ahead(c, es) ==
  IF c.kind = "initialize"
    THEN {j \in (c.pos + 1)..Len(order) : Initializable(es[order[j]])}
    ELSE {j \in (c.pos + 1)..Len(c.todo) : es[c.todo[j]].state # "Shutdown"}

\* The call comes to plugin p: initializeAll marks it and awaits onInitialize;
\* a shutdown takes its subscriptions away and awaits onShutdown.
Enters(c, p, es, b) ==
  IF c.kind = "initialize"
    THEN [entries |-> [es EXCEPT ![p].state = "Loaded"], bus |-> b]
    ELSE [entries |-> [es EXCEPT ![p].subscriptions = {}],
          bus |-> {s \in b : s.id \notin es[p].subscriptions}]

\* Call i, now c, goes on with entries es and bus b to the next plugin it has
\* to wait for, or returns.
Proceeds(i, c, es, b) ==
  LET js == Ahead(c, es)
  IN IF js = {}
       THEN /\ calls' = SubSeq(calls, 1, i - 1)
                          \o SubSeq(calls, i + 1, Len(calls))
            /\ entries' = es /\ bus' = b
            /\ UNCHANGED disturbed
       ELSE LET j == CHOOSE k \in js : \A l \in js : k <= l
                p == IF c.kind = "initialize" THEN order[j] ELSE c.todo[j]
            IN /\ calls' = SubSeq(calls, 1, i - 1)
                             \o <<[c EXCEPT !.pos = j, !.at = p]>>
                             \o SubSeq(calls, i + 1, Len(calls))
               /\ entries' = Enters(c, p, es, b).entries
               /\ bus' = Enters(c, p, es, b).bus
               /\ disturbed' = disturbed \cup
                    {q \in {p} : \E k \in DOMAIN calls \ {i} : calls[k].at = q}

Begin(c) ==
  /\ begun < MaxCalls /\ begun' = begun + 1
  /\ Proceeds(Len(calls) + 1, c, entries, bus)
  /\ UNCHANGED <<order, own, events>>

InitializeAll == Begin(Call("initialize", << >>))
ShutdownAll == Begin(Call("shutdown", Reverse(order)))
Shutdown(p) == p \in Registered /\ Begin(Call("shutdown", <<p>>))

\* nextId, as the least id that nobody holds, be it on the bus or not.
Held == {s.id : s \in bus} \cup UNION {entries[p].subscriptions : p \in Registered}
FreshId == CHOOSE n \in 1..(Cardinality(Held) + 1) : n \notin Held

\* onInitialize returns: the plugin is subscribed and runs.
Initialized(i) ==
  LET p == calls[i].at
  IN /\ calls[i].kind = "initialize"
     /\ Proceeds(i, calls[i],
                 [entries EXCEPT ![p].subscriptions = @ \cup {FreshId},
                                 ![p].state = "Running"],
                 bus \cup {[id |-> FreshId, owner |-> p]})
     /\ UNCHANGED <<order, own, begun, events>>

\* onInitialize throws.
InitializationFails(i) ==
  /\ calls[i].kind = "initialize"
  /\ Proceeds(i, calls[i], [entries EXCEPT ![calls[i].at].state = "Error"], bus)
  /\ UNCHANGED <<order, own, begun, events>>

\* onShutdown returns or throws; the plugin counts as shut down either way.
ShutDown(i) ==
  /\ calls[i].kind = "shutdown"
  /\ Proceeds(i, calls[i],
              [entries EXCEPT ![calls[i].at].state = "Shutdown"], bus)
  /\ UNCHANGED <<order, own, begun, events>>

-----------------------------------------------------------------------------
(* The bus. *)

Runs(p) == /\ p \in Registered /\ entries[p].state = "Running"
           /\ \A k \in DOMAIN calls :
                calls[k].at # p \/ calls[k].kind = "initialize"

\* Every subscriber is called, in the same tick.
Dispatch(times) ==
  /\ emits < MaxEmits /\ emits' = emits + 1
  /\ heard' = [p \in Plugins |->
                 heard[p] + times * Cardinality({s \in bus : s.owner = p})]
  /\ due' = [p \in Plugins |-> due[p] + IF Runs(p) THEN times ELSE 0]
  /\ UNCHANGED <<entries, order, bus, own, calls, begun, disturbed>>

\* A task event goes to the task's room and to the bus; an agent going
\* offline to every client and to the bus.
EmitOnce == Dispatch(1)

\* An agent coming online, or its error, is broadcast, which the bridge
\* projects onto the bus, and emitted on the bus as well.
EmitBridged == Dispatch(2)

\* A plugin subscribes through its own context, or takes that back.
SubscribeItself(p) ==
  /\ p \in Registered /\ entries[p].state \in {"Loaded", "Running"}
  /\ own' = (own \ {p}) \cup ({p} \ own)
  /\ UNCHANGED <<entries, order, bus, calls, begun, disturbed, events>>

\* A plugin's unsubscribeAll clears the bus, of the others' too.
UnsubscribeAll(p) ==
  /\ p \in Registered /\ entries[p].state \in {"Loaded", "Running"}
  /\ bus' = {} /\ own' = {}
  /\ disturbed' = disturbed \cup {s.owner : s \in bus}
  /\ UNCHANGED <<entries, order, calls, begun, events>>

PluginsNext ==
  \/ \E p \in Plugins : \/ LoadPlugin(p) \/ Shutdown(p)
                        \/ SubscribeItself(p) \/ UnsubscribeAll(p)
  \/ InitializeAll \/ ShutdownAll
  \/ \E i \in DOMAIN calls : \/ Initialized(i) \/ InitializationFails(i)
                             \/ ShutDown(i)
  \/ EmitOnce \/ EmitBridged

-----------------------------------------------------------------------------
(* Properties. *)

\* Every subscription the registry made and that is still on the bus is in its
\* owner's entry, whatever calls overlapped, and its owner runs with no shutdown
\* at it: a subscription outlives its plugin only if two calls were at the
\* plugin at once.  After such an overlap it may be there for good, as shutdown
\* returns for a plugin that is shut down (plugin-registry.ts:342, 378, 384).
SubscriptionsTracked ==
  \A s \in bus :
    /\ s.owner \in Registered /\ s.id \in entries[s.owner].subscriptions
    /\ s.owner \notin disturbed => Runs(s.owner)

\* A plugin hears each event dispatched while it runs exactly once per
\* dispatch, and none before or after, however often the registry was told to
\* initialize; calls that overlapped on it, or another plugin's
\* unsubscribeAll, are the exceptions (plugin-registry.ts:308, initializeAll).
EventsHeardAsDue == \A p \in Plugins \ disturbed : heard[p] = due[p]
==============================================================================

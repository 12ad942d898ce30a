------------------------------ MODULE Webhooks -------------------------------
(***************************************************************************)
(* The four HTTP servers through which events enter the ecosystem: the     *)
(* generic WebhookServer with its bridge to Hermes, and the Telegram,      *)
(* WhatsApp and GitHub bots.  A behaviour is one of them, chosen at Init,  *)
(* and a provider that may deliver any event any number of times.          *)
(*                                                                         *)
(* They differ in what they check and promise:                             *)
(*   webhook   the signature is checked if there is one; an event is       *)
(*             locked; the answer waits for the handler                    *)
(*   telegram  a secret token is needed; an update with an id is locked;   *)
(*             answered at once; registers itself with Telegram            *)
(*   whatsapp  a signature is needed; nothing is locked; answered at once; *)
(*             an event holds several messages, forwarded one by one       *)
(*   github    as whatsapp, with one message                               *)
(***************************************************************************)
EXTENDS IdempotencyLock, FiniteSets, Sequences

CONSTANTS Events,         \* what the provider sends; an id, or a body's hash
          Batch,          \* messages in one WhatsApp event
          TtlMs,          \* JABR_WEBHOOK_IDEMPOTENCY_TTL_MS, in ticks
          MaxTime, MaxDeliveries, MaxChanges, MaxRestarts   \* bounds

ASSUME WebhooksAssumption ==
  /\ {Batch, TtlMs, MaxTime, MaxDeliveries, MaxChanges, MaxRestarts}
       \subseteq Nat
  /\ Batch > 0 /\ TtlMs > 0

VARIABLES config,      \* which adapter, its configuration, the events' kinds
          now,
          locks,       \* IdempotencyLock.locks
          deliveries,  \* the requests that passed the signature, in order
          running,     \* this.server is set
          registered,  \* Telegram has our URL
          calls,       \* setWebhook and deleteWebhook calls under way
          disturbed,   \* a call failed or overlapped since they last settled
          posts,       \* messages the provider took from us
          changes, lives   \* starts and stops; processes so far

vars == <<config, now, locks, deliveries, running, registered, calls,
          disturbed, posts, changes, lives>>
server == <<running, registered, calls, disturbed, changes>>

Adapters == {"webhook", "telegram", "whatsapp", "github"}

\* "notice": a WhatsApp status, a GitHub release, or a GitHub event without
\* the object its type names.  "unparsable": no event can be read from it.
Kinds == {"event", "notice", "unparsable"}

adapter == config.adapter

\* The response is that of the awaited handler.
Waits == adapter = "webhook"
Tracks(e) == \/ adapter = "webhook"
             \/ adapter = "telegram" /\ config.kind[e] # "unparsable"
Parses(e) == \/ adapter \in {"webhook", "telegram"}
             \/ config.kind[e] # "unparsable"

\* How many messages route goes through.
Messages(e) ==
  IF adapter \in {"webhook", "telegram"} THEN 1
  ELSE IF config.kind[e] # "event" THEN 0
  ELSE IF adapter = "github" THEN 1 ELSE Batch

Signatures == {"right", "wrong", "missing"}
Accepts(s) == \/ s = "right"
              \/ s = "missing" /\ adapter = "webhook"

Delivery(e) == [event |-> e, at |-> "received", answer |-> 0,
                admitted |-> 0, life |-> lives, begun |-> 0, returned |-> 0]

Init ==
  /\ config \in [adapter : Adapters, delegates : BOOLEAN, token : BOOLEAN,
                 kind : [Events -> Kinds]]
  /\ adapter \in {"webhook", "telegram"} => config.token
  /\ adapter = "webhook" => config.kind = [e \in Events |-> "event"]
  /\ adapter = "telegram" => \A e \in Events : config.kind[e] # "notice"
  /\ now = 0 /\ locks = NoLocks /\ deliveries = << >>
  /\ running = FALSE /\ registered = FALSE /\ calls = << >>
  /\ disturbed = FALSE /\ posts = 0 /\ changes = 0 /\ lives = 0

-----------------------------------------------------------------------------
(* Handling a request. *)

Answered(d, status) == [d EXCEPT !.at = "over", !.answer = status]

\* Fault: every message of the batch is begun before the first is awaited.
ForwardsAll(d) == [d EXCEPT !.at = "handling", !.begun = Messages(d.event)]

\* route up to its next await: the next message is begun (the WhatsApp bot
\* marks it as read) and its delegation awaited.  Without a delegateUrl the
\* messages are gone through without an await.
Forwards(d) ==
  LET n == Messages(d.event)
  IN IF d.begun < n /\ (Waits \/ config.delegates)
       THEN [d EXCEPT !.at = "handling", !.begun = @ + 1]
       ELSE [d EXCEPT !.at = "over", !.begun = n]

Admitted(d) ==
  Forwards([d EXCEPT !.admitted = now, !.life = lives,
                     !.answer = IF Waits THEN 0 ELSE 200])

\* Fault: the event is locked before the signature is looked at.
LocksFirst(e, s) ==
  IF Tracks(e) /\ ~Held(locks, e, now, TtlMs)
    THEN Acquired(locks, e, now) ELSE locks

\* What a request does to the locks.
Locks(e, s) ==
  IF Tracks(e) /\ Accepts(s) /\ ~Held(locks, e, now, TtlMs)
    THEN Acquired(locks, e, now) ELSE locks

\* fetch from the read body to the route call; there is no await in between.
\* A wrong signature (401), an event that cannot be parsed (400) and what the
\* rate limiter refuses before (429) leave no delivery.
Received(e, s) ==
  IF ~Accepts(s) \/ ~Parses(e) THEN << >>
  ELSE IF Tracks(e) /\ Held(locks, e, now, TtlMs)
         THEN <<Answered(Delivery(e), 409)>>
  ELSE <<Admitted(Delivery(e))>>

\* The provider delivers an event, for the first time or again, while the
\* server runs; Telegram does so only when it has a URL to send to.
Receive(e, s) ==
  /\ running /\ Len(deliveries) < MaxDeliveries
  /\ adapter = "telegram" => registered
  /\ locks' = Locks(e, s)
  /\ deliveries' = deliveries \o Received(e, s)
  /\ UNCHANGED <<config, now, server, posts, lives>>

\* The awaited delegation answers, whatever its HTTP status; or onEvent does,
\* and its result is the response.
Resumed(d) ==
  LET r == [d EXCEPT !.returned = d.returned + 1]
  IN  IF Waits THEN Answered(r, 200) ELSE Forwards(r)

Returns(i) ==
  /\ deliveries[i].at = "handling"
  /\ deliveries' = [deliveries EXCEPT ![i] = Resumed(@)]
  /\ UNCHANGED <<config, now, locks, server, posts, lives>>

\* fetch throws: the rest of the batch is dropped, the provider has its 200.
\* onEvent throws: the response is 500.  The lock stays either way.
Thrown(d) ==
  [d EXCEPT !.at = "failed", !.answer = IF Waits THEN 500 ELSE d.answer]

Throws(i) ==
  /\ deliveries[i].at = "handling"
  /\ deliveries' = [deliveries EXCEPT ![i] = Thrown(@)]
  /\ UNCHANGED <<config, now, locks, server, posts, lives>>

\* A snapshot of the locks is taken.
Collect ==
  /\ locks' = Collected(locks, now, TtlMs)
  /\ UNCHANGED <<config, now, deliveries, server, posts, lives>>

\* An agent answers through the bot (sendMessage, createComment, ...): skipped
\* without an access token, thrown back to it when the provider refuses.
Post ==
  /\ adapter # "webhook" /\ posts < 1
  /\ config.token \/ adapter = "telegram"
  /\ posts' = posts + 1
  /\ UNCHANGED <<config, now, locks, deliveries, server, lives>>

-----------------------------------------------------------------------------
(* The server's life. *)

\* A call of Telegram's API is sent, without being awaited.
Calls(c) ==
  /\ calls' = Append(calls, c)
  /\ disturbed' = (calls # << >>)

Start ==
  /\ ~running /\ changes < MaxChanges
  /\ running' = TRUE /\ changes' = changes + 1
  /\ IF adapter = "telegram" THEN Calls("setWebhook")
                             ELSE UNCHANGED <<calls, disturbed>>
  /\ UNCHANGED <<config, now, locks, deliveries, registered, posts, lives>>

\* Fault: the URL stays registered.
StopSilently ==
  /\ changes < MaxChanges
  /\ running' = FALSE /\ changes' = changes + 1
  /\ UNCHANGED <<config, now, locks, deliveries, registered, calls, disturbed,
                 posts, lives>>

\* Requests already received are still handled.
Stop ==
  /\ changes < MaxChanges
  /\ running' = FALSE /\ changes' = changes + 1
  /\ IF adapter = "telegram" THEN Calls("deleteWebhook")
                             ELSE UNCHANGED <<calls, disturbed>>
  /\ UNCHANGED <<config, now, locks, deliveries, registered, posts, lives>>

Without(s, j) == SubSeq(s, 1, j - 1) \o SubSeq(s, j + 1, Len(s))

\* Telegram carries a call out, or the call fails and that is logged.
CallDone(j) ==
  /\ \/ registered' = (calls[j] = "setWebhook") /\ UNCHANGED disturbed
     \/ disturbed' = TRUE /\ UNCHANGED registered
  /\ calls' = Without(calls, j)
  /\ UNCHANGED <<config, now, locks, deliveries, running, posts, changes,
                 lives>>

\* The process dies and with it the locks; a call may or may not have arrived.
Restart ==
  /\ lives < MaxRestarts /\ lives' = lives + 1
  /\ locks' = NoLocks /\ running' = FALSE
  /\ registered' \in {registered} \cup
                     {calls[j] = "setWebhook" : j \in DOMAIN calls}
  /\ calls' = << >> /\ disturbed' = TRUE
  /\ deliveries' = [i \in DOMAIN deliveries |->
                      IF deliveries[i].at = "handling"
                        THEN [deliveries[i] EXCEPT !.at = "failed"]
                        ELSE deliveries[i]]
  /\ UNCHANGED <<config, now, posts, changes>>

Tick ==
  /\ now < MaxTime /\ now' = now + 1
  /\ adapter \in {"webhook", "telegram"}   \* time matters to locks alone
  /\ UNCHANGED <<config, locks, deliveries, server, posts, lives>>

Next ==
  \/ \E e \in Events, s \in Signatures : Receive(e, s)
  \/ \E i \in DOMAIN deliveries : Returns(i) \/ Throws(i)
  \/ Collect \/ Post \/ Start \/ Stop
  \/ \E j \in DOMAIN calls : CallDone(j)
  \/ Restart \/ Tick

Spec == Init /\ [][Next]_vars

-----------------------------------------------------------------------------
(* Properties. *)

\* The types of the variables of all four servers.
TypeOK ==
  /\ config.adapter \in Adapters
  /\ locks \in UNION {[K -> 0..MaxTime] : K \in SUBSET Events}
  /\ \A i \in DOMAIN deliveries :
       /\ deliveries[i].at \in {"handling", "over", "failed"}
       /\ deliveries[i].answer \in {0, 200, 409, 500}
       /\ deliveries[i].begun \in 0..Batch
       /\ deliveries[i].returned \in 0..deliveries[i].begun
  /\ {running, registered, disturbed} \subseteq BOOLEAN

\* The request passed signature and lock, and went on to the handler.
WasAdmitted(d) == d.at \in {"handling", "failed"} \/ d.answer \in {200, 500}

\* WebhookServer and the Telegram bot handle an event at most once per TTL,
\* however often and however late it is delivered again
\* (idempotency-lock.ts:47, acquire).
HandledOncePerTtl ==
  \A i, j \in DOMAIN deliveries :
    LET c == deliveries[i]
        d == deliveries[j]
    IN /\ i # j /\ c.event = d.event /\ Tracks(c.event)
       /\ WasAdmitted(c) /\ WasAdmitted(d) /\ c.life = d.life
       /\ c.admitted <= d.admitted
       => d.admitted - c.admitted >= TtlMs

\* A delivery refused as a duplicate (409) is one: another delivery of the
\* event was admitted before it.  A request that was itself refused, for its
\* signature or its rate, never costs the provider its real one
\* (webhook-server.ts:200, telegram-webhook.ts:250: the lock comes last).
DuplicatesWereAdmitted ==
  \A d \in {deliveries[i] : i \in DOMAIN deliveries} :
    d.answer = 409 =>
      \E i \in DOMAIN deliveries :
        deliveries[i].event = d.event /\ WasAdmitted(deliveries[i])

\* A WhatsApp batch that breaks off, by a failing delegation or a dying
\* process, has cost at most one message that its sender sees as read and no
\* agent answered; one that ended was offered to the agent in full
\* (whatsapp-webhook.ts: route).
ReadMessagesOffered ==
  \A d \in {deliveries[i] : i \in DOMAIN deliveries} :
    adapter = "whatsapp" /\ config.delegates =>
      /\ d.begun - d.returned <= 1
      /\ d.at = "over" /\ d.answer = 200 => d.returned = Messages(d.event)

\* Once its calls have settled, Telegram delivers to the bot exactly while the
\* bot's server runs, unless a call failed, two overlapped or the process died
\* (telegram-webhook.ts: start, stop).
RegistrationFollowsServer ==
  adapter = "telegram" /\ calls = << >> /\ ~disturbed =>
    (registered <=> running)
==============================================================================

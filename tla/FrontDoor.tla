----------------------------- MODULE FrontDoor -----------------------------
(***************************************************************************)
(* What a request passes in A2AServer.fetch, once the rate limiter let it, *)
(* before it reaches a protocol method: authentication by API key or       *)
(* bearer token, the payment check, the body, the scope of the token.  The *)
(* OAuth routes that issue, rotate and revoke those tokens are served by   *)
(* the same process.  Between two steps of a request that awaits, other    *)
(* requests are served and time passes.                                    *)
(*                                                                         *)
(* Of the methods only those on push notification configurations change    *)
(* anything here; A2AServer models the others.  A signature that is wrong  *)
(* is a token nobody holds.                                                *)
(***************************************************************************)
EXTENDS FiniteSets, TokenStore, PushConfigs

CONSTANTS Handlers,     \* requests in progress
          Keys,         \* API keys of the registry, also their descriptions
          EnabledKeys,
          LimitedKeys,  \* those with an allowlist
          Agents,       \* the allowlist of a limited key
          Payments,     \* how many tokens were minted for this agent
          Methods,      \* those that are called
          Requests,     \* sets of scopes a client asks for
          AccessTTL, RefreshTTL,
          MaxTime,      \* bound
          NoKey

ASSUME FrontDoorAssumption ==
  /\ EnabledKeys \subseteq Keys /\ LimitedKeys \subseteq Keys /\ Subjects = Keys
  /\ Requests \subseteq SUBSET {"read", "write", "stream", "admin"}
  /\ Agents # {} /\ NoKey \notin Keys
  /\ {AccessTTL, RefreshTTL, MaxTime, MaxTokens, Payments} \subseteq Nat

VARIABLES now,
          jwts,        \* every token issued, by thumbprint
          store,       \* of the refresh tokens
          replayed,    \* history: families a used-up token was presented of
          unspent,     \* payments not presented yet
          configs,     \* push notification configurations
          handler

vars == <<now, jwts, store, replayed, unspent, configs, handler>>

oauth == <<jwts, store, replayed>>

AllScopes     == {"read", "write", "stream", "admin"}
DefaultScopes == {"read", "write", "stream"}

Jwt == [type : {"access", "refresh"}, subject : Keys, agents : SUBSET Agents,
        scopes : SUBSET AllScopes, exp : Nat]

\* An empty allowlist admits every agent.
AllowedAgents(k) == IF k \in LimitedKeys THEN Agents ELSE {}

\* token 0: the request came with an API key.  A handler that is done or
\* idle, after a refusal or before its first request, takes the next one.
Handler ==
  [phase : {"idle", "minting", "rotating", "paid", "done"},
   key : Keys \cup {NoKey}, token : 0 .. MaxTokens]

TypeOK ==
  /\ now \in Nat
  /\ jwts \in Seq(Jwt) /\ Len(jwts) <= MaxTokens
  /\ store \in [Thumbprints -> Record \cup {NoRecord}]
  /\ \A t \in Kept(store) : t <= Len(jwts) /\ jwts[t].type = "refresh"
  /\ unspent \in 0 .. Payments
  /\ configs \in [Tasks -> Seq(Config)]
  /\ handler \in [Handlers -> Handler]

Blank == [phase |-> "idle", key |-> NoKey, token |-> 0]

Init ==
  /\ now = 0
  /\ jwts = <<>> /\ store = NoTokens /\ replayed = {}
  /\ unspent = Payments
  /\ configs = NoConfigs
  /\ handler = [h \in Handlers |-> Blank]

-----------------------------------------------------------------------------
Tick ==
  /\ now < MaxTime
  /\ now' = now + 1
  /\ UNCHANGED <<oauth, unspent, configs, handler>>

Becomes(h, f) == handler' = [handler EXCEPT ![h] = f]

Free(h) == handler[h].phase \in {"idle", "done"}

Refused(h) == Becomes(h, Blank)

Answered(h) == Becomes(h, [Blank EXCEPT !.phase = "done"])

-----------------------------------------------------------------------------
(* The OAuth routes.                                                       *)

Issued(type, k, agents, scopes, ttl) ==
  [type |-> type, subject |-> k, agents |-> agents, scopes |-> scopes,
   exp |-> now + ttl]

Room(n) == Len(jwts) + n <= MaxTokens

\* Scopes are cut to the default ones; none left means all of those.
Granted(requested) ==
  IF requested \cap DefaultScopes = {} THEN DefaultScopes
  ELSE requested \cap DefaultScopes

\* handleClientCredentialsGrant up to the await of the refresh token.
ClientCredentials(h, k, requested) ==
  /\ Free(h)
  /\ IF k \in EnabledKeys
     THEN /\ Room(2)
          /\ jwts' = Append(jwts, Issued("access", k, AllowedAgents(k),
                                         Granted(requested), AccessTTL))
          /\ Becomes(h, [Blank EXCEPT !.phase = "minting", !.key = k])
     ELSE Refused(h) /\ UNCHANGED jwts
  /\ UNCHANGED <<now, store, replayed, unspent, configs>>

\* The rest of it: the refresh token is stored and both are sent.
RefreshTokenStored(h) ==
  LET k == handler[h].key IN
  /\ handler[h].phase = "minting"
  /\ Room(1)
  /\ jwts' = Append(jwts, Issued("refresh", k, AllowedAgents(k), {"read"}, RefreshTTL))
  /\ store' = Stored(store, Len(jwts) + 1, k, now + RefreshTTL)
  /\ Answered(h)
  /\ UNCHANGED <<now, replayed, unspent, configs>>

Verifies(t) == t \in DOMAIN jwts /\ jwts[t].exp > now

\* handleRefreshTokenGrant up to the awaits of the new token.  An expired
\* token counts as revoked and takes the subject's others with it.
RefreshGrant(h, t) ==
  /\ Free(h)
  /\ t \in DOMAIN jwts
  /\ IF t \in Kept(store) /\ IsRevoked(store, t, now)
     THEN /\ store' = RevokedForSubject(store, store[t].subject)
          /\ replayed' = replayed \cup {store[t].family}
          /\ Refused(h)
     ELSE /\ UNCHANGED <<store, replayed>>
          /\ IF t \in Kept(store) /\ Verifies(t)
             THEN Becomes(h, [Blank EXCEPT !.phase = "rotating", !.token = t])
             ELSE Refused(h)
  /\ UNCHANGED <<now, jwts, unspent, configs>>

\* Fault: the new access token loses the allowlist.
RotateWildcard(h) ==
  LET t == handler[h].token
      k == jwts[t].subject IN
  /\ handler[h].phase = "rotating"
  /\ IF Rotates(store, t)
     THEN /\ Room(2)
          /\ jwts' = jwts \o <<Issued("refresh", k, jwts[t].agents, {"read"}, RefreshTTL),
                               Issued("access", k, {}, jwts[t].scopes, AccessTTL)>>
          /\ store' = Rotated(store, t, Len(jwts) + 1, now + RefreshTTL)
          /\ Answered(h)
          /\ UNCHANGED replayed
     ELSE /\ store' = RevokedForSubject(store, k)
          /\ replayed' = replayed \cup {store[t].family}
          /\ Refused(h)
          /\ UNCHANGED jwts
  /\ UNCHANGED <<now, unspent, configs>>

\* The rest of it.  The old token may have been used up meanwhile: then the
\* subject's tokens are revoked, the one the other exchange got included.
Rotate(h) ==
  LET t == handler[h].token
      k == jwts[t].subject IN
  /\ handler[h].phase = "rotating"
  /\ IF Rotates(store, t)
     THEN /\ Room(2)
          /\ jwts' = jwts \o <<Issued("refresh", k, jwts[t].agents, {"read"}, RefreshTTL),
                               Issued("access", k, jwts[t].agents, jwts[t].scopes, AccessTTL)>>
          /\ store' = Rotated(store, t, Len(jwts) + 1, now + RefreshTTL)
          /\ Answered(h)
          /\ UNCHANGED replayed
     ELSE /\ store' = RevokedForSubject(store, k)
          /\ replayed' = replayed \cup {store[t].family}
          /\ Refused(h)
          /\ UNCHANGED jwts
  /\ UNCHANGED <<now, unspent, configs>>

\* Access tokens are not in the store: revoking one changes nothing.
RevokeToken(h, t) ==
  /\ Free(h)
  /\ t \in DOMAIN jwts
  /\ store' = Revoked(store, t)
  /\ Answered(h)
  /\ UNCHANGED <<now, jwts, replayed, unspent, configs>>

-----------------------------------------------------------------------------
(* A protocol method, by JSON-RPC or REST.                                 *)

ScopesForMethod(m) ==
  CASE m = "SendMessage"          -> {"write"}
    [] m = "SendStreamingMessage" -> {"stream", "write"}
    [] m = "SubscribeToTask"      -> {"stream", "read"}
    [] m \in {"CancelTask", "CreatePushConfig", "DeletePushConfig"} -> {"admin"}
    [] OTHER                      -> {"read"}

\* A route: the method whose scope is asked for, and the one called.
Same(ms) == {[asks |-> m, calls |-> m] : m \in ms}

TaskMethods   == {"SendMessage", "SendStreamingMessage", "GetTask", "ListTasks",
                  "CancelTask", "SubscribeToTask", "GetExtendedAgentCard"}
ConfigMethods == {"CreatePushConfig", "GetPushConfig", "ListPushConfigs",
                  "DeletePushConfig"}

\* By JSON-RPC the method named is the method called.
RpcTaskRoutes   == Same(TaskMethods)
RpcConfigRoutes == Same(ConfigMethods)

\* By REST each route names the method it stands for.
RestTaskRoutes == Same(TaskMethods)

\* Fault: the update is taken for a read.
RestConfigRoutesReadPatch ==
  Same(ConfigMethods) \cup {[asks |-> "GetPushConfig", calls |-> "UpdatePushConfig"]}

\* PATCH, which JSON-RPC has not, updates a configuration with the scope of its
\* deletion.
RestConfigRoutes ==
  Same(ConfigMethods) \cup {[asks |-> "DeletePushConfig", calls |-> "UpdatePushConfig"]}

Routes == RpcTaskRoutes \cup RpcConfigRoutes \cup RestTaskRoutes \cup RestConfigRoutes

Authentic(k, t) == IF t > 0 THEN Verifies(t) ELSE k \in EnabledKeys

\* Authentication, by the bearer token if there is one, and then
\* X402Server.check (see X402), which settles the payment in the same turn
\* when there is no chain to ask.  A request refused here leaves no trace.
AuthenticateAndPay(h, k, t) ==
  /\ Free(h)
  /\ t > 0 => k = NoKey
  /\ Authentic(k, t)
  /\ unspent > 0
  /\ unspent' = unspent - 1
  /\ Becomes(h, [Blank EXCEPT !.phase = "paid", !.key = k, !.token = t])
  /\ UNCHANGED <<now, oauth, configs>>

\* verifyWithScopes verifies the token once more; an API key has every scope.
Scoped(f, m) ==
  f.token > 0 => /\ Verifies(f.token)
                 /\ ScopesForMethod(m) \cap jwts[f.token].scopes # {}

\* What a method does to the configurations; a missing one is a 404.
Applied(m, t, i, u) ==
  CASE m = "CreatePushConfig" -> Created(configs, t, i, u)
    [] m = "UpdatePushConfig" /\ Found(configs, t, i) -> Updated(configs, t, i, u)
    [] m = "DeletePushConfig" /\ Found(configs, t, i) -> Deleted(configs, t, i)
    [] OTHER -> configs

Dispatch(h, r, t, i, u) ==
  LET f == handler[h] IN
  /\ f.phase = "paid"
  /\ Scoped(f, r.asks)
  /\ configs' = Applied(r.calls, t, i, u)
  /\ Answered(h)
  /\ UNCHANGED <<now, oauth, unspent>>

\* A 403, a body that does not parse, a REST request without the version;
\* the payment stays settled.
TurnedAway(h) ==
  /\ handler[h].phase = "paid"
  /\ Refused(h)
  /\ UNCHANGED <<now, oauth, unspent, configs>>

\* The process restarts: everything but the signing secret was in memory,
\* so that no payment minted before is known, and every refresh token counts
\* as revoked.
Restart ==
  /\ store' = NoTokens
  /\ unspent' = 0
  /\ configs' = NoConfigs
  /\ handler' = [h \in Handlers |-> Blank]
  /\ UNCHANGED <<now, jwts, replayed>>

Next ==
  \/ Tick
  \/ Restart
  \/ \E h \in Handlers, k \in Keys, s \in Requests :
       ClientCredentials(h, k, s)
  \/ \E h \in Handlers : RefreshTokenStored(h)
  \/ \E h \in Handlers, t \in Thumbprints : RefreshGrant(h, t)
  \/ \E h \in Handlers : Rotate(h)
  \/ \E h \in Handlers, t \in Thumbprints : RevokeToken(h, t)
  \/ \E h \in Handlers, k \in Keys \cup {NoKey}, t \in 0 .. Len(jwts) :
       AuthenticateAndPay(h, k, t)
  \/ \E h \in Handlers, r \in Routes,
        t \in Tasks, i \in ConfigIds, u \in Urls :
       r.calls \in Methods /\ Dispatch(h, r, t, i, u)
  \/ \E h \in Handlers : TurnedAway(h)

Spec == Init /\ [][Next]_vars

-----------------------------------------------------------------------------

(***************************************************************************)
(* Of the refresh tokens that descend from one another at most one can be  *)
(* exchanged, though exchanges overlap; and once a used-up one has been    *)
(* presented, none of them ever again (token-store.ts, rotate).            *)
(***************************************************************************)
RefreshFamilies ==
  \A f \in Thumbprints :
    LET live == {t \in Kept(store) : store[t].family = f /\ ~store[t].revoked} IN
    /\ Cardinality(live) <= 1
    /\ f \in replayed => live = {}

GivenOut == {t \in DOMAIN jwts : jwts[t].type = "refresh"}

(***************************************************************************)
(* The OAuth routes and the token store give out chains of refresh tokens  *)
(* as TokenChains promises them, though a grant is served in two steps and *)
(* other exchanges, revocations, expiry and restarts come between them     *)
(* (oauth-server.ts, token-store.ts): no chain goes on from two tokens, or *)
(* after it ended, or for somebody else.                                   *)
(***************************************************************************)
Chains == INSTANCE TokenChains WITH
  given <- GivenOut, chain <- Continued(store)

ImplementsChains == Chains!Spec

(***************************************************************************)
(* However often it is renewed, a token admits exactly the agents of the   *)
(* key it was first issued for, and never has the admin scope.  An empty   *)
(* allowlist would admit every agent (oauth-server.ts).                    *)
(***************************************************************************)
TokensInheritTheKey ==
  \A n \in DOMAIN jwts :
    /\ jwts[n].subject \in EnabledKeys
    /\ jwts[n].agents = AllowedAgents(jwts[n].subject)
    /\ "admin" \notin jwts[n].scopes

(***************************************************************************)
(* The notification configurations of a task change only by a request that *)
(* came with an API key and paid, since no token reaches the scope those   *)
(* methods take (auth-middleware.ts, oauth-server.ts).                     *)
(***************************************************************************)
ConfigsChangedByKeyHolders ==
  [][configs' # configs /\ ~Restart =>
       \E h \in Handlers : /\ handler[h].phase = "paid"
                           /\ handler[h].token = 0
                           /\ handler[h].key \in EnabledKeys
                           /\ handler'[h].phase = "done"]_vars
=============================================================================

----------------------------- MODULE RateLimit -----------------------------
(***************************************************************************)
(* RateLimiter: the times of the requests each caller was allowed, pruned  *)
(* to the window as requests come in.  A2AServer.fetch asks it before      *)
(* anything else, of every request but a GET.  It reads a clock of its     *)
(* own, performance.now, which starts with the process.                    *)
(***************************************************************************)
EXTENDS Integers, Sequences, FiniteSets

CONSTANTS Callers,       \* what resolveCaller tells apart
          WindowMs,
          MaxRequests,
          LimiterTime    \* bound

ASSUME LimiterAssumption ==
  /\ WindowMs \in Nat \ {0} /\ MaxRequests \in Nat \ {0}
  /\ LimiterTime \in Nat

VARIABLES uptime,
          windows,
          allowed,       \* history: when each caller was allowed
          retryAt        \* history: when the last refusal of each says to retry

limiterVars == <<uptime, windows, allowed, retryAt>>

LimiterInit ==
  /\ uptime = 0
  /\ windows = [c \in Callers |-> <<>>]
  /\ allowed = windows
  /\ retryAt = [c \in Callers |-> 0]

TimePasses ==
  /\ uptime < LimiterTime
  /\ uptime' = uptime + 1
  /\ UNCHANGED <<windows, allowed, retryAt>>

\* The number of S that n numbers of S are not greater than.
Nth(S, n) == CHOOSE i \in S : Cardinality({j \in S : j <= i}) = n

\* The requests in the window, in the order they are kept in.
Alive(c) ==
  LET kept == {i \in DOMAIN windows[c] : windows[c][i] > uptime - WindowMs}
  IN  [n \in 1 .. Cardinality(kept) |-> windows[c][Nth(kept, n)]]

\* Fault: one request too many.
AllowsOneMore(c) == Len(Alive(c)) <= MaxRequests

Allows(c) == Len(Alive(c)) < MaxRequests

\* check(), allowed: the window is pruned and the request recorded.
Allow(c) ==
  /\ Allows(c)
  /\ windows' = [windows EXCEPT ![c] = Append(Alive(c), uptime)]
  /\ allowed' = [allowed EXCEPT ![c] = Append(@, uptime)]
  /\ UNCHANGED <<uptime, retryAt>>

\* check(), refused, and the snapshot the server logs: every window that is
\* not out of date altogether is pruned.  Retry-After is when the oldest
\* request leaves the window.
Refuse(c) ==
  /\ ~Allows(c)
  /\ windows' = [e \in Callers |-> IF Alive(e) = <<>> THEN windows[e] ELSE Alive(e)]
  /\ retryAt' = [retryAt EXCEPT ![c] = Alive(c)[1] + WindowMs]
  /\ UNCHANGED <<uptime, allowed>>

LimiterNext ==
  \/ TimePasses
  \/ \E c \in Callers : Allow(c)
  \/ \E c \in Callers : Refuse(c)

LimiterSpec == LimiterInit /\ [][LimiterNext]_limiterVars

-----------------------------------------------------------------------------

LimiterTypeOK ==
  /\ uptime \in 0 .. LimiterTime
  /\ windows \in [Callers -> Seq(0 .. LimiterTime)]
  /\ allowed \in [Callers -> Seq(0 .. LimiterTime)]
  /\ retryAt \in [Callers -> 0 .. LimiterTime + WindowMs]

(***************************************************************************)
(* In no window of WindowMs is a caller allowed more than MaxRequests      *)
(* requests, whatever was pruned in between, by its own requests or by the *)
(* snapshots other callers' refusals take; and a caller that waits as long *)
(* as its refusal says is not refused for it again (rate-limit.ts).        *)
(***************************************************************************)
RateBound ==
  \A c \in Callers :
    /\ \A from \in 0 .. LimiterTime :
         Cardinality({n \in DOMAIN allowed[c] :
                        allowed[c][n] \in from .. from + WindowMs - 1}) <= MaxRequests
    /\ uptime = retryAt[c] /\ (\A n \in DOMAIN allowed[c] : allowed[c][n] < uptime)
         => Allows(c)
=============================================================================

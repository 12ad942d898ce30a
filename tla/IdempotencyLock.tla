--------------------------- MODULE IdempotencyLock ---------------------------
(***************************************************************************)
(* The table of IdempotencyLock (src/adapters/idempotency-lock.ts) as a    *)
(* value: a function from the event ids seen to the time each was taken.   *)
(***************************************************************************)
EXTENDS Integers, TLC

NoLocks == << >>

\* isLocked, and the answer acquire gives: taken less than ttl ago.
Held(locks, id, now, ttl) == id \in DOMAIN locks /\ now - locks[id] < ttl

\* Fault: a lock that has run out is won again without being renewed.
AcquiredUnrenewed(locks, id, now) ==
  IF id \in DOMAIN locks THEN locks ELSE (id :> now) @@ locks

\* A winning acquire: the first one, or the first after the lock ran out.
Acquired(locks, id, now) ==
  [k \in DOMAIN locks \cup {id} |-> IF k = id THEN now ELSE locks[k]]

\* gc, which every snapshot begins with.
Collected(locks, now, ttl) ==
  [id \in {k \in DOMAIN locks : Held(locks, k, now, ttl)} |-> locks[id]]
==============================================================================

----------------------------- MODULE TokenStore -----------------------------
(***************************************************************************)
(* TokenStore: the records of the refresh tokens that were issued, by      *)
(* thumbprint.  A value and its operations.  family is history: the first  *)
(* token of the chain of rotations a token belongs to.                     *)
(***************************************************************************)
EXTENDS Integers

CONSTANTS Subjects,
          MaxTokens,     \* bound
          NoRecord

Thumbprints == 1 .. MaxTokens

Record == [subject : Subjects, expiresAt : Nat, revoked : BOOLEAN,
           parent : 0 .. MaxTokens, family : Thumbprints]

ASSUME TokenStoreAssumption == MaxTokens \in Nat /\ NoRecord \notin Record

NoTokens == [t \in Thumbprints |-> NoRecord]

Kept(store) == {t \in Thumbprints : store[t] # NoRecord}

\* store(), for the first token of a chain.
Stored(store, t, subject, expiresAt) ==
  [store EXCEPT ![t] = [subject |-> subject, expiresAt |-> expiresAt,
                        revoked |-> FALSE, parent |-> 0, family |-> t]]

\* Fault: the old token may have been revoked while the new one was made.
RotatesUnseen(store, old) == old \in Kept(store)

Rotates(store, old) == old \in Kept(store) /\ ~store[old].revoked

\* rotate(), where it does not return null.
Rotated(store, old, new, expiresAt) ==
  [store EXCEPT ![old].revoked = TRUE,
                ![new] = [store[old] EXCEPT !.parent = old, !.revoked = FALSE,
                                            !.expiresAt = expiresAt]]

\* revoke()
Revoked(store, t) ==
  IF t \in Kept(store) THEN [store EXCEPT ![t].revoked = TRUE] ELSE store

\* Fault: tokens that nobody exchanged yet are passed over.
RevokedRotated(store, subject) ==
  [t \in Thumbprints |->
     IF t \in Kept(store) /\ store[t].subject = subject /\ store[t].parent > 0
     THEN [store[t] EXCEPT !.revoked = TRUE] ELSE store[t]]

\* Every token of the subject.
RevokedForSubject(store, subject) ==
  [t \in Thumbprints |->
     IF t \in Kept(store) /\ store[t].subject = subject
     THEN [store[t] EXCEPT !.revoked = TRUE] ELSE store[t]]

\* isRevoked(): unknown, revoked or expired.
IsRevoked(store, t, now) ==
  t \in Kept(store) => store[t].revoked \/ store[t].expiresAt < now

\* Of each family the token that can still be exchanged, for the properties.
Exchangeable(store) == {t \in Kept(store) : ~store[t].revoked}

Continued(store) ==
  [f \in {store[t].family : t \in Exchangeable(store)} |->
     LET t == CHOOSE u \in Exchangeable(store) : store[u].family = f
     IN [token |-> t, subject |-> store[t].subject]]
=============================================================================

---------------------------- MODULE TokenChains ----------------------------
(***************************************************************************)
(* What a client is promised about its refresh tokens, without a clock,    *)
(* requests in progress, access tokens or records of what was used up.  A  *)
(* chain begins with a token nobody had before; the token that continues   *)
(* it takes the place of the one it was exchanged for and belongs to the   *)
(* same subject; a chain that has ended never goes on.  A token that is    *)
(* presented in vain ends every chain of its subject.                      *)
(***************************************************************************)
CONSTANTS Subjects, Thumbprints

VARIABLES given,     \* the refresh tokens given out so far
          chain,     \* of each chain that can go on, by its first token: the
                     \* one token that continues it, and whose it is
          replayed   \* the chains a token was presented of in vain

vars == <<given, chain, replayed>>

Init ==
  /\ given = {}
  /\ chain = [f \in {} |-> f]
  /\ replayed = {}

Begin(t, k) ==
  /\ t \notin given
  /\ given' = given \cup {t}
  /\ chain' = [f \in DOMAIN chain \cup {t} |->
                 IF f = t THEN [token |-> t, subject |-> k] ELSE chain[f]]
  /\ UNCHANGED replayed

Exchange(f, t) ==
  /\ f \in DOMAIN chain
  /\ t \notin given
  /\ given' = given \cup {t}
  /\ chain' = [chain EXCEPT ![f].token = t]
  /\ UNCHANGED replayed

Without(fs) == [f \in DOMAIN chain \ fs |-> chain[f]]

\* A revocation, or a restart of the process.
End(fs) ==
  /\ chain' = Without(fs)
  /\ UNCHANGED <<given, replayed>>

ChainsOf(k) == {f \in DOMAIN chain : chain[f].subject = k}

Replay(f, k) ==
  /\ f \in given
  /\ f \in DOMAIN chain => f \in ChainsOf(k)
  /\ chain' = Without(ChainsOf(k))
  /\ replayed' = replayed \cup {f}
  /\ UNCHANGED given

Next ==
  \/ \E t \in Thumbprints, k \in Subjects : Begin(t, k)
  \/ \E f, t \in Thumbprints : Exchange(f, t)
  \/ \E fs \in SUBSET Thumbprints : End(fs)
  \/ \E f \in Thumbprints, k \in Subjects : Replay(f, k)

Spec == Init /\ [][Next]_vars
=============================================================================

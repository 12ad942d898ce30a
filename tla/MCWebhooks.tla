----------------------------- MODULE MCWebhooks ------------------------------
(* Webhooks on a small instance; the events are interchangeable. *)
EXTENDS Webhooks
CONSTANTS e1, e2
MCEvents == {e1, e2}
MCSymmetry == Permutations(MCEvents)
==============================================================================

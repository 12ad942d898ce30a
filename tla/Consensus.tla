------------------------------ MODULE Consensus ------------------------------
(***************************************************************************)
(* How several agents' answers to one task become one: the scores of       *)
(* src/core/cognitive-loop.ts, and the verdicts that the verification      *)
(* agent (src/core/verification.ts) and the router's runVerification and   *)
(* executeConsensus (src/core/tool-router.ts) draw from them.              *)
(*                                                                         *)
(* Scores are in ten-thousandths: a share in hundredths times a weight in  *)
(* hundredths.  An answer is what its score depends on: the success rate   *)
(* on its agent's card, whether it is long, the share of the task's words  *)
(* in it, and the share of the card's tags in it.                          *)
(***************************************************************************)
EXTENDS Integers, Sequences, FiniteSets

CONSTANTS Rates, Shares,  \* in hundredths
          Threshold,      \* consensusThreshold, in ten-thousandths
          MinAgents,      \* minAgents
          MaxInputs,      \* bound
          Missing         \* no success rate, no tags

ASSUME ConsensusAssumption ==
  /\ Rates \cup Shares \subseteq 0..100 /\ Missing \notin 0..100
  /\ Threshold \in Nat /\ MinAgents \in Nat \ {0} /\ MaxInputs \in Nat

Answers == [rate : Rates \cup {Missing}, long : BOOLEAN, relevance : Shares,
            tags : Shares \cup {Missing}]

VARIABLE ballot

\* winner 0: none of the answers.
NoVerdict == [consensus |-> FALSE, contested |-> FALSE, confidence |-> 0,
              winner |-> 0]
NoBallot == [phase |-> "none", by |-> "none", inputs |-> << >>,
             verdict |-> NoVerdict, text |-> "none"]

ConsensusInit == ballot = NoBallot

Weighted(share, weight) == IF share = Missing THEN 0 ELSE share * weight

\* scoreResponse.
ScoreResponse(a) ==
  Weighted(a.rate, 40) + (IF a.long THEN 2000 ELSE 0)
    + Weighted(a.relevance, 30) + Weighted(a.tags, 10)

\* Fault: the answers stay in the order they came in.
RankedAsGiven(inputs) == [k \in DOMAIN inputs |-> k]

\* The inputs by score, ties in the order they came in.
Ranked(inputs) ==
  LET above(i) == {j \in DOMAIN inputs :
                     \/ ScoreResponse(inputs[j]) > ScoreResponse(inputs[i])
                     \/ /\ ScoreResponse(inputs[j]) = ScoreResponse(inputs[i])
                        /\ j < i}
  IN [k \in DOMAIN inputs |->
        CHOOSE i \in DOMAIN inputs : Cardinality(above(i)) = k - 1]

\* evaluate: the best answer and its score.
Evaluated(inputs) ==
  LET best == Ranked(inputs)[1] IN
  [NoVerdict EXCEPT !.confidence = ScoreResponse(inputs[best]), !.winner = best]

\* The threshold applied to the best score.
Thresholded(v) == [v EXCEPT !.consensus = v.confidence >= Threshold,
                            !.contested = v.confidence < Threshold]

-----------------------------------------------------------------------------
(* Who calls a vote.  The answers are gathered, or come in the request; an *)
(* agent that fails gives none.                                            *)

Vote(by, inputs, verdict) ==
  ballot' = [NoBallot EXCEPT !.phase = "evaluated", !.by = by,
                             !.inputs = inputs, !.verdict = verdict]

\* A verdict that needs no evaluation.
Decide(by, inputs, verdict) ==
  ballot' = [NoBallot EXCEPT !.phase = "decided", !.by = by, !.inputs = inputs,
                             !.verdict = verdict, !.text = "as given"]

\* VerificationAgent.verify: too few agents are contested.
Verify(inputs) ==
  /\ ballot.phase = "none"
  /\ IF Len(inputs) < MinAgents
     THEN Decide("agent", inputs, [NoVerdict EXCEPT !.contested = TRUE])
     ELSE Vote("agent", inputs, Thresholded(Evaluated(inputs)))

\* The specialist's answer and at most one peer's.  Without a peer it is taken
\* as consensus, of half a confidence.
RunVerification(inputs) ==
  /\ ballot.phase = "none" /\ Len(inputs) \in {1, 2}
  /\ IF Len(inputs) = 1
     THEN Decide("router", inputs, [NoVerdict EXCEPT !.consensus = TRUE,
                                      !.confidence = 5000, !.winner = 1])
     ELSE Vote("router", inputs, Thresholded(Evaluated(inputs)))

\* No threshold is applied.  Only one agent to ask, or none: its answer is
\* passed on.  Several, without a cognitive loop: the first answer.
ExecuteConsensus(inputs) ==
  /\ ballot.phase = "none"
  /\ \/ Len(inputs) < 2 /\ Decide("consensus", inputs, NoVerdict)
     \/ /\ inputs # << >>
        /\ \/ Decide("consensus", inputs, [NoVerdict EXCEPT !.winner = 1])
           \/ Vote("consensus", inputs, Evaluated(inputs))

\* buildSynthesis: a model's text, or the winner's if there is no model or it
\* fails.
BuildSynthesis ==
  /\ ballot.phase = "evaluated"
  /\ \E text \in {"synthesis", "winner"} :
       ballot' = [ballot EXCEPT !.phase = "decided", !.text = text]

ConsensusNext ==
  \/ \E n \in 0..MaxInputs : \E inputs \in [1..n -> Answers] :
       Verify(inputs) \/ RunVerification(inputs) \/ ExecuteConsensus(inputs)
  \/ BuildSynthesis

-----------------------------------------------------------------------------

Scored == ballot.phase # "none" /\ ballot.text # "as given"

Convincing == {i \in DOMAIN ballot.inputs :
                 ScoreResponse(ballot.inputs[i]) >= Threshold}

(***************************************************************************)
(* A verdict rests on the answers alone, whatever order they came in: the  *)
(* winner of a vote is one that nobody beats; consensus means that some    *)
(* answer meets the threshold, or is the router's verdict on a single one  *)
(* (tool-router.ts:316); contested means that none does, or that there     *)
(* were too few, and no verification ends in neither.  Above 0.6 it takes  *)
(* an agent with a success rate on its card to convince.                   *)
(***************************************************************************)
VerdictsRestOnAnswers ==
  LET v == ballot.verdict IN
  /\ Scored => \A i \in DOMAIN ballot.inputs :
       ScoreResponse(ballot.inputs[i]) <= ScoreResponse(ballot.inputs[v.winner])
  /\ v.consensus =>
       Convincing # {} \/ (ballot.by = "router" /\ Len(ballot.inputs) = 1)
  /\ v.contested => Convincing = {} \/ Len(ballot.inputs) < MinAgents
  /\ ballot.by \in {"agent", "router"} => v.contested = ~v.consensus
  /\ Threshold > 6000 =>
       \A i \in Convincing : ballot.inputs[i].rate \notin {Missing, 0}
=============================================================================

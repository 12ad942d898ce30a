------------------------------- MODULE Runtime -------------------------------
(***************************************************************************)
(* The services around task execution: the plugins and the realtime server *)
(* of the orchestrator, payments, consensus, the specialist agents with    *)
(* their tool calls, and the editor's bridge.  They share no state; where  *)
(* they meet, one calls another in one tick (an agent's event is broadcast *)
(* and dispatched, EmitBridged) or takes its answer as one of the outcomes *)
(* modelled (a tool call of a specialist).  So nothing is lost if a        *)
(* behaviour exercises one of them.                                        *)
(***************************************************************************)
EXTENDS Plugins, Realtime, X402, Consensus, Specialists, Elicitation,
        StdioBridge

CONSTANT Services  \* the services a behaviour may exercise

ASSUME RuntimeAssumption ==
  /\ NoPlugin \notin Plugins /\ NoCall \notin ToolCalls
  /\ NoSession \notin Sessions
  /\ {MaxCalls, MaxEmits} \subseteq Nat

VARIABLE exercised

paymentVars == vars

\* The services that rest are in one of their initial states.
RuntimeInit ==
  /\ exercised \in Services
  /\ PluginsInit /\ RealtimeInit /\ ConsensusInit /\ BridgeInit
  /\ Init /\ (exercised # "payments" =>
                ~chain /\ \A a \in Workers : card[a] = NoPrice)
  /\ SpecialistsInit /\ (exercised # "specialists" => "oracle" \in DOMAIN process)
  /\ ElicitationInit /\ (exercised # "elicitation" => port = "null")

RuntimeNext ==
  /\ UNCHANGED exercised
  /\ \/ exercised = "plugins" /\ PluginsNext
     \/ exercised # "plugins" /\ UNCHANGED pluginVars
  /\ \/ exercised = "realtime" /\ RealtimeNext
     \/ exercised # "realtime" /\ UNCHANGED realtimeVars
  /\ \/ exercised = "payments" /\ Next
     \/ exercised # "payments" /\ UNCHANGED paymentVars
  /\ \/ exercised = "consensus" /\ ConsensusNext
     \/ exercised # "consensus" /\ UNCHANGED ballot
  /\ \/ exercised = "specialists" /\ SpecialistsNext
     \/ exercised # "specialists" /\ UNCHANGED specialistVars
  /\ \/ exercised = "elicitation" /\ ElicitationNext
     \/ exercised # "elicitation" /\ UNCHANGED elicitationVars
  /\ \/ exercised = "bridge" /\ BridgeNext
     \/ exercised # "bridge" /\ UNCHANGED bridgeVars

RuntimeSpec ==
  RuntimeInit /\ [][RuntimeNext]_<<exercised, pluginVars, realtimeVars,
                                   paymentVars, ballot, specialistVars,
                                   elicitationVars, bridgeVars>>
==============================================================================

------------------------------ MODULE Gateway ------------------------------
(***************************************************************************)
(* The way into an A2AServer: the rate limiter, what is behind it, and the *)
(* format of what is said.  They share no state, and reading a letter is a *)
(* pure function, so a behaviour exercises one of the three; a request the *)
(* limiter refuses, or whose letter cannot be read, is one that changes    *)
(* nothing in FrontDoor.                                                   *)
(***************************************************************************)
EXTENDS FrontDoor, RateLimit, Wire

VARIABLE exercised

GatewayInit ==
  /\ exercised \in {"limiter", "door", "format"}
  /\ Init
  /\ LimiterInit
  /\ WireInit

GatewayNext ==
  /\ UNCHANGED exercised
  /\ \/ exercised = "limiter" /\ LimiterNext /\ UNCHANGED <<vars, letter>>
     \/ exercised = "door" /\ Next /\ UNCHANGED <<limiterVars, letter>>
     \/ exercised = "format" /\ WireNext /\ UNCHANGED <<vars, limiterVars>>

GatewaySpec ==
  GatewayInit /\ [][GatewayNext]_<<vars, limiterVars, letter, exercised>>
=============================================================================

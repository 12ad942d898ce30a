------------------------------ MODULE MCRuntime ------------------------------
(* Runtime on a small instance: a delegator and one other agent, three     *)
(* lines of the editor, two of everything else.  Only what the larger      *)
(* state spaces consist of is exchanged: the plugins, the payments and the *)
(* lines.                                                                  *)
EXTENDS Runtime
CONSTANTS p1, p2, d1, d2, c1, c2, r1, r2, t1, t2, l1, l2, l3, s1, s2
MCPlugins == {p1, p2}
MCConnections == {c1, c2}
MCRooms == {r1, r2}
MCTasks == {t1, t2}
MCToolCalls == {t1, t2}
MCDelegations == {d1, d2}
MCLines == {l1, l2, l3}
MCCards == {[flat |-> 2, settlement |-> 0], [flat |-> 0, settlement |-> 2]}
MCSessions == {s1, s2}
MCServed == RunAgents \cup {"jarvis", "scientist", "llm"}
MCSymmetry == Permutations(MCPlugins) \cup Permutations(MCLines)
                \cup Permutations(MCDelegations)
==============================================================================

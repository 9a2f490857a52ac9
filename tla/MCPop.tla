------------------------------- MODULE MCPop -------------------------------
(* Pop with two users, two sockets and two slots in the queue; four pages for *)
(* frames, so that the queue can be full while both others hold a frame.      *)
EXTENDS Pop, TLC

CONSTANTS u1, u2, n1, n2, p1, p2, p3, p4

MCUsers == {u1, u2}
MCPorts == {n1, n2}
MCStatic == {NoPage}
MCPages == {NoPage, p1, p2, p3, p4}
Symmetry == Permutations(MCUsers) \cup Permutations(MCPorts)
                \cup Permutations(MCPages \ MCStatic)

\* Nothing is explored behind the replacement of a frame that is being discarded.
Bound == ~overtaken
=============================================================================

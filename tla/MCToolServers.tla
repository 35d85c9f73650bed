--------------------------- MODULE MCToolServers ----------------------------
(* Two servers that both list one tool, and one of them a name that the    *)
(* code interpreter has too.                                               *)
EXTENDS ToolServers, TLC

CONSTANTS s1, s2, c1, c2, c3

MCOffers == (s1 :> {"search"}) @@ (s2 :> {"search", "code"})
=============================================================================

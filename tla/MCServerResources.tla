-------------------------- MODULE MCServerResources --------------------------
(* One account with two sessions; the operations that can block each other, *)
(* and one that only reads.                                                 *)
EXTENDS ServerResources, TLC

CONSTANTS u1, s1, s2

MCOwnerOf == (s1 :> u1) @@ (s2 :> u1)
MCRank == (s1 :> 1) @@ (s2 :> 2) @@ (u1 :> 3)
MCInputs == {[kind |-> "rotate", rows |-> {s1, u1}],
             [kind |-> "burn", rows |-> {s1, s2}],
             [kind |-> "delete", rows |-> {s1, s2, u1}],
             [kind |-> "delete", rows |-> {s2, u1}],
             [kind |-> "read", rows |-> {}]}
=============================================================================

------------------------------ MODULE MCSavedPlan ------------------------------
(***************************************************************************)
(* A plan of two nodes, the second behind the first or behind itself.      *)
(***************************************************************************)
EXTENDS SavedPlan, TLC

CONSTANTS n1, n2

MCNode == {n1, n2}
MCGraph == {[nodes |-> MCNode, edges |-> {<<n1, n2>>}],
            [nodes |-> MCNode, edges |-> {<<n2, n2>>}]}
MCSettable == {"draft"}
MCSymmetry == Permutations(Exec)
================================================================================

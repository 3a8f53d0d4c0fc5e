------------------------------ MODULE MCApproval ------------------------------
(***************************************************************************)
(* Executions of one workflow that may or may not need a review.  The      *)
(* review leads on the rejected side to a task with two others behind it,  *)
(* side by side, and on the approved side to two tasks in a row and a      *)
(* second approval (confirm) before two more; Adjacent leaves out the two  *)
(* tasks between the approvals.                                            *)
(***************************************************************************)
EXTENDS Approval, TLC

CONSTANTS start, route, review, draft, edit, confirm, stage, publish, undo, tell, note, end, Adjacent

Drafting == IF Adjacent THEN {} ELSE {draft, edit}
MCTask == {stage, publish, undo, tell, note} \cup Drafting
MCNode == {start, route, review, confirm, end} \cup MCTask
MCYes == (review :> IF Adjacent THEN confirm ELSE draft) @@ (confirm :> stage)
MCNo == (review :> undo) @@ (confirm :> end)
MCEdge ==
    {<<start, route>>, <<route, review>>, <<route, end>>,
     <<stage, publish>>, <<publish, end>>, <<undo, tell>>, <<tell, end>>,
     <<undo, note>>, <<note, end>>}
        \cup {<<a, MCYes[a]>> : a \in {review, confirm}}
        \cup {<<a, MCNo[a]>> : a \in {review, confirm}}
        \cup (IF Adjacent THEN {} ELSE {<<draft, edit>>, <<edit, confirm>>})

\* The hypotheses of the theorems about the graph (ApprovalProofs).
ASSUME GraphAssumption == BranchesApart /\ (~Adjacent => ReviewsApart)
=============================================================================

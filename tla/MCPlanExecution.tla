---------------------------- MODULE MCPlanExecution ----------------------------
(***************************************************************************)
(* Plans over three ids for TLC: every shape that matters (a chain, a fork *)
(* and a join, three in parallel, a circle, a circle with a step before it *)
(* and one behind it, a dependency on no step of the plan, the one-step    *)
(* fallback), with all, one or none of the steps critical.                 *)
(***************************************************************************)
EXTENDS PlanExecution

CONSTANTS a, b, c

Deps(da, db, dc) == [s \in {a, b, c} |-> CASE s = a -> da [] s = b -> db [] s = c -> dc]
Shape ==
    {[steps |-> {a, b, c}, deps |-> Deps({}, x, y)] :
        x \in {{}, {a}, {c}}, y \in {{}, {a}, {b}, {a, b}}}
    \cup {[steps |-> {a, b, c}, deps |-> Deps({c}, {a}, {b})],
          [steps |-> {b, c}, deps |-> Deps({}, {a}, {b})],
          [steps |-> {a}, deps |-> Deps({}, {}, {})]}
MCPlan ==
    {[steps |-> q.steps, deps |-> q.deps, critical |-> k \cap q.steps] :
        q \in Shape, k \in {{a, b, c}, {b}, {}}}
=============================================================================

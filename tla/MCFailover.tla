------------------------------ MODULE MCFailover ------------------------------
(***************************************************************************)
(* Failover instances for TLC: two engine requests and one stream over two *)
(* providers.  The engine requests both start with pa, which has one       *)
(* permit, so that one of them waits at the semaphore; one of them and the *)
(* stream can go on to pb.  The breaker has the provider configuration     *)
(* (one failure opens, two successes close).                               *)
(***************************************************************************)
EXTENDS ProviderFailover

CONSTANTS e1, e2, w1, pa, pb

MCKind == [r \in {e1, e2, w1} |-> IF r = w1 THEN "stream" ELSE "engine"]
MCChain == [r \in {e1, e2, w1} |-> IF r = e2 THEN <<pa>> ELSE <<pa, pb>>]
=============================================================================

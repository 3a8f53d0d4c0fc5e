-------------------------- MODULE MCStdioTransport --------------------------
(* Two threads, each of which calls one method of one transport. *)
EXTENDS StdioTransport, TLC

Symmetry == Permutations(Thread)
=============================================================================

---------------------------- MODULE MCPersistency ----------------------------
(* Two clients on a store of two keys, with every provider. *)
EXTENDS Persistency, TLC

CONSTANTS c1, c2

\* Clients differ in nothing but their name.
ClientSymmetry == Permutations({c1, c2})
=============================================================================

--------------------------- MODULE MCRelaySession ---------------------------
(* Small instances of RelaySession for TLC.                                *)
EXTENDS RelaySession, TLC

Symmetry == Permutations(Agents) \cup Permutations(Clients)
=============================================================================

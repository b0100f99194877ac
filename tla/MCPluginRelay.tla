---------------------------- MODULE MCPluginRelay ----------------------------
(***************************************************************************)
(* Model checking PluginRelay: the constants are given in the .cfg files.  *)
(***************************************************************************)
EXTENDS PluginRelay, TLC

Symmetry == Permutations(Clients)

(* Narrows a search to the behaviours in which the first connection stays  *)
(* up on both sides and the server drops none of the others.               *)
FirstStays == nextPeer > 1 => conn[owner[1]] = 1 /\ peers = 1..nextPeer - 1

===============================================================================

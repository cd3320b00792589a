-------------------------- MODULE MCServerClients --------------------------
(***************************************************************************)
(* Three clients are a foreground client, the one that takes its place and *)
(* a third that is dropped meanwhile, or two that want the same terminal.  *)
(***************************************************************************)
EXTENDS ServerClients, TLC

Symmetry == Permutations(Clients) \cup Permutations(Terminals) \cup Permutations(Sizes)
=============================================================================

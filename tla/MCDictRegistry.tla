--------------------------- MODULE MCDictRegistry ---------------------------
(* Small instances of DictRegistry. *)
EXTENDS DictRegistry, TLC

Symmetry == Permutations(Name) \cup Permutations(Client) \cup Permutations(Address)
=============================================================================

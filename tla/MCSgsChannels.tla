---------------------------- MODULE MCSgsChannels ----------------------------
(* Instance of SgsChannels: ids and names are interchangeable. *)
EXTENDS SgsChannels

Symmetry == Permutations(Ids) \cup Permutations(Names)

=============================================================================

--------------------------- MODULE MCUserDirectory ---------------------------
(* Instances of UserDirectory for TLC. *)
EXTENDS UserDirectory, TLC

Symmetries == Permutations(Task) \cup Permutations(User) \cup Permutations(Object)

\* An object nobody refers to is written before it is read again.
LiveState ==
    <<users, cache, task, tokens, suspended,
      [o \in {x \in Object : Referenced(x)} |-> heap[o]]>>
=============================================================================

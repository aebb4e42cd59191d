------------------------------ MODULE MCIdentity ------------------------------
(***************************************************************************)
(* Small instances of Identity.                                            *)
(***************************************************************************)
EXTENDS Identity, TLC

\* Users, keys, names and handlers are interchangeable.
Symmetric == Permutations(Names) \cup Permutations(Ids)
                \cup Permutations(Keys) \cup Permutations(Tasks)
=============================================================================

--------------------------- MODULE MCDualDatabase ---------------------------
(***************************************************************************)
(* Small instances of DualDatabase.                                        *)
(***************************************************************************)
EXTENDS DualDatabase, TLC

CONSTANTS t1, t2, t3    \* the tables the routings below name

\* One replicated table.
OneTable == t1 :> "Both"

\* Two replicated tables: one pass lists the second after healing the first.
TwoTables == t1 :> "Both" @@ t2 :> "Both"

\* One table per routing target.
ThreeTargets == t1 :> "Both" @@ t2 :> "Postgres" @@ t3 :> "Aruaru"

\* Clients and keys are interchangeable; used in runs of safety properties.
Symmetric == Permutations(Clients) \cup Permutations(Healers) \cup Permutations(Valid)

=============================================================================

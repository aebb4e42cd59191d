--------------------------- MODULE MCHtmlPageCache ---------------------------
(***************************************************************************)
(* Small instances of HtmlPageCache.                                       *)
(***************************************************************************)
EXTENDS HtmlPageCache, TLC

\* Requests and keys are interchangeable; used in runs of safety properties.
Symmetric == Permutations(Clients) \cup Permutations(Keys)

\* How many lock identities can be in use at once, and one more.
Locks == 1 .. (Cardinality(Keys) + Cardinality(Tasks))
=============================================================================

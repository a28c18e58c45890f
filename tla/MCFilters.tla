----------------------------- MODULE MCFilters ------------------------------
(* Patterns and names of up to three characters.                           *)
EXTENDS Filters

Over(chars, n) == UNION {[1..k -> chars] : k \in 1..n}
MCNames == Over({"a", "b"}, 2)
MCTrees == {{}, MCNames}
MCPatterns == Over({"a", "b", "*", "?"}, 3)

=============================================================================

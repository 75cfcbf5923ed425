------------------------------ MODULE MCFilter ------------------------------
(* Small instances of Filter for TLC.                                      *)
EXTENDS Filter, TLC

\* Filters of a class, blocks and dictionaries are interchangeable.
Symmetry == Permutations(Lzma) \union Permutations(Blocks)
                \union Permutations(Dicts)
=============================================================================

--------------------------- MODULE MC_ConfigParse ---------------------------
(* ConfigParse with two keys and two names, which are interchangeable.      *)
EXTENDS ConfigParse, TLC
Interchangeable == Permutations(Keys) \cup Permutations(Names)
=============================================================================

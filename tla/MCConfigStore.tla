--------------------------- MODULE MCConfigStore ---------------------------
(* ConfigStore for TLC: engines, servers and payloads are interchangeable  *)
(* model values.                                                           *)
EXTENDS ConfigStore, TLC

Symmetry == Permutations(Engine) \union Permutations(Server)
            \union Permutations(Payload)
=============================================================================

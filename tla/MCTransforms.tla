---------------------------- MODULE MCTransforms ----------------------------
(* Transforms for TLC: a destination of every kind, two names of which one *)
(* is sanitised to the other, a configuration with metadata, and one with  *)
(* a variable, that the validator refuses under one name.                  *)
EXTENDS Transforms

CONSTANTS a, b, plain, flagged, variable,
          flat, nested, preset, custom, plainFile, p

MCSanitize(n) == a
MCBare(c)     == IF c = flagged THEN plain ELSE c
MCSubst(c)    == IF c = variable THEN plain ELSE c
MCKind(d) == CASE d = flat -> "flat" [] d = nested -> "nested" [] d = preset -> "preset"
               [] d = custom -> "custom" [] OTHER -> "file"
MCForeign   == {[for |-> [include |-> {nested}, exclude |-> {}], project |-> Absent],
                [for |-> [include |-> {"all"}, exclude |-> {flat}], project |-> p]}
MCRefused   == {<<b, variable>>}
=============================================================================

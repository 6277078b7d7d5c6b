--------------------------- MODULE MC_ReviewedPlay ----------------------------
(* Small instances of ReviewedPlay: two sessions of one run, two inputs. *)
EXTENDS ReviewedPlay, TLC

\* Sessions are interchangeable, and so are inputs when none is a probe.
Symmetry == Permutations(Sessions) \cup Permutations(Actions)

===============================================================================

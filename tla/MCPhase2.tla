------------------------------ MODULE MCPhase2 ------------------------------
(* Two sources, the lines of the first around those of the second, and one *)
(* text twice in a source.                                                 *)
EXTENDS Phase2, TLC

CONSTANTS s1, s2, a, b, c, synth

MCStaging == <<<<s1, a>>, <<s1, b>>, <<s2, a>>, <<s1, a>>, <<s1, c>>>>
ShortStaging == <<<<s1, a>>, <<s1, b>>, <<s2, a>>>>
OneSynthesis == {<<synth, a>>}

Symmetry == Permutations(Ideas)

=============================================================================

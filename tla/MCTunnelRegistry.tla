-------------------------- MODULE MCTunnelRegistry ---------------------------
(* The registry with a few sessions that compete for two host labels.      *)
EXTENDS TunnelRegistry

CONSTANTS a, b   \* the two labels

Raw(n, m, p) == [name |-> n, mixed |-> m, padded |-> p]

(* Lists that overlap in both orders, spell the same label twice, have     *)
(* nothing in them, or hold a label that folds to the empty string.        *)
MCHostLists ==
  { << >>,
    <<Raw(Blank, FALSE, TRUE)>>,
    <<Raw(a, FALSE, FALSE)>>,
    <<Raw(b, TRUE, FALSE)>>,
    <<Raw(a, FALSE, FALSE), Raw(b, FALSE, FALSE)>>,
    <<Raw(b, FALSE, TRUE), Raw(a, TRUE, FALSE)>>,
    <<Raw(a, FALSE, FALSE), Raw(a, TRUE, TRUE)>> }

MCTarget == {Raw(a, TRUE, FALSE), Raw(b, FALSE, TRUE), Raw(Blank, FALSE, FALSE)}
=============================================================================

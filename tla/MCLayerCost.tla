---------------------------- MODULE MCLayerCost -----------------------------
(* Small instances of LayerCost for TLC: costs up to 30, errors above. *)
EXTENDS LayerCost, TLC

CONSTANTS p1, p2

Symmetry == Permutations({p1, p2})

(* Small, large, and an error of the tiler. *)
MCTiles == {1, 14, ERROR_TILE_SPLIT_ZERO_CYC_OUTPUT}

MCDma == {2, 9, ERROR_INVALID_INPUT_CONFIGURATION}

MCInvalid == {ERROR_INVALID_LAYER_CONFIGURATION}
=============================================================================

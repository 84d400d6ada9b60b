--------------------------- MODULE MCProductCard ---------------------------
(* ProductCard with two rows, two cells and a product at each colour limit. *)
EXTENDS ProductCard, TLC

CONSTANTS c1, c2, o1, o2, o3, o4

MCCells   == {c1, c2}
MCObjects == {o1, o2, o3, o4}
MCRows    == 0..1
MCStocks  == {[days |-> 1, quantity |-> 0], [days |-> 6, quantity |-> 1]}

Symmetry == Permutations(MCCells) \cup Permutations(MCObjects)
=============================================================================

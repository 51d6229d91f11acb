------------------------------ MODULE MCTrade ------------------------------
\* Trade on an instance TLC can explore.
EXTENDS Trade, TLC

\* The model treats all players alike, and the items that are not bags.
Symmetry == Permutations(Players) \cup Permutations(Bags) \cup Permutations(Items \ Bags)
RowOfTiles == {0, 1, 3}
=============================================================================

---------------------------- MODULE MCCreatures -----------------------------
\* Creatures on an instance TLC can explore.
EXTENDS Creatures

Symmetry == Permutations(Monsters) \cup Permutations(Players)
=============================================================================

------------------------------ MODULE MCGroups ------------------------------
\* Groups on an instance TLC can explore.
EXTENDS Groups, TLC

\* The model treats alike the parties, and the players who are in none of the sets.
Symmetry ==
    Permutations(Players \ (Gamemasters \cup Reporters \cup Chatters \cup Custom))
        \cup Permutations(Parties)
=============================================================================

--------------------------- MODULE CreaturesProofs ---------------------------
(**********************************************************************************)
(* Theorems about Creatures, for any creatures, areas, orders and bounds.         *)
(*                                                                                *)
(* The operators of Creatures make one world out of another, so the lemmas say    *)
(* of each what it keeps of the world it is given.  Steady operations wake        *)
(* monsters, put them to rest and change whom they know; Waning ones also hurt,   *)
(* remove and separate creatures; Even says that no reference has come or gone    *)
(* without being counted.  All three are transitive, so a loop over spectators    *)
(* keeps them if each turn does; the Turns lemmas say what such a loop reaches.   *)
(*                                                                                *)
(* Balance is what a creature's useCount leaves to the spawn and the buckets      *)
(* when its other holders have been subtracted.  The inductive invariant, IInv,   *)
(* is that the world is Good (families agree, nobody in free memory holds         *)
(* anything, who is awake is checked, who attacks sees whom), that the Accounts   *)
(* of Balance are even, and that ToReleaseThings and the spawn's check are as     *)
(* they should.  Five of the run's invariants follow.                             *)
(*                                                                                *)
(* The sixth, who is noticed, needs one more conjunct, Alert, and one more        *)
(* relation, Mindful: nobody has come to be noticed, and nobody noticed has been  *)
(* forgotten.  Moves, placements and conversions break it for the creature they   *)
(* are about, and the turns of the spectators restore it one by one.              *)
(**********************************************************************************)
EXTENDS Creatures, RecursionLemmas

-----------------------------------------------------------------------------
(* Counting. *)

One(b) == IF b THEN 1 ELSE 0

\* The sets a creature is a member of: of the friends, the targets and the summons of others.
Befriending(K, c) == {m \in Creatures : c \in K[m].friends}
Targeting(K, c) == {m \in Creatures : c \in K[m].targets}
Mastering(K, c) == {m \in Creatures : c \in K[m].summons}

\* What useCount holds beyond the references that the creatures themselves show: those of buckets
\* and of spawns.
Balance(K, c) ==
    K[c].useCount - K[c].release - K[c].toAdd - One(K[c].stage = "in") - One(K[c].client)
    - Cardinality(Befriending(K, c)) - Cardinality(Targeting(K, c)) - Cardinality(Mastering(K, c))

Records == [
    stage : {"none", "in", "gone"}, area : Areas, alive : BOOLEAN,
    master : Creatures \cup {NoCreature}, summons : SUBSET Monsters,
    friends : SUBSET Creatures, targets : SUBSET Creatures,
    attacked : Creatures \cup {NoCreature},
    idle : BOOLEAN, masterInRange : BOOLEAN, check : BOOLEAN, listed : BOOLEAN,
    toAdd : Nat, release : Nat, client : BOOLEAN, useCount : Int]

Worlds == [Creatures -> Records]

\* A record with another useCount.
LEMMA OtherUseCount ==
    ASSUME NEW r \in Records, NEW n \in Int, NEW q, q = [r EXCEPT !.useCount = n]
    PROVE  /\ q \in Records /\ q.useCount = n /\ q = [r EXCEPT !.useCount = q.useCount]
           /\ q.stage = r.stage /\ q.area = r.area /\ q.alive = r.alive
           /\ q.master = r.master /\ q.summons = r.summons
           /\ q.friends = r.friends /\ q.targets = r.targets
           /\ q.attacked = r.attacked /\ q.idle = r.idle /\ q.masterInRange = r.masterInRange
           /\ q.check = r.check /\ q.listed = r.listed /\ q.toAdd = r.toAdd
           /\ q.release = r.release /\ q.client = r.client
BY DEF Records

LEMMA CreaturesFinite ==
    IsFiniteSet(Creatures) /\ NoCreature \notin Creatures
<1>0. IsFiniteSet(Players) /\ IsFiniteSet(Monsters)
  BY CreaturesAssumption
<1>1. IsFiniteSet(Players \cup Monsters)
  BY <1>0, FS_Union
<1> QED BY <1>1, CreaturesAssumption DEF Creatures

LEMMA CardinalityOfPart ==
    ASSUME NEW A \in SUBSET Creatures
    PROVE  IsFiniteSet(A) /\ Cardinality(A) \in Nat
BY CreaturesFinite, FS_Subset, FS_CardinalityType

LEMMA BalanceIsInt ==
    ASSUME NEW K \in Worlds, NEW c \in Creatures
    PROVE  Balance(K, c) \in Int
<1>1. /\ Cardinality(Befriending(K, c)) \in Int
      /\ Cardinality(Targeting(K, c)) \in Int
      /\ Cardinality(Mastering(K, c)) \in Int
      /\ One(K[c].stage = "in") \in Int /\ One(K[c].client) \in Int
  BY CardinalityOfPart DEF Befriending, Targeting, Mastering, One
<1>2. K[c].useCount \in Int /\ K[c].release \in Int /\ K[c].toAdd \in Int
  BY DEF Worlds, Records
<1> QED BY <1>1, <1>2 DEF Balance

\* Two sets that agree on all but one member.
LEMMA OneMember ==
    ASSUME NEW A \in SUBSET Creatures, NEW B \in SUBSET Creatures, NEW m,
           \A d \in Creatures : d # m => (d \in A <=> d \in B)
    PROVE  Cardinality(A) - One(m \in A) = Cardinality(B) - One(m \in B)
<1>1. A \ {m} = B \ {m}
  OBVIOUS
<1>2. /\ IsFiniteSet(A) /\ Cardinality(A) \in Nat
      /\ IsFiniteSet(B) /\ Cardinality(B) \in Nat
  BY CardinalityOfPart
<1>3. Cardinality(A \ {m}) = Cardinality(A) - One(m \in A)
  BY <1>2, FS_RemoveElement DEF One
<1>4. Cardinality(B \ {m}) = Cardinality(B) - One(m \in B)
  BY <1>2, FS_RemoveElement DEF One
<1> QED BY <1>1, <1>3, <1>4

\* An operation on the lists of one creature, seen from one that may be in them.
LEMMA BalanceStep ==
    ASSUME NEW K \in Worlds, NEW L \in Worlds, NEW c \in Creatures, NEW m \in Creatures,
           \A d \in Creatures \ {m} :
               /\ c \in L[d].friends <=> c \in K[d].friends
               /\ c \in L[d].targets <=> c \in K[d].targets
               /\ c \in L[d].summons <=> c \in K[d].summons
    PROVE  Balance(L, c) - Balance(K, c) =
             (L[c].useCount - K[c].useCount) - (L[c].release - K[c].release) - (L[c].toAdd - K[c].toAdd)
             - (One(L[c].stage = "in") - One(K[c].stage = "in")) - (One(L[c].client) - One(K[c].client))
             - (One(c \in L[m].friends) - One(c \in K[m].friends))
             - (One(c \in L[m].targets) - One(c \in K[m].targets))
             - (One(c \in L[m].summons) - One(c \in K[m].summons))
<1> DEFINE fK == Cardinality(Befriending(K, c))
           fL == Cardinality(Befriending(L, c))
           tK == Cardinality(Targeting(K, c))
           tL == Cardinality(Targeting(L, c))
           sK == Cardinality(Mastering(K, c))
           sL == Cardinality(Mastering(L, c))
<1>1. fK \in Nat /\ fL \in Nat /\ tK \in Nat /\ tL \in Nat /\ sK \in Nat /\ sL \in Nat
  BY CardinalityOfPart DEF Befriending, Targeting, Mastering
<1>2. fL - One(c \in L[m].friends) = fK - One(c \in K[m].friends)
  <2>1. \A d \in Creatures : d # m => (d \in Befriending(L, c) <=> d \in Befriending(K, c))
    BY DEF Befriending
  <2>2. Befriending(L, c) \in SUBSET Creatures /\ Befriending(K, c) \in SUBSET Creatures
    BY DEF Befriending
  <2>3. (m \in Befriending(L, c) <=> c \in L[m].friends) /\ (m \in Befriending(K, c) <=> c \in K[m].friends)
    BY DEF Befriending
  <2>4. fL - One(m \in Befriending(L, c)) = fK - One(m \in Befriending(K, c))
    BY <2>1, <2>2, OneMember
  <2> QED BY <2>3, <2>4 DEF One
<1>3. tL - One(c \in L[m].targets) = tK - One(c \in K[m].targets)
  <2>1. \A d \in Creatures : d # m => (d \in Targeting(L, c) <=> d \in Targeting(K, c))
    BY DEF Targeting
  <2>2. Targeting(L, c) \in SUBSET Creatures /\ Targeting(K, c) \in SUBSET Creatures
    BY DEF Targeting
  <2>3. (m \in Targeting(L, c) <=> c \in L[m].targets) /\ (m \in Targeting(K, c) <=> c \in K[m].targets)
    BY DEF Targeting
  <2>4. tL - One(m \in Targeting(L, c)) = tK - One(m \in Targeting(K, c))
    BY <2>1, <2>2, OneMember
  <2> QED BY <2>3, <2>4 DEF One
<1>4. sL - One(c \in L[m].summons) = sK - One(c \in K[m].summons)
  <2>1. \A d \in Creatures : d # m => (d \in Mastering(L, c) <=> d \in Mastering(K, c))
    BY DEF Mastering
  <2>2. Mastering(L, c) \in SUBSET Creatures /\ Mastering(K, c) \in SUBSET Creatures
    BY DEF Mastering
  <2>3. (m \in Mastering(L, c) <=> c \in L[m].summons) /\ (m \in Mastering(K, c) <=> c \in K[m].summons)
    BY DEF Mastering
  <2>4. sL - One(m \in Mastering(L, c)) = sK - One(m \in Mastering(K, c))
    BY <2>1, <2>2, OneMember
  <2> QED BY <2>3, <2>4 DEF One
<1> DEFINE bK == Balance(K, c)
           bL == Balance(L, c)
           u == K[c].useCount - K[c].release - K[c].toAdd
           v == L[c].useCount - L[c].release - L[c].toAdd
           pK == One(K[c].stage = "in")
           pL == One(L[c].stage = "in")
           cK == One(K[c].client)
           cL == One(L[c].client)
           gK == One(c \in K[m].friends)
           gL == One(c \in L[m].friends)
           hK == One(c \in K[m].targets)
           hL == One(c \in L[m].targets)
           iK == One(c \in K[m].summons)
           iL == One(c \in L[m].summons)
<1>5. /\ K[c].useCount \in Int /\ K[c].release \in Int /\ K[c].toAdd \in Int
      /\ L[c].useCount \in Int /\ L[c].release \in Int /\ L[c].toAdd \in Int
  BY DEF Worlds, Records
<1>6. bK = u - pK - cK - fK - tK - sK /\ bL = v - pL - cL - fL - tL - sL
  BY DEF Balance
<1>7. /\ pK \in Int /\ pL \in Int /\ cK \in Int /\ cL \in Int /\ gK \in Int /\ gL \in Int
      /\ hK \in Int /\ hL \in Int /\ iK \in Int /\ iL \in Int
  BY DEF One
<1>8. /\ u \in Int /\ v \in Int
      /\ v - u = (L[c].useCount - K[c].useCount) - (L[c].release - K[c].release) - (L[c].toAdd - K[c].toAdd)
  BY <1>5
<1>9. fL - gL = fK - gK /\ tL - hL = tK - hK /\ sL - iL = sK - iK
  BY <1>2, <1>3, <1>4
<1>10. bL - bK = (v - u) - (pL - pK) - (cL - cK) - (gL - gK) - (hL - hK) - (iL - iK)
  <2> HIDE DEF bK, bL, u, v, pK, pL, cK, cL, gK, gL, hK, hL, iK, iL, fK, fL, tK, tL, sK, sL
  <2> QED BY <1>1, <1>6, <1>7, <1>8, <1>9
<1> HIDE DEF bK, bL, u, v, pK, pL, cK, cL, gK, gL, hK, hL, iK, iL
<1>11. bL - bK = (L[c].useCount - K[c].useCount) - (L[c].release - K[c].release) - (L[c].toAdd - K[c].toAdd)
                 - (pL - pK) - (cL - cK) - (gL - gK) - (hL - hK) - (iL - iK)
  BY <1>8, <1>10
<1> QED BY <1>11 DEF bK, bL, pK, pL, cK, cL, gK, gL, hK, hL, iK, iL

-----------------------------------------------------------------------------
(* What the operations keep, creature by creature. *)

\* Free memory holds nothing that counts.
Fresh(K, c) ==
    K[c].stage = "none" =>
        /\ K[c].master = NoCreature /\ K[c].attacked = NoCreature
        /\ K[c].summons = {} /\ K[c].friends = {} /\ K[c].targets = {}
        /\ ~K[c].check /\ ~K[c].listed /\ ~K[c].client
        /\ K[c].toAdd = 0 /\ K[c].release = 0

Tidy(K, c) == K[c].check => K[c].listed /\ Placed(K, c)
Awake(K, c) == Placed(K, c) /\ (c \in Players \/ ~K[c].idle \/ ~K[c].alive) => K[c].check
Aims(K, c) ==
    LET x == K[c].attacked IN x # NoCreature => Placed(K, c) /\ Placed(K, x) /\ Sees(K, c, x)

\* What an operation between K and L has done to c: it may have woken c, put it to rest or taken
\* its target, and it may have let go of references and of what they stand for.
Quiet(K, L, c) ==
    /\ L[c].area = K[c].area /\ L[c].client = K[c].client
    /\ L[c].attacked \in {K[c].attacked, NoCreature}
    /\ L[c].toAdd - One(L[c].listed) = K[c].toAdd - One(K[c].listed)
    /\ Balance(L, c) = Balance(K, c)
    /\ Fresh(K, c) => Fresh(L, c)
    /\ Tidy(K, c) => Tidy(L, c)
    /\ Awake(K, c) => Awake(L, c)

\* Nobody has been placed, moved, removed or hurt, and masters have their summons.
Steady(K, L) ==
    /\ L \in Worlds
    /\ \A c \in Creatures :
         /\ Quiet(K, L, c)
         /\ L[c].stage = K[c].stage /\ L[c].alive = K[c].alive /\ L[c].release = K[c].release
         /\ L[c].master = K[c].master /\ L[c].summons = K[c].summons

LEMMA SteadyItself ==
    ASSUME NEW K \in Worlds
    PROVE  Steady(K, K)
BY DEF Steady, Quiet

LEMMA SteadyTransitive ==
    ASSUME NEW K, NEW L, NEW M, Steady(K, L), Steady(L, M)
    PROVE  Steady(K, M)
BY DEF Steady, Quiet

\* A creature that an operation leaves alone but for its useCount.
LEMMA QuietElsewhere ==
    ASSUME NEW K \in Worlds, NEW L \in Worlds, NEW c \in Creatures,
           L[c] = [K[c] EXCEPT !.useCount = L[c].useCount], Balance(L, c) = Balance(K, c)
    PROVE  /\ Quiet(K, L, c)
           /\ L[c].stage = K[c].stage /\ L[c].alive = K[c].alive /\ L[c].release = K[c].release
           /\ L[c].master = K[c].master /\ L[c].summons = K[c].summons
<1>1. /\ L[c].stage = K[c].stage /\ L[c].area = K[c].area /\ L[c].alive = K[c].alive
      /\ L[c].master = K[c].master /\ L[c].summons = K[c].summons
      /\ L[c].friends = K[c].friends /\ L[c].targets = K[c].targets
      /\ L[c].attacked = K[c].attacked /\ L[c].idle = K[c].idle
      /\ L[c].check = K[c].check /\ L[c].listed = K[c].listed /\ L[c].toAdd = K[c].toAdd
      /\ L[c].release = K[c].release /\ L[c].client = K[c].client
  BY DEF Worlds, Records
<1> QED BY <1>1 DEF Quiet, Fresh, Tidy, Awake, Placed

\* The references to c that the creature c itself and the lists of m show.
Shown(K, c, m) ==
    K[c].release + K[c].toAdd + One(K[c].stage = "in") + One(K[c].client)
    + One(c \in K[m].friends) + One(c \in K[m].targets) + One(c \in K[m].summons)

LEMMA ShownIsInt ==
    ASSUME NEW K \in Worlds, NEW c \in Creatures, NEW m \in Creatures
    PROVE  Shown(K, c, m) \in Int /\ K[c].useCount \in Int
<1>1. /\ One(K[c].stage = "in") \in Int /\ One(K[c].client) \in Int
      /\ One(c \in K[m].friends) \in Int /\ One(c \in K[m].targets) \in Int
      /\ One(c \in K[m].summons) \in Int
  BY DEF One
<1>2. K[c].useCount \in Int /\ K[c].release \in Int /\ K[c].toAdd \in Int
  BY DEF Worlds, Records
<1> QED BY <1>1, <1>2 DEF Shown

\* The balance stays if useCount changes by what is shown.
LEMMA BalanceKept ==
    ASSUME NEW K \in Worlds, NEW L \in Worlds, NEW c \in Creatures, NEW m \in Creatures,
           \A d \in Creatures : d # m =>
               L[d].friends = K[d].friends /\ L[d].targets = K[d].targets /\ L[d].summons = K[d].summons,
           L[c].useCount - K[c].useCount = Shown(L, c, m) - Shown(K, c, m)
    PROVE  Balance(L, c) = Balance(K, c)
<1> DEFINE pK == One(K[c].stage = "in")
           pL == One(L[c].stage = "in")
           cK == One(K[c].client)
           cL == One(L[c].client)
           gK == One(c \in K[m].friends)
           gL == One(c \in L[m].friends)
           hK == One(c \in K[m].targets)
           hL == One(c \in L[m].targets)
           iK == One(c \in K[m].summons)
           iL == One(c \in L[m].summons)
<1>1. Balance(L, c) - Balance(K, c) =
             (L[c].useCount - K[c].useCount) - (L[c].release - K[c].release) - (L[c].toAdd - K[c].toAdd)
             - (pL - pK) - (cL - cK) - (gL - gK) - (hL - hK) - (iL - iK)
  BY BalanceStep
<1>2. /\ K[c].useCount \in Int /\ K[c].release \in Int /\ K[c].toAdd \in Int
      /\ L[c].useCount \in Int /\ L[c].release \in Int /\ L[c].toAdd \in Int
  BY DEF Worlds, Records
<1>3. /\ pK \in Int /\ pL \in Int /\ cK \in Int /\ cL \in Int /\ gK \in Int /\ gL \in Int
      /\ hK \in Int /\ hL \in Int /\ iK \in Int /\ iL \in Int
  BY DEF One
<1>4. /\ Shown(K, c, m) = K[c].release + K[c].toAdd + pK + cK + gK + hK + iK
      /\ Shown(L, c, m) = L[c].release + L[c].toAdd + pL + cL + gL + hL + iL
  BY DEF Shown
<1>5. Balance(K, c) \in Int /\ Balance(L, c) \in Int
  BY BalanceIsInt
<1> DEFINE bK == Balance(K, c)
           bL == Balance(L, c)
           uK == K[c].useCount
           uL == L[c].useCount
           xK == K[c].release
           xL == L[c].release
           yK == K[c].toAdd
           yL == L[c].toAdd
           sK == Shown(K, c, m)
           sL == Shown(L, c, m)
<1>6. /\ bL - bK = (uL - uK) - (xL - xK) - (yL - yK) - (pL - pK) - (cL - cK) - (gL - gK) - (hL - hK) - (iL - iK)
      /\ uK \in Int /\ uL \in Int /\ xK \in Int /\ xL \in Int /\ yK \in Int /\ yL \in Int
      /\ bK \in Int /\ bL \in Int /\ uL - uK = sL - sK
      /\ sK = xK + yK + pK + cK + gK + hK + iK /\ sL = xL + yL + pL + cL + gL + hL + iL
  BY <1>1, <1>2, <1>4, <1>5
<1>7. bL = bK
  <2> HIDE DEF pK, pL, cK, cL, gK, gL, hK, hL, iK, iL, bK, bL, uK, uL, xK, xL, yK, yL, sK, sL
  <2> QED BY <1>3, <1>6
<1> QED BY <1>7

\* An operation of m that only touches m itself and useCounts.
LEMMA SteadyChange ==
    ASSUME NEW K \in Worlds, NEW L \in Worlds, NEW m \in Creatures,
           \A d \in Creatures : d # m => L[d] = [K[d] EXCEPT !.useCount = L[d].useCount],
           \A c \in Creatures : L[c].useCount - K[c].useCount = Shown(L, c, m) - Shown(K, c, m),
           L[m].stage = K[m].stage, L[m].area = K[m].area, L[m].alive = K[m].alive,
           L[m].master = K[m].master, L[m].summons = K[m].summons,
           L[m].release = K[m].release, L[m].client = K[m].client,
           L[m].attacked \in {K[m].attacked, NoCreature},
           L[m].toAdd - One(L[m].listed) = K[m].toAdd - One(K[m].listed),
           Fresh(K, m) => Fresh(L, m), Tidy(K, m) => Tidy(L, m), Awake(K, m) => Awake(L, m)
    PROVE  Steady(K, L)
<1>1. ASSUME NEW c \in Creatures PROVE Balance(L, c) = Balance(K, c)
  <2>1. \A d \in Creatures : d # m =>
          L[d].friends = K[d].friends /\ L[d].targets = K[d].targets /\ L[d].summons = K[d].summons
    <3> SUFFICES ASSUME NEW d \in Creatures, d # m
                 PROVE  L[d].friends = K[d].friends /\ L[d].targets = K[d].targets /\ L[d].summons = K[d].summons
      OBVIOUS
    <3>1. L[d] = [K[d] EXCEPT !.useCount = L[d].useCount]
      OBVIOUS
    <3> QED BY <3>1 DEF Worlds, Records
  <2> QED BY <2>1, BalanceKept
<1>2. ASSUME NEW c \in Creatures
      PROVE  /\ Quiet(K, L, c)
             /\ L[c].stage = K[c].stage /\ L[c].alive = K[c].alive /\ L[c].release = K[c].release
             /\ L[c].master = K[c].master /\ L[c].summons = K[c].summons
  <2>1. CASE c # m
    BY <1>1, <2>1, QuietElsewhere
  <2>2. CASE c = m
    BY <1>1, <2>2 DEF Quiet
  <2> QED BY <2>1, <2>2
<1> QED BY <1>2 DEF Steady

LEMMA addCreatureCheckSteady ==
    ASSUME NEW K \in Worlds, NEW m \in Creatures, K[m].stage # "none"
    PROVE  Steady(K, addCreatureCheck(K, m))
<1> DEFINE L == addCreatureCheck(K, m)
<1>1. L \in Worlds
  <2> DEFINE M == [K EXCEPT ![m].check = TRUE, ![m].listed = TRUE, ![m].toAdd = @ + 1]
  <2>1. M \in Worlds
    <3>1. K[m] \in Records /\ K[m].toAdd + 1 \in Nat
      BY DEF Worlds, Records
    <3>2. M = [K EXCEPT ![m] = [K[m] EXCEPT !.check = TRUE, !.listed = TRUE, !.toAdd = K[m].toAdd + 1]]
      BY DEF Worlds
    <3>3. \A n \in Nat : [K[m] EXCEPT !.check = TRUE, !.listed = TRUE, !.toAdd = n] \in Records
      BY <3>1 DEF Records
    <3> HIDE DEF M
    <3> QED BY <3>1, <3>2, <3>3 DEF Worlds
  <2>2. useThing2(M, m) \in Worlds
    <3> HIDE DEF M
    <3> QED BY <2>1 DEF Worlds, Records, useThing2
  <2>3. [K EXCEPT ![m].check = TRUE] \in Worlds
    BY DEF Worlds, Records
  <2> QED BY <2>2, <2>3 DEF addCreatureCheck
<1>2. \A d \in Creatures : d # m => L[d] = K[d]
  BY DEF Worlds, Records, addCreatureCheck, useThing2
<1>3. /\ L[m].stage = K[m].stage /\ L[m].area = K[m].area /\ L[m].alive = K[m].alive
      /\ L[m].master = K[m].master /\ L[m].summons = K[m].summons
      /\ L[m].friends = K[m].friends /\ L[m].targets = K[m].targets
      /\ L[m].attacked = K[m].attacked /\ L[m].idle = K[m].idle
      /\ L[m].release = K[m].release /\ L[m].client = K[m].client
      /\ L[m].useCount - L[m].toAdd = K[m].useCount - K[m].toAdd
      /\ L[m].toAdd - One(L[m].listed) = K[m].toAdd - One(K[m].listed)
      /\ K[m].stage # "gone" => L[m].check /\ L[m].listed
      /\ K[m].stage = "gone" => L = K
  BY DEF Worlds, Records, addCreatureCheck, useThing2, One
<1> HIDE DEF L
<1>4. ASSUME NEW c \in Creatures
      PROVE  L[c].useCount - K[c].useCount = Shown(L, c, m) - Shown(K, c, m)
  <2>1. CASE c # m
    BY <1>2, <1>3, <2>1, ShownIsInt DEF Shown
  <2>2. CASE c = m
    <3>1. Shown(L, c, m) = Shown(K, c, m) + (L[m].toAdd - K[m].toAdd)
      BY <2>2, <1>1, <1>3 DEF Shown, Worlds, Records, One
    <3> QED BY <3>1, <1>1, <2>2, <1>3, ShownIsInt DEF Worlds, Records
  <2> QED BY <2>1, <2>2
<1>5. \A d \in Creatures : d # m => L[d] = [K[d] EXCEPT !.useCount = L[d].useCount]
  BY <1>2 DEF Worlds, Records
<1>6. (Fresh(K, m) => Fresh(L, m)) /\ (Tidy(K, m) => Tidy(L, m)) /\ (Awake(K, m) => Awake(L, m))
  BY <1>1, <1>3 DEF Fresh, Tidy, Awake, Placed, Worlds, Records
<1>7. Steady(K, L)
  BY <1>1, <1>3, <1>4, <1>5, <1>6, SteadyChange
<1> QED BY <1>7 DEF L

LEMMA releaseAllFields ==
    ASSUME NEW K \in Worlds, NEW S
    PROVE  /\ releaseAll(K, S) \in Worlds
           /\ \A d \in Creatures : releaseAll(K, S)[d] = [K[d] EXCEPT !.useCount = K[d].useCount - One(d \in S)]
<1> DEFINE L == releaseAll(K, S)
<1>1. ASSUME NEW d \in Creatures
      PROVE  L[d] = [K[d] EXCEPT !.useCount = K[d].useCount - One(d \in S)]
  BY DEF releaseAll, One, Worlds, Records
<1>2. ASSUME NEW d \in Creatures PROVE L[d] \in Records
  <2>1. K[d] \in Records /\ K[d].useCount - One(d \in S) \in Int
    BY DEF Worlds, Records, One
  <2>2. \A n \in Int : [K[d] EXCEPT !.useCount = n] \in Records
    BY <2>1 DEF Records
  <2> QED BY <1>1, <2>1, <2>2
<1>3. L = [d \in Creatures |-> L[d]]
  BY DEF releaseAll, Worlds
<1> HIDE DEF L
<1>4. L \in Worlds
  BY <1>2, <1>3 DEF Worlds
<1>5. L \in Worlds /\ \A d \in Creatures : L[d] = [K[d] EXCEPT !.useCount = K[d].useCount - One(d \in S)]
  BY <1>1, <1>4
<1> QED BY <1>5 DEF L

LEMMA letGoSteady ==
    ASSUME NEW K \in Worlds, NEW m \in Creatures,
           NEW f \in SUBSET K[m].friends, NEW t \in SUBSET K[m].targets
    PROVE  /\ Steady(K, letGo(K, m, f, t))
           /\ letGo(K, m, f, t)[m].idle = K[m].idle
           /\ letGo(K, m, f, t)[m].check = K[m].check
<1> DEFINE F == releaseAll(K, f)
           T == releaseAll(F, t)
           L == letGo(K, m, f, t)
<1>1. F \in Worlds /\ \A d \in Creatures : F[d] = [K[d] EXCEPT !.useCount = K[d].useCount - One(d \in f)]
  BY releaseAllFields
<1>2. T \in Worlds /\ \A d \in Creatures : T[d] = [F[d] EXCEPT !.useCount = F[d].useCount - One(d \in t)]
  BY <1>1, releaseAllFields
<1>3. L = [T EXCEPT ![m].friends = @ \ f, ![m].targets = @ \ t]
  BY DEF letGo
<1> HIDE DEF F, T, L
<1>4. ASSUME NEW d \in Creatures
      PROVE  T[d] = [K[d] EXCEPT !.useCount = K[d].useCount - One(d \in f) - One(d \in t)]
  BY <1>1, <1>2 DEF Worlds, Records
<1>5. /\ L[m] = [T[m] EXCEPT !.friends = K[m].friends \ f, !.targets = K[m].targets \ t]
      /\ L = [T EXCEPT ![m] = L[m]]
  <2>1. T[m].friends = K[m].friends /\ T[m].targets = K[m].targets
    BY <1>4 DEF Worlds, Records
  <2>2. L[m] = [T[m] EXCEPT !.friends = T[m].friends \ f, !.targets = T[m].targets \ t]
    BY <1>2, <1>3 DEF Worlds
  <2>3. L = [T EXCEPT ![m] = L[m]]
    BY <1>2, <1>3 DEF Worlds
  <2> QED BY <2>1, <2>2, <2>3
<1>6. L \in Worlds
  <2>1. T[m] \in Records
    BY <1>2 DEF Worlds
  <2>2. K[m].friends \ f \in SUBSET Creatures /\ K[m].targets \ t \in SUBSET Creatures
    BY DEF Worlds, Records
  <2>3. \A A, B \in SUBSET Creatures : [T[m] EXCEPT !.friends = A, !.targets = B] \in Records
    BY <2>1 DEF Records
  <2>4. L[m] \in Records
    BY <1>5, <2>2, <2>3
  <2> QED BY <1>2, <1>5, <2>4 DEF Worlds
<1>7. ASSUME NEW d \in Creatures
      PROVE  L[d].useCount = K[d].useCount - One(d \in f) - One(d \in t)
  <2>1. T[d].useCount = K[d].useCount - One(d \in f) - One(d \in t)
    BY <1>4 DEF Worlds, Records
  <2>2. L[d].useCount = T[d].useCount
    <3>1. CASE d = m
      <4>1. L[m] = [T[m] EXCEPT !.friends = K[m].friends \ f, !.targets = K[m].targets \ t]
        BY <1>5
      <4>2. T[m] \in Records
        BY <1>2 DEF Worlds
      <4>3. L[m].useCount = T[m].useCount
        BY <4>1, <4>2 DEF Records
      <4> QED BY <3>1, <4>3
    <3>2. CASE d # m
      BY <1>2, <1>3, <3>2 DEF Worlds
    <3> QED BY <3>1, <3>2
  <2> QED BY <2>1, <2>2
<1>8. ASSUME NEW d \in Creatures, d # m
      PROVE  L[d] = [K[d] EXCEPT !.useCount = L[d].useCount]
  BY <1>2, <1>4, <1>5, <1>8 DEF Worlds, Records
<1>9. /\ L[m].stage = K[m].stage /\ L[m].area = K[m].area /\ L[m].alive = K[m].alive
      /\ L[m].master = K[m].master /\ L[m].summons = K[m].summons
      /\ L[m].friends = K[m].friends \ f /\ L[m].targets = K[m].targets \ t
      /\ L[m].attacked = K[m].attacked /\ L[m].idle = K[m].idle
      /\ L[m].check = K[m].check /\ L[m].listed = K[m].listed /\ L[m].toAdd = K[m].toAdd
      /\ L[m].release = K[m].release /\ L[m].client = K[m].client
  BY <1>2, <1>4, <1>5 DEF Worlds, Records
<1>10. ASSUME NEW c \in Creatures
       PROVE  L[c].useCount - K[c].useCount = Shown(L, c, m) - Shown(K, c, m)
  <2>1. /\ L[c].stage = K[c].stage /\ L[c].toAdd = K[c].toAdd
        /\ L[c].release = K[c].release /\ L[c].client = K[c].client
    <3>1. CASE c # m
      BY <1>8, <3>1 DEF Worlds, Records
    <3>2. CASE c = m
      BY <1>9, <3>2
    <3> QED BY <3>1, <3>2
  <2>2. /\ One(c \in L[m].friends) = One(c \in K[m].friends) - One(c \in f)
        /\ One(c \in L[m].targets) = One(c \in K[m].targets) - One(c \in t)
        /\ L[m].summons = K[m].summons
    BY <1>9 DEF One
  <2> DEFINE x == K[c].release + K[c].toAdd + One(K[c].stage = "in") + One(K[c].client)
             g == One(c \in K[m].friends)
             h == One(c \in K[m].targets)
             i == One(c \in K[m].summons)
             j == One(c \in f)
             k == One(c \in t)
             u == K[c].useCount
  <2>3. x \in Int /\ g \in Int /\ h \in Int /\ i \in Int /\ j \in Int /\ k \in Int /\ u \in Int
    BY DEF One, Worlds, Records
  <2>4. Shown(K, c, m) = x + g + h + i
    BY DEF Shown
  <2>5. Shown(L, c, m) = x + (g - j) + (h - k) + i
    BY <2>1, <2>2 DEF Shown
  <2>6. L[c].useCount = u - j - k
    BY <1>7
  <2> HIDE DEF x, g, h, i, j, k, u
  <2>7. (u - j - k) - u = (x + (g - j) + (h - k) + i) - (x + g + h + i)
    BY <2>3
  <2> QED BY <2>4, <2>5, <2>6, <2>7 DEF u
<1>11. (Fresh(K, m) => Fresh(L, m)) /\ (Tidy(K, m) => Tidy(L, m)) /\ (Awake(K, m) => Awake(L, m))
  BY <1>9 DEF Fresh, Tidy, Awake, Placed
<1>12. Steady(K, L)
  BY <1>6, <1>8, <1>9, <1>10, <1>11, SteadyChange
<1> QED BY <1>9, <1>12 DEF L

\* A flag of m that nobody relies on.
LEMMA idleSteady ==
    ASSUME NEW K \in Worlds, NEW m \in Creatures
    PROVE  Steady(K, [K EXCEPT ![m].idle = TRUE])
<1> DEFINE L == [K EXCEPT ![m].idle = TRUE]
<1>1. L \in Worlds
  BY DEF Worlds, Records
<1>2. \A d \in Creatures : d # m => L[d] = K[d]
  BY DEF Worlds
<1>3. /\ L[m].stage = K[m].stage /\ L[m].area = K[m].area /\ L[m].alive = K[m].alive
      /\ L[m].master = K[m].master /\ L[m].summons = K[m].summons
      /\ L[m].friends = K[m].friends /\ L[m].targets = K[m].targets
      /\ L[m].attacked = K[m].attacked /\ L[m].idle
      /\ L[m].check = K[m].check /\ L[m].listed = K[m].listed /\ L[m].toAdd = K[m].toAdd
      /\ L[m].release = K[m].release /\ L[m].client = K[m].client /\ L[m].useCount = K[m].useCount
  BY DEF Worlds, Records
<1> HIDE DEF L
<1>4. ASSUME NEW c \in Creatures
      PROVE  L[c].useCount - K[c].useCount = Shown(L, c, m) - Shown(K, c, m)
  <2>1. L[c].useCount = K[c].useCount /\ Shown(L, c, m) = Shown(K, c, m)
    BY <1>2, <1>3 DEF Shown
  <2> QED BY <2>1, ShownIsInt
<1>5. \A d \in Creatures : d # m => L[d] = [K[d] EXCEPT !.useCount = L[d].useCount]
  BY <1>2 DEF Worlds, Records
<1>6. (Fresh(K, m) => Fresh(L, m)) /\ (Tidy(K, m) => Tidy(L, m)) /\ (Awake(K, m) => Awake(L, m))
  BY <1>3 DEF Fresh, Tidy, Awake, Placed
<1>7. Steady(K, L)
  BY <1>1, <1>3, <1>4, <1>5, <1>6, SteadyChange
<1> QED BY <1>7 DEF L

LEMMA masterInRangeSteady ==
    ASSUME NEW K \in Worlds, NEW m \in Creatures, NEW b \in BOOLEAN
    PROVE  Steady(K, [K EXCEPT ![m].masterInRange = b])
<1> DEFINE L == [K EXCEPT ![m].masterInRange = b]
<1>1. L \in Worlds
  BY DEF Worlds, Records
<1>2. \A d \in Creatures : d # m => L[d] = K[d]
  BY DEF Worlds
<1>3. /\ L[m].stage = K[m].stage /\ L[m].area = K[m].area /\ L[m].alive = K[m].alive
      /\ L[m].master = K[m].master /\ L[m].summons = K[m].summons
      /\ L[m].friends = K[m].friends /\ L[m].targets = K[m].targets
      /\ L[m].attacked = K[m].attacked /\ L[m].idle = K[m].idle
      /\ L[m].check = K[m].check /\ L[m].listed = K[m].listed /\ L[m].toAdd = K[m].toAdd
      /\ L[m].release = K[m].release /\ L[m].client = K[m].client /\ L[m].useCount = K[m].useCount
  BY DEF Worlds, Records
<1> HIDE DEF L
<1>4. ASSUME NEW c \in Creatures
      PROVE  L[c].useCount - K[c].useCount = Shown(L, c, m) - Shown(K, c, m)
  <2>1. L[c].useCount = K[c].useCount /\ Shown(L, c, m) = Shown(K, c, m)
    BY <1>2, <1>3 DEF Shown
  <2> QED BY <2>1, ShownIsInt
<1>5. \A d \in Creatures : d # m => L[d] = [K[d] EXCEPT !.useCount = L[d].useCount]
  BY <1>2 DEF Worlds, Records
<1>6. (Fresh(K, m) => Fresh(L, m)) /\ (Tidy(K, m) => Tidy(L, m)) /\ (Awake(K, m) => Awake(L, m))
  BY <1>3 DEF Fresh, Tidy, Awake, Placed
<1>7. Steady(K, L)
  BY <1>1, <1>3, <1>4, <1>5, <1>6, SteadyChange
<1> QED BY <1>7 DEF L

LEMMA removeCreatureCheckSteady ==
    ASSUME NEW K \in Worlds, NEW m \in Monsters, K[m].idle, K[m].alive
    PROVE  Steady(K, removeCreatureCheck(K, m))
<1> DEFINE L == removeCreatureCheck(K, m)
<1>0. m \in Creatures /\ m \notin Players
  BY CreaturesAssumption DEF Creatures
<1>1. L \in Worlds
  <2>1. \A b \in BOOLEAN : [K EXCEPT ![m].check = b] \in Worlds
    BY <1>0 DEF Worlds, Records
  <2> QED BY <1>0, <2>1 DEF removeCreatureCheck
<1>2. \A d \in Creatures : d # m => L[d] = K[d]
  BY DEF Worlds, removeCreatureCheck
<1>3. /\ L[m].stage = K[m].stage /\ L[m].area = K[m].area /\ L[m].alive = K[m].alive
      /\ L[m].master = K[m].master /\ L[m].summons = K[m].summons
      /\ L[m].friends = K[m].friends /\ L[m].targets = K[m].targets
      /\ L[m].attacked = K[m].attacked /\ L[m].idle = K[m].idle
      /\ L[m].listed = K[m].listed /\ L[m].toAdd = K[m].toAdd
      /\ L[m].release = K[m].release /\ L[m].client = K[m].client /\ L[m].useCount = K[m].useCount
      /\ L[m].check => K[m].check
  BY <1>0 DEF Worlds, Records, removeCreatureCheck
<1> HIDE DEF L
<1>4. ASSUME NEW c \in Creatures
      PROVE  L[c].useCount - K[c].useCount = Shown(L, c, m) - Shown(K, c, m)
  <2>1. L[c].useCount = K[c].useCount /\ Shown(L, c, m) = Shown(K, c, m)
    BY <1>2, <1>3 DEF Shown
  <2> QED BY <1>0, <2>1, ShownIsInt
<1>5. \A d \in Creatures : d # m => L[d] = [K[d] EXCEPT !.useCount = L[d].useCount]
  BY <1>2 DEF Worlds, Records
<1>6. (Fresh(K, m) => Fresh(L, m)) /\ (Tidy(K, m) => Tidy(L, m)) /\ (Awake(K, m) => Awake(L, m))
  BY <1>0, <1>3 DEF Fresh, Tidy, Awake, Placed
<1>7. Steady(K, L)
  BY <1>0, <1>1, <1>3, <1>4, <1>5, <1>6, SteadyChange
<1> QED BY <1>7 DEF L

\* A monster that is woken.
LEMMA wakeSteady ==
    ASSUME NEW K \in Worlds, NEW m \in Creatures, K[m].stage = "in"
    PROVE  Steady(K, addCreatureCheck([K EXCEPT ![m].idle = FALSE], m))
<1> DEFINE I == [K EXCEPT ![m].idle = FALSE]
           L == addCreatureCheck(I, m)
<1>1. I \in Worlds /\ \A d \in Creatures : d # m => I[d] = K[d]
  BY DEF Worlds, Records
<1>2. /\ I[m].stage = K[m].stage /\ I[m].area = K[m].area /\ I[m].alive = K[m].alive
      /\ I[m].master = K[m].master /\ I[m].summons = K[m].summons
      /\ I[m].friends = K[m].friends /\ I[m].targets = K[m].targets
      /\ I[m].attacked = K[m].attacked
      /\ I[m].check = K[m].check /\ I[m].listed = K[m].listed /\ I[m].toAdd = K[m].toAdd
      /\ I[m].release = K[m].release /\ I[m].client = K[m].client /\ I[m].useCount = K[m].useCount
  BY DEF Worlds, Records
<1> HIDE DEF I
<1>3. Steady(I, L)
  BY <1>1, <1>2, addCreatureCheckSteady
<1>4. L[m].check /\ L[m].listed
  <2>1. addCreatureCheck(I, m)[m].check /\ addCreatureCheck(I, m)[m].listed
    BY <1>1, <1>2 DEF addCreatureCheck, useThing2, Worlds, Records
  <2> QED BY <2>1
<1> HIDE DEF L
<1>5. ASSUME NEW c \in Creatures
      PROVE  /\ Quiet(K, L, c)
             /\ L[c].stage = K[c].stage /\ L[c].alive = K[c].alive /\ L[c].release = K[c].release
             /\ L[c].master = K[c].master /\ L[c].summons = K[c].summons
  <2>0. Quiet(I, L, c)
        /\ L[c].stage = I[c].stage /\ L[c].alive = I[c].alive /\ L[c].release = I[c].release
        /\ L[c].master = I[c].master /\ L[c].summons = I[c].summons
    BY <1>3 DEF Steady
  <2>1. Balance(I, c) = Balance(K, c)
    <3>1. I[c].useCount = K[c].useCount /\ Shown(I, c, m) = Shown(K, c, m)
      BY <1>1, <1>2 DEF Shown
    <3>2. I[c].useCount - K[c].useCount = Shown(I, c, m) - Shown(K, c, m)
      BY <3>1, ShownIsInt
    <3> QED BY <1>1, <3>2, BalanceKept
  <2>2. /\ I[c].stage = K[c].stage /\ I[c].area = K[c].area /\ I[c].alive = K[c].alive
        /\ I[c].master = K[c].master /\ I[c].summons = K[c].summons
        /\ I[c].attacked = K[c].attacked /\ I[c].listed = K[c].listed /\ I[c].toAdd = K[c].toAdd
        /\ I[c].release = K[c].release /\ I[c].client = K[c].client
    BY <1>1, <1>2
  <2>3. Fresh(K, c) => Fresh(L, c)
    <3>1. Fresh(K, c) => Fresh(I, c)
      BY <1>1, <1>2 DEF Fresh
    <3> QED BY <2>0, <3>1 DEF Quiet
  <2>4. Tidy(K, c) => Tidy(L, c)
    <3>1. Tidy(K, c) => Tidy(I, c)
      BY <1>1, <1>2 DEF Tidy, Placed
    <3> QED BY <2>0, <3>1 DEF Quiet
  <2>5. Awake(K, c) => Awake(L, c)
    <3>1. CASE c = m
      BY <1>4, <3>1 DEF Awake
    <3>2. CASE c # m
      BY <1>1, <2>0, <3>2 DEF Quiet, Awake, Placed
    <3> QED BY <3>1, <3>2
  <2> QED BY <2>0, <2>1, <2>2, <2>3, <2>4, <2>5 DEF Quiet
<1>6. Steady(K, L)
  BY <1>3, <1>5 DEF Steady
<1> QED BY <1>6 DEF L, I

LEMMA setIdleSteady ==
    ASSUME NEW K \in Worlds, NEW m \in Monsters, NEW b \in BOOLEAN, K[m].stage # "none"
    PROVE  Steady(K, setIdle(K, m, b))
<1>0. m \in Creatures
  BY DEF Creatures
<1>1. CASE K[m].stage = "gone" \/ ~K[m].alive
  BY <1>1, SteadyItself DEF setIdle
<1>2. CASE ~(K[m].stage = "gone" \/ ~K[m].alive) /\ b
  <2> DEFINE I == [K EXCEPT ![m].idle = TRUE]
             C == clearLists(I, m)
  <2>1. Steady(K, I)
    BY <1>0, idleSteady
  <2>2. I \in Worlds /\ I[m].idle /\ I[m].alive
    BY <1>0, <1>2, <2>1 DEF Steady, Worlds, Records
  <2> HIDE DEF I
  <2>3. Steady(I, C) /\ C[m].idle = I[m].idle
    BY <1>0, <2>2, letGoSteady DEF clearLists
  <2>4. C \in Worlds /\ C[m].idle /\ C[m].alive
    BY <1>0, <2>2, <2>3 DEF Steady
  <2> HIDE DEF C
  <2>5. Steady(C, removeCreatureCheck(C, m))
    BY <2>4, removeCreatureCheckSteady
  <2>6. Steady(K, removeCreatureCheck(C, m))
    BY <2>1, <2>3, <2>5, SteadyTransitive
  <2> QED BY <1>2, <2>6 DEF setIdle, C, I
<1>3. CASE ~(K[m].stage = "gone" \/ ~K[m].alive) /\ ~b
  <2>1. K[m].stage = "in"
    BY <1>0, <1>3 DEF Worlds, Records
  <2> QED BY <1>0, <1>3, <2>1, wakeSteady DEF setIdle
<1> QED BY <1>1, <1>2, <1>3

LEMMA updateIdleStatusSteady ==
    ASSUME NEW K \in Worlds, NEW m \in Monsters, K[m].stage # "none"
    PROVE  Steady(K, updateIdleStatus(K, m))
<1> DEFINE x == K[m].master
           b == IF x = NoCreature THEN K[m].targets = {}
                ELSE ~K[m].masterInRange \/ (x \in Monsters /\ K[x].idle)
<1>0. m \in Creatures
  BY DEF Creatures
<1>1. b \in BOOLEAN
  BY <1>0 DEF Worlds, Records
<1>2. updateIdleStatus(K, m) = setIdle(K, m, b)
  BY DEF updateIdleStatus
<1> HIDE DEF b
<1> QED BY <1>1, <1>2, setIdleSteady

\* m takes c among its friends, or among its targets.
befriend(K, m, c) == useThing2([K EXCEPT ![m].friends = @ \cup {c}], c)
target(K, m, c) == useThing2([K EXCEPT ![m].targets = @ \cup {c}], c)

LEMMA befriendSteady ==
    ASSUME NEW K \in Worlds, NEW m \in Creatures, NEW c \in Creatures,
           K[m].stage # "none", c \notin K[m].friends
    PROVE  Steady(K, befriend(K, m, c))
<1> DEFINE F == [K EXCEPT ![m].friends = @ \cup {c}]
           L == befriend(K, m, c)
<1>1. /\ F \in Worlds /\ \A d \in Creatures : d # m => F[d] = K[d]
      /\ F[m] = [K[m] EXCEPT !.friends = K[m].friends \cup {c}]
  <2>1. K[m].friends \cup {c} \in SUBSET Creatures
    BY DEF Worlds, Records
  <2>2. \A A \in SUBSET Creatures : [K EXCEPT ![m].friends = A] \in Worlds
    BY DEF Worlds, Records
  <2>3. F = [K EXCEPT ![m].friends = K[m].friends \cup {c}]
    BY DEF Worlds
  <2> QED BY <2>1, <2>2, <2>3 DEF Worlds
<1>2. L = [F EXCEPT ![c].useCount = @ + 1]
  BY DEF befriend, useThing2
<1> HIDE DEF F, L
<1>3. L \in Worlds
  BY <1>1, <1>2 DEF Worlds, Records
<1>4. ASSUME NEW d \in Creatures PROVE L[d] = [F[d] EXCEPT !.useCount = F[d].useCount + One(d = c)]
  BY <1>1, <1>2 DEF Worlds, Records, One
<1>5. ASSUME NEW d \in Creatures, d # m
      PROVE  L[d] = [K[d] EXCEPT !.useCount = L[d].useCount] /\ L[d].useCount = K[d].useCount + One(d = c)
  <2>1. L[d] = [K[d] EXCEPT !.useCount = K[d].useCount + One(d = c)]
    BY <1>1, <1>4, <1>5
  <2>2. K[d] \in Records /\ K[d].useCount + One(d = c) \in Int
    BY DEF Worlds, Records, One
  <2> QED BY <2>1, <2>2, OtherUseCount
<1>6. /\ L[m].stage = K[m].stage /\ L[m].area = K[m].area /\ L[m].alive = K[m].alive
      /\ L[m].master = K[m].master /\ L[m].summons = K[m].summons
      /\ L[m].friends = K[m].friends \cup {c} /\ L[m].targets = K[m].targets
      /\ L[m].attacked = K[m].attacked /\ L[m].idle = K[m].idle
      /\ L[m].check = K[m].check /\ L[m].listed = K[m].listed /\ L[m].toAdd = K[m].toAdd
      /\ L[m].release = K[m].release /\ L[m].client = K[m].client
      /\ L[m].useCount = K[m].useCount + One(m = c)
  <2>1. F[m] \in Records /\ F[m].useCount + One(m = c) \in Int
    BY <1>1 DEF Worlds, Records, One
  <2>2. L[m] = [F[m] EXCEPT !.useCount = F[m].useCount + One(m = c)]
    BY <1>4
  <2>3. /\ F[m].stage = K[m].stage /\ F[m].area = K[m].area /\ F[m].alive = K[m].alive
        /\ F[m].master = K[m].master /\ F[m].summons = K[m].summons
        /\ F[m].friends = K[m].friends \cup {c} /\ F[m].targets = K[m].targets
        /\ F[m].attacked = K[m].attacked /\ F[m].idle = K[m].idle
        /\ F[m].check = K[m].check /\ F[m].listed = K[m].listed /\ F[m].toAdd = K[m].toAdd
        /\ F[m].release = K[m].release /\ F[m].client = K[m].client
        /\ F[m].useCount = K[m].useCount
    <3>1. F[m] = [K[m] EXCEPT !.friends = K[m].friends \cup {c}] /\ K[m] \in Records
      BY <1>1 DEF Worlds
    <3> QED BY <3>1 DEF Records
  <2> QED BY <2>1, <2>2, <2>3, OtherUseCount
<1>7. ASSUME NEW d \in Creatures
      PROVE  L[d].useCount - K[d].useCount = Shown(L, d, m) - Shown(K, d, m)
  <2>1. /\ L[d].stage = K[d].stage /\ L[d].toAdd = K[d].toAdd
        /\ L[d].release = K[d].release /\ L[d].client = K[d].client
        /\ L[d].useCount = K[d].useCount + One(d = c)
    <3>1. CASE d # m
      <4>1. L[d] = [K[d] EXCEPT !.useCount = L[d].useCount] /\ L[d].useCount = K[d].useCount + One(d = c)
        BY <1>5, <3>1
      <4>2. K[d] \in Records /\ L[d].useCount \in Int
        BY <1>3 DEF Worlds, Records
      <4> QED BY <4>1, <4>2, OtherUseCount
    <3>2. CASE d = m
      BY <1>6, <3>2
    <3> QED BY <3>1, <3>2
  <2>2. CASE d # c
    <3>1. Shown(L, d, m) = Shown(K, d, m)
      BY <1>6, <2>1, <2>2 DEF Shown, One
    <3>2. L[d].useCount = K[d].useCount
      BY <2>1, <2>2 DEF One, Worlds, Records
    <3> QED BY <3>1, <3>2, ShownIsInt
  <2>3. CASE d = c
    <3> DEFINE x == K[d].release + K[d].toAdd + One(K[d].stage = "in") + One(K[d].client)
               y == One(d \in K[m].targets)
               z == One(d \in K[m].summons)
               u == K[d].useCount
    <3>1. /\ d \in L[m].friends /\ d \notin K[m].friends
          /\ d \in L[m].targets <=> d \in K[m].targets
          /\ d \in L[m].summons <=> d \in K[m].summons
      BY <1>6, <2>3
    <3>2. Shown(K, d, m) = x + 0 + y + z /\ Shown(L, d, m) = x + 1 + y + z /\ L[d].useCount = u + 1
      BY <2>1, <2>3, <3>1 DEF Shown, One
    <3>3. x \in Int /\ y \in Int /\ z \in Int /\ u \in Int
      BY DEF One, Worlds, Records
    <3> HIDE DEF x, y, z
    <3> QED BY <3>2, <3>3
  <2> QED BY <2>2, <2>3
<1>8. (Fresh(K, m) => Fresh(L, m)) /\ (Tidy(K, m) => Tidy(L, m)) /\ (Awake(K, m) => Awake(L, m))
  BY <1>6 DEF Fresh, Tidy, Awake, Placed
<1>9. Steady(K, L)
  <2>1. \A d \in Creatures : d # m => L[d] = [K[d] EXCEPT !.useCount = L[d].useCount]
    BY <1>5
  <2>2. L[m].attacked \in {K[m].attacked, NoCreature}
        /\ L[m].toAdd - One(L[m].listed) = K[m].toAdd - One(K[m].listed)
    BY <1>6
  <2> HIDE DEF One
  <2> QED BY <1>3, <1>6, <1>7, <1>8, <2>1, <2>2, SteadyChange
<1> QED BY <1>9 DEF L

LEMMA targetSteady ==
    ASSUME NEW K \in Worlds, NEW m \in Creatures, NEW c \in Creatures,
           K[m].stage # "none", c \notin K[m].targets
    PROVE  Steady(K, target(K, m, c))
<1> DEFINE F == [K EXCEPT ![m].targets = @ \cup {c}]
           L == target(K, m, c)
<1>1. /\ F \in Worlds /\ \A d \in Creatures : d # m => F[d] = K[d]
      /\ F[m] = [K[m] EXCEPT !.targets = K[m].targets \cup {c}]
  <2>1. K[m].targets \cup {c} \in SUBSET Creatures
    BY DEF Worlds, Records
  <2>2. \A A \in SUBSET Creatures : [K EXCEPT ![m].targets = A] \in Worlds
    BY DEF Worlds, Records
  <2>3. F = [K EXCEPT ![m].targets = K[m].targets \cup {c}]
    BY DEF Worlds
  <2> QED BY <2>1, <2>2, <2>3 DEF Worlds
<1>2. L = [F EXCEPT ![c].useCount = @ + 1]
  BY DEF target, useThing2
<1> HIDE DEF F, L
<1>3. L \in Worlds
  BY <1>1, <1>2 DEF Worlds, Records
<1>4. ASSUME NEW d \in Creatures PROVE L[d] = [F[d] EXCEPT !.useCount = F[d].useCount + One(d = c)]
  BY <1>1, <1>2 DEF Worlds, Records, One
<1>5. ASSUME NEW d \in Creatures, d # m
      PROVE  L[d] = [K[d] EXCEPT !.useCount = L[d].useCount] /\ L[d].useCount = K[d].useCount + One(d = c)
  <2>1. L[d] = [K[d] EXCEPT !.useCount = K[d].useCount + One(d = c)]
    BY <1>1, <1>4, <1>5
  <2>2. K[d] \in Records /\ K[d].useCount + One(d = c) \in Int
    BY DEF Worlds, Records, One
  <2> QED BY <2>1, <2>2, OtherUseCount
<1>6. /\ L[m].stage = K[m].stage /\ L[m].area = K[m].area /\ L[m].alive = K[m].alive
      /\ L[m].master = K[m].master /\ L[m].summons = K[m].summons
      /\ L[m].friends = K[m].friends /\ L[m].targets = K[m].targets \cup {c}
      /\ L[m].attacked = K[m].attacked /\ L[m].idle = K[m].idle
      /\ L[m].check = K[m].check /\ L[m].listed = K[m].listed /\ L[m].toAdd = K[m].toAdd
      /\ L[m].release = K[m].release /\ L[m].client = K[m].client
      /\ L[m].useCount = K[m].useCount + One(m = c)
  <2>1. F[m] \in Records /\ F[m].useCount + One(m = c) \in Int
    BY <1>1 DEF Worlds, Records, One
  <2>2. L[m] = [F[m] EXCEPT !.useCount = F[m].useCount + One(m = c)]
    BY <1>4
  <2>3. /\ F[m].stage = K[m].stage /\ F[m].area = K[m].area /\ F[m].alive = K[m].alive
        /\ F[m].master = K[m].master /\ F[m].summons = K[m].summons
        /\ F[m].targets = K[m].targets \cup {c} /\ F[m].friends = K[m].friends
        /\ F[m].attacked = K[m].attacked /\ F[m].idle = K[m].idle
        /\ F[m].check = K[m].check /\ F[m].listed = K[m].listed /\ F[m].toAdd = K[m].toAdd
        /\ F[m].release = K[m].release /\ F[m].client = K[m].client
        /\ F[m].useCount = K[m].useCount
    <3>1. F[m] = [K[m] EXCEPT !.targets = K[m].targets \cup {c}] /\ K[m] \in Records
      BY <1>1 DEF Worlds
    <3> QED BY <3>1 DEF Records
  <2> QED BY <2>1, <2>2, <2>3, OtherUseCount
<1>7. ASSUME NEW d \in Creatures
      PROVE  L[d].useCount - K[d].useCount = Shown(L, d, m) - Shown(K, d, m)
  <2>1. /\ L[d].stage = K[d].stage /\ L[d].toAdd = K[d].toAdd
        /\ L[d].release = K[d].release /\ L[d].client = K[d].client
        /\ L[d].useCount = K[d].useCount + One(d = c)
    <3>1. CASE d # m
      <4>1. L[d] = [K[d] EXCEPT !.useCount = L[d].useCount] /\ L[d].useCount = K[d].useCount + One(d = c)
        BY <1>5, <3>1
      <4>2. K[d] \in Records /\ L[d].useCount \in Int
        BY <1>3 DEF Worlds, Records
      <4> QED BY <4>1, <4>2, OtherUseCount
    <3>2. CASE d = m
      BY <1>6, <3>2
    <3> QED BY <3>1, <3>2
  <2>2. CASE d # c
    <3>1. Shown(L, d, m) = Shown(K, d, m)
      BY <1>6, <2>1, <2>2 DEF Shown, One
    <3>2. L[d].useCount = K[d].useCount
      BY <2>1, <2>2 DEF One, Worlds, Records
    <3> QED BY <3>1, <3>2, ShownIsInt
  <2>3. CASE d = c
    <3> DEFINE x == K[d].release + K[d].toAdd + One(K[d].stage = "in") + One(K[d].client)
               y == One(d \in K[m].friends)
               z == One(d \in K[m].summons)
               u == K[d].useCount
    <3>1. /\ d \in L[m].targets /\ d \notin K[m].targets
          /\ d \in L[m].friends <=> d \in K[m].friends
          /\ d \in L[m].summons <=> d \in K[m].summons
      BY <1>6, <2>3
    <3>2. Shown(K, d, m) = x + y + 0 + z /\ Shown(L, d, m) = x + y + 1 + z /\ L[d].useCount = u + 1
      BY <2>1, <2>3, <3>1 DEF Shown, One
    <3>3. x \in Int /\ y \in Int /\ z \in Int /\ u \in Int
      BY DEF One, Worlds, Records
    <3> HIDE DEF x, y, z
    <3> QED BY <3>2, <3>3
  <2> QED BY <2>2, <2>3
<1>8. (Fresh(K, m) => Fresh(L, m)) /\ (Tidy(K, m) => Tidy(L, m)) /\ (Awake(K, m) => Awake(L, m))
  BY <1>6 DEF Fresh, Tidy, Awake, Placed
<1>9. Steady(K, L)
  <2>1. \A d \in Creatures : d # m => L[d] = [K[d] EXCEPT !.useCount = L[d].useCount]
    BY <1>5
  <2>2. L[m].attacked \in {K[m].attacked, NoCreature}
        /\ L[m].toAdd - One(L[m].listed) = K[m].toAdd - One(K[m].listed)
    BY <1>6
  <2> HIDE DEF One
  <2> QED BY <1>3, <1>6, <1>7, <1>8, <2>1, <2>2, SteadyChange
<1> QED BY <1>9 DEF L

LEMMA onCreatureFoundSteady ==
    ASSUME NEW K \in Worlds, NEW m \in Monsters, NEW c \in Creatures, K[m].stage # "none"
    PROVE  Steady(K, onCreatureFound(K, m, c))
<1> DEFINE F == IF isFriend(K, m, c) /\ c \notin K[m].friends THEN befriend(K, m, c) ELSE K
           T == IF isOpponent(F, m, c) /\ c \notin F[m].targets THEN target(F, m, c) ELSE F
<1>0. m \in Creatures
  BY DEF Creatures
<1>1. onCreatureFound(K, m, c) = updateIdleStatus(T, m)
  BY DEF onCreatureFound, befriend, target
<1>2. Steady(K, F)
  BY <1>0, befriendSteady, SteadyItself
<1>3. F \in Worlds /\ F[m].stage # "none"
  BY <1>0, <1>2 DEF Steady
<1> HIDE DEF F
<1>4. Steady(F, T)
  BY <1>0, <1>3, targetSteady, SteadyItself
<1>5. T \in Worlds /\ T[m].stage # "none"
  BY <1>0, <1>3, <1>4 DEF Steady
<1> HIDE DEF T
<1>6. Steady(T, updateIdleStatus(T, m))
  BY <1>5, updateIdleStatusSteady
<1> QED BY <1>1, <1>2, <1>4, <1>6, SteadyTransitive

LEMMA onCreatureEnterSteady ==
    ASSUME NEW K \in Worlds, NEW m \in Monsters, NEW c \in Creatures, K[m].stage # "none"
    PROVE  Steady(K, onCreatureEnter(K, m, c))
<1> DEFINE R == [K EXCEPT ![m].masterInRange = TRUE]
           E == IF K[m].master = c THEN updateIdleStatus(R, m) ELSE K
<1>0. m \in Creatures
  BY DEF Creatures
<1>1. onCreatureEnter(K, m, c) = onCreatureFound(E, m, c)
  BY DEF onCreatureEnter
<1>2. Steady(K, R)
  BY <1>0, masterInRangeSteady
<1>3. R \in Worlds /\ R[m].stage # "none"
  BY <1>0, <1>2 DEF Steady
<1> HIDE DEF R
<1>4. Steady(R, updateIdleStatus(R, m))
  BY <1>3, updateIdleStatusSteady
<1>5. Steady(K, updateIdleStatus(R, m))
  BY <1>2, <1>4, SteadyTransitive
<1>6. Steady(K, E)
  BY <1>5, SteadyItself
<1>7. E \in Worlds /\ E[m].stage # "none"
  BY <1>0, <1>6 DEF Steady
<1> HIDE DEF E
<1> QED BY <1>1, <1>6, <1>7, onCreatureFoundSteady, SteadyTransitive

LEMMA onCreatureLeaveSteady ==
    ASSUME NEW K \in Worlds, NEW m \in Monsters, NEW c \in Creatures, K[m].stage # "none"
    PROVE  Steady(K, onCreatureLeave(K, m, c))
<1> DEFINE R == [K EXCEPT ![m].masterInRange = FALSE]
           A == IF K[m].master = c THEN updateIdleStatus(R, m) ELSE K
           F == IF isFriend(A, m, c) /\ c \in A[m].friends THEN letGo(A, m, {c}, {}) ELSE A
           T == letGo(F, m, {}, {c})
           U == IF T[m].targets = {} THEN updateIdleStatus(T, m) ELSE T
           L == IF isOpponent(F, m, c) /\ c \in F[m].targets THEN U ELSE F
<1>0. m \in Creatures
  BY DEF Creatures
<1>1. onCreatureLeave(K, m, c) = L
  BY DEF onCreatureLeave
<1>2. Steady(K, R)
  BY <1>0, masterInRangeSteady
<1>3. R \in Worlds /\ R[m].stage # "none"
  BY <1>0, <1>2 DEF Steady
<1> HIDE DEF R
<1>4. Steady(R, updateIdleStatus(R, m))
  BY <1>3, updateIdleStatusSteady
<1>5. Steady(K, A)
  BY <1>2, <1>4, SteadyTransitive, SteadyItself
<1>6. A \in Worlds /\ A[m].stage # "none"
  BY <1>0, <1>5 DEF Steady
<1> HIDE DEF A
<1>7. Steady(A, F)
  <2>1. CASE c \in A[m].friends
    BY <1>0, <1>6, <2>1, letGoSteady, SteadyItself
  <2>2. CASE c \notin A[m].friends
    BY <1>6, <2>2, SteadyItself
  <2> QED BY <2>1, <2>2
<1>8. F \in Worlds /\ F[m].stage # "none"
  BY <1>0, <1>6, <1>7 DEF Steady
<1> HIDE DEF F
<1>9. ASSUME c \in F[m].targets PROVE Steady(F, U)
  <2>1. Steady(F, T)
    BY <1>0, <1>8, <1>9, letGoSteady
  <2>2. T \in Worlds /\ T[m].stage # "none"
    BY <1>0, <1>8, <2>1 DEF Steady
  <2> HIDE DEF T
  <2>3. Steady(T, updateIdleStatus(T, m))
    BY <2>2, updateIdleStatusSteady
  <2> QED BY <2>1, <2>3, SteadyTransitive
<1> HIDE DEF U
<1>10. Steady(F, L)
  BY <1>8, <1>9, SteadyItself
<1> HIDE DEF L
<1> QED BY <1>1, <1>5, <1>7, <1>10, SteadyTransitive

\* Whoever lets off, and whose summons with it.
LEMMA letOffSteady ==
    ASSUME NEW K \in Worlds, NEW c \in Creatures
    PROVE  /\ Steady(K, setAttackedCreature(K, c, NoCreature))
           /\ setAttackedCreature(K, c, NoCreature)[c].attacked = NoCreature
<1> DEFINE L == setAttackedCreature(K, c, NoCreature)
           S == K[c].summons \cup {c}
<1>1. L = [d \in Creatures |-> IF d \in S THEN [K[d] EXCEPT !.attacked = NoCreature] ELSE K[d]]
  BY DEF setAttackedCreature
<1>2. ASSUME NEW d \in Creatures
      PROVE  /\ L[d] \in Records
             /\ L[d].stage = K[d].stage /\ L[d].area = K[d].area /\ L[d].alive = K[d].alive
             /\ L[d].master = K[d].master /\ L[d].summons = K[d].summons
             /\ L[d].friends = K[d].friends /\ L[d].targets = K[d].targets
             /\ L[d].attacked \in {K[d].attacked, NoCreature} /\ L[d].idle = K[d].idle
             /\ L[d].check = K[d].check /\ L[d].listed = K[d].listed /\ L[d].toAdd = K[d].toAdd
             /\ L[d].release = K[d].release /\ L[d].client = K[d].client /\ L[d].useCount = K[d].useCount
             /\ d \in S => L[d].attacked = NoCreature
  <2>1. K[d] \in Records /\ NoCreature \in Creatures \cup {NoCreature}
    BY DEF Worlds
  <2>2. CASE d \in S
    <3>1. L[d] = [K[d] EXCEPT !.attacked = NoCreature]
      BY <1>1, <2>2
    <3> HIDE DEF L, S
    <3>2. L[d] \in Records
      BY <2>1, <3>1 DEF Records
    <3> QED BY <2>1, <3>1, <3>2 DEF Records
  <2>3. CASE d \notin S
    <3>1. L[d] = K[d]
      BY <1>1, <2>3
    <3> HIDE DEF L, S
    <3> QED BY <2>1, <2>3, <3>1
  <2> QED BY <2>2, <2>3
<1>3. L \in Worlds
  <2>1. L = [d \in Creatures |-> L[d]]
    BY <1>1
  <2> HIDE DEF L
  <2> QED BY <1>2, <2>1 DEF Worlds
<1> HIDE DEF L, S
<1>4. ASSUME NEW d \in Creatures PROVE Balance(L, d) = Balance(K, d)
  <2>1. L[d].useCount = K[d].useCount /\ Shown(L, d, c) = Shown(K, d, c)
    BY <1>2 DEF Shown
  <2>2. L[d].useCount - K[d].useCount = Shown(L, d, c) - Shown(K, d, c)
    BY <2>1, ShownIsInt
  <2>3. \A e \in Creatures : e # c =>
          L[e].friends = K[e].friends /\ L[e].targets = K[e].targets /\ L[e].summons = K[e].summons
    BY <1>2
  <2> QED BY <1>3, <2>2, <2>3, BalanceKept
<1>5. ASSUME NEW d \in Creatures
      PROVE  /\ Quiet(K, L, d)
             /\ L[d].stage = K[d].stage /\ L[d].alive = K[d].alive /\ L[d].release = K[d].release
             /\ L[d].master = K[d].master /\ L[d].summons = K[d].summons
  <2> HIDE DEF One
  <2> QED BY <1>2, <1>4 DEF Quiet, Fresh, Tidy, Awake, Placed
<1>6. Steady(K, L)
  BY <1>3, <1>5 DEF Steady
<1>7. L[c].attacked = NoCreature
  BY <1>2 DEF S
<1> QED BY <1>6, <1>7 DEF L

LEMMA internalCreatureDisappearSteady ==
    ASSUME NEW K \in Worlds, NEW m \in Creatures, NEW c \in Creatures
    PROVE  /\ Steady(K, internalCreatureDisappear(K, m, c))
           /\ internalCreatureDisappear(K, m, c)[m].attacked # c
<1>1. c # NoCreature
  BY CreaturesFinite
<1> QED BY <1>1, letOffSteady, SteadyItself DEF internalCreatureDisappear

LEMMA onCreatureDisappearSteady ==
    ASSUME NEW K \in Worlds, NEW m \in Creatures, NEW c \in Creatures, K[m].stage # "none"
    PROVE  /\ Steady(K, onCreatureDisappear(K, m, c))
           /\ onCreatureDisappear(K, m, c)[m].attacked # c
<1> DEFINE A == internalCreatureDisappear(K, m, c)
           L == onCreatureDisappear(K, m, c)
<1>0. m \in Players \/ m \in Monsters
  BY DEF Creatures
<1>1. Steady(K, A) /\ A[m].attacked # c
  BY internalCreatureDisappearSteady
<1>2. A \in Worlds /\ A[m].stage # "none"
  BY <1>1 DEF Steady
<1>3. L = IF m \in Players THEN A ELSE IF m = c THEN setIdle(A, m, TRUE) ELSE onCreatureLeave(A, m, c)
  BY DEF onCreatureDisappear
<1> HIDE DEF A, L
<1>4. Steady(A, L)
  <2>1. CASE m \in Players
    BY <1>2, <1>3, <2>1, SteadyItself
  <2>2. CASE m \notin Players /\ m = c
    BY <1>0, <1>2, <1>3, <2>2, setIdleSteady
  <2>3. CASE m \notin Players /\ m # c
    BY <1>0, <1>2, <1>3, <2>3, onCreatureLeaveSteady
  <2> QED BY <2>1, <2>2, <2>3
<1>5. L[m].attacked # c
  BY <1>1, <1>4, CreaturesFinite DEF Steady, Quiet
<1> QED BY <1>1, <1>4, <1>5, SteadyTransitive DEF L

-----------------------------------------------------------------------------
(* Turns. *)

LEMMA OrdersReachAll ==
    ASSUME NEW o \in Orders
    PROVE  /\ o \in Seq(Creatures) /\ Len(o) \in Nat
           /\ \A c \in Creatures : \E i \in 1 .. Len(o) : o[i] = c
           /\ \A i, j \in 1 .. Len(o) : i # j => o[i] # o[j]
<1> DEFINE n == Cardinality(Creatures)
<1>1. n \in Nat /\ IsFiniteSet(Creatures)
  BY CreaturesFinite, FS_CardinalityType
<1>2. o \in [1 .. n -> Creatures] /\ \A i, j \in 1 .. n : i # j => o[i] # o[j]
  BY DEF Orders, SetToSeqs
<1> HIDE DEF n
<1>3. o \in Seq(Creatures) /\ Len(o) = n
  BY <1>1, <1>2
<1>4. o \in Injection(1 .. n, Creatures)
  BY <1>2 DEF Injection, IsInjective
<1>5. Cardinality(1 .. n) = n
  BY <1>1, FS_Interval
<1>6. o \in Surjection(1 .. n, Creatures)
  BY <1>1, <1>4, <1>5, FS_Injection DEF n
<1>7. \A c \in Creatures : \E i \in 1 .. n : o[i] = c
  BY <1>6 DEF Surjection
<1> QED BY <1>1, <1>2, <1>3, <1>7

\* A loop that stays within W ends there.
LEMMA LastTurn ==
    ASSUME NEW o \in Orders, NEW W, NEW h \in [0 .. Len(o) -> W]
    PROVE  h[Len(o)] \in W
<1>1. Len(o) \in 0 .. Len(o)
  BY OrdersReachAll
<1> QED BY <1>1

\* g is what is made of K in turn: f holds what each turn makes of each world.
Turns(g, n, K, S, o, f) ==
    g[0] = K /\ \A i \in 1 .. n : g[i] = IF o[i] \in S THEN f[<<g[i - 1], o[i]>>] ELSE g[i - 1]

\* Turns can be taken within a set W that no turn leaves.
LEMMA TurnsExist ==
    ASSUME NEW n \in Nat, NEW o, NEW W, NEW K \in W, NEW S, NEW f \in [W \X S -> W]
    PROVE  \E g \in [0 .. n -> W] : Turns(g, n, K, S, o, f)
<1> DEFINE St == [i \in 1 .. n |-> [X \in W |-> IF o[i] \in S THEN f[<<X, o[i]>>] ELSE X]]
<1>1. St \in [1 .. n -> [W -> W]]
  OBVIOUS
<1>2. PICK g \in [0 .. n -> W] : Recursion(g, n, K, St)
  <2> HIDE DEF St
  <2> QED BY <1>1, RecursionExists
<1>3. g[0] = K /\ \A i \in 1 .. n : g[i] = St[i][g[i - 1]]
  <2> HIDE DEF St
  <2> QED BY <1>2 DEF Recursion
<1>4. ASSUME NEW i \in 1 .. n
      PROVE  g[i] = IF o[i] \in S THEN f[<<g[i - 1], o[i]>>] ELSE g[i - 1]
  <2>1. g[i - 1] \in W
    <3>1. i - 1 \in 0 .. n
      OBVIOUS
    <3> QED BY <1>2, <3>1
  <2> QED BY <1>3, <2>1
<1> QED BY <1>3, <1>4 DEF Turns

LEMMA TurnsStay ==
    ASSUME NEW n \in Nat, NEW W, NEW h, h = [i \in 0 .. n |-> h[i]], h[0] \in W,
           \A i \in 1 .. n : h[i - 1] \in W => h[i] \in W
    PROVE  h \in [0 .. n -> W]
<1> DEFINE T == {i \in 0 .. n : h[i] \in W}
<1>1. 0 \in T
  OBVIOUS
<1>2. ASSUME NEW i \in 1 .. n, i - 1 \in T PROVE i \in T
  BY <1>2
<1>3. 0 .. n \subseteq T
  <2> HIDE DEF T
  <2> QED BY <1>1, <1>2, IntervalInduction
<1> QED BY <1>3

\* What holds from some turn on, and no turn undoes, holds at the end.
LEMMA TurnsKeep ==
    ASSUME NEW n \in Nat, NEW h, NEW Z, NEW j \in 0 .. n, h[j] \in Z,
           \A i \in 1 .. n : i > j /\ h[i - 1] \in Z => h[i] \in Z
    PROVE  h[n] \in Z
<1> DEFINE T == {i \in 0 .. n : i >= j => h[i] \in Z}
<1>1. 0 \in T
  OBVIOUS
<1>2. ASSUME NEW i \in 1 .. n, i - 1 \in T PROVE i \in T
  <2>1. CASE i < j
    BY <2>1
  <2>2. CASE i = j
    BY <2>2
  <2>3. CASE i > j
    <3>1. h[i - 1] \in Z
      BY <1>2, <2>3
    <3> QED BY <2>3, <3>1
  <2> QED BY <2>1, <2>2, <2>3
<1>3. 0 .. n \subseteq T
  <2> HIDE DEF T
  <2> QED BY <1>1, <1>2, IntervalInduction
<1> QED BY <1>3

\* m looks at each creature of S.
LookedFor(K, S, o, m) == InTurn(LAMBDA X, d : onCreatureFound(X, m, d), K, S, o)

\* h is how that goes.
LookedForRun(h, K, S, o, m) ==
    /\ h[0] = K
    /\ \A i \in 1 .. Len(o) : h[i] = IF o[i] \in S THEN onCreatureFound(h[i - 1], m, o[i]) ELSE h[i - 1]
    /\ LookedFor(K, S, o, m) = h[Len(o)]

LEMMA LookedForTurns ==
    ASSUME NEW K, NEW S, NEW o \in Orders, NEW m,
           NEW W, K \in W, \A X \in W, d \in S : onCreatureFound(X, m, d) \in W
    PROVE  \E h \in [0 .. Len(o) -> W] : LookedForRun(h, K, S, o, m)
<1> DEFINE n == Len(o)
           f == [p \in W \X S |-> onCreatureFound(p[1], m, p[2])]
           F(g) == [i \in 0 .. n |->
                       IF i = 0 THEN K ELSE IF o[i] \in S THEN onCreatureFound(g[i - 1], m, o[i]) ELSE g[i - 1]]
           h == CHOOSE g : g = F(g)
<1>1. n \in Nat
  BY OrdersReachAll
<1>2. f \in [W \X S -> W]
  OBVIOUS
<1>3. PICK g \in [0 .. n -> W] : Turns(g, n, K, S, o, f)
  <2> HIDE DEF n, f
  <2> QED BY <1>1, <1>2, TurnsExist
<1>4. g = F(g)
  <2> SUFFICES ASSUME NEW i \in 0 .. n PROVE g[i] = IF i = 0 THEN K ELSE IF o[i] \in S THEN onCreatureFound(g[i - 1], m, o[i]) ELSE g[i - 1]
    BY <1>3
  <2> HIDE DEF n
  <2>1. CASE i = 0
    BY <1>3, <2>1 DEF Turns
  <2>2. CASE i # 0
    <3>1. i \in 1 .. n /\ i - 1 \in 0 .. n
      BY <1>1, <2>2
    <3>2. g[i - 1] \in W
      BY <1>3, <3>1
    <3>3. o[i] \in S => f[<<g[i - 1], o[i]>>] = onCreatureFound(g[i - 1], m, o[i])
      BY <3>2
    <3> HIDE DEF f
    <3> QED BY <1>3, <2>2, <3>1, <3>3 DEF Turns
  <2> QED BY <2>1, <2>2
<1>5. h = F(h)
  BY <1>4
<1>6. LookedFor(K, S, o, m) = h[n]
  BY DEF LookedFor, InTurn
<1> HIDE DEF h
<1>7. /\ h[0] = K /\ DOMAIN h = 0 .. n
      /\ \A i \in 1 .. n : h[i] = IF o[i] \in S THEN onCreatureFound(h[i - 1], m, o[i]) ELSE h[i - 1]
  <2> HIDE DEF n
  <2>1. 0 \in 0 .. n /\ \A i \in 1 .. n : i \in 0 .. n /\ i # 0
    BY <1>1
  <2> QED BY <1>5, <2>1
<1>8. h \in [0 .. n -> W]
  <2>1. h = [i \in 0 .. n |-> h[i]]
    BY <1>5, <1>7
  <2> HIDE DEF n, F
  <2>2. h[0] \in W
    BY <1>7
  <2>3. \A i \in 1 .. n : h[i - 1] \in W => h[i] \in W
    BY <1>7
  <2> QED BY <1>1, <2>1, <2>2, <2>3, TurnsStay
<1> QED BY <1>6, <1>7, <1>8 DEF LookedForRun

LEMMA updateTargetListSteady ==
    ASSUME NEW K \in Worlds, NEW m \in Monsters, NEW o \in Orders, K[m].stage # "none"
    PROVE  Steady(K, updateTargetList(K, m, o))
<1> DEFINE f == {c \in K[m].friends : ~K[c].alive \/ ~Sees(K, m, c)}
           t == {c \in K[m].targets : ~K[c].alive \/ ~Sees(K, m, c)}
           D == letGo(K, m, f, t)
           S == Spectators(K, {K[m].area}) \ {m}
           W == {X \in Worlds : Steady(D, X)}
<1>0. m \in Creatures /\ \A d \in S : d \in Creatures
  BY DEF Creatures, Spectators
<1>1. Steady(K, D)
  BY <1>0, letGoSteady
<1>2. D \in Worlds /\ D[m].stage # "none"
  BY <1>0, <1>1 DEF Steady
<1>3. updateTargetList(K, m, o) = LookedFor(D, S, o, m)
  BY DEF updateTargetList, LookedFor, InTurn
<1> HIDE DEF D, S
<1>4. ASSUME NEW X \in W, NEW d \in S PROVE onCreatureFound(X, m, d) \in W
  <2>1. X[m].stage # "none"
    BY <1>0, <1>2 DEF Steady
  <2>2. Steady(X, onCreatureFound(X, m, d))
    BY <1>0, <2>1, onCreatureFoundSteady
  <2> QED BY <2>2, SteadyTransitive DEF Steady
<1>5. D \in W
  BY <1>2, SteadyItself
<1> HIDE DEF W, f, t
<1>6. LookedFor(D, S, o, m) \in W
  <2>0. \A X \in W, d \in S : onCreatureFound(X, m, d) \in W
    BY <1>4
  <2>1. PICK h \in [0 .. Len(o) -> W] : LookedForRun(h, D, S, o, m)
    BY <2>0, <1>5, LookedForTurns
  <2>2. h[Len(o)] \in W
    BY <2>1, LastTurn
  <2>3. LookedFor(D, S, o, m) = h[Len(o)]
    BY <2>1 DEF LookedForRun
  <2> QED BY <2>2, <2>3
<1> QED BY <1>1, <1>3, <1>6, SteadyTransitive DEF W

LEMMA LookAroundSteady ==
    ASSUME NEW K \in Worlds, NEW m \in Monsters, NEW o \in Orders, K[m].stage # "none"
    PROVE  Steady(K, LookAround(K, m, o))
<1> DEFINE U == updateTargetList(K, m, o)
<1>0. m \in Creatures
  BY DEF Creatures
<1>1. Steady(K, U)
  BY updateTargetListSteady
<1>2. U \in Worlds /\ U[m].stage # "none"
  BY <1>0, <1>1 DEF Steady
<1>3. LookAround(K, m, o) = updateIdleStatus(U, m)
  BY DEF LookAround
<1> HIDE DEF U
<1> QED BY <1>1, <1>2, <1>3, updateIdleStatusSteady, SteadyTransitive

\* The creatures of S notice that c has appeared.
Appeared(K, S, o, c) == InTurn(LAMBDA X, d : onCreatureAppear(X, d, c, o), K, S, o)

\* h is how that goes.
AppearedRun(h, K, S, o, c) ==
    /\ h[0] = K
    /\ \A i \in 1 .. Len(o) : h[i] = IF o[i] \in S THEN onCreatureAppear(h[i - 1], o[i], c, o) ELSE h[i - 1]
    /\ Appeared(K, S, o, c) = h[Len(o)]

LEMMA AppearedTurns ==
    ASSUME NEW K, NEW S, NEW o \in Orders, NEW c,
           NEW W, K \in W, \A X \in W, d \in S : onCreatureAppear(X, d, c, o) \in W
    PROVE  \E h \in [0 .. Len(o) -> W] : AppearedRun(h, K, S, o, c)
<1> DEFINE n == Len(o)
           f == [p \in W \X S |-> onCreatureAppear(p[1], p[2], c, o)]
           F(g) == [i \in 0 .. n |->
                       IF i = 0 THEN K ELSE IF o[i] \in S THEN onCreatureAppear(g[i - 1], o[i], c, o) ELSE g[i - 1]]
           h == CHOOSE g : g = F(g)
<1>1. n \in Nat
  BY OrdersReachAll
<1>2. f \in [W \X S -> W]
  OBVIOUS
<1>3. PICK g \in [0 .. n -> W] : Turns(g, n, K, S, o, f)
  <2> HIDE DEF n, f
  <2> QED BY <1>1, <1>2, TurnsExist
<1>4. g = F(g)
  <2> SUFFICES ASSUME NEW i \in 0 .. n PROVE g[i] = IF i = 0 THEN K ELSE IF o[i] \in S THEN onCreatureAppear(g[i - 1], o[i], c, o) ELSE g[i - 1]
    BY <1>3
  <2> HIDE DEF n
  <2>1. CASE i = 0
    BY <1>3, <2>1 DEF Turns
  <2>2. CASE i # 0
    <3>1. i \in 1 .. n /\ i - 1 \in 0 .. n
      BY <1>1, <2>2
    <3>2. g[i - 1] \in W
      BY <1>3, <3>1
    <3>3. o[i] \in S => f[<<g[i - 1], o[i]>>] = onCreatureAppear(g[i - 1], o[i], c, o)
      BY <3>2
    <3> HIDE DEF f
    <3> QED BY <1>3, <2>2, <3>1, <3>3 DEF Turns
  <2> QED BY <2>1, <2>2
<1>5. h = F(h)
  BY <1>4
<1>6. Appeared(K, S, o, c) = h[n]
  BY DEF Appeared, InTurn
<1> HIDE DEF h
<1>7. /\ h[0] = K /\ DOMAIN h = 0 .. n
      /\ \A i \in 1 .. n : h[i] = IF o[i] \in S THEN onCreatureAppear(h[i - 1], o[i], c, o) ELSE h[i - 1]
  <2> HIDE DEF n
  <2>1. 0 \in 0 .. n /\ \A i \in 1 .. n : i \in 0 .. n /\ i # 0
    BY <1>1
  <2> QED BY <1>5, <2>1
<1>8. h \in [0 .. n -> W]
  <2>1. h = [i \in 0 .. n |-> h[i]]
    BY <1>5, <1>7
  <2> HIDE DEF n, F
  <2>2. h[0] \in W
    BY <1>7
  <2>3. \A i \in 1 .. n : h[i - 1] \in W => h[i] \in W
    BY <1>7
  <2> QED BY <1>1, <2>1, <2>2, <2>3, TurnsStay
<1> QED BY <1>6, <1>7, <1>8 DEF AppearedRun


LEMMA onCreatureAppearSteady ==
    ASSUME NEW K \in Worlds, NEW m \in Creatures, NEW c \in Creatures, NEW o \in Orders, K[m].stage # "none"
    PROVE  Steady(K, onCreatureAppear(K, m, c, o))
<1> DEFINE R == [K EXCEPT ![m].masterInRange = Sees(K, m, K[m].master)]
           A == IF K[m].master = NoCreature THEN K ELSE R
<1>1. CASE m \in Players
  BY <1>1, SteadyItself DEF onCreatureAppear
<1>2. CASE m \notin Players /\ m # c
  <2>1. m \in Monsters
    BY <1>2 DEF Creatures
  <2> QED BY <1>2, <2>1, onCreatureEnterSteady DEF onCreatureAppear
<1>3. CASE m \notin Players /\ m = c
  <2>1. m \in Monsters
    BY <1>3 DEF Creatures
  <2>2. Steady(K, R)
    <3>1. Sees(K, m, K[m].master) \in BOOLEAN
      BY DEF Sees
    <3> QED BY <3>1, masterInRangeSteady
  <2>3. Steady(K, A)
    BY <2>2, SteadyItself
  <2>4. A \in Worlds /\ A[m].stage # "none"
    BY <2>3 DEF Steady
  <2>5. onCreatureAppear(K, m, c, o) = LookAround(A, m, o)
    BY <1>3 DEF onCreatureAppear
  <2> HIDE DEF A
  <2> QED BY <2>1, <2>3, <2>4, <2>5, LookAroundSteady, SteadyTransitive
<1> QED BY <1>1, <1>2, <1>3

LEMMA AppearedSteady ==
    ASSUME NEW K \in Worlds, NEW S \in SUBSET Creatures, NEW o \in Orders, NEW c \in Creatures,
           \A d \in S : K[d].stage # "none"
    PROVE  Steady(K, Appeared(K, S, o, c))
<1> DEFINE W == {X \in Worlds : Steady(K, X)}
<1>1. ASSUME NEW X \in W, NEW d \in S PROVE onCreatureAppear(X, d, c, o) \in W
  <2>1. X[d].stage # "none"
    BY DEF Steady
  <2>2. Steady(X, onCreatureAppear(X, d, c, o))
    BY <2>1, onCreatureAppearSteady
  <2> QED BY <2>2, SteadyTransitive DEF Steady
<1>2. K \in W
  BY SteadyItself
<1>3. Appeared(K, S, o, c) \in W
  <2> HIDE DEF W
  <2>1. PICK h \in [0 .. Len(o) -> W] : AppearedRun(h, K, S, o, c)
    BY <1>1, <1>2, AppearedTurns
  <2>2. h[Len(o)] \in W
    BY <2>1, LastTurn
  <2>3. Appeared(K, S, o, c) = h[Len(o)]
    BY <2>1 DEF AppearedRun
  <2> QED BY <2>2, <2>3
<1> QED BY <1>3

\* The creatures of S notice that c disappears.
Disappeared(K, S, o, c) == InTurn(LAMBDA X, d : onCreatureDisappear(X, d, c), K, S, o)

\* h is how that goes.
DisappearedRun(h, K, S, o, c) ==
    /\ h[0] = K
    /\ \A i \in 1 .. Len(o) : h[i] = IF o[i] \in S THEN onCreatureDisappear(h[i - 1], o[i], c) ELSE h[i - 1]
    /\ Disappeared(K, S, o, c) = h[Len(o)]

LEMMA DisappearedTurns ==
    ASSUME NEW K, NEW S, NEW o \in Orders, NEW c,
           NEW W, K \in W, \A X \in W, d \in S : onCreatureDisappear(X, d, c) \in W
    PROVE  \E h \in [0 .. Len(o) -> W] : DisappearedRun(h, K, S, o, c)
<1> DEFINE n == Len(o)
           f == [p \in W \X S |-> onCreatureDisappear(p[1], p[2], c)]
           F(g) == [i \in 0 .. n |->
                       IF i = 0 THEN K ELSE IF o[i] \in S THEN onCreatureDisappear(g[i - 1], o[i], c) ELSE g[i - 1]]
           h == CHOOSE g : g = F(g)
<1>1. n \in Nat
  BY OrdersReachAll
<1>2. f \in [W \X S -> W]
  OBVIOUS
<1>3. PICK g \in [0 .. n -> W] : Turns(g, n, K, S, o, f)
  <2> HIDE DEF n, f
  <2> QED BY <1>1, <1>2, TurnsExist
<1>4. g = F(g)
  <2> SUFFICES ASSUME NEW i \in 0 .. n PROVE g[i] = IF i = 0 THEN K ELSE IF o[i] \in S THEN onCreatureDisappear(g[i - 1], o[i], c) ELSE g[i - 1]
    BY <1>3
  <2> HIDE DEF n
  <2>1. CASE i = 0
    BY <1>3, <2>1 DEF Turns
  <2>2. CASE i # 0
    <3>1. i \in 1 .. n /\ i - 1 \in 0 .. n
      BY <1>1, <2>2
    <3>2. g[i - 1] \in W
      BY <1>3, <3>1
    <3>3. o[i] \in S => f[<<g[i - 1], o[i]>>] = onCreatureDisappear(g[i - 1], o[i], c)
      BY <3>2
    <3> HIDE DEF f
    <3> QED BY <1>3, <2>2, <3>1, <3>3 DEF Turns
  <2> QED BY <2>1, <2>2
<1>5. h = F(h)
  BY <1>4
<1>6. Disappeared(K, S, o, c) = h[n]
  BY DEF Disappeared, InTurn
<1> HIDE DEF h
<1>7. /\ h[0] = K /\ DOMAIN h = 0 .. n
      /\ \A i \in 1 .. n : h[i] = IF o[i] \in S THEN onCreatureDisappear(h[i - 1], o[i], c) ELSE h[i - 1]
  <2> HIDE DEF n
  <2>1. 0 \in 0 .. n /\ \A i \in 1 .. n : i \in 0 .. n /\ i # 0
    BY <1>1
  <2> QED BY <1>5, <2>1
<1>8. h \in [0 .. n -> W]
  <2>1. h = [i \in 0 .. n |-> h[i]]
    BY <1>5, <1>7
  <2> HIDE DEF n, F
  <2>2. h[0] \in W
    BY <1>7
  <2>3. \A i \in 1 .. n : h[i - 1] \in W => h[i] \in W
    BY <1>7
  <2> QED BY <1>1, <2>1, <2>2, <2>3, TurnsStay
<1> QED BY <1>6, <1>7, <1>8 DEF DisappearedRun


\* Nobody in S goes on attacking c.
LEMMA DisappearedSteady ==
    ASSUME NEW K \in Worlds, NEW S \in SUBSET Creatures, NEW o \in Orders, NEW c \in Creatures,
           \A d \in S : K[d].stage # "none"
    PROVE  /\ Steady(K, Disappeared(K, S, o, c))
           /\ \A d \in S : Disappeared(K, S, o, c)[d].attacked # c
<1> DEFINE W == {X \in Worlds : Steady(K, X)}
           n == Len(o)
<1>1. ASSUME NEW X \in W, NEW d \in S
      PROVE  /\ onCreatureDisappear(X, d, c) \in W /\ Steady(X, onCreatureDisappear(X, d, c))
             /\ onCreatureDisappear(X, d, c)[d].attacked # c
  <2>1. X[d].stage # "none"
    BY DEF Steady
  <2>2. Steady(X, onCreatureDisappear(X, d, c)) /\ onCreatureDisappear(X, d, c)[d].attacked # c
    BY <2>1, onCreatureDisappearSteady
  <2>3. Steady(K, onCreatureDisappear(X, d, c))
    BY <2>2, SteadyTransitive
  <2>4. onCreatureDisappear(X, d, c) \in W
    BY <2>3 DEF Steady
  <2> QED BY <2>2, <2>4
<1>2. K \in W
  BY SteadyItself
<1>3. \A X \in W : X \in Worlds /\ Steady(K, X)
  OBVIOUS
<1> HIDE DEF W
<1>4. PICK h \in [0 .. n -> W] : DisappearedRun(h, K, S, o, c)
  BY <1>1, <1>2, DisappearedTurns
<1>5. n \in Nat
  BY OrdersReachAll
<1> HIDE DEF n
<1>6. /\ \A i \in 1 .. n : h[i] = IF o[i] \in S THEN onCreatureDisappear(h[i - 1], o[i], c) ELSE h[i - 1]
      /\ Disappeared(K, S, o, c) = h[n]
      /\ h[n] \in W
  BY <1>4, <1>5 DEF n, DisappearedRun
<1>7. ASSUME NEW d \in S PROVE h[n][d].attacked # c
  <2> DEFINE Z == {X \in W : X[d].attacked # c}
  <2>1. PICK j \in 1 .. n : o[j] = d
    BY OrdersReachAll DEF n
  <2>2. j \in 0 .. n /\ j - 1 \in 0 .. n
    BY <1>5
  <2>3. h[j] \in Z
    <3>1. h[j] = onCreatureDisappear(h[j - 1], d, c) /\ h[j - 1] \in W
      BY <1>4, <1>6, <2>1, <2>2
    <3> QED BY <1>1, <3>1
  <2>4. ASSUME NEW i \in 1 .. n, i > j, h[i - 1] \in Z PROVE h[i] \in Z
    <3>1. CASE o[i] \notin S
      BY <1>6, <2>4, <3>1
    <3>2. CASE o[i] \in S
      <4>1. h[i] = onCreatureDisappear(h[i - 1], o[i], c) /\ h[i - 1] \in W /\ h[i - 1][d].attacked # c
        BY <1>6, <2>4, <3>2
      <4>2. h[i] \in W /\ Steady(h[i - 1], h[i])
        BY <1>1, <3>2, <4>1
      <4>3. h[i][d].attacked \in {h[i - 1][d].attacked, NoCreature}
        BY <4>2 DEF Steady, Quiet
      <4> QED BY <4>1, <4>2, <4>3, CreaturesFinite
    <3> QED BY <3>1, <3>2
  <2> HIDE DEF Z
  <2>5. h[n] \in Z
    BY <1>5, <2>2, <2>3, <2>4, TurnsKeep
  <2> QED BY <2>5 DEF Z
<1> QED BY <1>3, <1>6, <1>7

-----------------------------------------------------------------------------
(* Who loses what. *)

Present(K, c) == K[c].attacked # NoCreature => Placed(K, c)

\* Masters and summons know each other; the summons of creatures in the game are there too, and
\* have none themselves; no summon is there without its master.
Agree(K) == \A x, s \in Creatures : K[s].master = x <=> s \in K[x].summons
Company(K) == \A x, s \in Creatures : Placed(K, x) /\ s \in K[x].summons => Placed(K, s)
NoChains(K) == \A x, s \in Creatures : s \in K[x].summons => K[s].summons = {}
Masters(K) == \A x, s \in Creatures : Placed(K, s) /\ s \in K[x].summons => Placed(K, x)

\* What an operation between K and L has done to c if all it may do is to hurt, to remove and to
\* separate creatures.
Less(K, L, c) ==
    /\ Quiet(K, L, c)
    /\ L[c].stage = K[c].stage \/ (Placed(K, c) /\ L[c].stage = "gone")
    /\ L[c].alive => K[c].alive
    /\ L[c].release + One(Placed(L, c)) = K[c].release + One(Placed(K, c))
    /\ L[c].master \in {K[c].master, NoCreature} /\ L[c].summons \subseteq K[c].summons
    /\ Present(K, c) => Present(L, c)
    /\ Aims(K, c) => Aims(L, c)

Waning(K, L) ==
    /\ L \in Worlds
    /\ \A c \in Creatures : Less(K, L, c)
    /\ Agree(K) => Agree(L)
    /\ Agree(K) /\ Company(K) => Company(L)

LEMMA WaningItself ==
    ASSUME NEW K \in Worlds
    PROVE  Waning(K, K)
BY DEF Waning, Less, Quiet, Placed

LEMMA WaningTransitive ==
    ASSUME NEW K, NEW L, NEW M, Waning(K, L), Waning(L, M)
    PROVE  Waning(K, M)
<1>1. ASSUME NEW c \in Creatures PROVE Less(K, M, c)
  <2>1. Less(K, L, c) /\ Less(L, M, c)
    BY DEF Waning
  <2>2. Quiet(K, M, c)
    BY <2>1 DEF Less, Quiet
  <2>3. \/ M[c].stage = K[c].stage
        \/ Placed(K, c) /\ M[c].stage = "gone"
    BY <2>1 DEF Less, Placed
  <2> QED BY <2>1, <2>2, <2>3 DEF Less
<1> QED BY <1>1 DEF Waning

LEMMA SteadyWaning ==
    ASSUME NEW K \in Worlds, NEW L, Steady(K, L)
    PROVE  Waning(K, L)
<1>1. \A c \in Creatures :
        /\ Quiet(K, L, c)
        /\ L[c].stage = K[c].stage /\ L[c].alive = K[c].alive /\ L[c].release = K[c].release
        /\ L[c].master = K[c].master /\ L[c].summons = K[c].summons
        /\ L[c].area = K[c].area /\ L[c].attacked \in {K[c].attacked, NoCreature}
  BY DEF Steady, Quiet
<1>2. ASSUME NEW c \in Creatures PROVE Less(K, L, c)
  <2>1. Present(K, c) => Present(L, c)
    BY <1>1 DEF Present, Placed
  <2>2. ASSUME Aims(K, c) PROVE Aims(L, c)
    <3>1. K[c].attacked \in Creatures \cup {NoCreature}
      BY DEF Worlds, Records
    <3> QED BY <1>1, <2>2, <3>1 DEF Aims, Placed, Sees
  <2> QED BY <1>1, <2>1, <2>2 DEF Less, Placed
<1>3. Agree(K) => Agree(L)
  BY <1>1 DEF Agree
<1>4. Company(K) => Company(L)
  BY <1>1 DEF Company, Placed
<1> QED BY <1>2, <1>3, <1>4 DEF Waning, Steady

\* Nobody has been removed.
Remaining(K, L) == \A c \in Creatures : L[c].stage = K[c].stage

\* A creature that thinks may die.
LEMMA hurtWaning ==
    ASSUME NEW K \in Worlds, NEW c \in Creatures, NEW alive \in BOOLEAN, alive => K[c].alive,
           Placed(K, c) /\ ~alive => K[c].check
    PROVE  Waning(K, [K EXCEPT ![c].alive = alive]) /\ Remaining(K, [K EXCEPT ![c].alive = alive])
<1> DEFINE L == [K EXCEPT ![c].alive = alive]
<1>1. L \in Worlds
  BY DEF Worlds, Records
<1>2. ASSUME NEW d \in Creatures
      PROVE  /\ L[d].stage = K[d].stage /\ L[d].area = K[d].area
             /\ L[d].alive = IF d = c THEN alive ELSE K[d].alive
             /\ L[d].master = K[d].master /\ L[d].summons = K[d].summons
             /\ L[d].friends = K[d].friends /\ L[d].targets = K[d].targets
             /\ L[d].attacked = K[d].attacked /\ L[d].idle = K[d].idle
             /\ L[d].check = K[d].check /\ L[d].listed = K[d].listed /\ L[d].toAdd = K[d].toAdd
             /\ L[d].release = K[d].release /\ L[d].client = K[d].client /\ L[d].useCount = K[d].useCount
  BY DEF Worlds, Records
<1> HIDE DEF L
<1>3. ASSUME NEW d \in Creatures PROVE Balance(L, d) = Balance(K, d)
  <2>1. L[d].useCount = K[d].useCount /\ Shown(L, d, c) = Shown(K, d, c)
    BY <1>2 DEF Shown
  <2>2. L[d].useCount - K[d].useCount = Shown(L, d, c) - Shown(K, d, c)
    BY <2>1, ShownIsInt
  <2>3. \A e \in Creatures : e # c =>
          L[e].friends = K[e].friends /\ L[e].targets = K[e].targets /\ L[e].summons = K[e].summons
    BY <1>2
  <2> QED BY <1>1, <2>2, <2>3, BalanceKept
<1>4. ASSUME NEW d \in Creatures PROVE Less(K, L, d)
  <2> HIDE DEF One
  <2>1. Awake(K, d) => Awake(L, d)
    BY <1>2 DEF Awake, Placed
  <2>2. Quiet(K, L, d)
    BY <1>2, <1>3, <2>1 DEF Quiet, Fresh, Tidy, Placed
  <2>3. Present(K, d) => Present(L, d)
    BY <1>2 DEF Present, Placed
  <2>4. ASSUME Aims(K, d) PROVE Aims(L, d)
    <3>1. K[d].attacked \in Creatures \cup {NoCreature}
      BY DEF Worlds, Records
    <3> QED BY <1>2, <2>4, <3>1 DEF Aims, Placed, Sees
  <2>5. (L[d].alive => K[d].alive) /\ (Placed(L, d) <=> Placed(K, d))
    BY <1>2 DEF Placed
  <2> QED BY <1>2, <2>2, <2>3, <2>4, <2>5 DEF Less, One
<1>5. Agree(K) => Agree(L)
  BY <1>2 DEF Agree
<1>6. Company(K) => Company(L)
  BY <1>2 DEF Company, Placed
<1>7. Waning(K, L)
  BY <1>1, <1>4, <1>5, <1>6 DEF Waning
<1>8. Remaining(K, L)
  BY <1>2 DEF Remaining
<1> QED BY <1>7, <1>8 DEF L

\* setIdle wakes whoever is alive.
LEMMA setIdleWakes ==
    ASSUME NEW K \in Worlds, NEW m \in Monsters, K[m].stage = "in", K[m].alive
    PROVE  setIdle(K, m, FALSE)[m].check
<1> DEFINE I == [K EXCEPT ![m].idle = FALSE]
           M == [I EXCEPT ![m].check = TRUE]
           N == [I EXCEPT ![m].check = TRUE, ![m].listed = TRUE, ![m].toAdd = @ + 1]
<1>0. m \in Creatures
  BY DEF Creatures
<1>1. I \in Worlds /\ I[m].stage = "in"
  <2>1. \A b \in BOOLEAN : [K EXCEPT ![m].idle = b] \in Worlds /\ [K EXCEPT ![m].idle = b][m].stage = "in"
    BY <1>0 DEF Worlds, Records
  <2> QED BY <2>1
<1>2. setIdle(K, m, FALSE) = addCreatureCheck(I, m)
  BY DEF setIdle
<1> HIDE DEF I
<1>3. addCreatureCheck(I, m) = IF I[m].listed THEN M ELSE useThing2(N, m)
  BY <1>1 DEF addCreatureCheck
<1>4. M[m].check
  BY <1>0, <1>1 DEF Worlds, Records
<1>5. N[m].check /\ DOMAIN N = Creatures
  BY <1>0, <1>1 DEF Worlds, Records
<1>6. useThing2(N, m)[m].check
  <2>1. useThing2(N, m)[m] = [N[m] EXCEPT !.useCount = N[m].useCount + 1]
    <3> HIDE DEF N
    <3> QED BY <1>0, <1>5 DEF useThing2
  <2> HIDE DEF N
  <2> QED BY <1>5, <2>1
<1> QED BY <1>2, <1>3, <1>4, <1>6

LEMMA changeHealthWaning ==
    ASSUME NEW K \in Worlds, NEW c \in Creatures, NEW alive \in BOOLEAN,
           K[c].stage # "none", alive => K[c].alive, Awake(K, c)
    PROVE  Waning(K, changeHealth(K, c, alive)) /\ Remaining(K, changeHealth(K, c, alive))
<1> DEFINE A == IF c \in Monsters THEN setIdle(K, c, FALSE) ELSE K
           L == [A EXCEPT ![c].alive = alive]
<1>1. changeHealth(K, c, alive) = L
  BY DEF changeHealth
<1>2. Steady(K, A)
  BY setIdleSteady, SteadyItself
<1>3. A \in Worlds /\ A[c].stage = K[c].stage /\ A[c].alive = K[c].alive /\ Awake(A, c)
  BY <1>2 DEF Steady, Quiet
<1>4. Placed(A, c) /\ ~alive => A[c].check
  <2> SUFFICES ASSUME Placed(A, c), ~alive PROVE A[c].check
    OBVIOUS
  <2>1. CASE ~K[c].alive \/ c \in Players
    <3> HIDE DEF A
    <3> QED BY <1>3, <2>1 DEF Awake
  <2>2. CASE K[c].alive /\ c \in Monsters
    BY <1>3, <2>2, setIdleWakes DEF Placed
  <2> QED BY <2>1, <2>2 DEF Creatures
<1> HIDE DEF A
<1>5. Waning(A, L) /\ Remaining(A, L)
  BY <1>3, <1>4, hurtWaning
<1>6. Waning(K, A) /\ Remaining(K, A)
  BY <1>2, SteadyWaning DEF Steady, Remaining
<1> QED BY <1>1, <1>5, <1>6, WaningTransitive DEF Remaining

LEMMA letOffWaning ==
    ASSUME NEW K \in Worlds, NEW c \in Creatures
    PROVE  /\ Waning(K, setAttackedCreature(K, c, NoCreature))
           /\ Remaining(K, setAttackedCreature(K, c, NoCreature))
BY letOffSteady, SteadyWaning DEF Steady, Remaining

\* Two records that differ in masters, summons and useCount at most.
Alike(q, r) ==
    /\ q.stage = r.stage /\ q.area = r.area /\ q.alive = r.alive
    /\ q.friends = r.friends /\ q.targets = r.targets
    /\ q.attacked = r.attacked /\ q.idle = r.idle
    /\ q.check = r.check /\ q.listed = r.listed /\ q.toAdd = r.toAdd
    /\ q.release = r.release /\ q.client = r.client

\* x has lost its summon s, and s its master.
Unsummoned(K, L, x, s) ==
    \A d \in Creatures :
        /\ Alike(L[d], K[d])
        /\ L[d].master = IF d = s THEN NoCreature ELSE K[d].master
        /\ L[d].summons = IF d = x THEN K[x].summons \ {s} ELSE K[d].summons
        /\ L[d].useCount = K[d].useCount - One(d = s)

LEMMA removeSummonFields ==
    ASSUME NEW K \in Worlds, NEW x \in Creatures, NEW s \in Creatures, s \in K[x].summons
    PROVE  removeSummon(K, x, s) \in Worlds /\ Unsummoned(K, removeSummon(K, x, s), x, s)
<1> DEFINE S == K[x].summons \ {s}
           I == [K EXCEPT ![x].summons = S]
           M == [I EXCEPT ![s].master = NoCreature]
           n == M[s].useCount - 1
           L == [M EXCEPT ![s].useCount = n]
<1>1. removeSummon(K, x, s) = L
  BY DEF removeSummon, releaseThing2
<1>2. /\ I \in Worlds
      /\ \A d \in Creatures :
            I[d] = IF d = x THEN [K[d] EXCEPT !.summons = S] ELSE K[d]
  <2>1. S \in SUBSET Monsters
    BY DEF Worlds, Records
  <2> HIDE DEF S
  <2> QED BY <2>1 DEF Worlds, Records
<1> HIDE DEF I
<1>3. /\ M \in Worlds
      /\ \A d \in Creatures :
            M[d] = IF d = s THEN [I[d] EXCEPT !.master = NoCreature] ELSE I[d]
  <2>1. NoCreature \in Creatures \cup {NoCreature}
    OBVIOUS
  <2> QED BY <1>2, <2>1 DEF Worlds, Records
<1> HIDE DEF M
<1>4. n \in Int
  BY <1>3 DEF Worlds, Records
<1> HIDE DEF n
<1>5. /\ L \in Worlds
      /\ \A d \in Creatures :
            L[d] = IF d = s THEN [M[d] EXCEPT !.useCount = n] ELSE M[d]
  BY <1>3, <1>4 DEF Worlds, Records
<1> HIDE DEF L
<1>6. ASSUME NEW d \in Creatures
      PROVE  /\ Alike(L[d], K[d])
             /\ L[d].master = IF d = s THEN NoCreature ELSE K[d].master
             /\ L[d].summons = IF d = x THEN S ELSE K[d].summons
             /\ M[d].useCount = K[d].useCount
             /\ L[d].useCount = IF d = s THEN n ELSE K[d].useCount
  <2> HIDE DEF S
  <2>1. K[d] \in Records /\ I[d] \in Records /\ M[d] \in Records
    BY <1>2, <1>3 DEF Worlds
  <2>2. /\ Alike(I[d], K[d]) /\ I[d].master = K[d].master /\ I[d].useCount = K[d].useCount
        /\ I[d].summons = IF d = x THEN S ELSE K[d].summons
    BY <1>2, <2>1 DEF Records, Alike
  <2>3. /\ Alike(M[d], I[d]) /\ M[d].summons = I[d].summons /\ M[d].useCount = I[d].useCount
        /\ M[d].master = IF d = s THEN NoCreature ELSE I[d].master
    BY <1>3, <2>1 DEF Records, Alike
  <2>4. /\ Alike(L[d], M[d]) /\ L[d].summons = M[d].summons /\ L[d].master = M[d].master
        /\ L[d].useCount = IF d = s THEN n ELSE M[d].useCount
    BY <1>5, <2>1 DEF Records, Alike
  <2> QED BY <2>2, <2>3, <2>4 DEF Alike
<1>7. ASSUME NEW d \in Creatures PROVE L[d].useCount = K[d].useCount - One(d = s)
  <2>1. K[d].useCount \in Int
    BY DEF Worlds, Records
  <2>2. M[s].useCount = K[s].useCount
    BY <1>6
  <2> QED BY <1>6, <2>1, <2>2 DEF One, n
<1>8. Unsummoned(K, L, x, s)
  BY <1>6, <1>7 DEF Unsummoned
<1> QED BY <1>1, <1>5, <1>8

LEMMA removeSummonWaning ==
    ASSUME NEW K \in Worlds, NEW x \in Creatures, NEW s \in Creatures
    PROVE  /\ Waning(K, removeSummon(K, x, s)) /\ Remaining(K, removeSummon(K, x, s))
           /\ s \notin removeSummon(K, x, s)[x].summons
<1> DEFINE L == removeSummon(K, x, s)
<1>1. CASE s \notin K[x].summons
  <2>1. L = K
    BY <1>1 DEF removeSummon
  <2> QED BY <1>1, <2>1, WaningItself DEF Remaining
<1>2. CASE s \in K[x].summons
  <2>1. /\ L \in Worlds
        /\ \A d \in Creatures :
             /\ Alike(L[d], K[d])
             /\ L[d].master = IF d = s THEN NoCreature ELSE K[d].master
             /\ L[d].summons = IF d = x THEN K[x].summons \ {s} ELSE K[d].summons
             /\ L[d].useCount = K[d].useCount - One(d = s)
    BY <1>2, removeSummonFields DEF Unsummoned
  <2> HIDE DEF L
  <2>2. ASSUME NEW d \in Creatures PROVE Balance(L, d) = Balance(K, d)
    <3> DEFINE g == K[d].release + K[d].toAdd + One(K[d].stage = "in") + One(K[d].client)
                    + One(d \in K[x].friends) + One(d \in K[x].targets)
               i == One(d \in K[x].summons)
               j == One(d \in L[x].summons)
    <3>1. Shown(K, d, x) = g + i
      BY DEF Shown
    <3>2. Shown(L, d, x) = g + j
      BY <2>1 DEF Shown, Alike
    <3>3. i \in Int /\ j \in Int /\ g \in Int
      BY DEF One, Worlds, Records
    <3>4. j - i = - One(d = s)
      BY <1>2, <2>1 DEF One
    <3>5. K[d].useCount \in Int /\ One(d = s) \in Int
      BY DEF Worlds, Records, One
    <3> HIDE DEF g, i, j
    <3>6. L[d].useCount - K[d].useCount = Shown(L, d, x) - Shown(K, d, x)
      BY <2>1, <3>1, <3>2, <3>3, <3>4, <3>5
    <3>7. \A e \in Creatures : e # x =>
            L[e].friends = K[e].friends /\ L[e].targets = K[e].targets /\ L[e].summons = K[e].summons
      BY <2>1 DEF Alike
    <3> QED BY <2>1, <3>6, <3>7, BalanceKept
  <2>3. ASSUME NEW d \in Creatures PROVE Less(K, L, d)
    <3> HIDE DEF One
    <3>1. Alike(L[d], K[d]) /\ L[d].master \in {K[d].master, NoCreature} /\ L[d].summons \subseteq K[d].summons
      BY <2>1
    <3>2. Quiet(K, L, d)
      BY <2>2, <3>1 DEF Quiet, Fresh, Tidy, Awake, Placed, Alike
    <3>3. Present(K, d) => Present(L, d)
      BY <3>1 DEF Present, Placed, Alike
    <3>4. ASSUME Aims(K, d) PROVE Aims(L, d)
      <4>1. K[d].attacked \in Creatures \cup {NoCreature}
        BY DEF Worlds, Records
      <4> QED BY <2>1, <3>4, <4>1 DEF Aims, Placed, Sees, Alike
    <3> QED BY <3>1, <3>2, <3>3, <3>4 DEF Less, Alike, Placed
  <2>4. ASSUME Agree(K) PROVE Agree(L)
    <3> SUFFICES ASSUME NEW y \in Creatures, NEW t \in Creatures
                 PROVE  L[t].master = y <=> t \in L[y].summons
      BY DEF Agree
    <3>1. K[t].master = y <=> t \in K[y].summons
      BY <2>4 DEF Agree
    <3>2. K[s].master = x
      BY <1>2, <2>4 DEF Agree
    <3>3. y # NoCreature
      BY CreaturesFinite
    <3> QED BY <2>1, <3>1, <3>2, <3>3
  <2>5. Company(K) => Company(L)
    BY <2>1 DEF Company, Placed, Alike
  <2>6. Waning(K, L) /\ Remaining(K, L)
    BY <2>1, <2>3, <2>4, <2>5 DEF Waning, Remaining, Alike
  <2>7. s \notin L[x].summons
    BY <2>1
  <2> QED BY <2>6, <2>7 DEF L
<1> QED BY <1>1, <1>2

\* The end of removeCreature for one creature.
Left(K, c) == removeCreatureCheck(FreeThing(onRemoved(K, c), c), c)

\* The master in the game that c leaves.
Leaves(K, c, x) == x = K[c].master /\ x # NoCreature /\ Placed(K, x) /\ c \in K[x].summons

\* What becomes of d when c is removed.
AfterRemoval(K, L, c, d) ==
    /\ L[d].stage = IF d = c THEN "gone" ELSE K[d].stage
    /\ L[d].attacked = IF d = c THEN NoCreature ELSE K[d].attacked
    /\ d # c => L[d].idle = K[d].idle
    /\ L[d].area = K[d].area /\ L[d].alive = K[d].alive
    /\ L[d].friends = K[d].friends /\ L[d].targets = K[d].targets
    /\ L[d].check = K[d].check /\ L[d].listed = K[d].listed /\ L[d].toAdd = K[d].toAdd
    /\ L[d].release = K[d].release /\ L[d].client = K[d].client
    /\ L[d].master = IF d = c /\ Leaves(K, c, K[c].master) THEN NoCreature ELSE K[d].master
    /\ L[d].summons = IF Leaves(K, c, d) THEN K[d].summons \ {c} ELSE K[d].summons
    /\ L[d].useCount = K[d].useCount - One(d = c /\ Leaves(K, c, K[c].master))

LEMMA onRemovedFields ==
    ASSUME NEW K \in Worlds, NEW c \in Creatures
    PROVE  /\ onRemoved(K, c) \in Worlds
           /\ \A d \in Creatures : AfterRemoval(K, onRemoved(K, c), c, d)
<1> DEFINE x == K[c].master
           g == [K[c] EXCEPT !.stage = "gone", !.idle = TRUE, !.masterInRange = FALSE,
                             !.attacked = NoCreature]
           G == [K EXCEPT ![c].stage = "gone", ![c].idle = TRUE, ![c].masterInRange = FALSE,
                          ![c].attacked = NoCreature]
           L == onRemoved(K, c)
<1>0. K[c] \in Records /\ x \in Creatures \cup {NoCreature}
  BY DEF Worlds, Records
<1>1. G = [K EXCEPT ![c] = g]
  OBVIOUS
<1>2. g \in Records
  <2>1. NoCreature \in Creatures \cup {NoCreature} /\ "gone" \in {"none", "in", "gone"}
    OBVIOUS
  <2>2. \A s \in {"none", "in", "gone"}, i, r \in BOOLEAN, a \in Creatures \cup {NoCreature} :
          [K[c] EXCEPT !.stage = s, !.idle = i, !.masterInRange = r, !.attacked = a] \in Records
    BY <1>0 DEF Records
  <2> QED BY <2>1, <2>2
<1>3. /\ g.stage = "gone" /\ g.attacked = NoCreature
      /\ g.area = K[c].area /\ g.alive = K[c].alive /\ g.friends = K[c].friends
      /\ g.targets = K[c].targets /\ g.check = K[c].check /\ g.listed = K[c].listed
      /\ g.toAdd = K[c].toAdd /\ g.release = K[c].release /\ g.client = K[c].client
      /\ g.master = K[c].master /\ g.summons = K[c].summons /\ g.useCount = K[c].useCount
  BY <1>0 DEF Records
<1> HIDE DEF g
<1>4. G \in Worlds /\ G[c] = g /\ \A d \in Creatures : d # c => G[d] = K[d]
  BY <1>1, <1>2 DEF Worlds
<1>5. L = IF x # NoCreature /\ K[x].stage = "in" THEN removeSummon(G, x, c) ELSE G
  BY DEF onRemoved
<1> HIDE DEF G, L
<1>6. ASSUME NEW d \in Creatures
      PROVE  /\ G[d].master = K[d].master /\ G[d].summons = K[d].summons
             /\ G[d].useCount = K[d].useCount /\ K[d].useCount \in Int
  BY <1>3, <1>4 DEF Worlds, Records
<1>7. CASE Leaves(K, c, x)
  <2> DEFINE R == removeSummon(G, x, c)
  <2>1. x \in Creatures /\ c \in G[x].summons /\ L = R
    BY <1>0, <1>5, <1>6, <1>7 DEF Leaves, Placed
  <2> HIDE DEF x
  <2>2. R \in Worlds /\ Unsummoned(G, R, x, c)
    BY <1>4, <2>1, removeSummonFields
  <2> HIDE DEF R
  <2>3. \A d : Leaves(K, c, d) <=> d = x
    BY <1>7 DEF Leaves
  <2>4. ASSUME NEW d \in Creatures
        PROVE  /\ Alike(L[d], G[d])
               /\ L[d].master = IF d = c /\ Leaves(K, c, x) THEN NoCreature ELSE K[d].master
               /\ L[d].summons = IF Leaves(K, c, d) THEN K[d].summons \ {c} ELSE K[d].summons
               /\ L[d].useCount = K[d].useCount - One(d = c /\ Leaves(K, c, x))
    BY <1>6, <1>7, <2>1, <2>2, <2>3 DEF Unsummoned
  <2>5. ASSUME NEW d \in Creatures PROVE AfterRemoval(K, L, c, d)
    BY <1>3, <1>4, <2>4 DEF AfterRemoval, Alike, x
  <2> QED BY <2>1, <2>2, <2>5 DEF L
<1>8. CASE ~Leaves(K, c, x)
  <2>1. L = G
    <3>1. CASE x # NoCreature /\ K[x].stage = "in"
      <4>1. x \in Creatures /\ c \notin G[x].summons
        BY <1>0, <1>6, <1>8, <3>1 DEF Leaves, Placed
      <4> QED BY <1>5, <3>1, <4>1 DEF removeSummon
    <3>2. CASE ~(x # NoCreature /\ K[x].stage = "in")
      BY <1>5, <3>2
    <3> QED BY <3>1, <3>2
  <2>2. \A d : ~Leaves(K, c, d)
    BY <1>8 DEF Leaves
  <2>3. ASSUME NEW d \in Creatures
        PROVE  /\ L[d].master = IF d = c /\ Leaves(K, c, x) THEN NoCreature ELSE K[d].master
               /\ L[d].summons = IF Leaves(K, c, d) THEN K[d].summons \ {c} ELSE K[d].summons
               /\ L[d].useCount = K[d].useCount - One(d = c /\ Leaves(K, c, x))
    BY <1>6, <1>8, <2>1, <2>2 DEF One
  <2>4. ASSUME NEW d \in Creatures PROVE AfterRemoval(K, L, c, d)
    BY <1>3, <1>4, <2>1, <2>3 DEF AfterRemoval, x
  <2> QED BY <1>4, <2>1, <2>4 DEF L
<1> QED BY <1>7, <1>8

\* Left(K, c) and onRemoved(K, c) differ in what c does next.
LEMMA LeftFields ==
    ASSUME NEW K \in Worlds, NEW c \in Creatures
    PROVE  /\ Left(K, c) \in Worlds
           /\ \A d \in Creatures : d # c => Left(K, c)[d] = onRemoved(K, c)[d]
           /\ Left(K, c)[c].release = K[c].release + 1
           /\ Tidy(K, c) => ~Left(K, c)[c].check
           /\ Left(K, c)[c] = [onRemoved(K, c)[c] EXCEPT !.release = Left(K, c)[c].release,
                                                         !.check = Left(K, c)[c].check]
<1> DEFINE R == onRemoved(K, c)
           n == R[c].release + 1
           F == [R EXCEPT ![c].release = n]
           L == Left(K, c)
<1>1. R \in Worlds /\ AfterRemoval(K, R, c, c)
  BY onRemovedFields
<1>2. L = IF F[c].listed THEN [F EXCEPT ![c].check = FALSE] ELSE F
  BY DEF Left, removeCreatureCheck, FreeThing
<1> HIDE DEF R, L
<1>3. n \in Nat /\ n = K[c].release + 1
  BY <1>1 DEF Worlds, Records, AfterRemoval
<1> HIDE DEF n
<1>4. /\ F \in Worlds /\ F[c] = [R[c] EXCEPT !.release = n]
      /\ \A d \in Creatures : d # c => F[d] = R[d]
  BY <1>1, <1>3 DEF Worlds, Records
<1> HIDE DEF F
<1>5. F[c].listed = K[c].listed /\ F[c].check = K[c].check /\ F[c].release = n
  BY <1>1, <1>4 DEF AfterRemoval, Worlds, Records
<1>6. CASE F[c].listed
  <2>1. \A b \in BOOLEAN :
          /\ [F EXCEPT ![c].check = b] \in Worlds
          /\ [F EXCEPT ![c].check = b][c] = [F[c] EXCEPT !.check = b]
          /\ \A d \in Creatures : d # c => [F EXCEPT ![c].check = b][d] = F[d]
    <3> SUFFICES ASSUME NEW b \in BOOLEAN
                 PROVE  /\ [F EXCEPT ![c].check = b] \in Worlds
                        /\ [F EXCEPT ![c].check = b][c] = [F[c] EXCEPT !.check = b]
                        /\ \A d \in Creatures : d # c => [F EXCEPT ![c].check = b][d] = F[d]
      OBVIOUS
    <3>1. F \in Worlds
      BY <1>4
    <3>2. [F EXCEPT ![c].check = b] \in Worlds
      BY <3>1 DEF Worlds, Records
    <3> QED BY <3>1, <3>2 DEF Worlds
  <2>2. /\ L \in Worlds /\ L[c] = [F[c] EXCEPT !.check = FALSE]
        /\ \A d \in Creatures : d # c => L[d] = F[d]
    BY <1>2, <1>6, <2>1
  <2>3. F[c] \in Records /\ R[c] \in Records
    BY <1>1, <1>4 DEF Worlds
  <2>4. ~L[c].check /\ L[c].release = n
    BY <1>5, <2>2, <2>3 DEF Records
  <2>5. L[c] = [R[c] EXCEPT !.release = L[c].release, !.check = L[c].check]
    BY <1>4, <2>2, <2>3, <2>4 DEF Records
  <2> QED BY <1>3, <1>4, <2>2, <2>4, <2>5 DEF L, R
<1>7. CASE ~F[c].listed
  <2>1. L = F
    BY <1>2, <1>7
  <2>2. Tidy(K, c) => ~L[c].check
    BY <1>5, <1>7, <2>1 DEF Tidy
  <2>3. L[c] = [R[c] EXCEPT !.release = L[c].release, !.check = L[c].check]
    <3>1. R[c] \in Records
      BY <1>1 DEF Worlds
    <3>2. L[c].release = n /\ L[c].check = R[c].check
      BY <1>4, <2>1, <3>1 DEF Records
    <3> QED BY <1>4, <2>1, <3>1, <3>2 DEF Records
  <2> QED BY <1>3, <1>4, <1>5, <2>1, <2>2, <2>3 DEF L, R
<1> QED BY <1>6, <1>7

\* c leaves the game when nobody attacks it any more.
LEMMA LeftWaning ==
    ASSUME NEW K \in Worlds, NEW c \in Creatures, Placed(K, c),
           \A d \in Creatures : Aims(K, d) => K[d].attacked # c
    PROVE  /\ Waning(K, Left(K, c))
           /\ Left(K, c)[c].stage = "gone"
           /\ \A d \in Creatures : d # c => Left(K, c)[d].stage = K[d].stage
<1> DEFINE R == onRemoved(K, c)
           L == Left(K, c)
           x == K[c].master
<1>1. R \in Worlds /\ \A d \in Creatures : AfterRemoval(K, R, c, d)
  BY onRemovedFields
<1>2. /\ L \in Worlds
      /\ \A d \in Creatures : d # c => L[d] = R[d]
      /\ L[c].release = K[c].release + 1
      /\ Tidy(K, c) => ~L[c].check
      /\ L[c] = [R[c] EXCEPT !.release = L[c].release, !.check = L[c].check]
  BY LeftFields
<1> HIDE DEF R, L
<1>3. ASSUME NEW d \in Creatures
      PROVE  /\ L[d].stage = R[d].stage /\ L[d].area = R[d].area /\ L[d].alive = R[d].alive
             /\ L[d].master = R[d].master /\ L[d].summons = R[d].summons
             /\ L[d].friends = R[d].friends /\ L[d].targets = R[d].targets
             /\ L[d].attacked = R[d].attacked /\ L[d].idle = R[d].idle
             /\ L[d].listed = R[d].listed /\ L[d].toAdd = R[d].toAdd
             /\ L[d].client = R[d].client /\ L[d].useCount = R[d].useCount
  <2>1. CASE d # c
    BY <1>2, <2>1
  <2>2. CASE d = c
    <3>1. R[c] \in Records
      BY <1>1 DEF Worlds
    <3> QED BY <1>2, <2>2, <3>1 DEF Records
  <2> QED BY <2>1, <2>2
<1>4. ASSUME NEW d \in Creatures, d # c
      PROVE  L[d].check = K[d].check /\ L[d].release = K[d].release
  <2>1. AfterRemoval(K, R, c, d) /\ L[d] = R[d]
    BY <1>1, <1>2, <1>4
  <2> QED BY <1>4, <2>1 DEF AfterRemoval
<1>5. ASSUME NEW d \in Creatures
      PROVE  /\ L[d].stage = IF d = c THEN "gone" ELSE K[d].stage
             /\ L[d].attacked = IF d = c THEN NoCreature ELSE K[d].attacked
             /\ d # c => L[d].idle = K[d].idle
             /\ L[d].area = K[d].area /\ L[d].alive = K[d].alive
             /\ L[d].friends = K[d].friends /\ L[d].targets = K[d].targets
             /\ L[d].listed = K[d].listed /\ L[d].toAdd = K[d].toAdd
             /\ L[d].client = K[d].client
             /\ L[d].master = IF d = c /\ Leaves(K, c, x) THEN NoCreature ELSE K[d].master
             /\ L[d].summons = IF Leaves(K, c, d) THEN K[d].summons \ {c} ELSE K[d].summons
             /\ L[d].useCount = K[d].useCount - One(d = c /\ Leaves(K, c, x))
  <2>1. AfterRemoval(K, R, c, d)
    BY <1>1
  <2> QED BY <1>3, <2>1 DEF AfterRemoval
<1>6. ASSUME NEW d \in Creatures PROVE Balance(L, d) = Balance(K, d)
  <2> DEFINE m == IF Leaves(K, c, x) THEN x ELSE c
  <2>1. m \in Creatures /\ \A e \in Creatures : Leaves(K, c, e) <=> Leaves(K, c, x) /\ e = m
    BY DEF Leaves, Worlds, Records
  <2>2. \A e \in Creatures : e # m =>
          L[e].friends = K[e].friends /\ L[e].targets = K[e].targets /\ L[e].summons = K[e].summons
    BY <1>5, <2>1
  <2>3. One(d \in L[m].summons) - One(d \in K[m].summons) = - One(d = c /\ Leaves(K, c, x))
    <3>1. CASE Leaves(K, c, x)
      <4>1. m = x /\ c \in K[m].summons /\ L[m].summons = K[m].summons \ {c}
        BY <1>5, <2>1, <3>1 DEF Leaves
      <4> HIDE DEF m, x
      <4>2. CASE d = c
        <5>1. One(d \in L[m].summons) = 0 /\ One(d \in K[m].summons) = 1
          BY <4>1, <4>2 DEF One
        <5>2. One(d = c /\ Leaves(K, c, x)) = 1
          BY <3>1, <4>2 DEF One
        <5> QED BY <5>1, <5>2
      <4>3. CASE d # c
        <5>1. One(d \in L[m].summons) = One(d \in K[m].summons) /\ One(d \in K[m].summons) \in Int
          BY <4>1, <4>3 DEF One
        <5>2. One(d = c /\ Leaves(K, c, x)) = 0
          BY <4>3 DEF One
        <5> QED BY <5>1, <5>2
      <4> QED BY <4>2, <4>3
    <3>2. CASE ~Leaves(K, c, x)
      <4>1. L[m].summons = K[m].summons
        BY <1>5, <2>1, <3>2
      <4>2. One(d \in K[m].summons) \in Int /\ One(d = c /\ Leaves(K, c, x)) = 0
        BY <3>2 DEF One
      <4> HIDE DEF m, x
      <4> QED BY <4>1, <4>2
    <3> QED BY <3>1, <3>2
  <2>4. L[d].release - K[d].release + One(L[d].stage = "in") - One(K[d].stage = "in") = 0
    <3>0. K[c].release \in Nat /\ K[d].release \in Nat
      BY DEF Worlds, Records
    <3>1. CASE d = c
      <4>1. L[d].stage # "in" /\ K[d].stage = "in"
        BY <1>5, <3>1 DEF Placed
      <4> QED BY <1>2, <3>0, <3>1, <4>1 DEF One
    <3>2. CASE d # c
      <4>1. L[d].stage = K[d].stage
        BY <1>5, <3>2
      <4> QED BY <1>4, <3>0, <3>2, <4>1 DEF One
    <3> QED BY <3>1, <3>2
  <2> DEFINE q == One(d = c /\ Leaves(K, c, x))
             rK == K[d].release
             rL == L[d].release
             pK == One(K[d].stage = "in")
             pL == One(L[d].stage = "in")
             iK == One(d \in K[m].summons)
             iL == One(d \in L[m].summons)
             g == K[d].toAdd + One(K[d].client) + One(d \in K[m].friends) + One(d \in K[m].targets)
             uK == K[d].useCount
  <2>5. /\ rK \in Int /\ rL \in Int /\ pK \in Int /\ pL \in Int /\ iK \in Int /\ iL \in Int
        /\ g \in Int /\ q \in Int /\ uK \in Int
    BY <1>2, <2>1 DEF Worlds, Records, One
  <2>6. Shown(K, d, m) = rK + pK + iK + g
    <3>1. /\ K[d].toAdd \in Int /\ One(K[d].client) \in Int
          /\ One(d \in K[m].friends) \in Int /\ One(d \in K[m].targets) \in Int
      BY DEF Worlds, Records, One
    <3> HIDE DEF m
    <3> QED BY <2>5, <3>1 DEF Shown
  <2>7. Shown(L, d, m) = rL + pL + iL + g
    <3>1. /\ L[d].toAdd \in Int /\ One(L[d].client) \in Int
          /\ One(d \in L[m].friends) \in Int /\ One(d \in L[m].targets) \in Int
      BY <1>2 DEF Worlds, Records, One
    <3>2. /\ L[d].toAdd = K[d].toAdd /\ L[d].client = K[d].client
          /\ L[m].friends = K[m].friends /\ L[m].targets = K[m].targets
      BY <1>5, <2>1
    <3> HIDE DEF m
    <3> QED BY <2>5, <3>1, <3>2 DEF Shown
  <2>8. L[d].useCount = uK - q
    BY <1>5
  <2>9. rL - rK + pL - pK = 0 /\ iL - iK = - q
    BY <2>3, <2>4
  <2> HIDE DEF q, rK, rL, pK, pL, iK, iL, g, m
  <2>10. L[d].useCount - uK = Shown(L, d, m) - Shown(K, d, m)
    <3> HIDE DEF uK
    <3> QED BY <2>5, <2>6, <2>7, <2>8, <2>9
  <2> QED BY <1>2, <2>1, <2>2, <2>10, BalanceKept
<1>7. ASSUME NEW d \in Creatures PROVE Less(K, L, d)
  <2>1. Fresh(K, d) => Fresh(L, d)
    BY <1>4, <1>5 DEF Fresh, Placed
  <2>2. Tidy(K, d) => Tidy(L, d)
    BY <1>2, <1>4, <1>5 DEF Tidy, Placed
  <2>3. Awake(K, d) => Awake(L, d)
    BY <1>4, <1>5 DEF Awake, Placed
  <2>4. Quiet(K, L, d)
    BY <1>5, <1>6, <2>1, <2>2, <2>3 DEF Quiet
  <2>5. L[d].release + One(Placed(L, d)) = K[d].release + One(Placed(K, d))
    <3>0. K[c].release \in Nat
      BY DEF Worlds, Records
    <3>1. CASE d = c
      <4>1. ~Placed(L, c) /\ Placed(K, c)
        BY <1>5 DEF Placed
      <4>2. One(Placed(L, c)) = 0 /\ One(Placed(K, c)) = 1
        BY <4>1 DEF One
      <4>3. L[c].release = K[c].release + 1
        BY <1>2
      <4>4. L[c].release + 0 = K[c].release + 1
        BY <3>0, <4>3
      <4> QED BY <3>1, <4>2, <4>4
    <3>2. CASE d # c
      <4>1. Placed(L, d) <=> Placed(K, d)
        BY <1>5, <3>2 DEF Placed
      <4>2. One(Placed(L, d)) = One(Placed(K, d))
        BY <4>1 DEF One
      <4>3. L[d].release = K[d].release
        BY <1>4, <3>2
      <4> QED BY <4>2, <4>3
    <3> QED BY <3>1, <3>2
  <2>6. Present(K, d) => Present(L, d)
    BY <1>5 DEF Present, Placed
  <2>7. ASSUME Aims(K, d) PROVE Aims(L, d)
    <3>1. K[d].attacked \in Creatures \cup {NoCreature} /\ K[d].attacked # c
      BY <2>7 DEF Worlds, Records
    <3> QED BY <1>5, <2>7, <3>1 DEF Aims, Placed, Sees
  <2>8. L[d].stage = K[d].stage \/ (Placed(K, d) /\ L[d].stage = "gone")
    BY <1>5
  <2> QED BY <1>5, <2>4, <2>5, <2>6, <2>7, <2>8 DEF Less
<1>8. ASSUME Agree(K) PROVE Agree(L)
  <2> SUFFICES ASSUME NEW y \in Creatures, NEW s \in Creatures
               PROVE  L[s].master = y <=> s \in L[y].summons
    BY DEF Agree
  <2>1. K[s].master = y <=> s \in K[y].summons
    BY <1>8 DEF Agree
  <2>2. y # NoCreature
    BY CreaturesFinite
  <2>3. CASE s # c
    BY <1>5, <2>1, <2>3
  <2>4. CASE s = c /\ Leaves(K, c, y)
    <3>1. y = x /\ Leaves(K, c, x)
      BY <2>4 DEF Leaves
    <3> HIDE DEF x
    <3> QED BY <1>5, <2>2, <2>4, <3>1
  <2>5. CASE s = c /\ ~Leaves(K, c, y)
    <3>1. L[y].summons = K[y].summons
      BY <1>5, <2>5
    <3>2. CASE Leaves(K, c, x)
      <4>1. y # x /\ L[c].master = NoCreature
        BY <1>5, <2>5, <3>2
      <4> QED BY <2>1, <2>2, <2>5, <3>1, <4>1
    <3>3. CASE ~Leaves(K, c, x)
      BY <1>5, <2>1, <2>5, <3>1, <3>3
    <3> QED BY <3>2, <3>3
  <2> QED BY <2>3, <2>4, <2>5
<1>9. ASSUME Agree(K), Company(K) PROVE Company(L)
  <2> SUFFICES ASSUME NEW y \in Creatures, NEW s \in Creatures, Placed(L, y), s \in L[y].summons
               PROVE  Placed(L, s)
    BY DEF Company
  <2>1. Placed(K, y) /\ s \in K[y].summons /\ (Leaves(K, c, y) => s # c)
    BY <1>5 DEF Placed
  <2>2. Placed(K, s) /\ K[s].master = y
    BY <1>9, <2>1 DEF Agree, Company
  <2>3. s # c
    BY <2>1, <2>2, CreaturesFinite DEF Leaves
  <2> QED BY <1>5, <2>2, <2>3 DEF Placed
<1>10. Waning(K, L)
  BY <1>2, <1>7, <1>8, <1>9 DEF Waning
<1>11. L[c].stage = "gone" /\ \A d \in Creatures : d # c => L[d].stage = K[d].stage
  BY <1>5
<1> QED BY <1>10, <1>11 DEF L

LEMMA removeOneWaning ==
    ASSUME NEW K \in Worlds, NEW c \in Creatures, NEW o \in Orders
    PROVE  /\ Waning(K, removeOne(K, c, o))
           /\ ~Placed(removeOne(K, c, o), c)
           /\ \A d \in Creatures : d # c => removeOne(K, c, o)[d].stage = K[d].stage
<1> DEFINE S == Spectators(K, {K[c].area})
           D == Disappeared(K, S, o, c)
           L == removeOne(K, c, o)
<1>1. CASE ~Placed(K, c)
  <2>1. L = K
    BY <1>1 DEF removeOne
  <2> QED BY <1>1, <2>1, WaningItself
<1>2. CASE Placed(K, c)
  <2>1. L = Left(D, c)
    BY <1>2 DEF removeOne, Disappeared, Left
  <2>2. S \in SUBSET Creatures /\ \A d \in Creatures : d \in S <=> Placed(K, d) /\ Sees(K, d, c)
    BY DEF Spectators, Sees
  <2> HIDE DEF S, L
  <2>3. Steady(K, D) /\ \A d \in S : D[d].attacked # c
    <3>1. \A d \in S : K[d].stage # "none"
      BY <2>2 DEF Placed
    <3> QED BY <2>2, <3>1, DisappearedSteady
  <2> HIDE DEF D
  <2>4. /\ D \in Worlds
        /\ \A d \in Creatures : D[d].stage = K[d].stage /\ D[d].area = K[d].area
    BY <2>3 DEF Steady, Quiet
  <2>5. ASSUME NEW d \in Creatures, Aims(D, d) PROVE D[d].attacked # c
    <3> SUFFICES ASSUME D[d].attacked = c PROVE FALSE
      OBVIOUS
    <3>1. Placed(D, d) /\ Sees(D, d, c)
      BY <2>5, CreaturesFinite DEF Aims
    <3>2. d \in S
      BY <2>2, <2>4, <3>1 DEF Placed, Sees
    <3> QED BY <2>3, <3>2
  <2>6. Placed(D, c)
    BY <1>2, <2>4 DEF Placed
  <2>7. /\ Waning(D, Left(D, c)) /\ Left(D, c)[c].stage = "gone"
        /\ \A d \in Creatures : d # c => Left(D, c)[d].stage = D[d].stage
    BY <2>4, <2>5, <2>6, LeftWaning
  <2>8. Waning(K, D)
    BY <2>3, SteadyWaning
  <2>9. Waning(K, L)
    BY <2>1, <2>7, <2>8, WaningTransitive
  <2>10. ~Placed(L, c) /\ \A d \in Creatures : d # c => L[d].stage = K[d].stage
    BY <2>1, <2>4, <2>7 DEF Placed
  <2> QED BY <2>9, <2>10 DEF L
<1> QED BY <1>1, <1>2

-----------------------------------------------------------------------------
(* Families. *)

Families(K) == Agree(K) /\ Company(K) /\ NoChains(K) /\ Masters(K)

\* Families stay whole as long as nobody is removed.
LEMMA RemainingFamilies ==
    ASSUME NEW K \in Worlds, NEW L, Waning(K, L), Remaining(K, L), Families(K)
    PROVE  Families(L)
<1>1. \A c \in Creatures : L[c].summons \subseteq K[c].summons
  BY DEF Waning, Less
<1>2. \A c \in Creatures : L[c].stage = K[c].stage
  BY DEF Remaining
<1>3. Agree(L) /\ Company(L)
  BY DEF Waning, Families
<1>4. NoChains(L)
  <2>1. NoChains(K)
    BY DEF Families
  <2> SUFFICES ASSUME NEW x \in Creatures, NEW s \in Creatures, s \in L[x].summons
               PROVE  L[s].summons = {}
    BY DEF NoChains
  <2>2. K[s].summons = {}
    BY <1>1, <2>1 DEF NoChains
  <2> QED BY <1>1, <2>2
<1>5. Masters(L)
  <2>1. Masters(K)
    BY DEF Families
  <2> SUFFICES ASSUME NEW x \in Creatures, NEW s \in Creatures, Placed(L, s), s \in L[x].summons
               PROVE  Placed(L, x)
    BY DEF Masters
  <2>2. Placed(K, s) /\ s \in K[x].summons
    BY <1>1, <1>2 DEF Placed
  <2> QED BY <1>2, <2>1, <2>2 DEF Masters, Placed
<1> QED BY <1>3, <1>4, <1>5 DEF Families

-----------------------------------------------------------------------------
(* One after the other. *)

\* What d's turn brings about, and no turn undoes, holds at the end.
LEMMA TurnsReach ==
    ASSUME NEW o \in Orders, NEW h, NEW d \in Creatures, NEW Z,
           \A i \in 1 .. Len(o) : o[i] = d \/ h[i - 1] \in Z => h[i] \in Z
    PROVE  h[Len(o)] \in Z
<1> DEFINE n == Len(o)
<1>1. n \in Nat /\ \E j \in 1 .. n : o[j] = d
  BY OrdersReachAll
<1>2. \A i \in 1 .. n : o[i] = d \/ h[i - 1] \in Z => h[i] \in Z
  OBVIOUS
<1> HIDE DEF n
<1>3. PICK j \in 1 .. n : o[j] = d
  BY <1>1
<1>4. j \in 0 .. n /\ h[j] \in Z
  BY <1>1, <1>2, <1>3
<1>5. h[n] \in Z
  BY <1>1, <1>2, <1>4, TurnsKeep
<1> QED BY <1>5 DEF n

\* The creatures of S are removed one by one.
Removed(K, S, o) == InTurn(LAMBDA X, d : removeOne(X, d, o), K, S, o)

\* h is how that goes.
RemovedRun(h, K, S, o) ==
    /\ h[0] = K
    /\ \A i \in 1 .. Len(o) : h[i] = IF o[i] \in S THEN removeOne(h[i - 1], o[i], o) ELSE h[i - 1]
    /\ Removed(K, S, o) = h[Len(o)]

LEMMA RemovedTurns ==
    ASSUME NEW K, NEW S, NEW o \in Orders,
           NEW W, K \in W, \A X \in W, d \in S : removeOne(X, d, o) \in W
    PROVE  \E h \in [0 .. Len(o) -> W] : RemovedRun(h, K, S, o)
<1> DEFINE n == Len(o)
           f == [p \in W \X S |-> removeOne(p[1], p[2], o)]
           F(g) == [i \in 0 .. n |->
                       IF i = 0 THEN K ELSE IF o[i] \in S THEN removeOne(g[i - 1], o[i], o) ELSE g[i - 1]]
           h == CHOOSE g : g = F(g)
<1>1. n \in Nat
  BY OrdersReachAll
<1>2. f \in [W \X S -> W]
  OBVIOUS
<1>3. PICK g \in [0 .. n -> W] : Turns(g, n, K, S, o, f)
  <2> HIDE DEF n, f
  <2> QED BY <1>1, <1>2, TurnsExist
<1>4. g = F(g)
  <2> SUFFICES ASSUME NEW i \in 0 .. n PROVE g[i] = IF i = 0 THEN K ELSE IF o[i] \in S THEN removeOne(g[i - 1], o[i], o) ELSE g[i - 1]
    BY <1>3
  <2> HIDE DEF n
  <2>1. CASE i = 0
    BY <1>3, <2>1 DEF Turns
  <2>2. CASE i # 0
    <3>1. i \in 1 .. n /\ i - 1 \in 0 .. n
      BY <1>1, <2>2
    <3>2. g[i - 1] \in W
      BY <1>3, <3>1
    <3>3. o[i] \in S => f[<<g[i - 1], o[i]>>] = removeOne(g[i - 1], o[i], o)
      BY <3>2
    <3> HIDE DEF f
    <3> QED BY <1>3, <2>2, <3>1, <3>3 DEF Turns
  <2> QED BY <2>1, <2>2
<1>5. h = F(h)
  BY <1>4
<1>6. Removed(K, S, o) = h[n]
  BY DEF Removed, InTurn
<1> HIDE DEF h
<1>7. /\ h[0] = K /\ DOMAIN h = 0 .. n
      /\ \A i \in 1 .. n : h[i] = IF o[i] \in S THEN removeOne(h[i - 1], o[i], o) ELSE h[i - 1]
  <2> HIDE DEF n
  <2>1. 0 \in 0 .. n /\ \A i \in 1 .. n : i \in 0 .. n /\ i # 0
    BY <1>1
  <2> QED BY <1>5, <2>1
<1>8. h \in [0 .. n -> W]
  <2>1. h = [i \in 0 .. n |-> h[i]]
    BY <1>5, <1>7
  <2> HIDE DEF n, F
  <2>2. h[0] \in W
    BY <1>7
  <2>3. \A i \in 1 .. n : h[i - 1] \in W => h[i] \in W
    BY <1>7
  <2> QED BY <1>1, <2>1, <2>2, <2>3, TurnsStay
<1> QED BY <1>6, <1>7, <1>8 DEF RemovedRun

\* Only they are, and all of them.
LEMMA RemovedWaning ==
    ASSUME NEW K \in Worlds, NEW S \in SUBSET Creatures, NEW o \in Orders
    PROVE  /\ Waning(K, Removed(K, S, o))
           /\ \A d \in S : ~Placed(Removed(K, S, o), d)
           /\ \A d \in Creatures \ S : Removed(K, S, o)[d].stage = K[d].stage
<1> DEFINE Same(X) == \A d \in Creatures \ S : X[d].stage = K[d].stage
           W == {X \in Worlds : Waning(K, X) /\ Same(X)}
           n == Len(o)
<1>1. ASSUME NEW X \in W, NEW d \in S
      PROVE  /\ removeOne(X, d, o) \in W /\ Waning(X, removeOne(X, d, o))
             /\ ~Placed(removeOne(X, d, o), d)
  <2>1. /\ Waning(X, removeOne(X, d, o)) /\ ~Placed(removeOne(X, d, o), d)
        /\ \A e \in Creatures : e # d => removeOne(X, d, o)[e].stage = X[e].stage
    BY removeOneWaning
  <2>2. Waning(K, removeOne(X, d, o)) /\ removeOne(X, d, o) \in Worlds
    BY <2>1, WaningTransitive DEF Waning
  <2>3. Same(removeOne(X, d, o))
    BY <2>1
  <2> QED BY <2>1, <2>2, <2>3
<1>2. K \in W
  BY WaningItself
<1>3. \A X \in W : Waning(K, X) /\ Same(X)
  OBVIOUS
<1> HIDE DEF W
<1>4. PICK h \in [0 .. n -> W] : RemovedRun(h, K, S, o)
  BY <1>1, <1>2, RemovedTurns
<1>5. n \in Nat
  BY OrdersReachAll
<1> HIDE DEF n
<1>6. /\ \A i \in 1 .. n : h[i - 1] \in W /\ h[i] = IF o[i] \in S THEN removeOne(h[i - 1], o[i], o) ELSE h[i - 1]
      /\ Removed(K, S, o) = h[n]
      /\ h[n] \in W
  BY <1>4, <1>5 DEF n, RemovedRun
<1>7. ASSUME NEW d \in S PROVE ~Placed(h[n], d)
  <2> DEFINE Z == {X \in W : ~Placed(X, d)}
  <2>1. ASSUME NEW i \in 1 .. n, o[i] = d \/ h[i - 1] \in Z PROVE h[i] \in Z
    <3>1. CASE o[i] = d
      BY <1>1, <1>6, <3>1
    <3>2. CASE o[i] # d /\ o[i] \in S
      <4>1. h[i] = removeOne(h[i - 1], o[i], o) /\ h[i - 1] \in W /\ ~Placed(h[i - 1], d)
        BY <1>6, <2>1, <3>2
      <4>2. h[i] \in W /\ Waning(h[i - 1], h[i])
        BY <1>1, <3>2, <4>1
      <4>3. ~Placed(h[i], d)
        BY <4>1, <4>2 DEF Waning, Less, Placed
      <4> QED BY <4>2, <4>3
    <3>3. CASE o[i] # d /\ o[i] \notin S
      BY <1>6, <2>1, <3>3
    <3> QED BY <3>1, <3>2, <3>3
  <2> HIDE DEF Z
  <2>2. h[n] \in Z
    BY <2>1, TurnsReach DEF n
  <2> QED BY <2>2 DEF Z
<1> QED BY <1>3, <1>6, <1>7

\* x loses a summon, which dies.
destroySummon(K, x, s) ==
    removeSummon(changeHealth(setAttackedCreature(K, s, NoCreature), s, FALSE), x, s)

LEMMA destroySummonWaning ==
    ASSUME NEW K \in Worlds, NEW x \in Creatures, NEW s \in Creatures,
           K[s].stage # "none", Awake(K, s)
    PROVE  /\ Waning(K, destroySummon(K, x, s)) /\ Remaining(K, destroySummon(K, x, s))
           /\ s \notin destroySummon(K, x, s)[x].summons
<1> DEFINE A == setAttackedCreature(K, s, NoCreature)
           H == changeHealth(A, s, FALSE)
           L == removeSummon(H, x, s)
<1>1. Waning(K, A) /\ Remaining(K, A)
  BY letOffWaning
<1>2. A \in Worlds /\ A[s].stage # "none" /\ Awake(A, s)
  BY <1>1 DEF Waning, Less, Quiet, Remaining
<1> HIDE DEF A
<1>3. Waning(A, H) /\ Remaining(A, H)
  BY <1>2, changeHealthWaning
<1>4. H \in Worlds
  BY <1>3 DEF Waning
<1> HIDE DEF H
<1>5. Waning(H, L) /\ Remaining(H, L) /\ s \notin L[x].summons
  BY <1>4, removeSummonWaning
<1>6. Waning(K, L)
  BY <1>1, <1>3, <1>5, WaningTransitive
<1>7. Remaining(K, L)
  BY <1>1, <1>3, <1>5 DEF Remaining
<1> QED BY <1>5, <1>6, <1>7 DEF L, H, A, destroySummon

\* x loses the summons in S, which die.
Destroyed(K, S, o, x) == InTurn(LAMBDA X, d : destroySummon(X, x, d), K, S, o)

\* h is how that goes.
DestroyedRun(h, K, S, o, x) ==
    /\ h[0] = K
    /\ \A i \in 1 .. Len(o) : h[i] = IF o[i] \in S THEN destroySummon(h[i - 1], x, o[i]) ELSE h[i - 1]
    /\ Destroyed(K, S, o, x) = h[Len(o)]

LEMMA DestroyedTurns ==
    ASSUME NEW K, NEW S, NEW o \in Orders, NEW x,
           NEW W, K \in W, \A X \in W, d \in S : destroySummon(X, x, d) \in W
    PROVE  \E h \in [0 .. Len(o) -> W] : DestroyedRun(h, K, S, o, x)
<1> DEFINE n == Len(o)
           f == [p \in W \X S |-> destroySummon(p[1], x, p[2])]
           F(g) == [i \in 0 .. n |->
                       IF i = 0 THEN K ELSE IF o[i] \in S THEN destroySummon(g[i - 1], x, o[i]) ELSE g[i - 1]]
           h == CHOOSE g : g = F(g)
<1>1. n \in Nat
  BY OrdersReachAll
<1>2. f \in [W \X S -> W]
  OBVIOUS
<1>3. PICK g \in [0 .. n -> W] : Turns(g, n, K, S, o, f)
  <2> HIDE DEF n, f
  <2> QED BY <1>1, <1>2, TurnsExist
<1>4. g = F(g)
  <2> SUFFICES ASSUME NEW i \in 0 .. n PROVE g[i] = IF i = 0 THEN K ELSE IF o[i] \in S THEN destroySummon(g[i - 1], x, o[i]) ELSE g[i - 1]
    BY <1>3
  <2> HIDE DEF n
  <2>1. CASE i = 0
    BY <1>3, <2>1 DEF Turns
  <2>2. CASE i # 0
    <3>1. i \in 1 .. n /\ i - 1 \in 0 .. n
      BY <1>1, <2>2
    <3>2. g[i - 1] \in W
      BY <1>3, <3>1
    <3>3. o[i] \in S => f[<<g[i - 1], o[i]>>] = destroySummon(g[i - 1], x, o[i])
      BY <3>2
    <3> HIDE DEF f
    <3> QED BY <1>3, <2>2, <3>1, <3>3 DEF Turns
  <2> QED BY <2>1, <2>2
<1>5. h = F(h)
  BY <1>4
<1>6. Destroyed(K, S, o, x) = h[n]
  BY DEF Destroyed, InTurn
<1> HIDE DEF h
<1>7. /\ h[0] = K /\ DOMAIN h = 0 .. n
      /\ \A i \in 1 .. n : h[i] = IF o[i] \in S THEN destroySummon(h[i - 1], x, o[i]) ELSE h[i - 1]
  <2> HIDE DEF n
  <2>1. 0 \in 0 .. n /\ \A i \in 1 .. n : i \in 0 .. n /\ i # 0
    BY <1>1
  <2> QED BY <1>5, <2>1
<1>8. h \in [0 .. n -> W]
  <2>1. h = [i \in 0 .. n |-> h[i]]
    BY <1>5, <1>7
  <2> HIDE DEF n, F
  <2>2. h[0] \in W
    BY <1>7
  <2>3. \A i \in 1 .. n : h[i - 1] \in W => h[i] \in W
    BY <1>7
  <2> QED BY <1>1, <2>1, <2>2, <2>3, TurnsStay
<1> QED BY <1>6, <1>7, <1>8 DEF DestroyedRun

LEMMA DestroyedWaning ==
    ASSUME NEW K \in Worlds, NEW S \in SUBSET Creatures, NEW o \in Orders, NEW x \in Creatures,
           \A s \in S : K[s].stage # "none" /\ Awake(K, s)
    PROVE  /\ Waning(K, Destroyed(K, S, o, x)) /\ Remaining(K, Destroyed(K, S, o, x))
           /\ \A s \in S : s \notin Destroyed(K, S, o, x)[x].summons
<1> DEFINE W == {X \in Worlds : Waning(K, X) /\ Remaining(K, X)}
           n == Len(o)
<1>1. ASSUME NEW X \in W, NEW s \in S
      PROVE  /\ destroySummon(X, x, s) \in W /\ Waning(X, destroySummon(X, x, s))
             /\ s \notin destroySummon(X, x, s)[x].summons
  <2>1. X[s].stage # "none" /\ Awake(X, s)
    BY DEF Waning, Less, Quiet, Remaining
  <2>2. /\ Waning(X, destroySummon(X, x, s)) /\ Remaining(X, destroySummon(X, x, s))
        /\ s \notin destroySummon(X, x, s)[x].summons
    BY <2>1, destroySummonWaning
  <2>3. Waning(K, destroySummon(X, x, s)) /\ destroySummon(X, x, s) \in Worlds
    BY <2>2, WaningTransitive DEF Waning
  <2>4. Remaining(K, destroySummon(X, x, s))
    BY <2>2 DEF Remaining
  <2> QED BY <2>2, <2>3, <2>4
<1>2. K \in W
  BY WaningItself DEF Remaining
<1>3. \A X \in W : Waning(K, X) /\ Remaining(K, X)
  OBVIOUS
<1> HIDE DEF W
<1>4. PICK h \in [0 .. n -> W] : DestroyedRun(h, K, S, o, x)
  BY <1>1, <1>2, DestroyedTurns
<1>5. n \in Nat
  BY OrdersReachAll
<1> HIDE DEF n
<1>6. /\ \A i \in 1 .. n : h[i - 1] \in W /\ h[i] = IF o[i] \in S THEN destroySummon(h[i - 1], x, o[i]) ELSE h[i - 1]
      /\ Destroyed(K, S, o, x) = h[n]
      /\ h[n] \in W
  BY <1>4, <1>5 DEF n, DestroyedRun
<1>7. ASSUME NEW s \in S PROVE s \notin h[n][x].summons
  <2> DEFINE Z == {X \in W : s \notin X[x].summons}
  <2>1. ASSUME NEW i \in 1 .. n, o[i] = s \/ h[i - 1] \in Z PROVE h[i] \in Z
    <3>1. CASE o[i] = s
      BY <1>1, <1>6, <3>1
    <3>2. CASE o[i] # s /\ o[i] \in S
      <4>1. h[i] = destroySummon(h[i - 1], x, o[i]) /\ h[i - 1] \in W /\ s \notin h[i - 1][x].summons
        BY <1>6, <2>1, <3>2
      <4>2. h[i] \in W /\ Waning(h[i - 1], h[i])
        BY <1>1, <3>2, <4>1
      <4>3. s \notin h[i][x].summons
        BY <4>1, <4>2 DEF Waning, Less
      <4> QED BY <4>2, <4>3
    <3>3. CASE o[i] # s /\ o[i] \notin S
      BY <1>6, <2>1, <3>3
    <3> QED BY <3>1, <3>2, <3>3
  <2> HIDE DEF Z
  <2>2. h[n] \in Z
    BY <2>1, TurnsReach DEF n
  <2> QED BY <2>2 DEF Z
<1> QED BY <1>3, <1>6, <1>7

-----------------------------------------------------------------------------
(* The states between the steps of the program. *)

Good(K) ==
    /\ K \in Worlds /\ Families(K)
    /\ \A c \in Creatures : Fresh(K, c) /\ Tidy(K, c) /\ Awake(K, c) /\ Aims(K, c)

LEMMA WaningGood ==
    ASSUME NEW K, NEW L, Good(K), Waning(K, L), Families(L)
    PROVE  Good(L)
BY DEF Good, Waning, Less, Quiet

LEMMA RemainingGood ==
    ASSUME NEW K, NEW L, Good(K), Waning(K, L), Remaining(K, L)
    PROVE  Good(L)
BY WaningGood, RemainingFamilies DEF Good

LEMMA SteadyGood ==
    ASSUME NEW K, NEW L, Good(K), Steady(K, L)
    PROVE  Good(L) /\ Waning(K, L) /\ Remaining(K, L)
BY RemainingGood, SteadyWaning DEF Steady, Remaining, Good

\* Who is or has a summon, attacks or is attacked is no free memory.
LEMMA GoodStages ==
    ASSUME NEW K, Good(K), NEW c \in Creatures
    PROVE  /\ K[c].master # NoCreature => K[c].stage # "none"
           /\ \A s \in K[c].summons : s \in Creatures /\ K[s].master = c /\ K[s].stage # "none"
           /\ K[c].attacked # NoCreature => Placed(K, c) /\ Placed(K, K[c].attacked)
<1>1. \A s \in K[c].summons : s \in Creatures /\ K[s].master = c
  <2>1. K[c].summons \subseteq Creatures
    BY DEF Good, Worlds, Records, Creatures
  <2> QED BY <2>1 DEF Good, Families, Agree
<1>2. \A s \in Creatures : K[s].stage = "none" => K[s].master = NoCreature
  BY DEF Good, Fresh
<1>3. K[c].attacked # NoCreature => Placed(K, c) /\ Placed(K, K[c].attacked)
  BY DEF Good, Aims
<1> QED BY <1>1, <1>2, <1>3, CreaturesFinite

LEMMA destroySummonsWaning ==
    ASSUME NEW K, Good(K), NEW x \in Creatures, NEW o \in Orders
    PROVE  /\ Waning(K, destroySummons(K, x, o)) /\ Remaining(K, destroySummons(K, x, o))
           /\ destroySummons(K, x, o)[x].summons = {}
<1> DEFINE S == K[x].summons
           L == Destroyed(K, S, o, x)
<1>1. destroySummons(K, x, o) = L
  BY DEF destroySummons, Destroyed, destroySummon
<1>2. S \in SUBSET Creatures /\ \A s \in S : K[s].stage # "none" /\ Awake(K, s)
  BY GoodStages DEF Good
<1>3. K \in Worlds
  BY DEF Good
<1>4. /\ Waning(K, L) /\ Remaining(K, L)
      /\ \A s \in S : s \notin L[x].summons
  BY <1>2, <1>3, DestroyedWaning
<1>5. L[x].summons \subseteq S
  BY <1>4 DEF Waning, Less
<1> QED BY <1>1, <1>4, <1>5

LEMMA removeCreatureWaning ==
    ASSUME NEW K \in Worlds, Families(K), NEW c \in Creatures, NEW o \in Orders
    PROVE  /\ Waning(K, removeCreature(K, c, o)) /\ Families(removeCreature(K, c, o))
           /\ ~Placed(removeCreature(K, c, o), c)
           /\ \A d \in Creatures \ {c} :
                d \notin K[c].summons => removeCreature(K, c, o)[d].stage = K[d].stage
<1> DEFINE R == removeOne(K, c, o)
           S == R[c].summons
           L == removeCreature(K, c, o)
<1>1. CASE ~Placed(K, c)
  <2>1. L = K
    BY <1>1 DEF removeCreature
  <2> QED BY <1>1, <2>1, WaningItself
<1>2. CASE Placed(K, c)
  <2>1. L = Removed(R, S, o)
    BY <1>2 DEF removeCreature, Removed
  <2>2. Waning(K, R) /\ ~Placed(R, c) /\ \A d \in Creatures : d # c => R[d].stage = K[d].stage
    BY removeOneWaning
  <2> HIDE DEF R, L
  <2>3. R \in Worlds /\ S \subseteq K[c].summons
    BY <2>2 DEF Waning, Less
  <2>4. S \in SUBSET Creatures
    BY <2>3 DEF Worlds, Records, Creatures
  <2> HIDE DEF S
  <2>5. /\ Waning(R, L)
        /\ \A d \in S : ~Placed(L, d)
        /\ \A d \in Creatures \ S : L[d].stage = R[d].stage
    BY <2>1, <2>3, <2>4, RemovedWaning
  <2>6. Waning(K, L)
    BY <2>2, <2>5, WaningTransitive
  <2>7. ~Placed(L, c)
    BY <2>2, <2>5 DEF Placed
  <2>8. \A x \in Creatures : L[x].summons \subseteq K[x].summons /\ L[x].summons \subseteq R[x].summons
    BY <2>5, <2>6 DEF Waning, Less
  <2>9. Agree(K) /\ Company(K) /\ NoChains(K) /\ Masters(K)
    BY DEF Families
  <2>10. NoChains(L)
    <3> SUFFICES ASSUME NEW x \in Creatures, NEW s \in Creatures, s \in L[x].summons
                 PROVE  L[s].summons = {}
      BY DEF NoChains
    <3>1. K[s].summons = {}
      BY <2>8, <2>9 DEF NoChains
    <3> QED BY <2>8, <3>1
  <2>11. Masters(L)
    <3> SUFFICES ASSUME NEW x \in Creatures, NEW s \in Creatures, Placed(L, s), s \in L[x].summons
                 PROVE  Placed(L, x)
      BY DEF Masters
    <3>1. s \in K[x].summons /\ Placed(K, s)
      BY <2>6, <2>8 DEF Waning, Less, Placed
    <3>2. Placed(K, x)
      BY <2>9, <3>1 DEF Masters
    <3>3. x # c
      BY <2>5, <2>8 DEF S
    <3>4. x \notin S
      BY <2>3, <2>9, <3>1 DEF NoChains
    <3> QED BY <2>2, <2>5, <3>2, <3>3, <3>4 DEF Placed
  <2>12. Families(L)
    BY <2>6, <2>9, <2>10, <2>11 DEF Waning, Families
  <2>13. \A d \in Creatures \ {c} : d \notin K[c].summons => L[d].stage = K[d].stage
    BY <2>2, <2>3, <2>5
  <2> QED BY <2>6, <2>7, <2>12, <2>13 DEF L
<1> QED BY <1>1, <1>2

LEMMA clearListsSteady ==
    ASSUME NEW K \in Worlds, NEW m \in Creatures
    PROVE  Steady(K, clearLists(K, m))
BY letGoSteady DEF clearLists

\* Whoever dies loses its summons and leaves the game.
LEMMA dieWaning ==
    ASSUME NEW K, Good(K), NEW c \in Creatures, NEW o \in Orders
    PROVE  /\ Good(die(K, c, o)) /\ Waning(K, die(K, c, o))
<1> DEFINE A == setAttackedCreature(K, c, NoCreature)
           D == destroySummons(A, c, o)
           C == clearLists(D, c)
           P == IF c \in Players THEN K ELSE C
           L == removeCreature(P, c, o)
<1>0. K \in Worlds
  BY DEF Good
<1>1. die(K, c, o) = L
  BY DEF die
<1>2. Steady(K, A)
  BY <1>0, letOffSteady
<1>3. Good(A) /\ Waning(K, A)
  BY <1>2, SteadyGood
<1> HIDE DEF A
<1>4. Waning(A, D) /\ Remaining(A, D)
  BY <1>3, destroySummonsWaning
<1>5. Good(D) /\ Waning(K, D) /\ D \in Worlds
  BY <1>3, <1>4, RemainingGood, WaningTransitive DEF Good
<1> HIDE DEF D
<1>6. Steady(D, C)
  BY <1>5, clearListsSteady
<1>7. Good(C) /\ Waning(D, C)
  BY <1>5, <1>6, SteadyGood
<1>8. Good(P) /\ Waning(K, P)
  BY <1>0, <1>5, <1>7, WaningItself, WaningTransitive
<1> HIDE DEF P
<1>9. P \in Worlds /\ Families(P)
  BY <1>8 DEF Good
<1>10. Waning(P, L) /\ Families(L)
  BY <1>9, removeCreatureWaning
<1> QED BY <1>1, <1>8, <1>10, WaningGood, WaningTransitive

-----------------------------------------------------------------------------
(* Moves. *)

\* The creatures of S and their summons are removed.
LeftBehind(K, S, o) == InTurn(LAMBDA X, d : removeCreature(X, d, o), K, S, o)

\* h is how that goes.
LeftBehindRun(h, K, S, o) ==
    /\ h[0] = K
    /\ \A i \in 1 .. Len(o) : h[i] = IF o[i] \in S THEN removeCreature(h[i - 1], o[i], o) ELSE h[i - 1]
    /\ LeftBehind(K, S, o) = h[Len(o)]

LEMMA LeftBehindTurns ==
    ASSUME NEW K, NEW S, NEW o \in Orders,
           NEW W, K \in W, \A X \in W, d \in S : removeCreature(X, d, o) \in W
    PROVE  \E h \in [0 .. Len(o) -> W] : LeftBehindRun(h, K, S, o)
<1> DEFINE n == Len(o)
           f == [p \in W \X S |-> removeCreature(p[1], p[2], o)]
           F(g) == [i \in 0 .. n |->
                       IF i = 0 THEN K ELSE IF o[i] \in S THEN removeCreature(g[i - 1], o[i], o) ELSE g[i - 1]]
           h == CHOOSE g : g = F(g)
<1>1. n \in Nat
  BY OrdersReachAll
<1>2. f \in [W \X S -> W]
  OBVIOUS
<1>3. PICK g \in [0 .. n -> W] : Turns(g, n, K, S, o, f)
  <2> HIDE DEF n, f
  <2> QED BY <1>1, <1>2, TurnsExist
<1>4. g = F(g)
  <2> SUFFICES ASSUME NEW i \in 0 .. n PROVE g[i] = IF i = 0 THEN K ELSE IF o[i] \in S THEN removeCreature(g[i - 1], o[i], o) ELSE g[i - 1]
    BY <1>3
  <2> HIDE DEF n
  <2>1. CASE i = 0
    BY <1>3, <2>1 DEF Turns
  <2>2. CASE i # 0
    <3>1. i \in 1 .. n /\ i - 1 \in 0 .. n
      BY <1>1, <2>2
    <3>2. g[i - 1] \in W
      BY <1>3, <3>1
    <3>3. o[i] \in S => f[<<g[i - 1], o[i]>>] = removeCreature(g[i - 1], o[i], o)
      BY <3>2
    <3> HIDE DEF f
    <3> QED BY <1>3, <2>2, <3>1, <3>3 DEF Turns
  <2> QED BY <2>1, <2>2
<1>5. h = F(h)
  BY <1>4
<1>6. LeftBehind(K, S, o) = h[n]
  BY DEF LeftBehind, InTurn
<1> HIDE DEF h
<1>7. /\ h[0] = K /\ DOMAIN h = 0 .. n
      /\ \A i \in 1 .. n : h[i] = IF o[i] \in S THEN removeCreature(h[i - 1], o[i], o) ELSE h[i - 1]
  <2> HIDE DEF n
  <2>1. 0 \in 0 .. n /\ \A i \in 1 .. n : i \in 0 .. n /\ i # 0
    BY <1>1
  <2> QED BY <1>5, <2>1
<1>8. h \in [0 .. n -> W]
  <2>1. h = [i \in 0 .. n |-> h[i]]
    BY <1>5, <1>7
  <2> HIDE DEF n, F
  <2>2. h[0] \in W
    BY <1>7
  <2>3. \A i \in 1 .. n : h[i - 1] \in W => h[i] \in W
    BY <1>7
  <2> QED BY <1>1, <2>1, <2>2, <2>3, TurnsStay
<1> QED BY <1>6, <1>7, <1>8 DEF LeftBehindRun

LEMMA LeftBehindWaning ==
    ASSUME NEW K \in Worlds, Families(K), NEW S \in SUBSET Creatures, NEW o \in Orders,
           \A s \in S : K[s].summons = {}
    PROVE  /\ Waning(K, LeftBehind(K, S, o)) /\ Families(LeftBehind(K, S, o))
           /\ \A d \in Creatures \ S : LeftBehind(K, S, o)[d].stage = K[d].stage
<1> DEFINE Same(X) == \A d \in Creatures \ S : X[d].stage = K[d].stage
           W == {X \in Worlds : Waning(K, X) /\ Families(X) /\ Same(X)}
<1>1. ASSUME NEW X \in W, NEW s \in S PROVE removeCreature(X, s, o) \in W
  <2>1. X[s].summons = {}
    BY DEF Waning, Less
  <2>2. /\ Waning(X, removeCreature(X, s, o)) /\ Families(removeCreature(X, s, o))
        /\ \A d \in Creatures \ {s} :
             d \notin X[s].summons => removeCreature(X, s, o)[d].stage = X[d].stage
    BY removeCreatureWaning
  <2>3. Waning(K, removeCreature(X, s, o)) /\ removeCreature(X, s, o) \in Worlds
    BY <2>2, WaningTransitive DEF Waning
  <2>4. Same(removeCreature(X, s, o))
    BY <2>1, <2>2
  <2> QED BY <2>2, <2>3, <2>4
<1>2. K \in W
  BY WaningItself
<1>3. LeftBehind(K, S, o) \in W
  <2> HIDE DEF W
  <2>1. PICK h \in [0 .. Len(o) -> W] : LeftBehindRun(h, K, S, o)
    BY <1>1, <1>2, LeftBehindTurns
  <2>2. h[Len(o)] \in W
    BY <2>1, LastTurn
  <2>3. LeftBehind(K, S, o) = h[Len(o)]
    BY <2>1 DEF LeftBehindRun
  <2> QED BY <2>2, <2>3
<1> QED BY <1>3

\* Whoever moves leaves behind nobody near.
LEMMA LeaveBehindWaning ==
    ASSUME NEW K \in Worlds, Families(K), NEW m \in Creatures, NEW c \in Creatures, NEW o \in Orders
    PROVE  /\ Waning(K, LeaveBehind(K, m, c, o)) /\ Families(LeaveBehind(K, m, c, o))
           /\ m # c => LeaveBehind(K, m, c, o) = K
           /\ \A d \in Creatures :
                \/ LeaveBehind(K, m, c, o)[d].stage = K[d].stage
                \/ {K[d].area, K[c].area} \in Far
<1> DEFINE S == {s \in K[c].summons : {K[s].area, K[c].area} \in Far}
           L == LeaveBehind(K, m, c, o)
<1>1. CASE m # c
  <2>1. L = K
    BY <1>1 DEF LeaveBehind
  <2> QED BY <1>1, <2>1, WaningItself
<1>2. CASE m = c
  <2>1. L = LeftBehind(K, S, o)
    BY <1>2 DEF LeaveBehind, LeftBehind
  <2>2. S \in SUBSET Creatures /\ \A s \in S : K[s].summons = {}
    BY DEF Worlds, Records, Creatures, Families, NoChains
  <2>3. \A d \in Creatures : d \in S => {K[d].area, K[c].area} \in Far
    OBVIOUS
  <2> HIDE DEF S, L
  <2>4. /\ Waning(K, L) /\ Families(L)
        /\ \A d \in Creatures \ S : L[d].stage = K[d].stage
    BY <2>1, <2>2, LeftBehindWaning
  <2> QED BY <1>2, <2>3, <2>4 DEF L
<1> QED BY <1>1, <1>2

LEMMA LoseSightSteady ==
    ASSUME NEW K \in Worlds, NEW m \in Creatures, NEW c \in Creatures
    PROVE  /\ Steady(K, LoseSight(K, m, c))
           /\ LoseSight(K, m, c)[m].attacked # NoCreature
                => /\ LoseSight(K, m, c)[m].attacked = K[m].attacked
                   /\ c \in {m, K[m].attacked} => Sees(K, m, K[m].attacked)
<1> DEFINE x == K[m].attacked
           L == LoseSight(K, m, c)
<1>1. CASE x # NoCreature /\ c \in {m, x} /\ ~Sees(K, m, x)
  <2>1. L = internalCreatureDisappear(K, m, x) /\ x \in Creatures
    BY <1>1 DEF LoseSight, Worlds, Records
  <2>2. Steady(K, L) /\ L[m].attacked # x
    BY <2>1, internalCreatureDisappearSteady
  <2>3. L[m].attacked = NoCreature
    BY <2>2 DEF Steady, Quiet
  <2> QED BY <2>2, <2>3
<1>2. CASE ~(x # NoCreature /\ c \in {m, x} /\ ~Sees(K, m, x))
  <2>1. L = K
    BY <1>2 DEF LoseSight
  <2> QED BY <1>2, <2>1, SteadyItself
<1> QED BY <1>1, <1>2

LEMMA NoticeSteady ==
    ASSUME NEW K \in Worlds, NEW m \in Creatures, NEW c \in Creatures, NEW a, NEW o \in Orders,
           K[m].stage # "none"
    PROVE  Steady(K, Notice(K, m, c, a, o))
<1> DEFINE now == Sees(K, m, c)
           before == K[m].area = a
           R == [K EXCEPT ![m].masterInRange = Sees(K, m, K[m].master)]
           A == IF K[m].master = NoCreature THEN K ELSE R
           E == IF now /\ ~before THEN onCreatureEnter(K, m, c)
                ELSE IF ~now /\ before THEN onCreatureLeave(K, m, c) ELSE K
           B == IF E[m].master = c /\ now THEN [E EXCEPT ![m].masterInRange = TRUE] ELSE E
<1>1. CASE m \in Players
  BY <1>1, SteadyItself DEF Notice
<1>2. CASE m \notin Players /\ m = c
  <2>1. m \in Monsters
    BY <1>2 DEF Creatures
  <2>2. Notice(K, m, c, a, o) = LookAround(A, m, o)
    BY <1>2 DEF Notice
  <2>3. Sees(K, m, K[m].master) \in BOOLEAN
    BY DEF Sees
  <2>4. Steady(K, A)
    BY <2>3, masterInRangeSteady, SteadyItself
  <2>5. A \in Worlds /\ A[m].stage # "none"
    BY <2>4 DEF Steady
  <2> HIDE DEF A
  <2>6. Steady(A, LookAround(A, m, o))
    BY <2>1, <2>5, LookAroundSteady
  <2> QED BY <2>2, <2>4, <2>6, SteadyTransitive
<1>3. CASE m \notin Players /\ m # c
  <2>1. m \in Monsters
    BY <1>3 DEF Creatures
  <2>2. Notice(K, m, c, a, o) = updateIdleStatus(B, m)
    BY <1>3 DEF Notice
  <2>3. Steady(K, E)
    BY <2>1, onCreatureEnterSteady, onCreatureLeaveSteady, SteadyItself
  <2>4. E \in Worlds /\ E[m].stage # "none"
    BY <2>3 DEF Steady
  <2> HIDE DEF E
  <2>5. Steady(E, B)
    BY <2>4, masterInRangeSteady, SteadyItself
  <2>6. B \in Worlds /\ B[m].stage # "none"
    BY <2>4, <2>5 DEF Steady
  <2> HIDE DEF B
  <2>7. Steady(B, updateIdleStatus(B, m))
    BY <2>1, <2>6, updateIdleStatusSteady
  <2> QED BY <2>2, <2>3, <2>5, <2>7, SteadyTransitive
<1> QED BY <1>1, <1>2, <1>3

-----------------------------------------------------------------------------
(* Whom creatures come to attack. *)

\* What an operation has done to c if creatures may also have taken new targets: those they see.
Turned(K, L, c) ==
    /\ L[c].area = K[c].area /\ L[c].client = K[c].client
    /\ L[c].attacked \in {K[c].attacked, NoCreature} \/ Aims(L, c)
    /\ L[c].toAdd - One(L[c].listed) = K[c].toAdd - One(K[c].listed)
    /\ Balance(L, c) = Balance(K, c)
    /\ Fresh(K, c) => Fresh(L, c)
    /\ Tidy(K, c) => Tidy(L, c)
    /\ Awake(K, c) => Awake(L, c)
    /\ L[c].stage = K[c].stage \/ (Placed(K, c) /\ L[c].stage = "gone")
    /\ L[c].alive => K[c].alive
    /\ L[c].release + One(Placed(L, c)) = K[c].release + One(Placed(K, c))
    /\ L[c].master \in {K[c].master, NoCreature} /\ L[c].summons \subseteq K[c].summons
    /\ Present(K, c) => Present(L, c)
    /\ Aims(K, c) => Aims(L, c)

Turning(K, L) ==
    /\ L \in Worlds
    /\ \A c \in Creatures : Turned(K, L, c)
    /\ Agree(K) => Agree(L)
    /\ Agree(K) /\ Company(K) => Company(L)

LEMMA WaningTurning ==
    ASSUME NEW K, NEW L, Waning(K, L)
    PROVE  Turning(K, L)
<1>1. ASSUME NEW c \in Creatures PROVE Turned(K, L, c)
  <2>1. Less(K, L, c)
    BY DEF Waning
  <2> QED BY <2>1 DEF Less, Quiet, Turned
<1> QED BY <1>1 DEF Waning, Turning

LEMMA TurningGood ==
    ASSUME NEW K, NEW L, Good(K), Turning(K, L), Families(L)
    PROVE  Good(L)
BY DEF Good, Turning, Turned

LEMMA TurningTransitive ==
    ASSUME NEW K, NEW L, NEW M, Turning(K, L), Turning(L, M)
    PROVE  Turning(K, M)
<1>1. ASSUME NEW c \in Creatures PROVE Turned(K, M, c)
  <2>1. Turned(K, L, c) /\ Turned(L, M, c)
    BY DEF Turning
  <2>2. \/ M[c].stage = K[c].stage
        \/ Placed(K, c) /\ M[c].stage = "gone"
    BY <2>1 DEF Turned, Placed
  <2>3. M[c].attacked \in {K[c].attacked, NoCreature} \/ Aims(M, c)
    BY <2>1 DEF Turned
  <2> QED BY <2>1, <2>2, <2>3 DEF Turned
<1> QED BY <1>1 DEF Turning

\* Creatures that are there aim at what they see.
Seen(K, d, x) == Placed(K, d) /\ Placed(K, x) /\ Sees(K, d, x)
aimed(K, y) == [d \in Creatures |-> [K[d] EXCEPT !.attacked = y[d]]]

LEMMA aimedTurning ==
    ASSUME NEW K \in Worlds, Families(K), NEW y \in [Creatures -> Creatures \cup {NoCreature}],
           \A d \in Creatures : y[d] \in {K[d].attacked, NoCreature} \/ Seen(K, d, y[d])
    PROVE  Turning(K, aimed(K, y)) /\ Remaining(K, aimed(K, y)) /\ Families(aimed(K, y))
<1> DEFINE L == aimed(K, y)
<1>1. ASSUME NEW d \in Creatures
      PROVE  /\ L[d] \in Records
             /\ L[d].stage = K[d].stage /\ L[d].area = K[d].area /\ L[d].alive = K[d].alive
             /\ L[d].master = K[d].master /\ L[d].summons = K[d].summons
             /\ L[d].friends = K[d].friends /\ L[d].targets = K[d].targets
             /\ L[d].attacked = y[d] /\ L[d].idle = K[d].idle
             /\ L[d].check = K[d].check /\ L[d].listed = K[d].listed /\ L[d].toAdd = K[d].toAdd
             /\ L[d].release = K[d].release /\ L[d].client = K[d].client /\ L[d].useCount = K[d].useCount
  <2>1. K[d] \in Records /\ y[d] \in Creatures \cup {NoCreature}
    BY DEF Worlds
  <2>2. L[d] = [K[d] EXCEPT !.attacked = y[d]]
    BY DEF aimed
  <2> HIDE DEF L
  <2>3. L[d] \in Records
    BY <2>1, <2>2 DEF Records
  <2> QED BY <2>1, <2>2, <2>3 DEF Records
<1>2. L \in Worlds
  <2>1. L = [d \in Creatures |-> L[d]]
    BY DEF aimed
  <2> HIDE DEF L
  <2> QED BY <1>1, <2>1 DEF Worlds
<1> HIDE DEF L
<1>3. ASSUME NEW d \in Creatures PROVE Balance(L, d) = Balance(K, d)
  <2>1. L[d].useCount = K[d].useCount /\ Shown(L, d, d) = Shown(K, d, d)
    BY <1>1 DEF Shown
  <2>2. L[d].useCount - K[d].useCount = Shown(L, d, d) - Shown(K, d, d)
    BY <2>1, ShownIsInt
  <2>3. \A e \in Creatures : e # d =>
          L[e].friends = K[e].friends /\ L[e].targets = K[e].targets /\ L[e].summons = K[e].summons
    BY <1>1
  <2> QED BY <1>2, <2>2, <2>3, BalanceKept
<1>4. Agree(L) /\ Company(L) /\ Families(L)
  <2>1. Agree(K) /\ Company(K) /\ NoChains(K) /\ Masters(K)
    BY DEF Families
  <2>2. Agree(L)
    BY <1>1, <2>1 DEF Agree
  <2>3. Company(L)
    BY <1>1, <2>1 DEF Company, Placed
  <2>4. NoChains(L)
    BY <1>1, <2>1 DEF NoChains
  <2>5. Masters(L)
    BY <1>1, <2>1 DEF Masters, Placed
  <2> QED BY <2>2, <2>3, <2>4, <2>5 DEF Families
<1>5. ASSUME NEW d \in Creatures PROVE Turned(K, L, d)
  <2>1. Placed(L, d) <=> Placed(K, d)
    BY <1>1 DEF Placed
  <2>2. (Tidy(K, d) => Tidy(L, d)) /\ (Awake(K, d) => Awake(L, d))
    BY <1>1, <2>1 DEF Tidy, Awake
  <2>3. Fresh(K, d) => Fresh(L, d)
    BY <1>1 DEF Fresh, Placed, Seen
  <2>4. Seen(K, d, y[d]) => Aims(L, d) /\ Present(L, d)
    <3>1. y[d] \in Creatures \cup {NoCreature}
      OBVIOUS
    <3> QED BY <1>1, <3>1 DEF Aims, Present, Placed, Sees, Seen
  <2>5. Aims(K, d) /\ y[d] \in {K[d].attacked, NoCreature} => Aims(L, d)
    <3>1. y[d] \in Creatures \cup {NoCreature}
      OBVIOUS
    <3> QED BY <1>1, <3>1 DEF Aims, Placed, Sees
  <2>6. Present(K, d) /\ y[d] \in {K[d].attacked, NoCreature} => Present(L, d)
    BY <1>1, <2>1 DEF Present
  <2>7. /\ L[d].attacked \in {K[d].attacked, NoCreature} \/ Aims(L, d)
        /\ Present(K, d) => Present(L, d)
        /\ Aims(K, d) => Aims(L, d)
    BY <1>1, <2>4, <2>5, <2>6
  <2>8. L[d].release + One(Placed(L, d)) = K[d].release + One(Placed(K, d))
    BY <1>1, <2>1 DEF One
  <2> HIDE DEF One
  <2> QED BY <1>1, <1>3, <2>2, <2>3, <2>7, <2>8 DEF Turned
<1>6. Remaining(K, L)
  BY <1>1 DEF Remaining
<1>7. Turning(K, L)
  BY <1>2, <1>4, <1>5 DEF Turning
<1> QED BY <1>4, <1>6, <1>7 DEF L

LEMMA setAttackedCreatureTurning ==
    ASSUME NEW K \in Worlds, Families(K), NEW c \in Creatures, Placed(K, c),
           NEW x \in Creatures \cup {NoCreature}, x # NoCreature => Placed(K, x)
    PROVE  /\ Turning(K, setAttackedCreature(K, c, x)) /\ Remaining(K, setAttackedCreature(K, c, x))
           /\ Families(setAttackedCreature(K, c, x))
<1> DEFINE L == setAttackedCreature(K, c, x)
           y == [d \in Creatures |->
                    IF x # NoCreature /\ ~Sees(K, c, x)
                    THEN IF d = c THEN NoCreature ELSE K[d].attacked
                    ELSE IF d \in K[c].summons \cup {c}
                         THEN IF x # NoCreature /\ ~Sees(K, d, x) THEN NoCreature ELSE x
                         ELSE K[d].attacked]
           M == [d \in Creatures |-> [K[d] EXCEPT !.attacked = y[d]]]
<1>0. \A d \in Creatures : K[d] \in Records /\ K[d] = [K[d] EXCEPT !.attacked = K[d].attacked]
  BY DEF Worlds, Records
<1>1. y \in [Creatures -> Creatures \cup {NoCreature}]
  BY <1>0 DEF Records
<1>2. ASSUME NEW d \in Creatures
      PROVE  y[d] \in {K[d].attacked, NoCreature} \/ Seen(K, d, y[d])
  <2>1. d \in K[c].summons => Placed(K, d)
    BY DEF Families, Company
  <2> QED BY <2>1 DEF Seen
<1>3. L = M
  <2>1. CASE x # NoCreature /\ ~Sees(K, c, x)
    <3>1. L = [K EXCEPT ![c].attacked = NoCreature]
      BY <2>1 DEF setAttackedCreature
    <3>2. L = [d \in Creatures |-> IF d = c THEN [K[d] EXCEPT !.attacked = NoCreature] ELSE K[d]]
      BY <1>0, <3>1 DEF Worlds
    <3>3. \A d \in Creatures : y[d] = IF d = c THEN NoCreature ELSE K[d].attacked
      BY <2>1
    <3> HIDE DEF y, L
    <3> QED BY <1>0, <3>2, <3>3
  <2>2. CASE ~(x # NoCreature /\ ~Sees(K, c, x))
    <3>1. L = [d \in Creatures |->
                  IF d \in K[c].summons \cup {c}
                  THEN [K[d] EXCEPT !.attacked = IF x # NoCreature /\ ~Sees(K, d, x) THEN NoCreature ELSE x]
                  ELSE K[d]]
      BY <2>2 DEF setAttackedCreature
    <3>2. \A d \in Creatures :
            y[d] = IF d \in K[c].summons \cup {c}
                   THEN IF x # NoCreature /\ ~Sees(K, d, x) THEN NoCreature ELSE x
                   ELSE K[d].attacked
      BY <2>2
    <3> HIDE DEF y, L
    <3> QED BY <1>0, <3>1, <3>2
  <2> QED BY <2>1, <2>2
<1>4. M = aimed(K, y)
  BY DEF aimed
<1> HIDE DEF L, M, y
<1>5. Turning(K, M) /\ Remaining(K, M) /\ Families(M)
  BY <1>1, <1>2, <1>4, aimedTurning
<1> QED BY <1>3, <1>5 DEF L

LEMMA PickTargetTurning ==
    ASSUME NEW K \in Worlds, Families(K), NEW m \in Creatures, NEW x
    PROVE  /\ Turning(K, PickTarget(K, m, x)) /\ Remaining(K, PickTarget(K, m, x))
           /\ Families(PickTarget(K, m, x))
<1>1. CASE Placed(K, m) /\ x \in K[m].targets /\ Placed(K, x) /\ PickTarget(K, m, x) = setAttackedCreature(K, m, x)
  <2>1. x \in Creatures
    BY <1>1 DEF Worlds, Records
  <2>2. /\ Turning(K, setAttackedCreature(K, m, x)) /\ Remaining(K, setAttackedCreature(K, m, x))
        /\ Families(setAttackedCreature(K, m, x))
    BY <1>1, <2>1, setAttackedCreatureTurning
  <2> QED BY <1>1, <2>2
<1>2. CASE PickTarget(K, m, x) = K
  BY <1>2, WaningItself, WaningTurning DEF Remaining
<1>3. \/ PickTarget(K, m, x) = K
      \/ /\ Placed(K, m) /\ x \in K[m].targets /\ Placed(K, x)
         /\ PickTarget(K, m, x) = setAttackedCreature(K, m, x)
  BY DEF PickTarget, selectTarget
<1> QED BY <1>1, <1>2, <1>3

\* While the creatures around notice that c has moved, M being the world with c at its new place:
\* nobody near has been removed.
Underway(M, X, c) ==
    /\ X \in Worlds /\ Turning(M, X) /\ Families(X) /\ Placed(X, c)
    /\ \A d \in Creatures : X[d].stage = M[d].stage \/ {M[d].area, M[c].area} \in Far

\* In M whoever attacks c or is c may have lost sight.
Displaced(M, c) ==
    /\ M \in Worlds /\ Placed(M, c)
    /\ \A d \in Creatures :
         /\ M[d].attacked # NoCreature => Placed(M, d) /\ Placed(M, M[d].attacked)
         /\ c \notin {d, M[d].attacked} => Aims(M, d)

\* Who has noticed aims at what it sees.
LEMMA onCreatureMoveUnderway ==
    ASSUME NEW M, NEW X, NEW c \in Creatures, Displaced(M, c), Underway(M, X, c),
           NEW m \in Creatures, M[m].stage # "none", NEW a, NEW pick, NEW o \in Orders
    PROVE  /\ Underway(M, onCreatureMove(X, m, c, a, pick, o), c) /\ Aims(onCreatureMove(X, m, c, a, pick, o), m)
           /\ Turning(X, onCreatureMove(X, m, c, a, pick, o))
<1> DEFINE B == LeaveBehind(X, m, c, o)
           C == LoseSight(B, m, c)
           L == Notice(C, m, c, a, o)
           P == onCreatureMove(X, m, c, a, pick, o)
<1>0. M \in Worlds /\ X \in Worlds /\ Turning(M, X) /\ Families(X) /\ Placed(X, c)
  BY DEF Underway, Displaced
<1>1. P = L \/ P = PickTarget(L, m, pick[m])
  BY DEF onCreatureMove
<1>2. /\ Waning(X, B) /\ Families(B)
      /\ m # c => B = X
      /\ \A d \in Creatures : B[d].stage = X[d].stage \/ {X[d].area, X[c].area} \in Far
  BY <1>0, LeaveBehindWaning
<1>3. B \in Worlds
  BY <1>2 DEF Waning
<1> HIDE DEF B
<1>4. /\ Steady(B, C)
      /\ C[m].attacked # NoCreature
           => /\ C[m].attacked = B[m].attacked
              /\ c \in {m, B[m].attacked} => Sees(B, m, B[m].attacked)
  BY <1>3, LoseSightSteady
<1> HIDE DEF P
<1>5. Turning(M, B)
  BY <1>0, <1>2, WaningTurning, TurningTransitive
<1>6. C \in Worlds /\ C[m].stage # "none"
  <2>1. B[m].stage # "none"
    BY <1>5 DEF Turning, Turned
  <2> QED BY <1>4, <2>1 DEF Steady
<1> HIDE DEF C
<1>7. Steady(C, L)
  BY <1>6, NoticeSteady
<1> HIDE DEF L
<1>8. Steady(B, L)
  BY <1>4, <1>7, SteadyTransitive
<1>9. Waning(B, L) /\ Remaining(B, L)
  BY <1>3, <1>8, SteadyWaning DEF Steady, Remaining
<1>10. Turning(X, L) /\ Turning(M, L) /\ L \in Worlds
  BY <1>2, <1>5, <1>9, WaningTransitive, WaningTurning, TurningTransitive DEF Waning
<1>11. Families(L)
  BY <1>2, <1>3, <1>9, RemainingFamilies
<1>12. \A d \in Creatures : /\ L[d].stage = B[d].stage /\ L[d].area = M[d].area
                             /\ X[d].area = M[d].area /\ B[d].area = M[d].area
  BY <1>0, <1>5, <1>9, <1>10 DEF Remaining, Turning, Turned
<1>13. \A A \in Areas : {A, A} \notin Far
  <2>1. \A A \in Areas : {A, A} = {A}
    OBVIOUS
  <2> QED BY <2>1, CreaturesAssumption
<1>14. \A d \in Creatures : M[d].area \in Areas /\ M[d].attacked \in Creatures \cup {NoCreature}
  BY <1>0 DEF Worlds, Records
<1>15. Placed(B, c)
  BY <1>0, <1>2, <1>12, <1>13, <1>14 DEF Placed
<1>16. Placed(L, c)
  BY <1>12, <1>15 DEF Placed
<1>17. \A d \in Creatures : L[d].stage = M[d].stage \/ {M[d].area, M[c].area} \in Far
  <2>1. \A d \in Creatures : X[d].stage = M[d].stage \/ {M[d].area, M[c].area} \in Far
    BY DEF Underway
  <2> QED BY <1>2, <1>12, <2>1
<1>18. Aims(L, m)
  <2> DEFINE x == L[m].attacked
  <2> SUFFICES ASSUME x # NoCreature PROVE Placed(L, m) /\ Placed(L, x) /\ Sees(L, m, x)
    BY DEF Aims
  <2>1. x = C[m].attacked /\ x = B[m].attacked /\ x = X[m].attacked
    <3>1. x \in {C[m].attacked, NoCreature}
      BY <1>7 DEF Steady, Quiet
    <3>2. C[m].attacked \in {B[m].attacked, NoCreature}
      BY <1>4 DEF Steady, Quiet
    <3>3. B[m].attacked \in {X[m].attacked, NoCreature}
      BY <1>2 DEF Waning, Less, Quiet
    <3> QED BY <3>1, <3>2, <3>3
  <2> HIDE DEF x
  <2>2. x \in Creatures
    BY <1>0, <2>1 DEF Worlds, Records
  <2>3. CASE Aims(X, m)
    <3>1. Aims(L, m)
      BY <1>10, <2>3 DEF Turning, Turned
    <3> QED BY <3>1 DEF Aims, x
  <2>4. Aims(X, m) \/ x = M[m].attacked
    BY <1>0, <2>1 DEF Turning, Turned
  <2>5. CASE c \notin {m, x} /\ x = M[m].attacked
    <3>1. Aims(M, m)
      BY <2>5 DEF Displaced
    <3>2. Aims(L, m)
      BY <1>10, <3>1 DEF Turning, Turned
    <3> QED BY <3>2 DEF Aims, x
  <2>6. CASE c \in {m, x} /\ x = M[m].attacked
    <3>1. Sees(B, m, x)
      BY <1>4, <2>1, <2>6
    <3>2. Sees(L, m, x)
      BY <1>12, <2>2, <3>1 DEF Sees
    <3>3. Placed(M, m) /\ Placed(M, x)
      BY <2>6 DEF Displaced
    <3>4. Placed(L, m)
      <4>1. Present(M, m)
        BY <3>3 DEF Present
      <4>2. Present(L, m)
        BY <1>10, <4>1 DEF Turning, Turned
      <4> QED BY <4>2 DEF Present, x
    <3>5. Placed(L, x)
      <4>1. CASE x = c
        BY <1>16, <4>1
      <4>2. CASE m = c
        <5>1. M[x].area = M[c].area
          BY <1>12, <2>2, <3>2, <4>2 DEF Sees
        <5>2. L[x].stage = M[x].stage
          BY <1>13, <1>14, <1>17, <2>2, <5>1
        <5> QED BY <3>3, <5>2 DEF Placed
      <4> QED BY <2>6, <4>1, <4>2
    <3> QED BY <3>2, <3>4, <3>5
  <2> QED BY <2>3, <2>4, <2>5, <2>6
<1>19. Underway(M, L, c)
  BY <1>10, <1>11, <1>16, <1>17 DEF Underway
<1>20. CASE P = PickTarget(L, m, pick[m])
  <2>1. Turning(L, P) /\ Remaining(L, P) /\ Families(P)
    BY <1>10, <1>11, <1>20, PickTargetTurning
  <2>2. Turning(X, P) /\ Turning(M, P)
    BY <1>10, <2>1, TurningTransitive
  <2>3. Aims(P, m) /\ P \in Worlds
    BY <1>18, <2>1 DEF Turning, Turned
  <2>4. Placed(P, c)
    BY <1>16, <2>1 DEF Remaining, Placed
  <2>5. Underway(M, P, c)
    BY <1>17, <2>1, <2>2, <2>3, <2>4 DEF Underway, Remaining
  <2> QED BY <2>2, <2>3, <2>5 DEF P
<1>21. CASE P = L
  BY <1>10, <1>18, <1>19, <1>21 DEF P
<1> QED BY <1>1, <1>20, <1>21

\* The creatures of S notice that c has moved.
Moved(K, S, o, c, a, pick) == InTurn(LAMBDA X, d : onCreatureMove(X, d, c, a, pick, o), K, S, o)

\* h is how that goes.
MovedRun(h, K, S, o, c, a, pick) ==
    /\ h[0] = K
    /\ \A i \in 1 .. Len(o) : h[i] = IF o[i] \in S THEN onCreatureMove(h[i - 1], o[i], c, a, pick, o) ELSE h[i - 1]
    /\ Moved(K, S, o, c, a, pick) = h[Len(o)]

LEMMA MovedTurns ==
    ASSUME NEW K, NEW S, NEW o \in Orders, NEW c, NEW a, NEW pick,
           NEW W, K \in W, \A X \in W, d \in S : onCreatureMove(X, d, c, a, pick, o) \in W
    PROVE  \E h \in [0 .. Len(o) -> W] : MovedRun(h, K, S, o, c, a, pick)
<1> DEFINE n == Len(o)
           f == [p \in W \X S |-> onCreatureMove(p[1], p[2], c, a, pick, o)]
           F(g) == [i \in 0 .. n |->
                       IF i = 0 THEN K ELSE IF o[i] \in S THEN onCreatureMove(g[i - 1], o[i], c, a, pick, o) ELSE g[i - 1]]
           h == CHOOSE g : g = F(g)
<1>1. n \in Nat
  BY OrdersReachAll
<1>2. f \in [W \X S -> W]
  OBVIOUS
<1>3. PICK g \in [0 .. n -> W] : Turns(g, n, K, S, o, f)
  <2> HIDE DEF n, f
  <2> QED BY <1>1, <1>2, TurnsExist
<1>4. g = F(g)
  <2> SUFFICES ASSUME NEW i \in 0 .. n PROVE g[i] = IF i = 0 THEN K ELSE IF o[i] \in S THEN onCreatureMove(g[i - 1], o[i], c, a, pick, o) ELSE g[i - 1]
    BY <1>3
  <2> HIDE DEF n
  <2>1. CASE i = 0
    BY <1>3, <2>1 DEF Turns
  <2>2. CASE i # 0
    <3>1. i \in 1 .. n /\ i - 1 \in 0 .. n
      BY <1>1, <2>2
    <3>2. g[i - 1] \in W
      BY <1>3, <3>1
    <3>3. o[i] \in S => f[<<g[i - 1], o[i]>>] = onCreatureMove(g[i - 1], o[i], c, a, pick, o)
      BY <3>2
    <3> HIDE DEF f
    <3> QED BY <1>3, <2>2, <3>1, <3>3 DEF Turns
  <2> QED BY <2>1, <2>2
<1>5. h = F(h)
  BY <1>4
<1>6. Moved(K, S, o, c, a, pick) = h[n]
  BY DEF Moved, InTurn
<1> HIDE DEF h
<1>7. /\ h[0] = K /\ DOMAIN h = 0 .. n
      /\ \A i \in 1 .. n : h[i] = IF o[i] \in S THEN onCreatureMove(h[i - 1], o[i], c, a, pick, o) ELSE h[i - 1]
  <2> HIDE DEF n
  <2>1. 0 \in 0 .. n /\ \A i \in 1 .. n : i \in 0 .. n /\ i # 0
    BY <1>1
  <2> QED BY <1>5, <2>1
<1>8. h \in [0 .. n -> W]
  <2>1. h = [i \in 0 .. n |-> h[i]]
    BY <1>5, <1>7
  <2> HIDE DEF n, F
  <2>2. h[0] \in W
    BY <1>7
  <2>3. \A i \in 1 .. n : h[i - 1] \in W => h[i] \in W
    BY <1>7
  <2> QED BY <1>1, <2>1, <2>2, <2>3, TurnsStay
<1> QED BY <1>6, <1>7, <1>8 DEF MovedRun

LEMMA MovedUnderway ==
    ASSUME NEW M, NEW c \in Creatures, Displaced(M, c), Families(M),
           NEW S \in SUBSET Creatures, \A d \in S : M[d].stage # "none",
           NEW a, NEW pick, NEW o \in Orders
    PROVE  /\ Underway(M, Moved(M, S, o, c, a, pick), c)
           /\ \A d \in S : Aims(Moved(M, S, o, c, a, pick), d)
<1> DEFINE W == {X \in Worlds : Underway(M, X, c)}
           n == Len(o)
<1>1. ASSUME NEW X \in W, NEW d \in S
      PROVE  /\ onCreatureMove(X, d, c, a, pick, o) \in W /\ Turning(X, onCreatureMove(X, d, c, a, pick, o))
             /\ Aims(onCreatureMove(X, d, c, a, pick, o), d)
  <2>1. /\ Underway(M, onCreatureMove(X, d, c, a, pick, o), c) /\ Aims(onCreatureMove(X, d, c, a, pick, o), d)
        /\ Turning(X, onCreatureMove(X, d, c, a, pick, o))
    BY onCreatureMoveUnderway
  <2>2. onCreatureMove(X, d, c, a, pick, o) \in Worlds
    BY <2>1 DEF Underway
  <2> QED BY <2>1, <2>2
<1>2. M \in W
  BY WaningItself, WaningTurning DEF Displaced, Underway
<1>3. \A X \in W : Underway(M, X, c)
  OBVIOUS
<1> HIDE DEF W
<1>4. PICK h \in [0 .. n -> W] : MovedRun(h, M, S, o, c, a, pick)
  BY <1>1, <1>2, MovedTurns
<1>5. n \in Nat
  BY OrdersReachAll
<1> HIDE DEF n
<1>6. /\ \A i \in 1 .. n : h[i - 1] \in W /\ h[i] = IF o[i] \in S THEN onCreatureMove(h[i - 1], o[i], c, a, pick, o) ELSE h[i - 1]
      /\ Moved(M, S, o, c, a, pick) = h[n]
      /\ h[n] \in W
  BY <1>4, <1>5 DEF n, MovedRun
<1>7. ASSUME NEW d \in S PROVE Aims(h[n], d)
  <2> DEFINE Z == {X \in W : Aims(X, d)}
  <2>1. ASSUME NEW i \in 1 .. n, o[i] = d \/ h[i - 1] \in Z PROVE h[i] \in Z
    <3>1. CASE o[i] = d
      BY <1>1, <1>6, <3>1
    <3>2. CASE o[i] # d /\ o[i] \in S
      <4>1. h[i] = onCreatureMove(h[i - 1], o[i], c, a, pick, o) /\ h[i - 1] \in W /\ Aims(h[i - 1], d)
        BY <1>6, <2>1, <3>2
      <4>2. h[i] \in W /\ Turning(h[i - 1], h[i])
        BY <1>1, <3>2, <4>1
      <4>3. Aims(h[i], d)
        BY <4>1, <4>2 DEF Turning, Turned
      <4> QED BY <4>2, <4>3
    <3>3. CASE o[i] # d /\ o[i] \notin S
      BY <1>6, <2>1, <3>3
    <3> QED BY <3>1, <3>2, <3>3
  <2> HIDE DEF Z
  <2>2. h[n] \in Z
    BY <2>1, TurnsReach DEF n
  <2> QED BY <2>2 DEF Z
<1> QED BY <1>3, <1>6, <1>7

\* What has changed hands between K and L: nothing.
Even(K, L) ==
    \A c \in Creatures :
        /\ Balance(L, c) = Balance(K, c)
        /\ L[c].toAdd - One(L[c].listed) = K[c].toAdd - One(K[c].listed)
        /\ L[c].client = K[c].client
        /\ L[c].release + One(Placed(L, c)) = K[c].release + One(Placed(K, c))
        /\ L[c].stage = "none" <=> K[c].stage = "none"

LEMMA TurningEven ==
    ASSUME NEW K, NEW L, Turning(K, L)
    PROVE  Even(K, L)
<1> SUFFICES ASSUME NEW c \in Creatures
             PROVE  /\ Balance(L, c) = Balance(K, c)
                    /\ L[c].toAdd - One(L[c].listed) = K[c].toAdd - One(K[c].listed)
                    /\ L[c].client = K[c].client
                    /\ L[c].release + One(Placed(L, c)) = K[c].release + One(Placed(K, c))
                    /\ L[c].stage = "none" <=> K[c].stage = "none"
  BY DEF Even
<1>1. Turned(K, L, c)
  BY DEF Turning
<1> HIDE DEF One
<1> QED BY <1>1 DEF Turned, Placed

LEMMA WaningEven ==
    ASSUME NEW K, NEW L, Waning(K, L)
    PROVE  Even(K, L)
BY WaningTurning, TurningEven

LEMMA EvenTransitive ==
    ASSUME NEW K, NEW L, NEW M, Even(K, L), Even(L, M)
    PROVE  Even(K, M)
BY DEF Even

\* M is K with c in area a.
Relocated(K, M, c, a) ==
    \A d \in Creatures :
        /\ Fresh(M, d) /\ Tidy(M, d) /\ Awake(M, d)
        /\ M[d].stage = K[d].stage /\ M[d].attacked = K[d].attacked
        /\ M[d].area = IF d = c THEN a ELSE K[d].area

LEMMA relocated ==
    ASSUME NEW K, Good(K), NEW c \in Creatures, Placed(K, c), NEW a \in Areas,
           NEW M, M = [K EXCEPT ![c].area = a]
    PROVE  /\ Displaced(M, c) /\ Families(M) /\ Even(K, M)
           /\ Relocated(K, M, c, a)
<1>0. K \in Worlds
  BY DEF Good
<1>1. M \in Worlds
  BY <1>0 DEF Worlds, Records
<1>2. ASSUME NEW d \in Creatures
      PROVE  /\ M[d].stage = K[d].stage /\ M[d].alive = K[d].alive
             /\ M[d].area = IF d = c THEN a ELSE K[d].area
             /\ M[d].master = K[d].master /\ M[d].summons = K[d].summons
             /\ M[d].friends = K[d].friends /\ M[d].targets = K[d].targets
             /\ M[d].attacked = K[d].attacked /\ M[d].idle = K[d].idle
             /\ M[d].check = K[d].check /\ M[d].listed = K[d].listed /\ M[d].toAdd = K[d].toAdd
             /\ M[d].release = K[d].release /\ M[d].client = K[d].client /\ M[d].useCount = K[d].useCount
  BY <1>0 DEF Worlds, Records
<1>3. ASSUME NEW d \in Creatures PROVE Balance(M, d) = Balance(K, d)
  <2>1. M[d].useCount = K[d].useCount /\ Shown(M, d, c) = Shown(K, d, c)
    BY <1>2 DEF Shown
  <2>2. M[d].useCount - K[d].useCount = Shown(M, d, c) - Shown(K, d, c)
    BY <1>0, <2>1, ShownIsInt
  <2>3. \A e \in Creatures : e # c =>
          M[e].friends = K[e].friends /\ M[e].targets = K[e].targets /\ M[e].summons = K[e].summons
    BY <1>2
  <2> QED BY <1>0, <1>1, <2>2, <2>3, BalanceKept
<1>4. Families(M)
  <2>1. Agree(K) /\ Company(K) /\ NoChains(K) /\ Masters(K)
    BY DEF Good, Families
  <2>2. Agree(M)
    BY <1>2, <2>1 DEF Agree
  <2>3. Company(M)
    BY <1>2, <2>1 DEF Company, Placed
  <2>4. NoChains(M)
    BY <1>2, <2>1 DEF NoChains
  <2>5. Masters(M)
    BY <1>2, <2>1 DEF Masters, Placed
  <2> QED BY <2>2, <2>3, <2>4, <2>5 DEF Families
<1>5. ASSUME NEW d \in Creatures PROVE Fresh(M, d) /\ Tidy(M, d) /\ Awake(M, d)
  <2>1. Fresh(K, d) /\ Tidy(K, d) /\ Awake(K, d)
    BY DEF Good
  <2> QED BY <1>2, <2>1 DEF Fresh, Tidy, Awake, Placed
<1>6. Displaced(M, c)
  <2>1. Placed(M, c)
    BY <1>2 DEF Placed
  <2>2. ASSUME NEW d \in Creatures
        PROVE  /\ M[d].attacked # NoCreature => Placed(M, d) /\ Placed(M, M[d].attacked)
               /\ c \notin {d, M[d].attacked} => Aims(M, d)
    <3>1. Aims(K, d) /\ K[d].attacked \in Creatures \cup {NoCreature}
      BY <1>0 DEF Good, Worlds, Records
    <3> QED BY <1>2, <3>1 DEF Aims, Placed, Sees
  <2> QED BY <1>1, <2>1, <2>2 DEF Displaced
<1>7. Even(K, M)
  <2> SUFFICES ASSUME NEW d \in Creatures
               PROVE  /\ Balance(M, d) = Balance(K, d)
                      /\ M[d].toAdd - One(M[d].listed) = K[d].toAdd - One(K[d].listed)
                      /\ M[d].client = K[d].client
                      /\ M[d].release + One(Placed(M, d)) = K[d].release + One(Placed(K, d))
                      /\ M[d].stage = "none" <=> K[d].stage = "none"
    BY DEF Even
  <2> HIDE DEF One
  <2> QED BY <1>2, <1>3 DEF Placed
<1>8. Relocated(K, M, c, a)
  BY <1>2, <1>5 DEF Relocated
<1> QED BY <1>4, <1>6, <1>7, <1>8

LEMMA moveCreatureGood ==
    ASSUME NEW K, Good(K), NEW c \in Creatures, Placed(K, c), NEW a \in Areas,
           NEW pick, NEW o \in Orders
    PROVE  /\ Good(moveCreature(K, c, a, pick, o)) /\ Even(K, moveCreature(K, c, a, pick, o))
           /\ \A d \in Creatures :
                K[d].stage # "in" => moveCreature(K, c, a, pick, o)[d].stage # "in"
<1> DEFINE M == [K EXCEPT ![c].area = a]
           S == Spectators(M, {K[c].area, a})
           L == Moved(M, S, o, c, K[c].area, pick)
<1>1. moveCreature(K, c, a, pick, o) = L
  BY DEF moveCreature, Moved
<1>2. Displaced(M, c) /\ Families(M) /\ Even(K, M) /\ Relocated(K, M, c, a)
  BY relocated
<1>3. /\ S \in SUBSET Creatures
      /\ \A d \in Creatures : d \in S <=> Placed(M, d) /\ M[d].area \in {K[c].area, a}
  BY DEF Spectators
<1> HIDE DEF M, S
<1>4. \A d \in S : M[d].stage # "none"
  BY <1>3 DEF Placed
<1>5. Underway(M, L, c) /\ \A d \in S : Aims(L, d)
  BY <1>2, <1>3, <1>4, MovedUnderway
<1> HIDE DEF L
<1>6. Turning(M, L) /\ Families(L) /\ L \in Worlds
  BY <1>5 DEF Underway
<1>7. ASSUME NEW d \in Creatures PROVE Fresh(L, d) /\ Tidy(L, d) /\ Awake(L, d) /\ Aims(L, d)
  <2>1. Turned(M, L, d)
    BY <1>6 DEF Turning
  <2>2. Aims(L, d)
    <3>1. CASE d \in S
      BY <1>5, <3>1
    <3>2. CASE d \notin S
      <4>1. d # c
        <5>1. c \in S
          BY <1>2, <1>3 DEF Displaced, Relocated
        <5> QED BY <3>2, <5>1
      <4>2. M[d].attacked # c
        <5> SUFFICES ASSUME K[d].attacked = c PROVE FALSE
          BY <1>2 DEF Relocated
        <5>1. Placed(K, d) /\ Sees(K, d, c)
          BY CreaturesFinite DEF Good, Aims
        <5>2. d \in S
          BY <1>2, <1>3, <4>1, <5>1 DEF Placed, Sees, Relocated
        <5> QED BY <3>2, <5>2
      <4>3. Aims(M, d)
        BY <1>2, <4>1, <4>2 DEF Displaced
      <4> QED BY <2>1, <4>3 DEF Turned
    <3> QED BY <3>1, <3>2
  <2> QED BY <1>2, <2>1, <2>2 DEF Turned, Relocated
<1>8. Good(L)
  BY <1>6, <1>7 DEF Good
<1>9. Even(K, L)
  BY <1>2, <1>6, TurningEven, EvenTransitive
<1>10. \A d \in Creatures : K[d].stage # "in" => L[d].stage # "in"
  BY <1>2, <1>6 DEF Turning, Turned, Placed, Relocated
<1> QED BY <1>1, <1>8, <1>9, <1>10

LEMMA cleanupGood ==
    ASSUME NEW K, Good(K)
    PROVE  /\ Good(cleanup(K))
           /\ \A c \in Creatures :
                /\ Balance(cleanup(K), c) = Balance(K, c)
                /\ cleanup(K)[c].stage = K[c].stage /\ cleanup(K)[c].client = K[c].client
                /\ cleanup(K)[c].toAdd = K[c].toAdd /\ cleanup(K)[c].listed = K[c].listed
                /\ cleanup(K)[c].release = 0
<1> DEFINE L == cleanup(K)
<1>0. K \in Worlds
  BY DEF Good
<1>1. ASSUME NEW c \in Creatures
      PROVE  /\ L[c] \in Records
             /\ L[c].stage = K[c].stage /\ L[c].alive = K[c].alive /\ L[c].area = K[c].area
             /\ L[c].master = K[c].master /\ L[c].summons = K[c].summons
             /\ L[c].friends = K[c].friends /\ L[c].targets = K[c].targets
             /\ L[c].attacked = K[c].attacked /\ L[c].idle = K[c].idle
             /\ L[c].check = K[c].check /\ L[c].listed = K[c].listed /\ L[c].toAdd = K[c].toAdd
             /\ L[c].client = K[c].client
             /\ L[c].release = 0 /\ L[c].useCount = K[c].useCount - K[c].release
  <2> DEFINE n == K[c].useCount - K[c].release
             z == 0
  <2>1. L[c] = [K[c] EXCEPT !.useCount = n, !.release = z]
    BY DEF cleanup
  <2>2. K[c] \in Records /\ n \in Int /\ z \in Nat
    BY <1>0 DEF Worlds, Records
  <2>3. z = 0 /\ n = K[c].useCount - K[c].release
    OBVIOUS
  <2> HIDE DEF L, n, z
  <2>4. L[c] \in Records
    BY <2>1, <2>2 DEF Records
  <2>5. L[c].useCount = n /\ L[c].release = z
    BY <2>1, <2>2 DEF Records
  <2> QED BY <2>1, <2>2, <2>3, <2>4, <2>5 DEF Records
<1>2. L \in Worlds
  <2>1. L = [c \in Creatures |-> L[c]]
    BY DEF cleanup
  <2> HIDE DEF L
  <2> QED BY <1>1, <2>1 DEF Worlds
<1> HIDE DEF L
<1>3. ASSUME NEW c \in Creatures PROVE Balance(L, c) = Balance(K, c)
  <2> DEFINE g == K[c].toAdd + One(K[c].stage = "in") + One(K[c].client)
                  + One(c \in K[c].friends) + One(c \in K[c].targets) + One(c \in K[c].summons)
  <2>1. /\ K[c].toAdd \in Int /\ One(K[c].stage = "in") \in Int /\ One(K[c].client) \in Int
        /\ One(c \in K[c].friends) \in Int /\ One(c \in K[c].targets) \in Int
        /\ One(c \in K[c].summons) \in Int
        /\ K[c].release \in Int /\ K[c].useCount \in Int
    BY <1>0 DEF Worlds, Records, One
  <2>2. Shown(K, c, c) = K[c].release + g /\ g \in Int
    <3> HIDE DEF One
    <3> QED BY <2>1 DEF Shown
  <2>3. Shown(L, c, c) = g
    <3> HIDE DEF One
    <3> QED BY <1>1, <2>1 DEF Shown
  <2> HIDE DEF g
  <2>4. L[c].useCount - K[c].useCount = Shown(L, c, c) - Shown(K, c, c)
    BY <1>1, <2>1, <2>2, <2>3
  <2>5. \A e \in Creatures : e # c =>
          L[e].friends = K[e].friends /\ L[e].targets = K[e].targets /\ L[e].summons = K[e].summons
    BY <1>1
  <2> QED BY <1>0, <1>2, <2>4, <2>5, BalanceKept
<1>4. Families(L)
  <2>1. Agree(K) /\ Company(K) /\ NoChains(K) /\ Masters(K)
    BY DEF Good, Families
  <2>2. Agree(L)
    BY <1>1, <2>1 DEF Agree
  <2>3. Company(L)
    BY <1>1, <2>1 DEF Company, Placed
  <2>4. NoChains(L)
    BY <1>1, <2>1 DEF NoChains
  <2>5. Masters(L)
    BY <1>1, <2>1 DEF Masters, Placed
  <2> QED BY <2>2, <2>3, <2>4, <2>5 DEF Families
<1>5. ASSUME NEW c \in Creatures PROVE Fresh(L, c) /\ Tidy(L, c) /\ Awake(L, c) /\ Aims(L, c)
  <2>1. Fresh(K, c) /\ Tidy(K, c) /\ Awake(K, c) /\ Aims(K, c)
    BY DEF Good
  <2>2. Fresh(L, c) /\ Tidy(L, c) /\ Awake(L, c)
    BY <1>1, <2>1 DEF Fresh, Tidy, Awake, Placed
  <2>3. Aims(L, c)
    <3>1. K[c].attacked \in Creatures \cup {NoCreature}
      BY <1>0 DEF Worlds, Records
    <3> QED BY <1>1, <2>1, <3>1 DEF Aims, Placed, Sees
  <2> QED BY <2>2, <2>3
<1>6. Good(L)
  BY <1>2, <1>4, <1>5 DEF Good
<1> QED BY <1>1, <1>3, <1>6 DEF L

-----------------------------------------------------------------------------
(* Placements. *)

\* c is about to be placed, maybe as the summon of a creature in the game.
Expecting(K, c) ==
    /\ K \in Worlds
    /\ K[c].stage = "none" /\ K[c].attacked = NoCreature /\ K[c].summons = {}
    /\ ~K[c].check /\ ~K[c].listed /\ K[c].toAdd = 0 /\ K[c].release = 0
    /\ Agree(K) /\ NoChains(K)
    /\ \A x, s \in Creatures :
         s \in K[x].summons => (Placed(K, s) \/ s = c <=> Placed(K, x))
    /\ \A d \in Creatures \ {c} : Fresh(K, d) /\ Tidy(K, d) /\ Awake(K, d) /\ Aims(K, d)

\* Whoever is told to think will.
LEMMA addCreatureCheckWakes ==
    ASSUME NEW I \in Worlds, NEW m \in Creatures, I[m].stage = "in"
    PROVE  addCreatureCheck(I, m)[m].check
<1> DEFINE M == [I EXCEPT ![m].check = TRUE]
           N == [I EXCEPT ![m].check = TRUE, ![m].listed = TRUE, ![m].toAdd = @ + 1]
<1>1. addCreatureCheck(I, m) = IF I[m].listed THEN M ELSE useThing2(N, m)
  BY DEF addCreatureCheck
<1>2. M[m].check
  BY DEF Worlds, Records
<1>3. N[m].check /\ DOMAIN N = Creatures
  BY DEF Worlds, Records
<1>4. useThing2(N, m)[m].check
  <2>1. useThing2(N, m)[m] = [N[m] EXCEPT !.useCount = N[m].useCount + 1]
    <3> HIDE DEF N
    <3> QED BY <1>3 DEF useThing2
  <2> HIDE DEF N
  <2> QED BY <1>3, <2>1
<1> QED BY <1>1, <1>2, <1>4

\* c stands in the world and nobody has noticed it yet.
arrived(K, c, a) == useThing2([K EXCEPT ![c].stage = "in", ![c].area = a, ![c].alive = TRUE], c)

standing(r, a) == [r EXCEPT !.stage = "in", !.area = a, !.alive = TRUE, !.useCount = r.useCount + 1]

LEMMA arrivedFields ==
    ASSUME NEW K \in Worlds, NEW c \in Creatures, NEW a \in Areas
    PROVE  /\ arrived(K, c, a) \in Worlds
           /\ \A d \in Creatures : d # c => arrived(K, c, a)[d] = K[d]
           /\ arrived(K, c, a)[c].stage = "in" /\ arrived(K, c, a)[c].area = a
           /\ arrived(K, c, a)[c].useCount = K[c].useCount + 1
           /\ arrived(K, c, a)[c] = standing(K[c], a)
<1> DEFINE n == K[c].useCount + 1
           q == [K[c] EXCEPT !.stage = "in", !.area = a, !.alive = TRUE, !.useCount = n]
           P == arrived(K, c, a)
<1>1. DOMAIN K = Creatures /\ K[c] \in Records /\ n \in Int
  BY DEF Worlds, Records
<1>2. P = [K EXCEPT ![c] = q]
  BY <1>1 DEF arrived, useThing2
<1>3. q \in Records /\ q.stage = "in" /\ q.area = a /\ q.useCount = n
  <2> HIDE DEF n
  <2>1. \A st \in {"none", "in", "gone"}, al \in BOOLEAN :
          [K[c] EXCEPT !.stage = st, !.area = a, !.alive = al, !.useCount = n] \in Records
    BY <1>1 DEF Records
  <2>2. q \in Records
    BY <2>1
  <2> QED BY <1>1, <2>2 DEF Records
<1>4. P[c] = q /\ P \in Worlds /\ \A d \in Creatures : d # c => P[d] = K[d]
  <2> HIDE DEF q
  <2> QED BY <1>2, <1>3 DEF Worlds
<1> QED BY <1>3, <1>4 DEF standing

\* What has changed hands between K and L but for what c is told.
EvenBut(K, L, c) ==
    \A d \in Creatures :
        /\ Balance(L, d) = Balance(K, d)
        /\ L[d].toAdd - One(L[d].listed) = K[d].toAdd - One(K[d].listed)
        /\ L[d].client = K[d].client
        /\ d # c => /\ L[d].release + One(Placed(L, d)) = K[d].release + One(Placed(K, d))
                    /\ L[d].stage = K[d].stage

LEMMA placeCreatureGood ==
    ASSUME NEW K, NEW c \in Creatures, Expecting(K, c), NEW a \in Areas, NEW o \in Orders
    PROVE  /\ Good(placeCreature(K, c, a, o)) /\ EvenBut(K, placeCreature(K, c, a, o), c)
           /\ Placed(placeCreature(K, c, a, o), c) /\ placeCreature(K, c, a, o)[c].release = 0
<1> DEFINE P == arrived(K, c, a)
           S == Spectators(P, {a})
           A == Appeared(P, S, o, c)
           L == addCreatureCheck(A, c)
<1>0. K \in Worlds
  BY DEF Expecting
<1>1. placeCreature(K, c, a, o) = L
  BY DEF placeCreature, Appeared, arrived
<1>2. /\ P \in Worlds
      /\ \A d \in Creatures : d # c => P[d] = K[d]
      /\ P[c].stage = "in"
      /\ P[c].useCount = K[c].useCount + 1
      /\ P[c] = standing(K[c], a)
  BY <1>0, arrivedFields
<1>3. S \in SUBSET Creatures /\ \A d \in S : P[d].stage # "none"
  BY DEF Spectators, Placed
<1> HIDE DEF P, S
<1>4. Steady(P, A)
  BY <1>2, <1>3, AppearedSteady
<1>5. A \in Worlds /\ A[c].stage = "in"
  BY <1>2, <1>4 DEF Steady
<1> HIDE DEF A
<1>6. Steady(A, L) /\ L[c].check
  BY <1>5, addCreatureCheckSteady, addCreatureCheckWakes
<1>7. Steady(P, L)
  BY <1>4, <1>6, SteadyTransitive
<1> HIDE DEF L
<1>8. Waning(P, L) /\ Remaining(P, L)
  BY <1>2, <1>7, SteadyWaning DEF Steady, Remaining
<1>9. /\ P[c].attacked = NoCreature /\ P[c].summons = {} /\ P[c].master = K[c].master
      /\ P[c].friends = K[c].friends /\ P[c].targets = K[c].targets
      /\ ~P[c].check /\ ~P[c].listed /\ P[c].toAdd = K[c].toAdd /\ P[c].release = K[c].release
      /\ P[c].client = K[c].client /\ P[c].listed = K[c].listed
      /\ P[c].summons = K[c].summons
  <2>1. K[c] \in Records
    BY <1>0 DEF Worlds
  <2> QED BY <1>2, <2>1 DEF Records, Expecting, standing
<1>10. ASSUME NEW d \in Creatures PROVE Balance(P, d) = Balance(K, d)
  <2>1. \A e \in Creatures : e # c =>
          P[e].friends = K[e].friends /\ P[e].targets = K[e].targets /\ P[e].summons = K[e].summons
    BY <1>2
  <2>2. P[d].useCount - K[d].useCount = Shown(P, d, c) - Shown(K, d, c)
    <3> DEFINE g == One(K[d].client)
                    + One(d \in K[c].friends) + One(d \in K[c].targets) + One(d \in K[c].summons)
               e == K[d].release + K[d].toAdd
               i == One(K[d].stage = "in")
               j == One(P[d].stage = "in")
    <3>1. /\ K[d].release \in Int /\ K[d].toAdd \in Int /\ i \in Int /\ j \in Int
          /\ One(K[d].client) \in Int
          /\ One(d \in K[c].friends) \in Int /\ One(d \in K[c].targets) \in Int
          /\ One(d \in K[c].summons) \in Int /\ K[d].useCount \in Int /\ P[d].useCount \in Int
      BY <1>0, <1>2 DEF Worlds, Records, One
    <3>2. /\ P[d].release = K[d].release /\ P[d].toAdd = K[d].toAdd /\ P[d].client = K[d].client
          /\ P[c].friends = K[c].friends /\ P[c].targets = K[c].targets /\ P[c].summons = K[c].summons
      <4>1. CASE d = c
        BY <1>9, <4>1
      <4>2. CASE d # c
        BY <1>2, <1>9, <4>2
      <4> QED BY <4>1, <4>2
    <3>3. P[d].useCount - K[d].useCount = j - i
      <4>1. CASE d = c
        <5>1. i = 0 /\ j = 1
          BY <1>2, <4>1 DEF One, Expecting
        <5> HIDE DEF i, j
        <5> QED BY <1>2, <3>1, <4>1, <5>1
      <4>2. CASE d # c
        <5>1. P[d] = K[d]
          BY <1>2, <4>2
        <5>2. i = j
          BY <5>1
        <5> HIDE DEF i, j
        <5> QED BY <3>1, <5>1, <5>2
      <4> QED BY <4>1, <4>2
    <3>4. g \in Int /\ e \in Int
      BY <3>1
    <3>5. Shown(K, d, c) = e + i + g
      <4> HIDE DEF One
      <4> QED BY <3>1 DEF Shown
    <3>6. Shown(P, d, c) = e + j + g
      <4> HIDE DEF One
      <4> QED BY <3>1, <3>2 DEF Shown
    <3> HIDE DEF g, e, i, j
    <3> QED BY <3>1, <3>3, <3>4, <3>5, <3>6
  <2> QED BY <1>0, <1>2, <2>1, <2>2, BalanceKept
<1>11. Families(P)
  <2>1. \A x \in Creatures : P[x].summons = K[x].summons /\ P[x].master = K[x].master
    BY <1>2, <1>9
  <2>2. \A x \in Creatures : Placed(P, x) <=> Placed(K, x) \/ x = c
    BY <1>2 DEF Placed
  <2>3. Agree(P)
    BY <2>1 DEF Agree, Expecting
  <2>4. NoChains(P)
    BY <2>1 DEF NoChains, Expecting
  <2>5. K[c].summons = {} /\ \A x, s \in Creatures :
          s \in K[x].summons => (Placed(K, s) \/ s = c <=> Placed(K, x))
    BY DEF Expecting
  <2>6. Company(P)
    BY <2>1, <2>2, <2>5 DEF Company
  <2>7. Masters(P)
    BY <2>1, <2>2, <2>5 DEF Masters
  <2> QED BY <2>3, <2>4, <2>6, <2>7 DEF Families
<1>12. ASSUME NEW d \in Creatures PROVE Fresh(L, d) /\ Tidy(L, d) /\ Awake(L, d) /\ Aims(L, d)
  <2>1. Less(P, L, d)
    BY <1>8 DEF Waning
  <2>2. CASE d = c
    <3>1. Fresh(P, c) /\ Tidy(P, c) /\ Aims(P, c)
      BY <1>2, <1>9 DEF Fresh, Tidy, Aims
    <3>2. Awake(L, c)
      BY <1>6 DEF Awake
    <3> QED BY <2>1, <2>2, <3>1, <3>2 DEF Less, Quiet
  <2>3. CASE d # c
    <3>1. Fresh(K, d) /\ Tidy(K, d) /\ Awake(K, d) /\ Aims(K, d) /\ P[d] = K[d]
      BY <1>2, <2>3 DEF Expecting
    <3>2. Fresh(P, d) /\ Tidy(P, d) /\ Awake(P, d)
      BY <3>1 DEF Fresh, Tidy, Awake, Placed
    <3>3. Aims(P, d)
      <4>1. K[d].attacked \in Creatures \cup {NoCreature} /\ ~Placed(K, c)
        BY <1>0 DEF Worlds, Records, Expecting, Placed
      <4> QED BY <1>2, <3>1, <4>1 DEF Aims, Placed, Sees
    <3> QED BY <2>1, <3>2, <3>3 DEF Less, Quiet
  <2> QED BY <2>2, <2>3
<1>13. Good(L)
  <2>1. Families(L)
    BY <1>2, <1>8, <1>11, RemainingFamilies
  <2> QED BY <1>8, <1>12, <2>1 DEF Good, Waning
<1>14. EvenBut(K, L, c)
  <2>1. ASSUME NEW d \in Creatures
        PROVE  /\ Balance(L, d) = Balance(K, d)
               /\ L[d].toAdd - One(L[d].listed) = K[d].toAdd - One(K[d].listed)
               /\ L[d].client = K[d].client
               /\ d # c => /\ L[d].release + One(Placed(L, d)) = K[d].release + One(Placed(K, d))
                           /\ L[d].stage = K[d].stage
    <3> HIDE DEF One
    <3>1. /\ Balance(L, d) = Balance(P, d)
          /\ L[d].toAdd - One(L[d].listed) = P[d].toAdd - One(P[d].listed)
          /\ L[d].client = P[d].client
          /\ L[d].release + One(Placed(L, d)) = P[d].release + One(Placed(P, d))
          /\ L[d].stage = P[d].stage
      BY <1>8 DEF Waning, Less, Quiet, Remaining
    <3>2. P[d].toAdd = K[d].toAdd /\ P[d].listed = K[d].listed /\ P[d].client = K[d].client
      BY <1>2, <1>9
    <3>3. ASSUME d # c
          PROVE  /\ L[d].release + One(Placed(L, d)) = K[d].release + One(Placed(K, d))
                 /\ L[d].stage = K[d].stage
      <4>1. P[d] = K[d] /\ (Placed(P, d) <=> Placed(K, d))
        BY <1>2, <3>3 DEF Placed
      <4>2. One(Placed(P, d)) = One(Placed(K, d))
        BY <4>1 DEF One
      <4> QED BY <3>1, <4>1, <4>2
    <3>4. Balance(L, d) = Balance(K, d)
      BY <1>10, <3>1
    <3> QED BY <3>1, <3>2, <3>3, <3>4
  <2> QED BY <2>1 DEF EvenBut
<1>15. Placed(L, c) /\ L[c].release = 0
  <2>1. L[c].stage = P[c].stage /\ L[c].release = P[c].release
    BY <1>7 DEF Steady
  <2> QED BY <1>2, <1>9, <2>1 DEF Placed, Expecting
<1> QED BY <1>1, <1>13, <1>14, <1>15

-----------------------------------------------------------------------------
(* Whom creatures attack, and whose summons they are. *)

LEMMA setAttackedCreatureGood ==
    ASSUME NEW K, Good(K), NEW c \in Creatures, Placed(K, c),
           NEW x \in Creatures \cup {NoCreature}, x # NoCreature => Placed(K, x)
    PROVE  /\ Good(setAttackedCreature(K, c, x)) /\ Even(K, setAttackedCreature(K, c, x))
           /\ Remaining(K, setAttackedCreature(K, c, x))
<1> DEFINE L == setAttackedCreature(K, c, x)
<1>1. K \in Worlds /\ Families(K) /\ Company(K)
  BY DEF Good, Families
<1>2. Turning(K, L) /\ Remaining(K, L) /\ Families(L)
  BY <1>1, setAttackedCreatureTurning
<1> HIDE DEF L
<1>3. Good(L)
  BY <1>2, TurningGood
<1> QED BY <1>2, <1>3, TurningEven DEF L

\* x has got the summon s.
Summoning(K, L, x, s) ==
    \A d \in Creatures :
        /\ Alike(L[d], K[d])
        /\ L[d].master = IF d = s THEN x ELSE K[d].master
        /\ L[d].summons = IF d = x THEN K[x].summons \cup {s} ELSE K[d].summons
        /\ L[d].useCount = K[d].useCount + One(d = s)

LEMMA addSummonFields ==
    ASSUME NEW K \in Worlds, NEW x \in Creatures, NEW s \in Monsters
    PROVE  addSummon(K, x, s) \in Worlds /\ Summoning(K, addSummon(K, x, s), x, s)
<1> DEFINE S == K[x].summons \cup {s}
           I == [K EXCEPT ![s].master = x]
           M == [I EXCEPT ![x].summons = S]
           n == M[s].useCount + 1
           L == [M EXCEPT ![s].useCount = n]
<1>0. s \in Creatures
  BY DEF Creatures
<1>1. addSummon(K, x, s) = L
  <2>1. I[x].summons = K[x].summons
    BY <1>0 DEF Worlds, Records
  <2>2. [K EXCEPT ![s].master = x, ![x].summons = @ \cup {s}] = [I EXCEPT ![x].summons = I[x].summons \cup {s}]
    OBVIOUS
  <2>3. [K EXCEPT ![s].master = x, ![x].summons = @ \cup {s}] = M
    BY <2>1, <2>2
  <2> QED BY <2>3 DEF addSummon, useThing2
<1>2. /\ I \in Worlds
      /\ \A d \in Creatures :
            I[d] = IF d = s THEN [K[d] EXCEPT !.master = x] ELSE K[d]
  <2>1. x \in Creatures \cup {NoCreature}
    OBVIOUS
  <2> QED BY <1>0, <2>1 DEF Worlds, Records
<1> HIDE DEF I
<1>3. /\ M \in Worlds
      /\ \A d \in Creatures :
            M[d] = IF d = x THEN [I[d] EXCEPT !.summons = S] ELSE I[d]
  <2>1. S \in SUBSET Monsters
    BY DEF Worlds, Records
  <2> HIDE DEF S
  <2> QED BY <1>2, <2>1 DEF Worlds, Records
<1> HIDE DEF M
<1>4. n \in Int
  BY <1>0, <1>3 DEF Worlds, Records
<1> HIDE DEF n
<1>5. /\ L \in Worlds
      /\ \A d \in Creatures :
            L[d] = IF d = s THEN [M[d] EXCEPT !.useCount = n] ELSE M[d]
  BY <1>0, <1>3, <1>4 DEF Worlds, Records
<1> HIDE DEF L
<1>6. ASSUME NEW d \in Creatures
      PROVE  /\ Alike(L[d], K[d])
             /\ L[d].master = IF d = s THEN x ELSE K[d].master
             /\ L[d].summons = IF d = x THEN S ELSE K[d].summons
             /\ M[d].useCount = K[d].useCount
             /\ L[d].useCount = IF d = s THEN n ELSE K[d].useCount
  <2> HIDE DEF S
  <2>1. K[d] \in Records /\ I[d] \in Records /\ M[d] \in Records
    BY <1>2, <1>3 DEF Worlds
  <2>2. /\ Alike(I[d], K[d]) /\ I[d].summons = K[d].summons /\ I[d].useCount = K[d].useCount
        /\ I[d].master = IF d = s THEN x ELSE K[d].master
    BY <1>2, <2>1 DEF Records, Alike
  <2>3. /\ Alike(M[d], I[d]) /\ M[d].master = I[d].master /\ M[d].useCount = I[d].useCount
        /\ M[d].summons = IF d = x THEN S ELSE I[d].summons
    BY <1>3, <2>1 DEF Records, Alike
  <2>4. /\ Alike(L[d], M[d]) /\ L[d].summons = M[d].summons /\ L[d].master = M[d].master
        /\ L[d].useCount = IF d = s THEN n ELSE M[d].useCount
    BY <1>5, <2>1 DEF Records, Alike
  <2> QED BY <2>2, <2>3, <2>4 DEF Alike
<1>7. ASSUME NEW d \in Creatures PROVE L[d].useCount = K[d].useCount + One(d = s)
  <2>1. K[d].useCount \in Int
    BY DEF Worlds, Records
  <2>2. M[s].useCount = K[s].useCount
    BY <1>0, <1>6
  <2> QED BY <1>6, <2>1, <2>2 DEF One, n
<1>8. Summoning(K, L, x, s)
  BY <1>6, <1>7 DEF Summoning
<1> QED BY <1>1, <1>5, <1>8

\* A creature without a master gets one.
LEMMA addSummonJoins ==
    ASSUME NEW K, Good(K), NEW x \in Creatures, NEW s \in Monsters, Placed(K, x), x # s,
           K[s].master = NoCreature
    PROVE  /\ addSummon(K, x, s) \in Worlds /\ Summoning(K, addSummon(K, x, s), x, s)
           /\ Even(K, addSummon(K, x, s)) /\ Agree(addSummon(K, x, s))
           /\ \A d \in Creatures :
                /\ Tidy(addSummon(K, x, s), d) /\ Awake(addSummon(K, x, s), d) /\ Aims(addSummon(K, x, s), d)
                /\ d # s => Fresh(addSummon(K, x, s), d)
<1> DEFINE L == addSummon(K, x, s)
<1>0. K \in Worlds /\ s \in Creatures
  BY DEF Good, Creatures
<1>1. L \in Worlds /\ Summoning(K, L, x, s)
  BY <1>0, addSummonFields
<1> HIDE DEF L
<1>2. ASSUME NEW d \in Creatures
      PROVE  /\ Alike(L[d], K[d])
             /\ L[d].master = IF d = s THEN x ELSE K[d].master
             /\ L[d].summons = IF d = x THEN K[x].summons \cup {s} ELSE K[d].summons
             /\ L[d].useCount = K[d].useCount + One(d = s)
  BY <1>1 DEF Summoning
<1>3. Agree(K)
  BY DEF Good, Families
<1>4. \A y \in Creatures : s \notin K[y].summons
  BY <1>0, <1>3, CreaturesFinite DEF Agree
<1>5. ASSUME NEW d \in Creatures PROVE Balance(L, d) = Balance(K, d)
  <2> DEFINE g == K[d].release + K[d].toAdd + One(K[d].stage = "in") + One(K[d].client)
                  + One(d \in K[x].friends) + One(d \in K[x].targets)
             i == One(d \in K[x].summons)
             j == One(d \in L[x].summons)
  <2>1. Shown(K, d, x) = g + i
    BY DEF Shown
  <2>2. Shown(L, d, x) = g + j
    BY <1>2 DEF Shown, Alike
  <2>3. i \in Int /\ j \in Int /\ g \in Int
    BY <1>0 DEF One, Worlds, Records
  <2>4. j - i = One(d = s)
    BY <1>2, <1>4 DEF One
  <2>5. K[d].useCount \in Int /\ One(d = s) \in Int
    BY <1>0 DEF Worlds, Records, One
  <2> HIDE DEF g, i, j
  <2>6. L[d].useCount - K[d].useCount = Shown(L, d, x) - Shown(K, d, x)
    BY <1>2, <2>1, <2>2, <2>3, <2>4, <2>5
  <2>7. \A e \in Creatures : e # x =>
          L[e].friends = K[e].friends /\ L[e].targets = K[e].targets /\ L[e].summons = K[e].summons
    BY <1>2 DEF Alike
  <2> QED BY <1>0, <1>1, <2>6, <2>7, BalanceKept
<1>6. Even(K, L)
  <2> SUFFICES ASSUME NEW d \in Creatures
               PROVE  /\ Balance(L, d) = Balance(K, d)
                      /\ L[d].toAdd - One(L[d].listed) = K[d].toAdd - One(K[d].listed)
                      /\ L[d].client = K[d].client
                      /\ L[d].release + One(Placed(L, d)) = K[d].release + One(Placed(K, d))
                      /\ L[d].stage = "none" <=> K[d].stage = "none"
    BY DEF Even
  <2>1. Alike(L[d], K[d]) /\ Balance(L, d) = Balance(K, d)
    BY <1>2, <1>5
  <2> HIDE DEF One
  <2> QED BY <2>1 DEF Placed, Alike
<1>7. Agree(L)
  <2> SUFFICES ASSUME NEW y \in Creatures, NEW t \in Creatures
               PROVE  L[t].master = y <=> t \in L[y].summons
    BY DEF Agree
  <2>1. K[t].master = y <=> t \in K[y].summons
    BY <1>3 DEF Agree
  <2>2. y # NoCreature
    BY CreaturesFinite
  <2>3. CASE t = s
    BY <1>2, <1>4, <2>3
  <2>4. CASE t # s
    BY <1>2, <2>1, <2>4
  <2> QED BY <2>3, <2>4
<1>8. ASSUME NEW d \in Creatures
      PROVE  Tidy(L, d) /\ Awake(L, d) /\ Aims(L, d) /\ (d # s => Fresh(L, d))
  <2>1. Fresh(K, d) /\ Tidy(K, d) /\ Awake(K, d) /\ Aims(K, d)
    BY DEF Good
  <2>2. Alike(L[d], K[d])
    BY <1>2
  <2>3. Tidy(L, d) /\ Awake(L, d)
    BY <2>1, <2>2 DEF Tidy, Awake, Placed, Alike
  <2>4. Aims(L, d)
    <3>1. K[d].attacked \in Creatures \cup {NoCreature}
      BY <1>0 DEF Worlds, Records
    <3> QED BY <1>2, <2>1, <3>1 DEF Aims, Placed, Sees, Alike
  <2>5. d # s => Fresh(L, d)
    <3>1. CASE d = x
      BY <2>2, <3>1 DEF Fresh, Placed, Alike
    <3>2. CASE d # x
      BY <1>2, <2>1, <2>2, <3>2 DEF Fresh, Alike
    <3> QED BY <3>1, <3>2
  <2> QED BY <2>3, <2>4, <2>5
<1> QED BY <1>1, <1>6, <1>7, <1>8 DEF L

LEMMA SummonedGood ==
    ASSUME NEW K, Good(K), NEW x \in Creatures, NEW m \in Monsters, Placed(K, x),
           K[x].master = NoCreature, K[m].stage = "none", NEW o \in Orders
    PROVE  /\ Good(Summoned(K, x, m, o)) /\ EvenBut(K, Summoned(K, x, m, o), m)
           /\ Placed(Summoned(K, x, m, o), m) /\ Summoned(K, x, m, o)[m].release = 0
<1> DEFINE N == addSummon(K, x, m)
           L == Summoned(K, x, m, o)
           a == K[x].area
<1>0. K \in Worlds /\ m \in Creatures /\ a \in Areas /\ x # m
  BY DEF Good, Creatures, Worlds, Records, Placed
<1>1. L = placeCreature(N, m, a, o)
  BY DEF Summoned
<1>2. Fresh(K, m) /\ K[m].master = NoCreature
  BY <1>0 DEF Good, Fresh
<1>3. /\ N \in Worlds /\ Summoning(K, N, x, m) /\ Even(K, N) /\ Agree(N)
      /\ \A d \in Creatures : Tidy(N, d) /\ Awake(N, d) /\ Aims(N, d) /\ (d # m => Fresh(N, d))
  BY <1>0, <1>2, addSummonJoins
<1> HIDE DEF N, L, a
<1>4. ASSUME NEW d \in Creatures
      PROVE  /\ Alike(N[d], K[d])
             /\ N[d].summons = IF d = x THEN K[x].summons \cup {m} ELSE K[d].summons
             /\ Placed(N, d) <=> Placed(K, d)
  <2>1. /\ Alike(N[d], K[d])
        /\ N[d].summons = IF d = x THEN K[x].summons \cup {m} ELSE K[d].summons
    BY <1>3 DEF Summoning
  <2> QED BY <2>1 DEF Placed, Alike
<1>5. Agree(K) /\ Company(K) /\ NoChains(K) /\ Masters(K)
  BY DEF Good, Families
<1>6. \A y \in Creatures : m \notin K[y].summons /\ x \notin K[y].summons
  BY <1>0, <1>2, <1>5, CreaturesFinite DEF Agree
<1>7. Expecting(N, m)
  <2>1. /\ N[m].stage = "none" /\ N[m].attacked = NoCreature /\ N[m].summons = {}
        /\ ~N[m].check /\ ~N[m].listed /\ N[m].toAdd = 0 /\ N[m].release = 0
    BY <1>0, <1>2, <1>4 DEF Fresh, Alike
  <2>2. NoChains(N)
    <3> SUFFICES ASSUME NEW y \in Creatures, NEW s \in Creatures, s \in N[y].summons
                 PROVE  N[s].summons = {}
      BY DEF NoChains
    <3>1. CASE s = m
      BY <2>1, <3>1
    <3>2. CASE s # m
      <4>1. s \in K[y].summons
        BY <1>4, <3>2
      <4>2. s # x /\ K[s].summons = {}
        BY <1>5, <1>6, <4>1 DEF NoChains
      <4> QED BY <1>4, <4>2
    <3> QED BY <3>1, <3>2
  <2>3. ASSUME NEW y \in Creatures, NEW s \in Creatures, s \in N[y].summons
        PROVE  Placed(N, s) \/ s = m <=> Placed(N, y)
    <3>1. CASE s = m
      <4>1. y = x
        BY <1>4, <1>6, <2>3, <3>1
      <4> QED BY <1>4, <3>1, <4>1
    <3>2. CASE s # m
      <4>1. s \in K[y].summons
        BY <1>4, <2>3, <3>2
      <4>2. Placed(K, s) <=> Placed(K, y)
        BY <1>5, <4>1 DEF Company, Masters
      <4> QED BY <1>4, <3>2, <4>2
    <3> QED BY <3>1, <3>2
  <2> QED BY <1>3, <2>1, <2>2, <2>3 DEF Expecting
<1>8. /\ Good(L) /\ EvenBut(N, L, m) /\ Placed(L, m) /\ L[m].release = 0
  BY <1>0, <1>1, <1>7, placeCreatureGood
<1>9. EvenBut(K, L, m)
  <2> SUFFICES ASSUME NEW d \in Creatures
               PROVE  /\ Balance(L, d) = Balance(K, d)
                      /\ L[d].toAdd - One(L[d].listed) = K[d].toAdd - One(K[d].listed)
                      /\ L[d].client = K[d].client
                      /\ d # m => /\ L[d].release + One(Placed(L, d)) = K[d].release + One(Placed(K, d))
                                  /\ L[d].stage = K[d].stage
    BY DEF EvenBut
  <2>1. /\ Balance(L, d) = Balance(N, d)
        /\ L[d].toAdd - One(L[d].listed) = N[d].toAdd - One(N[d].listed)
        /\ L[d].client = N[d].client
        /\ d # m => /\ L[d].release + One(Placed(L, d)) = N[d].release + One(Placed(N, d))
                    /\ L[d].stage = N[d].stage
    BY <1>8 DEF EvenBut
  <2>2. Balance(N, d) = Balance(K, d)
    BY <1>3 DEF Even
  <2> HIDE DEF One
  <2> QED BY <1>4, <2>1, <2>2 DEF Alike, Placed
<1> QED BY <1>8, <1>9 DEF L

\* The monster y looks around if m concerns it.
noticeConvinced(K, y, m, o) ==
    IF isFriend(K, y, m) \/ isOpponent(K, y, m) THEN LookAround(K, y, o) ELSE K

\* The monsters of S notice that m has been convinced.
Noticed(K, S, o, m) == InTurn(LAMBDA X, d : noticeConvinced(X, d, m, o), K, S, o)

\* h is how that goes.
NoticedRun(h, K, S, o, m) ==
    /\ h[0] = K
    /\ \A i \in 1 .. Len(o) : h[i] = IF o[i] \in S THEN noticeConvinced(h[i - 1], o[i], m, o) ELSE h[i - 1]
    /\ Noticed(K, S, o, m) = h[Len(o)]

LEMMA NoticedTurns ==
    ASSUME NEW K, NEW S, NEW o \in Orders, NEW m,
           NEW W, K \in W, \A X \in W, d \in S : noticeConvinced(X, d, m, o) \in W
    PROVE  \E h \in [0 .. Len(o) -> W] : NoticedRun(h, K, S, o, m)
<1> DEFINE n == Len(o)
           f == [p \in W \X S |-> noticeConvinced(p[1], p[2], m, o)]
           F(g) == [i \in 0 .. n |->
                       IF i = 0 THEN K ELSE IF o[i] \in S THEN noticeConvinced(g[i - 1], o[i], m, o) ELSE g[i - 1]]
           h == CHOOSE g : g = F(g)
<1>1. n \in Nat
  BY OrdersReachAll
<1>2. f \in [W \X S -> W]
  OBVIOUS
<1>3. PICK g \in [0 .. n -> W] : Turns(g, n, K, S, o, f)
  <2> HIDE DEF n, f
  <2> QED BY <1>1, <1>2, TurnsExist
<1>4. g = F(g)
  <2> SUFFICES ASSUME NEW i \in 0 .. n PROVE g[i] = IF i = 0 THEN K ELSE IF o[i] \in S THEN noticeConvinced(g[i - 1], o[i], m, o) ELSE g[i - 1]
    BY <1>3
  <2> HIDE DEF n
  <2>1. CASE i = 0
    BY <1>3, <2>1 DEF Turns
  <2>2. CASE i # 0
    <3>1. i \in 1 .. n /\ i - 1 \in 0 .. n
      BY <1>1, <2>2
    <3>2. g[i - 1] \in W
      BY <1>3, <3>1
    <3>3. o[i] \in S => f[<<g[i - 1], o[i]>>] = noticeConvinced(g[i - 1], o[i], m, o)
      BY <3>2
    <3> HIDE DEF f
    <3> QED BY <1>3, <2>2, <3>1, <3>3 DEF Turns
  <2> QED BY <2>1, <2>2
<1>5. h = F(h)
  BY <1>4
<1>6. Noticed(K, S, o, m) = h[n]
  BY DEF Noticed, InTurn
<1> HIDE DEF h
<1>7. /\ h[0] = K /\ DOMAIN h = 0 .. n
      /\ \A i \in 1 .. n : h[i] = IF o[i] \in S THEN noticeConvinced(h[i - 1], o[i], m, o) ELSE h[i - 1]
  <2> HIDE DEF n
  <2>1. 0 \in 0 .. n /\ \A i \in 1 .. n : i \in 0 .. n /\ i # 0
    BY <1>1
  <2> QED BY <1>5, <2>1
<1>8. h \in [0 .. n -> W]
  <2>1. h = [i \in 0 .. n |-> h[i]]
    BY <1>5, <1>7
  <2> HIDE DEF n, F
  <2>2. h[0] \in W
    BY <1>7
  <2>3. \A i \in 1 .. n : h[i - 1] \in W => h[i] \in W
    BY <1>7
  <2> QED BY <1>1, <2>1, <2>2, <2>3, TurnsStay
<1> QED BY <1>6, <1>7, <1>8 DEF NoticedRun

LEMMA NoticedSteady ==
    ASSUME NEW K \in Worlds, NEW S \in SUBSET Monsters, NEW o \in Orders, NEW m,
           \A d \in S : K[d].stage # "none"
    PROVE  Steady(K, Noticed(K, S, o, m))
<1> DEFINE W == {X \in Worlds : Steady(K, X)}
<1>1. ASSUME NEW X \in W, NEW d \in S PROVE noticeConvinced(X, d, m, o) \in W
  <2>1. X[d].stage # "none"
    BY DEF Steady, Creatures
  <2>2. Steady(X, noticeConvinced(X, d, m, o))
    BY <2>1, LookAroundSteady, SteadyItself DEF noticeConvinced
  <2> QED BY <2>2, SteadyTransitive DEF Steady
<1>2. K \in W
  BY SteadyItself
<1>3. Noticed(K, S, o, m) \in W
  <2> HIDE DEF W
  <2>1. PICK h \in [0 .. Len(o) -> W] : NoticedRun(h, K, S, o, m)
    BY <1>1, <1>2, NoticedTurns
  <2>2. h[Len(o)] \in W
    BY <2>1, LastTurn
  <2>3. Noticed(K, S, o, m) = h[Len(o)]
    BY <2>1 DEF NoticedRun
  <2> QED BY <2>2, <2>3
<1> QED BY <1>3

\* A monster that p convinces loses its master and its summons.
LEMMA convinceCreatureGood ==
    ASSUME NEW K, Good(K), NEW p \in Players, NEW m \in Monsters, Placed(K, p), Placed(K, m), NEW o \in Orders
    PROVE  /\ Good(convinceCreature(K, p, m, o)) /\ Even(K, convinceCreature(K, p, m, o))
           /\ Remaining(K, convinceCreature(K, p, m, o))
<1> DEFINE x == K[m].master
           R == IF x = NoCreature THEN K ELSE removeSummon(K, x, m)
           N == addSummon(R, p, m)
           A == setAttackedCreature(N, m, NoCreature)
           D == destroySummons(A, m, o)
           E == [D EXCEPT ![m].masterInRange = TRUE]
           L == LookAround(E, m, o)
           S == Monsters \cap Spectators(L, {L[m].area, L[p].area})
           C == Noticed(L, S, o, m)
<1>0. /\ K \in Worlds /\ m \in Creatures /\ p \in Creatures /\ p # m /\ p \notin Monsters
      /\ x \in Creatures \cup {NoCreature}
  BY CreaturesAssumption DEF Good, Creatures, Worlds, Records
<1>1. convinceCreature(K, p, m, o) = C
  BY DEF convinceCreature, Noticed, noticeConvinced
<1>2. Good(R) /\ Waning(K, R) /\ Remaining(K, R) /\ R[m].master = NoCreature
  <2>1. CASE x = NoCreature
    BY <1>0, <2>1, WaningItself DEF Remaining
  <2>2. CASE x # NoCreature
    <3>1. R = removeSummon(K, x, m) /\ x \in Creatures
      BY <1>0, <2>2
    <3>2. Waning(K, R) /\ Remaining(K, R) /\ m \notin R[x].summons
      BY <1>0, <3>1, removeSummonWaning
    <3> HIDE DEF R
    <3>3. Good(R)
      BY <3>2, RemainingGood
    <3>4. R[m].master # x
      BY <1>0, <3>1, <3>2, <3>3 DEF Good, Families, Agree
    <3>5. R[m].master \in {x, NoCreature}
      BY <1>0, <3>2 DEF Waning, Less
    <3> QED BY <3>2, <3>3, <3>4, <3>5
  <2> QED BY <2>1, <2>2
<1> HIDE DEF R
<1>3. Placed(R, p) /\ Placed(R, m)
  BY <1>0, <1>2 DEF Remaining, Placed
<1>4. /\ N \in Worlds /\ Summoning(R, N, p, m) /\ Even(R, N) /\ Agree(N)
      /\ \A d \in Creatures : Tidy(N, d) /\ Awake(N, d) /\ Aims(N, d) /\ (d # m => Fresh(N, d))
  BY <1>0, <1>2, <1>3, addSummonJoins
<1> HIDE DEF N
<1>5. ASSUME NEW d \in Creatures
      PROVE  /\ N[d].stage = R[d].stage
             /\ N[d].summons = IF d = p THEN R[p].summons \cup {m} ELSE R[d].summons
             /\ Placed(N, d) <=> Placed(R, d)
  <2>1. /\ Alike(N[d], R[d])
        /\ N[d].summons = IF d = p THEN R[p].summons \cup {m} ELSE R[d].summons
    BY <1>4 DEF Summoning
  <2> QED BY <2>1 DEF Placed, Alike
<1>6. Fresh(N, m)
  BY <1>0, <1>3, <1>5 DEF Fresh, Placed
<1>7. Agree(R) /\ Company(R) /\ NoChains(R) /\ Masters(R)
  BY <1>2 DEF Good, Families
<1>8. Company(N)
  <2> SUFFICES ASSUME NEW y \in Creatures, NEW s \in Creatures, Placed(N, y), s \in N[y].summons
               PROVE  Placed(N, s)
    BY DEF Company
  <2>1. CASE s = m
    BY <1>0, <1>3, <1>5, <2>1
  <2>2. CASE s # m
    <3>1. s \in R[y].summons /\ Placed(R, y)
      BY <1>5, <2>2
    <3> QED BY <1>5, <1>7, <3>1 DEF Company
  <2> QED BY <2>1, <2>2
<1>9. Steady(N, A)
  BY <1>0, <1>4, letOffSteady
<1>10. /\ A \in Worlds /\ Waning(N, A) /\ Remaining(N, A)
       /\ A[m].summons = N[m].summons
  BY <1>0, <1>4, <1>9, SteadyWaning DEF Steady, Remaining
<1> HIDE DEF A
<1>11. Waning(A, D) /\ Remaining(A, D) /\ D[m].summons = {}
  <2> DEFINE T == A[m].summons
             B == Destroyed(A, T, o, m)
  <2>1. D = B
    BY DEF destroySummons, Destroyed, destroySummon
  <2>2. T \subseteq R[m].summons
    BY <1>0, <1>5, <1>10
  <2>3. T \in SUBSET Creatures
    BY <1>0, <1>10 DEF Worlds, Records, Creatures
  <2>4. \A s \in T : A[s].stage # "none" /\ Awake(A, s)
    <3> SUFFICES ASSUME NEW s \in T PROVE A[s].stage # "none" /\ Awake(A, s)
      OBVIOUS
    <3>1. s \in Creatures /\ R[s].stage # "none"
      BY <1>0, <1>2, <2>2, GoodStages
    <3>2. Awake(A, s)
      BY <1>4, <1>10, <3>1 DEF Waning, Less, Quiet
    <3> QED BY <1>5, <1>10, <3>1, <3>2 DEF Remaining
  <2> HIDE DEF T
  <2>5. /\ Waning(A, B) /\ Remaining(A, B)
        /\ \A s \in T : s \notin B[m].summons
    BY <1>0, <1>10, <2>3, <2>4, DestroyedWaning
  <2>6. B[m].summons \subseteq A[m].summons
    BY <1>0, <2>5 DEF Waning, Less
  <2> HIDE DEF B
  <2> QED BY <2>1, <2>5, <2>6 DEF T
<1> HIDE DEF D
<1>12. Waning(N, D) /\ Remaining(N, D) /\ D \in Worlds
  BY <1>10, <1>11, WaningTransitive DEF Remaining, Waning
<1>13. \A d \in Creatures : D[d].summons \subseteq N[d].summons /\ D[d].stage = N[d].stage
  BY <1>12 DEF Waning, Less, Remaining
<1>14. Families(D)
  <2>1. Agree(D) /\ Company(D)
    BY <1>4, <1>8, <1>12 DEF Waning
  <2>2. NoChains(D)
    <3> SUFFICES ASSUME NEW y \in Creatures, NEW s \in Creatures, s \in D[y].summons
                 PROVE  D[s].summons = {}
      BY DEF NoChains
    <3>1. CASE s = m
      BY <1>11, <3>1
    <3>2. CASE s # m
      <4>1. s \in R[y].summons
        BY <1>5, <1>13, <3>2
      <4>2. R[s].summons = {} /\ s # p
        BY <1>0, <1>2, <1>7, <4>1 DEF NoChains, Good, Worlds, Records
      <4> QED BY <1>5, <1>13, <4>2
    <3> QED BY <3>1, <3>2
  <2>3. Masters(D)
    <3> SUFFICES ASSUME NEW y \in Creatures, NEW s \in Creatures, Placed(D, s), s \in D[y].summons
                 PROVE  Placed(D, y)
      BY DEF Masters
    <3>1. \A d \in Creatures : Placed(D, d) <=> Placed(R, d)
      BY <1>5, <1>13 DEF Placed
    <3>2. CASE y = p
      BY <1>0, <1>3, <3>1, <3>2
    <3>3. CASE y # p
      <4>1. s \in R[y].summons /\ Placed(R, s)
        BY <1>5, <1>13, <3>1, <3>3
      <4> QED BY <1>7, <3>1, <4>1 DEF Masters
    <3> QED BY <3>2, <3>3
  <2> QED BY <2>1, <2>2, <2>3 DEF Families
<1>15. Good(D)
  <2>1. ASSUME NEW d \in Creatures PROVE Fresh(D, d) /\ Tidy(D, d) /\ Awake(D, d) /\ Aims(D, d)
    <3>1. Fresh(N, d) /\ Tidy(N, d) /\ Awake(N, d) /\ Aims(N, d)
      BY <1>4, <1>6
    <3> QED BY <1>12, <3>1 DEF Waning, Less, Quiet
  <2> QED BY <1>12, <1>14, <2>1 DEF Good
<1>16. Even(K, D) /\ Remaining(K, D)
  <2>1. Even(K, R) /\ Even(N, D)
    BY <1>2, <1>12, WaningEven
  <2>2. Even(K, D)
    BY <1>4, <2>1, EvenTransitive
  <2> QED BY <1>2, <1>5, <1>12, <2>2 DEF Remaining
<1>17. Steady(D, E)
  <2>1. TRUE \in BOOLEAN
    OBVIOUS
  <2> QED BY <1>0, <1>12, <2>1, masterInRangeSteady
<1>18. E \in Worlds /\ E[m].stage # "none"
  <2>1. D[m].stage = "in"
    BY <1>0, <1>3, <1>5, <1>13 DEF Placed
  <2> QED BY <1>0, <1>17, <2>1 DEF Steady
<1> HIDE DEF E
<1>19. Steady(E, L)
  BY <1>18, LookAroundSteady
<1> HIDE DEF L
<1>20. L \in Worlds
  BY <1>19 DEF Steady
<1>21. S \in SUBSET Monsters /\ \A d \in S : L[d].stage # "none"
  BY DEF Spectators, Placed
<1> HIDE DEF S
<1>22. Steady(L, C)
  BY <1>20, <1>21, NoticedSteady
<1>23. Steady(D, C)
  BY <1>17, <1>19, <1>22, SteadyTransitive
<1>24. Good(C) /\ Waning(D, C) /\ Remaining(D, C)
  BY <1>15, <1>23, SteadyGood
<1>25. Even(K, C)
  BY <1>16, <1>24, WaningEven, EvenTransitive
<1>26. Remaining(K, C)
  BY <1>16, <1>24 DEF Remaining
<1> QED BY <1>1, <1>24, <1>25, <1>26

-----------------------------------------------------------------------------
(* The buckets. *)

Filled(g, V, c) == g[0] = 0 /\ \A i \in 1 .. Buckets : g[i] = g[i - 1] + V[i - 1][c]

\* The sum over the buckets goes from one to the next.
LEMMA InBucketsRun ==
    ASSUME NEW V \in [0 .. Buckets - 1 -> [Creatures -> Nat]], NEW c \in Creatures
    PROVE  \E g \in [0 .. Buckets -> Nat] : Filled(g, V, c) /\ InBuckets(V, c) = g[Buckets]
<1> DEFINE n == Buckets
           F(g) == [i \in 0 .. Buckets |-> IF i = 0 THEN 0 ELSE g[i - 1] + V[i - 1][c]]
           h == CHOOSE g : g = F(g)
           St == [i \in 1 .. n |-> [x \in Nat |-> x + V[i - 1][c]]]
<1>1. n \in Nat /\ n > 0
  BY CreaturesAssumption
<1>2. St \in [1 .. n -> [Nat -> Nat]]
  <2> SUFFICES ASSUME NEW i \in 1 .. n, NEW x \in Nat PROVE x + V[i - 1][c] \in Nat
    OBVIOUS
  <2>1. i - 1 \in 0 .. Buckets - 1
    BY <1>1
  <2>2. V[i - 1][c] \in Nat
    BY <2>1
  <2> QED BY <2>2
<1>3. PICK g \in [0 .. n -> Nat] : Recursion(g, n, 0, St)
  <2> HIDE DEF n, St
  <2> QED BY <1>1, <1>2, RecursionExists
<1>4. g = F(g)
  <2> SUFFICES ASSUME NEW i \in 0 .. n PROVE g[i] = IF i = 0 THEN 0 ELSE g[i - 1] + V[i - 1][c]
    BY <1>3
  <2>1. CASE i = 0
    BY <1>3, <2>1 DEF Recursion
  <2>2. CASE i # 0
    <3>1. i \in 1 .. n /\ i - 1 \in 0 .. n
      BY <1>1, <2>2
    <3>2. g[i - 1] \in Nat
      BY <1>3, <3>1
    <3>3. St[i][g[i - 1]] = g[i - 1] + V[i - 1][c]
      BY <3>1, <3>2
    <3> HIDE DEF St
    <3> QED BY <1>3, <2>2, <3>1, <3>3 DEF Recursion
  <2> QED BY <2>1, <2>2
<1>5. h = F(h)
  BY <1>4
<1>6. InBuckets(V, c) = h[n]
  BY DEF InBuckets
<1> HIDE DEF h
<1>7. h[0] = 0 /\ h = [i \in 0 .. n |-> h[i]] /\ \A i \in 1 .. n : h[i] = h[i - 1] + V[i - 1][c]
  <2>1. 0 \in 0 .. n /\ \A i \in 1 .. n : i \in 0 .. n /\ i # 0
    BY <1>1
  <2> QED BY <1>5, <2>1
<1>8. h \in [0 .. n -> Nat]
  <2>1. ASSUME NEW i \in 1 .. n, h[i - 1] \in Nat PROVE h[i] \in Nat
    <3>1. i - 1 \in 0 .. Buckets - 1
      BY <1>1
    <3>2. V[i - 1][c] \in Nat
      BY <3>1
    <3>3. h[i] = h[i - 1] + V[i - 1][c]
      BY <1>7
    <3> HIDE DEF F, n
    <3> QED BY <2>1, <3>2, <3>3
  <2>2. h[0] \in Nat
    BY <1>7
  <2>3. h = [i \in 0 .. n |-> h[i]]
    BY <1>7
  <2> HIDE DEF n, F
  <2> QED BY <1>1, <2>1, <2>2, <2>3, TurnsStay
<1> QED BY <1>6, <1>7, <1>8 DEF Filled

LEMMA InBucketsBound ==
    ASSUME NEW V \in [0 .. Buckets - 1 -> [Creatures -> Nat]], NEW c \in Creatures
    PROVE  InBuckets(V, c) \in Nat /\ \A b \in 0 .. Buckets - 1 : V[b][c] <= InBuckets(V, c)
<1>1. PICK g \in [0 .. Buckets -> Nat] : Filled(g, V, c) /\ InBuckets(V, c) = g[Buckets]
  BY InBucketsRun
<1>0. Buckets \in Nat /\ Buckets > 0
  BY CreaturesAssumption
<1>2. InBuckets(V, c) \in Nat
  BY <1>0, <1>1
<1>3. ASSUME NEW b \in 0 .. Buckets - 1 PROVE V[b][c] <= InBuckets(V, c)
  <2> DEFINE Z == {x \in Nat : V[b][c] <= x}
  <2>0. V[b][c] \in Nat
    OBVIOUS
  <2>1. b + 1 \in 0 .. Buckets /\ b + 1 \in 1 .. Buckets /\ (b + 1) - 1 = b
    BY <1>0
  <2>2. g[b + 1] = g[b] + V[b][c] /\ g[b] \in Nat
    <3>1. g[b + 1] = g[(b + 1) - 1] + V[(b + 1) - 1][c]
      BY <1>1, <2>1 DEF Filled
    <3>2. b \in 0 .. Buckets
      BY <1>0
    <3> QED BY <2>1, <3>1, <3>2
  <2>3. g[b + 1] \in Z
    BY <2>0, <2>2
  <2>4. ASSUME NEW i \in 1 .. Buckets, i > b + 1, g[i - 1] \in Z PROVE g[i] \in Z
    <3>1. i - 1 \in 0 .. Buckets - 1
      BY <1>0
    <3>2. V[i - 1][c] \in Nat /\ g[i] = g[i - 1] + V[i - 1][c]
      BY <1>1, <3>1 DEF Filled
    <3> QED BY <2>0, <2>4, <3>2
  <2>5. g[Buckets] \in Z
    <3> HIDE DEF Z
    <3> QED BY <1>0, <2>1, <2>3, <2>4, TurnsKeep
  <2> QED BY <1>1, <2>5
<1> QED BY <1>2, <1>3

\* A change in one bucket.
LEMMA InBucketsChange ==
    ASSUME NEW V \in [0 .. Buckets - 1 -> [Creatures -> Nat]],
           NEW W \in [0 .. Buckets - 1 -> [Creatures -> Nat]], NEW c \in Creatures,
           NEW b \in 0 .. Buckets - 1, NEW d \in Int, W[b][c] = V[b][c] + d,
           \A i \in 0 .. Buckets - 1 : i # b => W[i][c] = V[i][c]
    PROVE  InBuckets(W, c) = InBuckets(V, c) + d
<1>0. Buckets \in Nat /\ Buckets > 0
  BY CreaturesAssumption
<1>1. PICK g \in [0 .. Buckets -> Nat] : Filled(g, V, c) /\ InBuckets(V, c) = g[Buckets]
  BY InBucketsRun
<1>2. PICK h \in [0 .. Buckets -> Nat] : Filled(h, W, c) /\ InBuckets(W, c) = h[Buckets]
  BY InBucketsRun
<1> DEFINE S == {i \in 0 .. Buckets : h[i] = g[i] + IF i <= b THEN 0 ELSE d}
<1>3. 0 \in S
  <2>1. g[0] = 0 /\ h[0] = 0 /\ 0 \in 0 .. Buckets /\ 0 <= b
    BY <1>0, <1>1, <1>2 DEF Filled
  <2> QED BY <2>1
<1>4. ASSUME NEW i \in 1 .. Buckets, i - 1 \in S PROVE i \in S
  <2>1. i - 1 \in 0 .. Buckets - 1 /\ i \in 0 .. Buckets /\ i - 1 \in 0 .. Buckets
    BY <1>0
  <2>2. g[i] = g[i - 1] + V[i - 1][c] /\ h[i] = h[i - 1] + W[i - 1][c]
    BY <1>1, <1>2 DEF Filled
  <2>3. V[i - 1][c] \in Nat /\ W[i - 1][c] \in Nat /\ g[i - 1] \in Nat /\ g[i] \in Nat /\ h[i] \in Nat /\ h[i - 1] \in Nat
    BY <2>1
  <2>4. h[i - 1] = g[i - 1] + IF i - 1 <= b THEN 0 ELSE d
    BY <1>4
  <2>5. W[i - 1][c] = V[i - 1][c] + IF i - 1 = b THEN d ELSE 0
    BY <2>1, <2>3
  <2>6. CASE i <= b
    BY <2>1, <2>2, <2>3, <2>4, <2>5, <2>6
  <2>7. CASE i = b + 1
    <3>1. W[i - 1][c] = V[i - 1][c] + d
      BY <2>5, <2>7
    <3>2. h[i - 1] = g[i - 1]
      BY <2>3, <2>4, <2>7
    <3>3. h[i] = g[i] + d
      BY <2>2, <2>3, <3>1, <3>2
    <3> QED BY <2>1, <2>7, <3>3
  <2>8. CASE i > b + 1
    <3>1. W[i - 1][c] = V[i - 1][c]
      BY <2>3, <2>5, <2>8
    <3>2. h[i - 1] = g[i - 1] + d
      BY <2>3, <2>4, <2>8
    <3>3. h[i] = g[i] + d
      BY <2>2, <2>3, <3>1, <3>2
    <3> QED BY <2>1, <2>8, <3>3
  <2> QED BY <2>6, <2>7, <2>8
<1>5. Buckets \in S
  <2>1. 0 .. Buckets \subseteq S
    <3> HIDE DEF S
    <3> QED BY <1>0, <1>3, <1>4, IntervalInduction
  <2> QED BY <1>0, <2>1
<1>6. h[Buckets] = g[Buckets] + IF Buckets <= b THEN 0 ELSE d
  BY <1>5
<1>7. ~(Buckets <= b)
  BY <1>0
<1> QED BY <1>1, <1>2, <1>6, <1>7

LEMMA InBucketsEmpty ==
    ASSUME NEW V \in [0 .. Buckets - 1 -> [Creatures -> Nat]], NEW c \in Creatures,
           \A b \in 0 .. Buckets - 1 : V[b][c] = 0
    PROVE  InBuckets(V, c) = 0
<1>0. Buckets \in Nat /\ Buckets > 0
  BY CreaturesAssumption
<1>1. PICK g \in [0 .. Buckets -> Nat] : Filled(g, V, c) /\ InBuckets(V, c) = g[Buckets]
  BY InBucketsRun
<1> DEFINE S == {i \in 0 .. Buckets : g[i] = 0}
<1>2. 0 \in S
  BY <1>0, <1>1 DEF Filled
<1>3. ASSUME NEW i \in 1 .. Buckets, i - 1 \in S PROVE i \in S
  <2>1. i - 1 \in 0 .. Buckets - 1 /\ i \in 0 .. Buckets
    BY <1>0
  <2>2. g[i] = g[i - 1] + V[i - 1][c] /\ V[i - 1][c] = 0
    BY <1>1, <2>1 DEF Filled
  <2> QED BY <1>3, <2>1, <2>2
<1>4. 0 .. Buckets \subseteq S
  <2> HIDE DEF S
  <2> QED BY <1>0, <1>2, <1>3, IntervalInduction
<1> QED BY <1>0, <1>1, <1>4

-----------------------------------------------------------------------------
(* References that clients, spawns and buckets take and give back. *)

\* q and r differ in counts, in the client and in the listing only.
Bare(q, r) ==
    /\ q.stage = r.stage /\ q.area = r.area /\ q.alive = r.alive
    /\ q.master = r.master /\ q.summons = r.summons
    /\ q.friends = r.friends /\ q.targets = r.targets
    /\ q.attacked = r.attacked /\ q.idle = r.idle /\ q.check = r.check

LEMMA CountersBalance ==
    ASSUME NEW K \in Worlds, NEW L \in Worlds, \A d \in Creatures : Bare(L[d], K[d]), NEW c \in Creatures
    PROVE  Balance(L, c) = Balance(K, c) + (L[c].useCount - K[c].useCount) - (L[c].release - K[c].release)
                           - (L[c].toAdd - K[c].toAdd) - (One(L[c].client) - One(K[c].client))
<1> DEFINE f == Cardinality(Befriending(K, c))
           t == Cardinality(Targeting(K, c))
           s == Cardinality(Mastering(K, c))
           p == One(K[c].stage = "in")
           cK == One(K[c].client)
           cL == One(L[c].client)
<1>1. Befriending(L, c) = Befriending(K, c) /\ Targeting(L, c) = Targeting(K, c) /\ Mastering(L, c) = Mastering(K, c)
  BY DEF Bare, Befriending, Targeting, Mastering
<1>2. f \in Nat /\ t \in Nat /\ s \in Nat
  BY CardinalityOfPart DEF Befriending, Targeting, Mastering
<1>3. p \in Int /\ cK \in Int /\ cL \in Int
  BY DEF One
<1>4. /\ K[c].useCount \in Int /\ K[c].release \in Int /\ K[c].toAdd \in Int
      /\ L[c].useCount \in Int /\ L[c].release \in Int /\ L[c].toAdd \in Int
  BY DEF Worlds, Records
<1>5. Balance(K, c) = K[c].useCount - K[c].release - K[c].toAdd - p - cK - f - t - s
  BY DEF Balance
<1>6. Balance(L, c) = L[c].useCount - L[c].release - L[c].toAdd - p - cL - f - t - s
  <2>1. Balance(L, c) = L[c].useCount - L[c].release - L[c].toAdd - One(L[c].stage = "in") - cL - f - t - s
    BY <1>1 DEF Balance
  <2>2. L[c].stage = K[c].stage
    BY DEF Bare
  <2> QED BY <2>1, <2>2
<1> HIDE DEF f, t, s, p, cK, cL
<1>7. Balance(L, c) = Balance(K, c) + (L[c].useCount - K[c].useCount) - (L[c].release - K[c].release)
                      - (L[c].toAdd - K[c].toAdd) - (cL - cK)
  BY <1>2, <1>3, <1>4, <1>5, <1>6
<1> QED BY <1>7 DEF cK, cL

\* L is K where c is q.
Changed(K, L, c, q) ==
    /\ L \in Worlds /\ L[c] = q
    /\ \A d \in Creatures : Bare(L[d], K[d])
    /\ \A d \in Creatures : d # c => L[d] = K[d] /\ Balance(L, d) = Balance(K, d)
    /\ Balance(L, c) = Balance(K, c) + (q.useCount - K[c].useCount) - (q.release - K[c].release)
                       - (q.toAdd - K[c].toAdd) - (One(q.client) - One(K[c].client))

LEMMA OneChanges ==
    ASSUME NEW K \in Worlds, NEW c \in Creatures, NEW q \in Records, Bare(q, K[c]),
           NEW L, L = [K EXCEPT ![c] = q]
    PROVE  Changed(K, L, c, q)
<1>1. L \in Worlds /\ L[c] = q /\ \A d \in Creatures : d # c => L[d] = K[d]
  BY DEF Worlds
<1>2. ASSUME NEW d \in Creatures PROVE Bare(L[d], K[d])
  <2>1. CASE d = c
    BY <1>1, <2>1
  <2>2. CASE d # c
    <3>1. L[d] = K[d]
      BY <1>1, <2>2
    <3> QED BY <3>1 DEF Bare
  <2> QED BY <2>1, <2>2
<1>3. ASSUME NEW d \in Creatures, d # c PROVE Balance(L, d) = Balance(K, d)
  <2>1. L[d] = K[d]
    BY <1>1, <1>3
  <2>2. Balance(L, d) = Balance(K, d) + (L[d].useCount - K[d].useCount) - (L[d].release - K[d].release)
                        - (L[d].toAdd - K[d].toAdd) - (One(L[d].client) - One(K[d].client))
    BY <1>1, <1>2, CountersBalance
  <2>3. K[d].useCount \in Int /\ K[d].release \in Int /\ K[d].toAdd \in Int /\ One(K[d].client) \in Int
    BY DEF Worlds, Records, One
  <2>4. Balance(K, d) \in Int
    BY BalanceIsInt
  <2> QED BY <2>1, <2>2, <2>3, <2>4
<1>4. Balance(L, c) = Balance(K, c) + (q.useCount - K[c].useCount) - (q.release - K[c].release)
                      - (q.toAdd - K[c].toAdd) - (One(q.client) - One(K[c].client))
  <2>1. Balance(L, c) = Balance(K, c) + (L[c].useCount - K[c].useCount) - (L[c].release - K[c].release)
                        - (L[c].toAdd - K[c].toAdd) - (One(L[c].client) - One(K[c].client))
    BY <1>1, <1>2, CountersBalance
  <2>2. L[c] = q
    BY <1>1
  <2> QED BY <2>1, <2>2
<1> QED BY <1>1, <1>2, <1>3, <1>4 DEF Changed

LEMMA CountersGood ==
    ASSUME NEW K, Good(K), NEW L \in Worlds, \A d \in Creatures : Bare(L[d], K[d]),
           \A d \in Creatures : Fresh(L, d) /\ (L[d].check => L[d].listed)
    PROVE  Good(L)
<1>0. K \in Worlds
  BY DEF Good
<1>1. ASSUME NEW c \in Creatures
      PROVE  /\ L[c].stage = K[c].stage /\ L[c].alive = K[c].alive /\ L[c].area = K[c].area
             /\ L[c].master = K[c].master /\ L[c].summons = K[c].summons
             /\ L[c].attacked = K[c].attacked /\ L[c].idle = K[c].idle
             /\ L[c].check = K[c].check
  BY DEF Bare
<1>2. Families(L)
  <2>1. Agree(K) /\ Company(K) /\ NoChains(K) /\ Masters(K)
    BY DEF Good, Families
  <2>2. Agree(L)
    BY <1>1, <2>1 DEF Agree
  <2>3. Company(L)
    BY <1>1, <2>1 DEF Company, Placed
  <2>4. NoChains(L)
    BY <1>1, <2>1 DEF NoChains
  <2>5. Masters(L)
    BY <1>1, <2>1 DEF Masters, Placed
  <2> QED BY <2>2, <2>3, <2>4, <2>5 DEF Families
<1>3. ASSUME NEW c \in Creatures PROVE Fresh(L, c) /\ Tidy(L, c) /\ Awake(L, c) /\ Aims(L, c)
  <2>1. Fresh(K, c) /\ Tidy(K, c) /\ Awake(K, c) /\ Aims(K, c)
    BY DEF Good
  <2>2. Tidy(L, c) /\ Awake(L, c)
    BY <1>1, <2>1 DEF Tidy, Awake, Placed
  <2>3. Aims(L, c)
    <3>1. K[c].attacked \in Creatures \cup {NoCreature}
      BY <1>0 DEF Worlds, Records
    <3> QED BY <1>1, <2>1, <3>1 DEF Aims, Placed, Sees
  <2> QED BY <2>2, <2>3
<1> QED BY <1>2, <1>3 DEF Good

\* Of the creatures in memory the counts change only.
Recounted(K, L, n) ==
    \A d \in Creatures :
        /\ Bare(L[d], K[d])
        /\ L[d].listed = K[d].listed /\ L[d].client = K[d].client
        /\ L[d].toAdd = K[d].toAdd /\ L[d].release = K[d].release
        /\ Balance(L, d) = Balance(K, d) + n[d]

Counted(K, L, n) == \A d \in Creatures : L[d] = [K[d] EXCEPT !.useCount = K[d].useCount + n[d]]

LEMMA RecountedGood ==
    ASSUME NEW K, Good(K), NEW L \in Worlds, NEW n \in [Creatures -> Int], Counted(K, L, n)
    PROVE  Good(L) /\ Recounted(K, L, n)
<1>0. K \in Worlds
  BY DEF Good
<1>1. ASSUME NEW d \in Creatures
      PROVE  /\ L[d].useCount = K[d].useCount + n[d]
             /\ Bare(L[d], K[d])
             /\ L[d].listed = K[d].listed /\ L[d].client = K[d].client
             /\ L[d].toAdd = K[d].toAdd /\ L[d].release = K[d].release
  <2> DEFINE u == K[d].useCount + n[d]
  <2>1. K[d] \in Records /\ u \in Int
    BY <1>0 DEF Worlds, Records
  <2>2. L[d] = [K[d] EXCEPT !.useCount = u]
    BY DEF Counted
  <2>3. u = K[d].useCount + n[d]
    OBVIOUS
  <2> HIDE DEF u
  <2>4. /\ L[d].useCount = u
        /\ L[d].stage = K[d].stage /\ L[d].area = K[d].area /\ L[d].alive = K[d].alive
        /\ L[d].master = K[d].master /\ L[d].summons = K[d].summons
        /\ L[d].friends = K[d].friends /\ L[d].targets = K[d].targets
        /\ L[d].attacked = K[d].attacked /\ L[d].idle = K[d].idle
        /\ L[d].check = K[d].check /\ L[d].listed = K[d].listed /\ L[d].toAdd = K[d].toAdd
        /\ L[d].release = K[d].release /\ L[d].client = K[d].client
    BY <2>1, <2>2, OtherUseCount
  <2> QED BY <2>3, <2>4 DEF Bare
<1>3. ASSUME NEW d \in Creatures PROVE Balance(L, d) = Balance(K, d) + n[d]
  <2>1. Balance(L, d) = Balance(K, d) + (L[d].useCount - K[d].useCount) - (L[d].release - K[d].release)
                        - (L[d].toAdd - K[d].toAdd) - (One(L[d].client) - One(K[d].client))
    BY <1>0, <1>1, CountersBalance
  <2>2. K[d].useCount \in Int /\ K[d].release \in Int /\ K[d].toAdd \in Int /\ One(K[d].client) \in Int
    BY <1>0 DEF Worlds, Records, One
  <2>3. Balance(K, d) \in Int /\ n[d] \in Int
    BY <1>0, BalanceIsInt
  <2>4. L[d].useCount - K[d].useCount = n[d]
    BY <1>1, <2>2, <2>3
  <2>5. One(L[d].client) = One(K[d].client) /\ L[d].release = K[d].release /\ L[d].toAdd = K[d].toAdd
    BY <1>1
  <2> QED BY <2>1, <2>2, <2>3, <2>4, <2>5
<1>4. ASSUME NEW d \in Creatures PROVE Fresh(L, d) /\ (L[d].check => L[d].listed)
  <2>1. Fresh(K, d) /\ Tidy(K, d)
    BY DEF Good
  <2> QED BY <1>1, <2>1 DEF Fresh, Tidy, Bare
<1> QED BY <1>1, <1>3, <1>4, CountersGood DEF Recounted

LEMMA releaseAllGood ==
    ASSUME NEW K, Good(K), NEW S, NEW n, n = [d \in Creatures |-> 0 - One(d \in S)]
    PROVE  Good(releaseAll(K, S)) /\ Recounted(K, releaseAll(K, S), n)
<1> DEFINE L == releaseAll(K, S)
<1>0. K \in Worlds
  BY DEF Good
<1>1. L \in Worlds /\ \A d \in Creatures : L[d] = [K[d] EXCEPT !.useCount = K[d].useCount - One(d \in S)]
  BY <1>0, releaseAllFields
<1> HIDE DEF L
<1>2. n \in [Creatures -> Int]
  BY DEF One
<1>3. Counted(K, L, n)
  <2> SUFFICES ASSUME NEW d \in Creatures
               PROVE  L[d] = [K[d] EXCEPT !.useCount = K[d].useCount + n[d]]
    BY DEF Counted
  <2>1. K[d].useCount \in Int /\ One(d \in S) \in Int /\ n[d] = 0 - One(d \in S)
    BY <1>0 DEF Worlds, Records, One
  <2>2. K[d].useCount - One(d \in S) = K[d].useCount + n[d]
    BY <2>1
  <2> QED BY <1>1, <2>2
<1>4. Good(L) /\ Recounted(K, L, n)
  BY <1>1, <1>2, <1>3, RecountedGood
<1> QED BY <1>4 DEF L

\* One creature has one reference more, or one less.
LEMMA oneReferenceGood ==
    ASSUME NEW K, Good(K), NEW c \in Creatures, NEW i \in Int,
           NEW L, L = [K EXCEPT ![c].useCount = K[c].useCount + i],
           NEW n, n = [d \in Creatures |-> IF d = c THEN i ELSE 0]
    PROVE  Good(L) /\ Recounted(K, L, n)
<1>0. K \in Worlds
  BY DEF Good
<1>1. n \in [Creatures -> Int]
  OBVIOUS
<1> DEFINE q == [K[c] EXCEPT !.useCount = K[c].useCount + i]
<1>2. L = [K EXCEPT ![c] = q]
  OBVIOUS
<1>3. q \in Records
  BY <1>0 DEF Worlds, Records
<1>4. L \in Worlds /\ L[c] = q /\ \A d \in Creatures : d # c => L[d] = K[d]
  <2> HIDE DEF q
  <2> QED BY <1>0, <1>2, <1>3 DEF Worlds
<1>5. ASSUME NEW d \in Creatures PROVE L[d] = [K[d] EXCEPT !.useCount = K[d].useCount + n[d]]
  <2>1. CASE d = c
    BY <1>4, <2>1
  <2>2. CASE d # c
    <3>1. K[d].useCount + n[d] = K[d].useCount
      BY <1>0, <2>2 DEF Worlds, Records
    <3>2. [K[d] EXCEPT !.useCount = K[d].useCount] = K[d]
      BY <1>0 DEF Worlds, Records
    <3> QED BY <1>4, <2>2, <3>1, <3>2
  <2> QED BY <2>1, <2>2
<1>6. Counted(K, L, n)
  BY <1>5 DEF Counted
<1> QED BY <1>1, <1>4, <1>6, RecountedGood

\* A client takes c.
attached(K, c) == useThing2([K EXCEPT ![c].client = TRUE], c)

LEMMA attachedFields ==
    ASSUME NEW K \in Worlds, NEW c \in Creatures, ~K[c].client
    PROVE  /\ attached(K, c) \in Worlds
           /\ \A d \in Creatures : Bare(attached(K, c)[d], K[d])
           /\ \A d \in Creatures : d # c => attached(K, c)[d] = K[d] /\ Balance(attached(K, c), d) = Balance(K, d)
           /\ Balance(attached(K, c), c) = Balance(K, c)
           /\ attached(K, c)[c].client /\ attached(K, c)[c].useCount = K[c].useCount + 1
           /\ attached(K, c)[c].toAdd = K[c].toAdd /\ attached(K, c)[c].listed = K[c].listed /\ attached(K, c)[c].release = K[c].release
<1> DEFINE n == K[c].useCount + 1
           q == [K[c] EXCEPT !.client = TRUE, !.useCount = n]
           L == attached(K, c)
<1>1. DOMAIN K = Creatures /\ K[c] \in Records /\ n \in Int
  BY DEF Worlds, Records
<1>2. L = [K EXCEPT ![c] = q]
  BY <1>1 DEF attached, useThing2
<1>3. /\ q \in Records /\ q.client /\ q.useCount = n /\ Bare(q, K[c])
      /\ q.toAdd = K[c].toAdd /\ q.listed = K[c].listed /\ q.release = K[c].release
  <2> HIDE DEF n
  <2>1. \A b \in BOOLEAN : [K[c] EXCEPT !.client = b, !.useCount = n] \in Records
    BY <1>1 DEF Records
  <2>2. q \in Records
    BY <2>1
  <2> QED BY <1>1, <2>2 DEF Records, Bare
<1>4. n = K[c].useCount + 1
  OBVIOUS
<1> HIDE DEF q, L, n
<1>5. /\ L \in Worlds /\ L[c] = q /\ \A d \in Creatures : Bare(L[d], K[d])
      /\ \A d \in Creatures : d # c => L[d] = K[d] /\ Balance(L, d) = Balance(K, d)
      /\ Balance(L, c) = Balance(K, c) + (q.useCount - K[c].useCount) - (q.release - K[c].release)
                         - (q.toAdd - K[c].toAdd) - (One(q.client) - One(K[c].client))
  <2>1. q \in Records /\ Bare(q, K[c])
    BY <1>3
  <2>2. Changed(K, L, c, q)
    BY <1>2, <2>1, OneChanges
  <2> QED BY <2>2 DEF Changed
<1>6. Balance(L, c) = Balance(K, c)
  <2>1. K[c].useCount \in Int /\ K[c].release \in Int /\ K[c].toAdd \in Int
    BY <1>1 DEF Records
  <2>2. Balance(K, c) \in Int
    BY BalanceIsInt
  <2>3. One(q.client) - One(K[c].client) = 1
    BY <1>1, <1>3 DEF One, Records
  <2>4. One(q.client) \in Int /\ One(K[c].client) \in Int
    BY DEF One
  <2> DEFINE x == One(q.client)
             y == One(K[c].client)
  <2>5. /\ Balance(L, c) = Balance(K, c) + (q.useCount - K[c].useCount) - (q.release - K[c].release)
                           - (q.toAdd - K[c].toAdd) - (x - y)
        /\ x \in Int /\ y \in Int /\ x - y = 1
    BY <1>5, <2>3, <2>4
  <2>6. q.useCount = K[c].useCount + 1 /\ q.release = K[c].release /\ q.toAdd = K[c].toAdd
    BY <1>3, <1>4
  <2> HIDE DEF x, y
  <2> QED BY <2>1, <2>2, <2>5, <2>6
<1> QED BY <1>3, <1>4, <1>5, <1>6 DEF L

\* The client of c is gone.
detached(K, c) == FreeThing([K EXCEPT ![c].client = FALSE], c)

LEMMA detachedFields ==
    ASSUME NEW K \in Worlds, NEW c \in Creatures, K[c].client
    PROVE  /\ detached(K, c) \in Worlds
           /\ \A d \in Creatures : Bare(detached(K, c)[d], K[d])
           /\ \A d \in Creatures : d # c => detached(K, c)[d] = K[d] /\ Balance(detached(K, c), d) = Balance(K, d)
           /\ Balance(detached(K, c), c) = Balance(K, c)
           /\ ~detached(K, c)[c].client /\ detached(K, c)[c].release = K[c].release + 1
           /\ detached(K, c)[c].toAdd = K[c].toAdd /\ detached(K, c)[c].listed = K[c].listed /\ detached(K, c)[c].useCount = K[c].useCount
<1> DEFINE n == K[c].release + 1
           q == [K[c] EXCEPT !.client = FALSE, !.release = n]
           L == detached(K, c)
<1>1. DOMAIN K = Creatures /\ K[c] \in Records /\ n \in Nat
  BY DEF Worlds, Records
<1>2. L = [K EXCEPT ![c] = q]
  BY <1>1 DEF detached, FreeThing
<1>3. /\ q \in Records /\ ~q.client /\ q.release = n /\ Bare(q, K[c])
      /\ q.toAdd = K[c].toAdd /\ q.listed = K[c].listed /\ q.useCount = K[c].useCount
  <2> HIDE DEF n
  <2>1. \A b \in BOOLEAN : [K[c] EXCEPT !.client = b, !.release = n] \in Records
    BY <1>1 DEF Records
  <2>2. q \in Records
    BY <2>1
  <2> QED BY <1>1, <2>2 DEF Records, Bare
<1>4. n = K[c].release + 1
  OBVIOUS
<1> HIDE DEF q, L, n
<1>5. /\ L \in Worlds /\ L[c] = q /\ \A d \in Creatures : Bare(L[d], K[d])
      /\ \A d \in Creatures : d # c => L[d] = K[d] /\ Balance(L, d) = Balance(K, d)
      /\ Balance(L, c) = Balance(K, c) + (q.useCount - K[c].useCount) - (q.release - K[c].release)
                         - (q.toAdd - K[c].toAdd) - (One(q.client) - One(K[c].client))
  <2>1. q \in Records /\ Bare(q, K[c])
    BY <1>3
  <2>2. Changed(K, L, c, q)
    BY <1>2, <2>1, OneChanges
  <2> QED BY <2>2 DEF Changed
<1>6. Balance(L, c) = Balance(K, c)
  <2>1. K[c].useCount \in Int /\ K[c].release \in Int /\ K[c].toAdd \in Int
    BY <1>1 DEF Records
  <2>2. Balance(K, c) \in Int
    BY BalanceIsInt
  <2>3. One(q.client) - One(K[c].client) = -1
    BY <1>1, <1>3 DEF One, Records
  <2>4. One(q.client) \in Int /\ One(K[c].client) \in Int
    BY DEF One
  <2> DEFINE x == One(q.client)
             y == One(K[c].client)
  <2>5. /\ Balance(L, c) = Balance(K, c) + (q.useCount - K[c].useCount) - (q.release - K[c].release)
                           - (q.toAdd - K[c].toAdd) - (x - y)
        /\ x \in Int /\ y \in Int /\ x - y = -1
    BY <1>5, <2>3, <2>4
  <2>6. q.release = K[c].release + 1 /\ q.useCount = K[c].useCount /\ q.toAdd = K[c].toAdd
    BY <1>3, <1>4
  <2> HIDE DEF x, y
  <2> QED BY <2>1, <2>2, <2>5, <2>6
<1> QED BY <1>3, <1>4, <1>5, <1>6 DEF L

\* c is out of its bucket.
unlisted(K, c) == FreeThing([K EXCEPT ![c].listed = FALSE], c)

LEMMA unlistedFields ==
    ASSUME NEW K \in Worlds, NEW c \in Creatures
    PROVE  /\ unlisted(K, c) \in Worlds
           /\ \A d \in Creatures : Bare(unlisted(K, c)[d], K[d])
           /\ \A d \in Creatures : d # c => unlisted(K, c)[d] = K[d] /\ Balance(unlisted(K, c), d) = Balance(K, d)
           /\ Balance(unlisted(K, c), c) = Balance(K, c) - 1
           /\ ~unlisted(K, c)[c].listed /\ unlisted(K, c)[c].release = K[c].release + 1
           /\ unlisted(K, c)[c].toAdd = K[c].toAdd /\ unlisted(K, c)[c].client = K[c].client /\ unlisted(K, c)[c].useCount = K[c].useCount
<1> DEFINE n == K[c].release + 1
           q == [K[c] EXCEPT !.listed = FALSE, !.release = n]
           L == unlisted(K, c)
<1>1. DOMAIN K = Creatures /\ K[c] \in Records /\ n \in Nat
  BY DEF Worlds, Records
<1>2. L = [K EXCEPT ![c] = q]
  BY <1>1 DEF unlisted, FreeThing
<1>3. /\ q \in Records /\ ~q.listed /\ q.release = n /\ Bare(q, K[c])
      /\ q.toAdd = K[c].toAdd /\ q.client = K[c].client /\ q.useCount = K[c].useCount
  <2> HIDE DEF n
  <2>1. \A b \in BOOLEAN : [K[c] EXCEPT !.listed = b, !.release = n] \in Records
    BY <1>1 DEF Records
  <2>2. q \in Records
    BY <2>1
  <2> QED BY <1>1, <2>2 DEF Records, Bare
<1>4. n = K[c].release + 1
  OBVIOUS
<1> HIDE DEF q, L, n
<1>5. /\ L \in Worlds /\ L[c] = q /\ \A d \in Creatures : Bare(L[d], K[d])
      /\ \A d \in Creatures : d # c => L[d] = K[d] /\ Balance(L, d) = Balance(K, d)
      /\ Balance(L, c) = Balance(K, c) + (q.useCount - K[c].useCount) - (q.release - K[c].release)
                         - (q.toAdd - K[c].toAdd) - (One(q.client) - One(K[c].client))
  <2>1. q \in Records /\ Bare(q, K[c])
    BY <1>3
  <2>2. Changed(K, L, c, q)
    BY <1>2, <2>1, OneChanges
  <2> QED BY <2>2 DEF Changed
<1>6. Balance(L, c) = Balance(K, c) - 1
  <2>1. K[c].useCount \in Int /\ K[c].release \in Int /\ K[c].toAdd \in Int
    BY <1>1 DEF Records
  <2>2. Balance(K, c) \in Int
    BY BalanceIsInt
  <2>3. One(q.client) - One(K[c].client) = 0
    BY <1>1, <1>3 DEF One, Records
  <2>4. One(q.client) \in Int /\ One(K[c].client) \in Int
    BY DEF One
  <2> DEFINE x == One(q.client)
             y == One(K[c].client)
  <2>5. /\ Balance(L, c) = Balance(K, c) + (q.useCount - K[c].useCount) - (q.release - K[c].release)
                           - (q.toAdd - K[c].toAdd) - (x - y)
        /\ x \in Int /\ y \in Int /\ x - y = 0
    BY <1>5, <2>3, <2>4
  <2>6. q.release = K[c].release + 1 /\ q.useCount = K[c].useCount /\ q.toAdd = K[c].toAdd
    BY <1>3, <1>4
  <2> HIDE DEF x, y
  <2> QED BY <2>1, <2>2, <2>5, <2>6
<1> QED BY <1>3, <1>4, <1>5, <1>6 DEF L

-----------------------------------------------------------------------------
(* The inductive invariant: what Good says of the creatures, and that the references they do not *)
(* show are those of the spawn S and of the buckets V.                        *)

Accounts(K, S, V) ==
    \A c \in Creatures :
        /\ Balance(K, c) = One(c \in S) + InBuckets(V, c)
        /\ K[c].toAdd + InBuckets(V, c) = One(K[c].listed)

\* What is and what may come to be in ToReleaseThings. The walk w has yet to come to T.
Bounded(K, w, T) ==
    \A c \in Creatures :
        K[c].release + One(K[c].client) + One(Placed(K, c)) + One(w /\ c \in T)
          <= MaxReleases + 2 + One(w)

\* The spawn S, whose check is scheduled if e.
Watched(K, S, e) ==
    /\ \A c \in S : K[c].stage # "none"
    /\ Cardinality(S) <= SpawnSize
    /\ e \/ (Cardinality(S) = SpawnSize /\ \A m \in S : Placed(K, m))

Books ==
    /\ spawned \subseteq Monsters /\ checkSpawnEvent \in BOOLEAN
    /\ vectors \in [0 .. Buckets - 1 -> [Creatures -> Nat]]
    /\ lastIndex \in 0 .. Buckets - 1
    /\ walking \in BOOLEAN /\ todo \subseteq Creatures
    /\ walking => \A c \in todo : vectors[lastIndex][c] > 0

IInv ==
    /\ Good(crea) /\ Books
    /\ Accounts(crea, spawned, vectors) /\ Bounded(crea, walking, todo)
    /\ Watched(crea, spawned, checkSpawnEvent)

Lighter(K, L) ==
    \A c \in Creatures :
        \/ L[c].release + One(L[c].client) + One(Placed(L, c))
             <= K[c].release + One(K[c].client) + One(Placed(K, c))
        \/ L[c].release = 0
        \/ L[c].release < MaxReleases

\* An operation that buckets and spawns do not notice.
Kept(K, L) ==
    /\ Lighter(K, L)
    /\ \A c \in Creatures :
         /\ Balance(L, c) = Balance(K, c)
         /\ L[c].toAdd - One(L[c].listed) = K[c].toAdd - One(K[c].listed)

LEMMA EvenKept ==
    ASSUME NEW K \in Worlds, NEW L \in Worlds, Even(K, L)
    PROVE  Kept(K, L)
<1> SUFFICES ASSUME NEW c \in Creatures
             PROVE  L[c].release + One(L[c].client) + One(Placed(L, c))
                      <= K[c].release + One(K[c].client) + One(Placed(K, c))
  BY DEF Even, Kept, Lighter
<1> DEFINE a == L[c].release
           b == K[c].release
           p == One(Placed(L, c))
           q == One(Placed(K, c))
           x == One(K[c].client)
           y == One(L[c].client)
<1>1. a + p = b + q /\ L[c].client = K[c].client
  BY DEF Even
<1>2. a \in Int /\ b \in Int /\ p \in Int /\ q \in Int /\ x \in Int /\ y = x
  BY <1>1 DEF Worlds, Records, One
<1> HIDE DEF a, b, p, q, x, y
<1>3. a + y + p <= b + x + q
  BY <1>1, <1>2
<1> QED BY <1>3 DEF a, b, p, q, x, y

LEMMA EvenButKept ==
    ASSUME NEW K \in Worlds, NEW L \in Worlds, NEW c \in Creatures, EvenBut(K, L, c), L[c].release = 0
    PROVE  Kept(K, L)
<1> SUFFICES ASSUME NEW d \in Creatures, d # c
             PROVE  L[d].release + One(L[d].client) + One(Placed(L, d))
                      <= K[d].release + One(K[d].client) + One(Placed(K, d))
  BY DEF EvenBut, Kept, Lighter
<1> DEFINE a == L[d].release
           b == K[d].release
           p == One(Placed(L, d))
           q == One(Placed(K, d))
           x == One(K[d].client)
           y == One(L[d].client)
<1>1. a + p = b + q /\ L[d].client = K[d].client
  BY DEF EvenBut
<1>2. a \in Int /\ b \in Int /\ p \in Int /\ q \in Int /\ x \in Int /\ y = x
  BY <1>1 DEF Worlds, Records, One
<1> HIDE DEF a, b, p, q, x, y
<1>3. a + y + p <= b + x + q
  BY <1>1, <1>2
<1> QED BY <1>3 DEF a, b, p, q, x, y

LEMMA AccountsKept ==
    ASSUME NEW K \in Worlds, NEW L \in Worlds, NEW S, NEW V, Accounts(K, S, V), Kept(K, L),
           \A c \in Creatures : InBuckets(V, c) \in Nat
    PROVE  Accounts(L, S, V)
<1> SUFFICES ASSUME NEW c \in Creatures PROVE L[c].toAdd + InBuckets(V, c) = One(L[c].listed)
  BY DEF Accounts, Kept
<1> DEFINE x == One(K[c].listed)
           y == One(L[c].listed)
           n == InBuckets(V, c)
<1>1. K[c].toAdd + n = x /\ L[c].toAdd - y = K[c].toAdd - x
  BY DEF Accounts, Kept
<1>2. K[c].toAdd \in Int /\ L[c].toAdd \in Int /\ x \in Int /\ y \in Int /\ n \in Int
  BY DEF Worlds, Records, One
<1> HIDE DEF x, y, n
<1>3. L[c].toAdd + n = y
  BY <1>1, <1>2
<1> QED BY <1>3 DEF y, n

LEMMA BoundedKept ==
    ASSUME NEW K \in Worlds, NEW L \in Worlds, NEW w \in BOOLEAN, NEW T, NEW U \in SUBSET T,
           Bounded(K, w, T), Lighter(K, L)
    PROVE  Bounded(L, w, U)
<1> SUFFICES ASSUME NEW c \in Creatures
             PROVE  L[c].release + One(L[c].client) + One(Placed(L, c)) + One(w /\ c \in U)
                      <= MaxReleases + 2 + One(w)
  BY DEF Bounded
<1> DEFINE a == L[c].release
           b == K[c].release
           p == One(Placed(L, c))
           q == One(Placed(K, c))
           x == One(K[c].client)
           y == One(L[c].client)
           t == One(w /\ c \in T)
           u == One(w /\ c \in U)
           v == One(w)
<1>1. a \in Int /\ b \in Int /\ MaxReleases \in Nat
  BY CreaturesAssumption DEF Worlds, Records
<1>2. p \in 0 .. 1 /\ q \in 0 .. 1 /\ x \in 0 .. 1 /\ y \in 0 .. 1 /\ t \in 0 .. 1 /\ u \in 0 .. 1 /\ v \in 0 .. 1
  BY DEF One
<1>3. u <= t /\ u <= v
  BY DEF One
<1>4. a + y + p <= b + x + q \/ a = 0 \/ a < MaxReleases
  BY DEF Lighter
<1>5. b + x + q + t <= MaxReleases + 2 + v
  BY DEF Bounded
<1> HIDE DEF a, b, p, q, x, y, t, u, v
<1>6. a + y + p + u <= MaxReleases + 2 + v
  <2>1. CASE a + y + p <= b + x + q
    BY <1>1, <1>2, <1>3, <1>5, <2>1
  <2>2. CASE a = 0
    BY <1>1, <1>2, <1>3, <2>2
  <2>3. CASE a < MaxReleases
    BY <1>1, <1>2, <1>3, <2>3
  <2> QED BY <1>4, <2>1, <2>2, <2>3
<1> QED BY <1>6 DEF a, p, y, u, v

LEMMA BucketsAreNat ==
    ASSUME IInv
    PROVE  \A c \in Creatures : InBuckets(vectors, c) \in Nat
BY InBucketsBound DEF IInv, Books

\* A step that leaves the spawn and the buckets as they are.
LEMMA Uneventful ==
    ASSUME IInv, Good(crea'), Kept(crea, crea'), \A c \in spawned : crea'[c].stage # "none",
           spawned' = spawned, vectors' = vectors, lastIndex' = lastIndex, walking' = walking,
           todo' \subseteq todo, checkSpawnEvent' \in BOOLEAN,
           ~checkSpawnEvent' => ~checkSpawnEvent /\ \A m \in spawned : In(m) => crea'[m].stage = "in"
    PROVE  IInv'
<1>0. crea \in Worlds /\ crea' \in Worlds
  BY DEF IInv, Good
<1>1. Accounts(crea', spawned', vectors')
  <2>1. Accounts(crea', spawned, vectors)
    BY <1>0, BucketsAreNat, AccountsKept DEF IInv
  <2> QED BY <2>1
<1>2. Bounded(crea', walking', todo')
  <2>1. walking \in BOOLEAN /\ Bounded(crea, walking, todo)
    BY DEF IInv, Books
  <2>2. Bounded(crea', walking, todo')
    BY <1>0, <2>1, BoundedKept DEF Kept
  <2> QED BY <2>2
<1>3. Watched(crea', spawned', checkSpawnEvent')
  <2>1. Watched(crea, spawned, checkSpawnEvent)
    BY DEF IInv
  <2>2. Watched(crea', spawned, checkSpawnEvent')
    BY <2>1 DEF Watched, In, Placed
  <2> QED BY <2>2
<1>4. Books'
  BY DEF IInv, Books
<1> QED BY <1>1, <1>2, <1>3, <1>4 DEF IInv

LEMMA EvenStep ==
    ASSUME IInv, Good(crea'), Even(crea, crea'),
           spawned' = spawned, vectors' = vectors, lastIndex' = lastIndex, walking' = walking,
           todo' \subseteq todo, checkSpawnEvent' = SpawnNotices
    PROVE  IInv'
<1>0. crea \in Worlds /\ crea' \in Worlds
  BY DEF IInv, Good
<1>1. Kept(crea, crea')
  BY <1>0, EvenKept
<1>2. spawned \subseteq Creatures /\ checkSpawnEvent \in BOOLEAN /\ Watched(crea, spawned, checkSpawnEvent)
  BY DEF IInv, Books, Creatures
<1>3. \A c \in spawned : crea'[c].stage # "none"
  BY <1>2 DEF Watched, Even
<1>4. checkSpawnEvent' \in BOOLEAN
  BY <1>2 DEF SpawnNotices
<1>5. ~checkSpawnEvent' => ~checkSpawnEvent /\ \A m \in spawned : In(m) => crea'[m].stage = "in"
  BY DEF SpawnNotices
<1> QED BY <1>1, <1>3, <1>4, <1>5, Uneventful

\* A step that places m.
LEMMA PlacedStep ==
    ASSUME IInv, Good(crea'), NEW m \in Creatures, EvenBut(crea, crea', m),
           crea'[m].release = 0, Placed(crea', m),
           spawned' = spawned, vectors' = vectors, lastIndex' = lastIndex, walking' = walking,
           todo' \subseteq todo, checkSpawnEvent' = SpawnNotices
    PROVE  IInv'
<1>0. crea \in Worlds /\ crea' \in Worlds
  BY DEF IInv, Good
<1>1. Kept(crea, crea')
  BY <1>0, EvenButKept
<1>2. spawned \subseteq Creatures /\ checkSpawnEvent \in BOOLEAN /\ Watched(crea, spawned, checkSpawnEvent)
  BY DEF IInv, Books, Creatures
<1>3. \A c \in spawned : crea'[c].stage # "none"
  BY <1>2 DEF Watched, EvenBut, Placed
<1>4. checkSpawnEvent' \in BOOLEAN
  BY <1>2 DEF SpawnNotices
<1>5. ~checkSpawnEvent' => ~checkSpawnEvent /\ \A n \in spawned : In(n) => crea'[n].stage = "in"
  BY DEF SpawnNotices
<1> QED BY <1>1, <1>3, <1>4, <1>5, Uneventful

LEMMA changeHealthGood ==
    ASSUME NEW K, Good(K), NEW c \in Creatures, K[c].stage # "none", NEW alive \in BOOLEAN, alive => K[c].alive
    PROVE  Good(changeHealth(K, c, alive)) /\ Even(K, changeHealth(K, c, alive)) /\ Remaining(K, changeHealth(K, c, alive))
<1>0. K \in Worlds /\ Awake(K, c)
  BY DEF Good
<1>1. Waning(K, changeHealth(K, c, alive)) /\ Remaining(K, changeHealth(K, c, alive))
  BY <1>0, changeHealthWaning
<1>2. Good(changeHealth(K, c, alive))
  BY <1>1, RemainingGood
<1> QED BY <1>1, <1>2, WaningEven

LEMMA removeCreatureGood ==
    ASSUME NEW K, Good(K), NEW c \in Creatures, NEW o \in Orders
    PROVE  Good(removeCreature(K, c, o)) /\ Even(K, removeCreature(K, c, o))
<1>0. K \in Worlds /\ Families(K)
  BY DEF Good
<1>1. Waning(K, removeCreature(K, c, o)) /\ Families(removeCreature(K, c, o))
  BY <1>0, removeCreatureWaning
<1>2. Good(removeCreature(K, c, o))
  BY <1>1, WaningGood
<1> QED BY <1>1, <1>2, WaningEven

LEMMA updateIdleStatusGood ==
    ASSUME NEW K, Good(K), NEW m \in Monsters, K[m].stage # "none"
    PROVE  Good(updateIdleStatus(K, m)) /\ Even(K, updateIdleStatus(K, m)) /\ Remaining(K, updateIdleStatus(K, m))
<1>1. K \in Worlds
  BY DEF Good
<1>2. Steady(K, updateIdleStatus(K, m))
  BY <1>1, updateIdleStatusSteady
<1>3. Good(updateIdleStatus(K, m)) /\ Waning(K, updateIdleStatus(K, m)) /\ Remaining(K, updateIdleStatus(K, m))
  BY <1>2, SteadyGood
<1> QED BY <1>3, WaningEven

LEMMA EvenItself ==
    ASSUME NEW K
    PROVE  Even(K, K)
BY DEF Even

-----------------------------------------------------------------------------
(* The actions, one by one. *)

LEMMA LogoutStep ==
    ASSUME IInv, NEW p \in Players, Logout(p)
    PROVE  IInv'
<1>1. PICK o \in Orders : crea' = removeCreature(crea, p, o)
  BY DEF Logout
<1>2. Good(crea) /\ p \in Creatures
  BY DEF IInv, Creatures
<1>3. Good(crea') /\ Even(crea, crea')
  BY <1>1, <1>2, removeCreatureGood
<1> QED BY <1>3, EvenStep DEF Logout, Ordinary, walkVars

LEMMA AttackStep ==
    ASSUME IInv, NEW p \in Players, NEW x \in Creatures \cup {NoCreature}, Attack(p, x)
    PROVE  IInv'
<1>1. Good(crea) /\ p \in Creatures /\ Placed(crea, p) /\ (x # NoCreature => Placed(crea, x))
  BY DEF IInv, Creatures, Attack, In, Placed
<1>2. crea' = setAttackedCreature(crea, p, x)
  BY DEF Attack
<1>3. Good(crea') /\ Even(crea, crea')
  BY <1>1, <1>2, setAttackedCreatureGood
<1> QED BY <1>3, EvenStep DEF Attack, Ordinary, walkVars

LEMMA HitStep ==
    ASSUME IInv, NEW c \in Creatures, Hit(c)
    PROVE  IInv'
<1>1. PICK alive \in BOOLEAN : crea' = changeHealth(crea, c, alive)
  BY DEF Hit
<1>2. Good(crea) /\ crea[c].stage # "none" /\ (alive => crea[c].alive)
  BY DEF IInv, Hit, In
<1>3. Good(crea') /\ Even(crea, crea')
  BY <1>1, <1>2, changeHealthGood
<1> QED BY <1>3, EvenStep DEF Hit, Ordinary, walkVars

LEMMA DieStep ==
    ASSUME IInv, NEW c \in Creatures, Die(c)
    PROVE  IInv'
<1>1. PICK o \in Orders : crea' = die(crea, c, o)
  BY DEF Die
<1>2. Good(crea)
  BY DEF IInv
<1>3. Good(crea') /\ Even(crea, crea')
  BY <1>1, <1>2, dieWaning, WaningEven
<1> QED BY <1>3, EvenStep DEF Die, Visit

LEMMA SummonStep ==
    ASSUME IInv, NEW p \in Players, NEW m \in Monsters, Summon(p, m)
    PROVE  IInv'
<1>1. PICK o \in Orders : crea' = Summoned(crea, p, m, o)
  BY DEF Summon
<1>2. Good(crea) /\ p \in Creatures /\ m \in Creatures /\ Placed(crea, p) /\ crea[m].stage = "none"
  BY DEF IInv, Creatures, Summon, In, Placed, Free
<1>3. crea[p].master = NoCreature
  <2>1. crea \in Worlds /\ Agree(crea)
    BY <1>2 DEF Good, Families
  <2>2. crea[p].master \in Creatures \cup {NoCreature} /\ \A x \in Creatures : crea[x].summons \subseteq Monsters
    BY <1>2, <2>1 DEF Worlds, Records
  <2>3. p \notin Monsters
    BY CreaturesAssumption
  <2> QED BY <1>2, <2>1, <2>2, <2>3 DEF Agree
<1>4. Good(crea') /\ EvenBut(crea, crea', m) /\ Placed(crea', m) /\ crea'[m].release = 0
  BY <1>1, <1>2, <1>3, SummonedGood
<1> QED BY <1>2, <1>4, PlacedStep DEF Summon, Ordinary, walkVars

\* An operation that leaves every creature where it is.
Still(K, L) == Good(L) /\ Even(K, L) /\ Remaining(K, L)

LEMMA StillTransitive ==
    ASSUME NEW K, NEW L, NEW M, Still(K, L), Still(L, M)
    PROVE  Still(K, M)
<1>1. Even(K, M)
  BY EvenTransitive DEF Still
<1>2. Remaining(K, M)
  BY DEF Still, Remaining
<1> QED BY <1>1, <1>2 DEF Still

LEMMA StillEvenBut ==
    ASSUME NEW K, NEW L, NEW M, Even(K, L), Remaining(K, L), NEW c \in Creatures, EvenBut(L, M, c)
    PROVE  EvenBut(K, M, c)
<1> SUFFICES ASSUME NEW d \in Creatures
             PROVE  /\ Balance(M, d) = Balance(K, d)
                    /\ M[d].toAdd - One(M[d].listed) = K[d].toAdd - One(K[d].listed)
                    /\ M[d].client = K[d].client
                    /\ d # c => /\ M[d].release + One(Placed(M, d)) = K[d].release + One(Placed(K, d))
                                /\ M[d].stage = K[d].stage
  BY DEF EvenBut
<1> HIDE DEF One
<1> QED BY DEF Even, Remaining, EvenBut

LEMMA AttackedStill ==
    ASSUME NEW c \in Creatures, Good(crea), NEW K \in Attacked(c)
    PROVE  Still(crea, K)
<1> DEFINE x == crea[c].attacked
<1>1. CASE K = crea
  BY <1>1, EvenItself DEF Still, Remaining
<1>2. CASE K # crea
  <2>1. x \notin {c, NoCreature} /\ K \in {changeHealth(crea, x, alive) : alive \in {b \in BOOLEAN : crea[x].alive}}
    BY <1>2 DEF Attacked
  <2>2. PICK alive \in BOOLEAN : crea[x].alive /\ K = changeHealth(crea, x, alive)
    BY <2>1
  <2>3. Aims(crea, c) /\ x \in Creatures
    BY <2>1 DEF Good, Worlds, Records
  <2>4. crea[x].stage # "none"
    BY <2>1, <2>3 DEF Aims, Placed
  <2> HIDE DEF x
  <2>5. Good(K) /\ Even(crea, K) /\ Remaining(crea, K)
    BY <2>2, <2>3, <2>4, changeHealthGood
  <2> QED BY <2>5 DEF Still
<1> QED BY <1>1, <1>2

LEMMA selectTargetStill ==
    ASSUME NEW K, Good(K), NEW c \in Creatures, Placed(K, c), NEW x
    PROVE  Still(K, selectTarget(K, c, x))
<1>1. CASE x \in K[c].targets /\ Placed(K, x) /\ Sees(K, c, x)
  <2>1. x \in Creatures
    BY <1>1 DEF Good, Worlds, Records
  <2>2. selectTarget(K, c, x) = setAttackedCreature(K, c, x)
    BY <1>1 DEF selectTarget
  <2>3. /\ Good(setAttackedCreature(K, c, x)) /\ Even(K, setAttackedCreature(K, c, x))
        /\ Remaining(K, setAttackedCreature(K, c, x))
    BY <1>1, <2>1, setAttackedCreatureGood
  <2> QED BY <2>2, <2>3 DEF Still
<1>2. CASE ~(x \in K[c].targets /\ Placed(K, x) /\ Sees(K, c, x))
  <2>1. selectTarget(K, c, x) = K
    BY <1>2 DEF selectTarget
  <2> QED BY <2>1, EvenItself DEF Still, Remaining
<1> QED BY <1>1, <1>2

LEMMA SelectedStill ==
    ASSUME NEW K, Good(K), NEW c \in Creatures, Placed(K, c), NEW S \in Selected(K, c)
    PROVE  Still(K, S)
<1>1. S = K \/ \E x : S = selectTarget(K, c, x)
  BY DEF Selected
<1>2. CASE S = K
  BY <1>2, EvenItself DEF Still, Remaining
<1>3. CASE \E x : S = selectTarget(K, c, x)
  BY <1>3, selectTargetStill
<1> QED BY <1>1, <1>2, <1>3

LEMMA ThinkPlayerStep ==
    ASSUME IInv, NEW c \in Creatures, Visit(c), ThinkPlayer(c), checkSpawnEvent' = SpawnNotices
    PROVE  IInv'
<1>0. Good(crea)
  BY DEF IInv
<1>1. PICK K \in Attacked(c) :
        \/ crea' = K
        \/ \E o \in Orders : crea' = removeCreature(K, c, o)
  BY DEF ThinkPlayer
<1>2. Good(K) /\ Even(crea, K)
  BY <1>0, AttackedStill DEF Still
<1>3. Good(crea') /\ Even(crea, crea')
  <2>1. CASE crea' = K
    BY <1>2, <2>1
  <2>2. CASE \E o \in Orders : crea' = removeCreature(K, c, o)
    <3>1. PICK o \in Orders : crea' = removeCreature(K, c, o)
      BY <2>2
    <3>2. Good(crea') /\ Even(K, crea')
      BY <1>2, <3>1, removeCreatureGood
    <3> QED BY <1>2, <3>2, EvenTransitive
  <2> QED BY <1>1, <2>1, <2>2
<1> QED BY <1>3, EvenStep DEF ThinkPlayer, Visit

LEMMA ThinkMonsterStep ==
    ASSUME IInv, NEW c \in Monsters, Visit(c), crea[c].check, ThinkMonster(c), checkSpawnEvent' = SpawnNotices
    PROVE  IInv'
<1>0. Good(crea) /\ c \in Creatures
  BY DEF IInv, Creatures
<1>1. Placed(crea, c)
  BY <1>0 DEF Good, Tidy
<1> DEFINE Despawns(K) == \E o \in Orders : crea' = removeCreature(K, c, o)
           Summons(S) == /\ S[c].master = NoCreature
                         /\ \E m \in Monsters, o \in Orders : Free(m) /\ crea' = Summoned(S, c, m, o)
<1>2. PICK K \in Attacked(c) :
        \/ Despawns(K)
        \/ crea' = updateIdleStatus(K, c)
        \/ \E S \in Selected(updateIdleStatus(K, c), c) : crea' = S \/ Summons(S)
  BY DEF ThinkMonster
<1> DEFINE U == updateIdleStatus(K, c)
<1>3. Still(crea, K)
  BY <1>0, AttackedStill
<1>4. K[c].stage # "none"
  BY <1>0, <1>1, <1>3 DEF Still, Remaining, Placed
<1>5. Still(K, U)
  BY <1>3, <1>4, updateIdleStatusGood DEF Still
<1>6. Still(crea, U)
  BY <1>3, <1>5, StillTransitive
<1>7. Placed(U, c)
  BY <1>0, <1>1, <1>6 DEF Still, Remaining, Placed
<1>8. /\ spawned' = spawned /\ vectors' = vectors /\ lastIndex' = lastIndex /\ walking' = walking
      /\ todo' \subseteq todo
  BY DEF Visit, ThinkMonster
<1> HIDE DEF U
<1>9. CASE Despawns(K)
  <2>1. PICK o \in Orders : crea' = removeCreature(K, c, o)
    BY <1>9
  <2>2. Good(crea') /\ Even(K, crea')
    BY <1>0, <1>3, <2>1, removeCreatureGood DEF Still
  <2>3. Even(crea, crea')
    BY <1>3, <2>2, EvenTransitive DEF Still
  <2> QED BY <1>8, <2>2, <2>3, EvenStep
<1>10. CASE crea' = U
  BY <1>6, <1>8, <1>10, EvenStep DEF Still
<1>11. CASE \E S \in Selected(U, c) : crea' = S \/ Summons(S)
  <2>1. PICK S \in Selected(U, c) : crea' = S \/ Summons(S)
    BY <1>11
  <2>2. Still(U, S)
    BY <1>0, <1>6, <1>7, SelectedStill DEF Still
  <2>3. Still(crea, S)
    BY <1>6, <2>2, StillTransitive
  <2>4. CASE crea' = S
    BY <1>8, <2>3, <2>4, EvenStep DEF Still
  <2>5. CASE Summons(S)
    <3>1. PICK m \in Monsters, o \in Orders : Free(m) /\ crea' = Summoned(S, c, m, o)
      BY <2>5
    <3>2. m \in Creatures /\ S[m].stage = "none" /\ Placed(S, c)
      BY <1>0, <1>1, <2>3, <3>1 DEF Creatures, Still, Remaining, Free, Placed
    <3>3. Good(crea') /\ EvenBut(S, crea', m) /\ Placed(crea', m) /\ crea'[m].release = 0
      BY <1>0, <2>3, <2>5, <3>1, <3>2, SummonedGood DEF Still
    <3>4. EvenBut(crea, crea', m)
      BY <2>3, <3>2, <3>3, StillEvenBut DEF Still
    <3> QED BY <1>8, <3>2, <3>3, <3>4, PlacedStep
  <2> QED BY <2>1, <2>4, <2>5
<1> QED BY <1>2, <1>9, <1>10, <1>11 DEF U

LEMMA ThinkStep ==
    ASSUME IInv, NEW c \in Creatures, Think(c)
    PROVE  IInv'
<1>1. Visit(c) /\ crea[c].check /\ checkSpawnEvent' = SpawnNotices
  BY DEF Think
<1>2. CASE c \in Players
  BY <1>1, <1>2, ThinkPlayerStep DEF Think
<1>3. CASE c \notin Players
  BY <1>1, <1>3, ThinkMonsterStep DEF Think, Creatures
<1> QED BY <1>2, <1>3

LEMMA ConnectStep ==
    ASSUME IInv, NEW p \in Players, Connect(p)
    PROVE  IInv'
<1>0. Good(crea) /\ crea \in Worlds /\ p \in Creatures /\ ~crea[p].client
  BY DEF IInv, Good, Creatures, Connect
<1>1. crea' = attached(crea, p)
  BY DEF Connect, attached
<1> DEFINE L == attached(crea, p)
<1>2. /\ L \in Worlds /\ \A d \in Creatures : Bare(L[d], crea[d])
      /\ \A d \in Creatures : d # p => L[d] = crea[d]
      /\ \A d \in Creatures : Balance(L, d) = Balance(crea, d)
      /\ L[p].toAdd = crea[p].toAdd /\ L[p].listed = crea[p].listed /\ L[p].release = crea[p].release
  BY <1>0, attachedFields
<1> HIDE DEF L
<1>3. Good(L)
  <2>1. ASSUME NEW d \in Creatures PROVE Fresh(L, d) /\ (L[d].check => L[d].listed)
    <3>1. Fresh(crea, d) /\ Tidy(crea, d) /\ Bare(L[d], crea[d])
      BY <1>0, <1>2 DEF Good
    <3>2. L[d].listed = crea[d].listed
      BY <1>2
    <3>3. CASE d = p
      BY <3>1, <3>2, <3>3 DEF Connect, In, Fresh, Tidy, Bare
    <3>4. CASE d # p
      <4>1. L[d] = crea[d]
        BY <1>2, <3>4
      <4> QED BY <3>1, <4>1 DEF Fresh, Tidy
    <3> QED BY <3>3, <3>4
  <2> QED BY <1>0, <1>2, <2>1, CountersGood
<1>4. Kept(crea, L)
  <2> SUFFICES ASSUME NEW d \in Creatures
               PROVE  /\ Balance(L, d) = Balance(crea, d)
                      /\ L[d].toAdd - One(L[d].listed) = crea[d].toAdd - One(crea[d].listed)
                      /\ \/ L[d].release + One(L[d].client) + One(Placed(L, d))
                              <= crea[d].release + One(crea[d].client) + One(Placed(crea, d))
                         \/ L[d].release = 0
                         \/ L[d].release < MaxReleases
    BY DEF Kept, Lighter
  <2>1. L[d].toAdd = crea[d].toAdd /\ L[d].listed = crea[d].listed /\ Balance(L, d) = Balance(crea, d)
    BY <1>2
  <2>2. CASE d = p
    <3>1. L[p].release < MaxReleases
      BY <1>2 DEF Connect
    <3> QED BY <2>1, <2>2, <3>1
  <2>3. CASE d # p
    <3>1. L[d] = crea[d]
      BY <1>2, <2>3
    <3>2. crea[d].release + One(crea[d].client) + One(crea[d].stage = "in") \in Int
      BY <1>0 DEF Worlds, Records, One
    <3> QED BY <2>1, <3>1, <3>2 DEF Placed
  <2> QED BY <2>2, <2>3
<1>5. \A d \in Creatures : L[d].stage = crea[d].stage
  BY <1>2 DEF Bare
<1>6. spawned \subseteq Creatures /\ checkSpawnEvent \in BOOLEAN /\ Watched(crea, spawned, checkSpawnEvent)
  BY DEF IInv, Books, Creatures
<1>7. crea' = L
  BY <1>1 DEF L
<1>8. /\ Good(crea') /\ Kept(crea, crea')
      /\ \A c \in spawned : crea'[c].stage # "none"
  BY <1>3, <1>4, <1>5, <1>6, <1>7 DEF Watched
<1>9. checkSpawnEvent' \in BOOLEAN
  BY <1>6 DEF Connect, Ordinary, SpawnNotices
<1>10. ~checkSpawnEvent' => ~checkSpawnEvent /\ \A n \in spawned : In(n) => crea'[n].stage = "in"
  BY DEF Connect, Ordinary, SpawnNotices
<1> QED BY <1>8, <1>9, <1>10, Uneventful DEF Connect, Ordinary, walkVars

LEMMA DisconnectStep ==
    ASSUME IInv, NEW p \in Players, Disconnect(p)
    PROVE  IInv'
<1>0. Good(crea) /\ crea \in Worlds /\ p \in Creatures /\ crea[p].client
  BY DEF IInv, Good, Creatures, Disconnect
<1>1. crea' = detached(crea, p)
  BY DEF Disconnect, detached
<1> DEFINE L == detached(crea, p)
<1>2. /\ L \in Worlds /\ \A d \in Creatures : Bare(L[d], crea[d])
      /\ \A d \in Creatures : d # p => L[d] = crea[d]
      /\ \A d \in Creatures : Balance(L, d) = Balance(crea, d)
      /\ L[p].toAdd = crea[p].toAdd /\ L[p].listed = crea[p].listed
      /\ ~L[p].client /\ L[p].release = crea[p].release + 1
  BY <1>0, detachedFields
<1> HIDE DEF L
<1>3. Good(L)
  <2>1. ASSUME NEW d \in Creatures PROVE Fresh(L, d) /\ (L[d].check => L[d].listed)
    <3>1. Fresh(crea, d) /\ Tidy(crea, d) /\ Bare(L[d], crea[d])
      BY <1>0, <1>2 DEF Good
    <3>2. L[d].listed = crea[d].listed
      BY <1>2
    <3>3. CASE d = p
      BY <1>0, <3>1, <3>2, <3>3 DEF Fresh, Tidy, Bare
    <3>4. CASE d # p
      <4>1. L[d] = crea[d]
        BY <1>2, <3>4
      <4> QED BY <3>1, <4>1 DEF Fresh, Tidy
    <3> QED BY <3>3, <3>4
  <2> QED BY <1>0, <1>2, <2>1, CountersGood
<1>4. Kept(crea, L)
  <2> SUFFICES ASSUME NEW d \in Creatures
               PROVE  /\ Balance(L, d) = Balance(crea, d)
                      /\ L[d].toAdd - One(L[d].listed) = crea[d].toAdd - One(crea[d].listed)
                      /\ L[d].release + One(L[d].client) + One(Placed(L, d))
                              <= crea[d].release + One(crea[d].client) + One(Placed(crea, d))
    BY DEF Kept, Lighter
  <2>1. L[d].toAdd = crea[d].toAdd /\ L[d].listed = crea[d].listed /\ Balance(L, d) = Balance(crea, d)
    BY <1>2
  <2>2. CASE d = p
    <3>1. Placed(L, p) <=> Placed(crea, p)
      BY <1>0, <1>2 DEF Placed, Bare
    <3>2. One(L[p].client) = 0 /\ One(crea[p].client) = 1 /\ One(Placed(L, p)) = One(Placed(crea, p))
      BY <1>0, <1>2, <3>1 DEF One
    <3>3. crea[p].release \in Int /\ One(Placed(crea, p)) \in Int
      BY <1>0 DEF Worlds, Records, One
    <3>4. L[p].release + 0 + One(Placed(crea, p)) <= crea[p].release + 1 + One(Placed(crea, p))
      BY <1>2, <3>3
    <3> QED BY <2>1, <2>2, <3>2, <3>4
  <2>3. CASE d # p
    <3>1. L[d] = crea[d]
      BY <1>2, <2>3
    <3>2. crea[d].release + One(crea[d].client) + One(crea[d].stage = "in") \in Int
      BY <1>0 DEF Worlds, Records, One
    <3> QED BY <2>1, <3>1, <3>2 DEF Placed
  <2> QED BY <2>2, <2>3
<1>5. \A d \in Creatures : L[d].stage = crea[d].stage
  BY <1>2 DEF Bare
<1>6. spawned \subseteq Creatures /\ checkSpawnEvent \in BOOLEAN /\ Watched(crea, spawned, checkSpawnEvent)
  BY DEF IInv, Books, Creatures
<1>7. crea' = L
  BY <1>1 DEF L
<1>8. /\ Good(crea') /\ Kept(crea, crea')
      /\ \A c \in spawned : crea'[c].stage # "none"
  BY <1>3, <1>4, <1>5, <1>6, <1>7 DEF Watched
<1>9. checkSpawnEvent' \in BOOLEAN
  BY <1>6 DEF Disconnect, Ordinary, SpawnNotices
<1>10. ~checkSpawnEvent' => ~checkSpawnEvent /\ \A n \in spawned : In(n) => crea'[n].stage = "in"
  BY DEF Disconnect, Ordinary, SpawnNotices
<1> QED BY <1>8, <1>9, <1>10, Uneventful DEF Disconnect, Ordinary, walkVars

\* A creature of free memory can be placed, whatever holds it already.
LEMMA ExpectingWhenFree ==
    ASSUME NEW K, Good(K), NEW c \in Creatures, K[c].stage = "none",
           NEW L \in Worlds, \A d \in Creatures : Bare(L[d], K[d]),
           ~L[c].listed, L[c].toAdd = 0, L[c].release = 0,
           \A d \in Creatures : d # c => L[d] = K[d]
               \/ (Fresh(L, d) /\ (L[d].check => L[d].listed))
    PROVE  Expecting(L, c)
<1>0. K \in Worlds /\ Fresh(K, c) /\ Agree(K) /\ Company(K) /\ NoChains(K) /\ Masters(K)
  BY DEF Good, Families
<1>1. ASSUME NEW d \in Creatures
      PROVE  /\ L[d].stage = K[d].stage /\ L[d].alive = K[d].alive /\ L[d].area = K[d].area
             /\ L[d].master = K[d].master /\ L[d].summons = K[d].summons
             /\ L[d].attacked = K[d].attacked /\ L[d].idle = K[d].idle
             /\ L[d].check = K[d].check
  BY DEF Bare
<1>2. /\ L[c].stage = "none" /\ L[c].attacked = NoCreature /\ L[c].summons = {}
      /\ ~L[c].check
  BY <1>0, <1>1 DEF Fresh
<1>3. Agree(L) /\ NoChains(L)
  <2>1. Agree(L)
    BY <1>0, <1>1 DEF Agree
  <2>2. NoChains(L)
    BY <1>0, <1>1 DEF NoChains
  <2> QED BY <2>1, <2>2
<1>4. ASSUME NEW x \in Creatures, NEW s \in Creatures, s \in L[x].summons
      PROVE  Placed(L, s) \/ s = c <=> Placed(L, x)
  <2>1. s \in K[x].summons /\ K[s].master = x
    BY <1>0, <1>1, <1>4 DEF Agree
  <2>2. s # c
    BY <1>0, <2>1, CreaturesFinite DEF Fresh
  <2>3. Placed(K, s) <=> Placed(K, x)
    BY <1>0, <2>1 DEF Company, Masters
  <2> QED BY <1>1, <2>2, <2>3 DEF Placed
<1>5. ASSUME NEW d \in Creatures \ {c} PROVE Fresh(L, d) /\ Tidy(L, d) /\ Awake(L, d) /\ Aims(L, d)
  <2>1. Fresh(K, d) /\ Tidy(K, d) /\ Awake(K, d) /\ Aims(K, d)
    BY DEF Good
  <2>2. Fresh(L, d) /\ Tidy(L, d)
    <3>1. CASE L[d] = K[d]
      BY <2>1, <3>1 DEF Fresh, Tidy, Placed
    <3>2. CASE Fresh(L, d) /\ (L[d].check => L[d].listed)
      BY <1>1, <2>1, <3>2 DEF Tidy, Placed
    <3> QED BY <3>1, <3>2
  <2>3. Awake(L, d)
    BY <1>1, <2>1 DEF Awake, Placed
  <2>4. Aims(L, d)
    <3>1. K[d].attacked \in Creatures \cup {NoCreature}
      BY <1>0 DEF Worlds, Records
    <3> QED BY <1>1, <2>1, <3>1 DEF Aims, Placed, Sees
  <2> QED BY <2>2, <2>3, <2>4
<1> QED BY <1>2, <1>3, <1>4, <1>5 DEF Expecting

LEMMA LoginStep ==
    ASSUME IInv, NEW p \in Players, Login(p)
    PROVE  IInv'
<1>0. /\ Good(crea) /\ crea \in Worlds /\ p \in Creatures /\ crea[p].stage = "none" /\ Fresh(crea, p)
      /\ Temple \in Areas
  BY CreaturesAssumption DEF IInv, Good, Creatures, Login, Free
<1> DEFINE L == attached(crea, p)
<1>1. ~crea[p].client /\ ~crea[p].listed /\ crea[p].toAdd = 0 /\ crea[p].release = 0
  BY <1>0 DEF Fresh
<1>2. /\ L \in Worlds /\ \A d \in Creatures : Bare(L[d], crea[d])
      /\ \A d \in Creatures : d # p => L[d] = crea[d]
      /\ \A d \in Creatures : Balance(L, d) = Balance(crea, d)
      /\ L[p].toAdd = crea[p].toAdd /\ L[p].listed = crea[p].listed /\ L[p].release = crea[p].release
  BY <1>0, <1>1, attachedFields
<1>3. PICK o \in Orders : crea' = placeCreature(L, p, Temple, o)
  BY DEF Login, attached
<1> HIDE DEF L
<1>4. Expecting(L, p)
  BY <1>0, <1>1, <1>2, ExpectingWhenFree
<1>5. Good(crea') /\ EvenBut(L, crea', p) /\ Placed(crea', p) /\ crea'[p].release = 0
  BY <1>0, <1>3, <1>4, placeCreatureGood
<1>6. Kept(crea, crea')
  <2>1. crea' \in Worlds
    BY <1>5 DEF Good
  <2>2. Kept(L, crea')
    BY <1>0, <1>2, <1>5, <2>1, EvenButKept
  <2> SUFFICES ASSUME NEW d \in Creatures
               PROVE  /\ Balance(crea', d) = Balance(crea, d)
                      /\ crea'[d].toAdd - One(crea'[d].listed) = crea[d].toAdd - One(crea[d].listed)
                      /\ \/ crea'[d].release + One(crea'[d].client) + One(Placed(crea', d))
                              <= crea[d].release + One(crea[d].client) + One(Placed(crea, d))
                         \/ crea'[d].release = 0
                         \/ crea'[d].release < MaxReleases
    BY DEF Kept, Lighter
  <2>3. /\ Balance(crea', d) = Balance(L, d)
        /\ crea'[d].toAdd - One(crea'[d].listed) = L[d].toAdd - One(L[d].listed)
        /\ \/ crea'[d].release + One(crea'[d].client) + One(Placed(crea', d))
                <= L[d].release + One(L[d].client) + One(Placed(L, d))
           \/ crea'[d].release = 0
           \/ crea'[d].release < MaxReleases
    BY <2>2 DEF Kept, Lighter
  <2>4. L[d].toAdd = crea[d].toAdd /\ L[d].listed = crea[d].listed /\ Balance(L, d) = Balance(crea, d)
    BY <1>2
  <2>5. CASE d = p
    BY <1>5, <2>3, <2>4, <2>5
  <2>6. CASE d # p
    <3>1. L[d] = crea[d]
      BY <1>2, <2>6
    <3> QED BY <2>3, <2>4, <3>1 DEF Placed
  <2> QED BY <2>5, <2>6
<1>7. \A d \in Creatures : d # p => crea'[d].stage = crea[d].stage
  BY <1>2, <1>5 DEF EvenBut
<1>8. spawned \subseteq Creatures /\ checkSpawnEvent \in BOOLEAN /\ Watched(crea, spawned, checkSpawnEvent)
  BY DEF IInv, Books, Creatures
<1>9. \A c \in spawned : crea'[c].stage # "none"
  BY <1>5, <1>7, <1>8 DEF Watched, Placed
<1>10. checkSpawnEvent' \in BOOLEAN
  BY <1>8 DEF Login, Ordinary, SpawnNotices
<1>11. ~checkSpawnEvent' => ~checkSpawnEvent /\ \A n \in spawned : In(n) => crea'[n].stage = "in"
  BY DEF Login, Ordinary, SpawnNotices
<1> QED BY <1>5, <1>6, <1>9, <1>10, <1>11, Uneventful DEF Login, Ordinary, walkVars

LEMMA WalkStep ==
    ASSUME IInv, NEW c \in Creatures, NEW a \in Areas, Walk(c, a)
    PROVE  IInv'
<1>1. PICK pick \in Picks(crea, c, a), o \in Orders : crea' = cleanup(moveCreature(crea, c, a, pick, o))
  BY DEF Walk
<1> DEFINE M == moveCreature(crea, c, a, pick, o)
           L == cleanup(M)
<1>2. Good(crea) /\ Placed(crea, c)
  BY DEF IInv, Walk, In, Placed
<1>3. Good(M) /\ Even(crea, M)
  BY <1>2, moveCreatureGood
<1>4. crea' = L
  BY <1>1
<1> HIDE DEF M
<1>5. /\ Good(L)
      /\ \A d \in Creatures :
           /\ Balance(L, d) = Balance(M, d)
           /\ L[d].stage = M[d].stage /\ L[d].toAdd = M[d].toAdd /\ L[d].listed = M[d].listed
           /\ L[d].release = 0
  BY <1>3, cleanupGood
<1> HIDE DEF L
<1>6. Kept(crea, L)
  BY <1>3, <1>5 DEF Kept, Lighter, Even
<1>7. spawned \subseteq Creatures /\ checkSpawnEvent \in BOOLEAN /\ Watched(crea, spawned, checkSpawnEvent)
  BY DEF IInv, Books, Creatures
<1>8. \A d \in spawned : crea'[d].stage # "none"
  BY <1>3, <1>4, <1>5, <1>7 DEF Watched, Even
<1>9. checkSpawnEvent' \in BOOLEAN
  BY <1>7 DEF Walk, Ordinary, SpawnNotices
<1>10. ~checkSpawnEvent' => ~checkSpawnEvent /\ \A n \in spawned : In(n) => crea'[n].stage = "in"
  BY DEF Walk, Ordinary, SpawnNotices
<1>11. Good(crea') /\ Kept(crea, crea')
  BY <1>4, <1>5, <1>6
<1> QED BY <1>8, <1>9, <1>10, <1>11, Uneventful DEF Walk, Ordinary, walkVars

LEMMA EndWalkStep ==
    ASSUME IInv, EndWalk
    PROVE  IInv'
<1> DEFINE L == cleanup(crea)
<1>1. Good(crea) /\ crea' = L
  BY DEF IInv, EndWalk
<1>2. /\ Good(L)
      /\ \A d \in Creatures :
           /\ Balance(L, d) = Balance(crea, d)
           /\ L[d].stage = crea[d].stage /\ L[d].toAdd = crea[d].toAdd /\ L[d].listed = crea[d].listed
           /\ L[d].release = 0
  BY <1>1, cleanupGood
<1> HIDE DEF L
<1>3. Accounts(L, spawned, vectors)
  BY <1>2 DEF IInv, Accounts
<1>4. Bounded(L, FALSE, todo)
  <2> SUFFICES ASSUME NEW c \in Creatures
               PROVE  L[c].release + One(L[c].client) + One(Placed(L, c)) + One(FALSE /\ c \in todo)
                        <= MaxReleases + 2 + One(FALSE)
    BY DEF Bounded
  <2> DEFINE x == One(L[c].client)
             y == One(Placed(L, c))
  <2>1. x \in 0 .. 1 /\ y \in 0 .. 1 /\ One(FALSE /\ c \in todo) = 0 /\ One(FALSE) = 0
    BY DEF One
  <2>2. L[c].release = 0 /\ MaxReleases \in Nat
    BY <1>2, CreaturesAssumption
  <2> HIDE DEF x, y
  <2>3. L[c].release + x + y + 0 <= MaxReleases + 2 + 0
    BY <2>1, <2>2
  <2> QED BY <2>1, <2>3 DEF x, y
<1>5. Watched(L, spawned, checkSpawnEvent)
  <2>1. spawned \subseteq Creatures /\ Watched(crea, spawned, checkSpawnEvent)
    BY DEF IInv, Books, Creatures
  <2> QED BY <1>2, <2>1 DEF Watched, Placed
<1>6. /\ spawned' = spawned /\ checkSpawnEvent' = checkSpawnEvent /\ vectors' = vectors
      /\ lastIndex' = lastIndex /\ todo' = todo /\ walking' = FALSE
  BY DEF EndWalk
<1>7. Books'
  BY <1>6 DEF IInv, Books
<1>8. Good(crea') /\ Accounts(crea', spawned', vectors') /\ Watched(crea', spawned', checkSpawnEvent')
  BY <1>1, <1>2, <1>3, <1>5, <1>6
<1>9. Bounded(crea', walking', todo')
  BY <1>1, <1>4, <1>6
<1> QED BY <1>7, <1>8, <1>9 DEF IInv

\* A creature in a bucket is listed, and it is in that one only.
LEMMA InBucketMeansListed ==
    ASSUME IInv, NEW c \in Creatures, NEW b \in 0 .. Buckets - 1, vectors[b][c] > 0
    PROVE  /\ crea[c].listed /\ crea[c].stage # "none"
           /\ crea[c].toAdd = 0 /\ InBuckets(vectors, c) = 1
<1> DEFINE n == InBuckets(vectors, c)
<1>1. vectors \in [0 .. Buckets - 1 -> [Creatures -> Nat]]
  BY DEF IInv, Books
<1>2. n \in Nat /\ vectors[b][c] <= n /\ vectors[b][c] \in Nat
  BY <1>1, InBucketsBound
<1>3. crea[c].toAdd + n = One(crea[c].listed) /\ crea[c].toAdd \in Nat
  BY DEF IInv, Accounts, Good, Worlds, Records
<1> HIDE DEF n
<1>4. n >= 1
  BY <1>2
<1>5. crea[c].listed
  <2>1. SUFFICES ASSUME ~crea[c].listed PROVE FALSE
    OBVIOUS
  <2>2. One(crea[c].listed) = 0
    BY <2>1 DEF One
  <2> QED BY <1>2, <1>3, <1>4, <2>2
<1>6. One(crea[c].listed) = 1
  BY <1>5 DEF One
<1>7. Fresh(crea, c)
  BY DEF IInv, Good
<1>8. crea[c].toAdd = 0 /\ n = 1
  BY <1>2, <1>3, <1>4, <1>6
<1> QED BY <1>5, <1>7, <1>8 DEF Fresh, n

LEMMA UnlistStep ==
    ASSUME IInv, NEW c \in Creatures, Unlist(c)
    PROVE  IInv'
<1>0. /\ Good(crea) /\ crea \in Worlds /\ Books /\ Accounts(crea, spawned, vectors)
      /\ Bounded(crea, walking, todo) /\ Watched(crea, spawned, checkSpawnEvent)
  BY DEF IInv, Good
<1>1. /\ ~crea[c].check /\ walking /\ c \in todo /\ todo' = todo \ {c}
      /\ crea' = unlisted(crea, c) /\ vectors' = [vectors EXCEPT ![lastIndex][c] = @ - 1]
      /\ spawned' = spawned /\ lastIndex' = lastIndex /\ walking' = walking
      /\ checkSpawnEvent' = checkSpawnEvent
  BY DEF Unlist, Visit, Walking, unlisted
<1> DEFINE L == unlisted(crea, c)
           W == [vectors EXCEPT ![lastIndex][c] = @ - 1]
<1>2. vectors \in [0 .. Buckets - 1 -> [Creatures -> Nat]] /\ lastIndex \in 0 .. Buckets - 1
  BY <1>0 DEF Books
<1>3. vectors[lastIndex][c] \in Nat /\ vectors[lastIndex][c] > 0
  BY <1>0, <1>1, <1>2 DEF Books
<1>4. /\ W \in [0 .. Buckets - 1 -> [Creatures -> Nat]]
      /\ W[lastIndex][c] = vectors[lastIndex][c] + (-1)
      /\ \A i \in 0 .. Buckets - 1, d \in Creatures :
           i # lastIndex \/ d # c => W[i][d] = vectors[i][d]
  <2> DEFINE n == vectors[lastIndex][c] - 1
             f == [vectors[lastIndex] EXCEPT ![c] = n]
  <2>1. W = [vectors EXCEPT ![lastIndex] = f]
    BY <1>2
  <2>2. n \in Nat /\ n = vectors[lastIndex][c] + (-1)
    BY <1>3
  <2>3. f \in [Creatures -> Nat] /\ f[c] = n /\ \A d \in Creatures : d # c => f[d] = vectors[lastIndex][d]
    <3> HIDE DEF n
    <3> QED BY <1>2, <2>2
  <2> HIDE DEF f, W
  <2>4. W \in [0 .. Buckets - 1 -> [Creatures -> Nat]]
    BY <1>2, <2>1, <2>3
  <2>5. W[lastIndex] = f /\ \A i \in 0 .. Buckets - 1 : i # lastIndex => W[i] = vectors[i]
    BY <1>2, <2>1
  <2> HIDE DEF n
  <2> QED BY <2>2, <2>3, <2>4, <2>5
<1>5. /\ L \in Worlds /\ \A d \in Creatures : Bare(L[d], crea[d])
      /\ \A d \in Creatures : d # c => L[d] = crea[d] /\ Balance(L, d) = Balance(crea, d)
      /\ Balance(L, c) = Balance(crea, c) - 1
      /\ ~L[c].listed /\ L[c].release = crea[c].release + 1
      /\ L[c].toAdd = crea[c].toAdd /\ L[c].client = crea[c].client
  BY <1>0, unlistedFields
<1>6. crea' = L /\ vectors' = W
  BY <1>1
<1> HIDE DEF L, W
<1>7. /\ crea[c].listed /\ crea[c].stage # "none"
      /\ crea[c].toAdd = 0 /\ InBuckets(vectors, c) = 1
  BY <1>2, <1>3, InBucketMeansListed
<1>8. Good(L)
  <2>1. ASSUME NEW d \in Creatures PROVE Fresh(L, d) /\ (L[d].check => L[d].listed)
    <3>1. Fresh(crea, d) /\ Tidy(crea, d) /\ Bare(L[d], crea[d])
      BY <1>0, <1>5 DEF Good
    <3>2. CASE d = c
      BY <1>1, <1>7, <3>1, <3>2 DEF Fresh, Tidy, Bare
    <3>3. CASE d # c
      <4>1. L[d] = crea[d]
        BY <1>5, <3>3
      <4> QED BY <3>1, <4>1 DEF Fresh, Tidy
    <3> QED BY <3>2, <3>3
  <2> QED BY <1>0, <1>5, <2>1, CountersGood
<1>9. Accounts(L, spawned, W)
  <2> SUFFICES ASSUME NEW d \in Creatures
               PROVE  /\ Balance(L, d) = One(d \in spawned) + InBuckets(W, d)
                      /\ L[d].toAdd + InBuckets(W, d) = One(L[d].listed)
    BY DEF Accounts
  <2>1. Balance(crea, d) = One(d \in spawned) + InBuckets(vectors, d)
        /\ crea[d].toAdd + InBuckets(vectors, d) = One(crea[d].listed)
    BY <1>0 DEF Accounts
  <2>2. CASE d = c
    <3>1. \A i \in 0 .. Buckets - 1 : i # lastIndex => W[i][c] = vectors[i][c]
      BY <1>4
    <3>2. InBuckets(W, c) = InBuckets(vectors, c) + (-1)
      <4>1. -1 \in Int
        OBVIOUS
      <4> QED BY <1>2, <1>4, <3>1, <4>1, InBucketsChange
    <3>3. InBuckets(W, c) = 0 /\ One(L[c].listed) = 0 /\ L[c].toAdd = 0
      BY <1>5, <1>7, <3>2 DEF One
    <3>4. One(c \in spawned) \in Int
      BY DEF One
    <3>5. Balance(crea, c) = One(c \in spawned) + 1
      BY <1>7, <2>1, <2>2
    <3>6. Balance(L, c) = One(c \in spawned)
      BY <1>5, <3>4, <3>5
    <3> QED BY <2>2, <3>3, <3>4, <3>6
  <2>3. CASE d # c
    <3>1. \A i \in 0 .. Buckets - 1 : W[i][d] = vectors[i][d]
      BY <1>4, <2>3
    <3>2. W[lastIndex][d] = vectors[lastIndex][d] + 0
      BY <1>2, <3>1
    <3>3. InBuckets(W, d) = InBuckets(vectors, d) + 0
      <4>1. W \in [0 .. Buckets - 1 -> [Creatures -> Nat]] /\ 0 \in Int
        BY <1>4
      <4>2. \A i \in 0 .. Buckets - 1 : i # lastIndex => W[i][d] = vectors[i][d]
        BY <3>1
      <4> QED BY <1>2, <3>2, <4>1, <4>2, InBucketsChange
    <3>4. InBuckets(W, d) = InBuckets(vectors, d)
      <4>1. InBuckets(vectors, d) \in Nat
        BY <1>2, InBucketsBound
      <4> QED BY <3>3, <4>1
    <3>5. L[d] = crea[d] /\ Balance(L, d) = Balance(crea, d)
      BY <1>5, <2>3
    <3> QED BY <2>1, <3>4, <3>5
  <2> QED BY <2>2, <2>3
<1>10. Bounded(L, walking, todo \ {c})
  <2> SUFFICES ASSUME NEW d \in Creatures
               PROVE  L[d].release + One(L[d].client) + One(Placed(L, d)) + One(walking /\ d \in todo \ {c})
                        <= MaxReleases + 2 + One(walking)
    BY DEF Bounded
  <2>1. crea[d].release + One(crea[d].client) + One(Placed(crea, d)) + One(walking /\ d \in todo)
          <= MaxReleases + 2 + One(walking)
    BY <1>0 DEF Bounded
  <2>2. Placed(L, d) <=> Placed(crea, d)
    BY <1>5 DEF Placed, Bare
  <2>3. L[d].client = crea[d].client
    BY <1>5
  <2>4. One(Placed(L, d)) = One(Placed(crea, d)) /\ One(L[d].client) = One(crea[d].client)
    BY <2>2, <2>3 DEF One
  <2>5. CASE d = c
    <3>1. One(walking /\ d \in todo) = 1 /\ One(walking /\ d \in todo \ {c}) = 0
      BY <1>1, <2>5 DEF One
    <3>2. crea[d].release \in Int /\ One(crea[d].client) \in Int /\ One(Placed(crea, d)) \in Int
      BY <1>0 DEF Worlds, Records, One
    <3>3. L[d].release = crea[d].release + 1
      BY <1>5, <2>5
    <3>4. L[d].release + One(crea[d].client) + One(Placed(crea, d)) + 0 =
            crea[d].release + One(crea[d].client) + One(Placed(crea, d)) + 1
      BY <3>2, <3>3
    <3> QED BY <2>1, <2>4, <3>1, <3>4
  <2>6. CASE d # c
    <3>1. L[d].release = crea[d].release
      BY <1>5, <2>6
    <3>2. One(walking /\ d \in todo) = One(walking /\ d \in todo \ {c})
      BY <2>6 DEF One
    <3> QED BY <2>1, <2>4, <3>1, <3>2
  <2> QED BY <2>5, <2>6
<1>11. Watched(L, spawned, checkSpawnEvent)
  <2>1. spawned \subseteq Creatures
    BY <1>0 DEF Books, Creatures
  <2>2. \A d \in Creatures : L[d].stage = crea[d].stage
    BY <1>5 DEF Bare
  <2> QED BY <1>0, <2>1, <2>2 DEF Watched, Placed
<1>12. Books'
  <2>1. \A d \in todo' : vectors'[lastIndex'][d] > 0
    <3> SUFFICES ASSUME NEW d \in todo, d # c PROVE W[lastIndex][d] > 0
      BY <1>1, <1>6
    <3>1. d \in Creatures /\ vectors[lastIndex][d] > 0
      BY <1>0, <1>1 DEF Books
    <3> QED BY <1>2, <1>4, <3>1
  <2> QED BY <1>0, <1>1, <1>4, <1>6, <2>1 DEF Books
<1>13. Good(crea') /\ Accounts(crea', spawned', vectors') /\ Bounded(crea', walking', todo')
       /\ Watched(crea', spawned', checkSpawnEvent')
  BY <1>1, <1>6, <1>8, <1>9, <1>10, <1>11
<1> QED BY <1>12, <1>13 DEF IInv

LEMMA StartWalkStep ==
    ASSUME IInv, StartWalk
    PROVE  IInv'
<1>0. /\ Good(crea) /\ crea \in Worlds /\ Books /\ Accounts(crea, spawned, vectors)
      /\ Bounded(crea, walking, todo) /\ Watched(crea, spawned, checkSpawnEvent)
  BY DEF IInv, Good
<1> DEFINE L == [c \in Creatures |-> [crea[c] EXCEPT !.toAdd = 0]]
           W(at) == [b \in 0 .. Buckets - 1 |-> [c \in Creatures |->
                        vectors[b][c] + IF at[c] = b THEN crea[c].toAdd ELSE 0]]
<1>1. PICK where \in [Creatures -> 0 .. Buckets - 1] : vectors' = W(where)
  BY DEF StartWalk
<1>2. /\ crea' = L /\ spawned' = spawned /\ checkSpawnEvent' = checkSpawnEvent
      /\ lastIndex' = (lastIndex + 1) % Buckets /\ walking' = TRUE /\ ~walking
      /\ todo' = {c \in Creatures : vectors'[lastIndex'][c] > 0}
  BY DEF StartWalk, Task
<1>3. vectors \in [0 .. Buckets - 1 -> [Creatures -> Nat]] /\ lastIndex \in 0 .. Buckets - 1
  BY <1>0 DEF Books
<1>4. Buckets \in Nat /\ Buckets > 0
  BY CreaturesAssumption
<1>5. lastIndex' \in 0 .. Buckets - 1
  BY <1>2, <1>3, <1>4
<1>6. ASSUME NEW c \in Creatures
      PROVE  /\ L[c] \in Records /\ L[c].toAdd = 0 /\ Bare(L[c], crea[c])
             /\ L[c].listed = crea[c].listed /\ L[c].client = crea[c].client
             /\ L[c].release = crea[c].release /\ L[c].useCount = crea[c].useCount
             /\ crea[c].toAdd \in Nat
  <2> DEFINE z == 0
  <2>1. crea[c] \in Records /\ z \in Nat
    BY <1>0 DEF Worlds
  <2>2. L[c] = [crea[c] EXCEPT !.toAdd = z]
    OBVIOUS
  <2>3. z = 0
    OBVIOUS
  <2> HIDE DEF z, L
  <2>4. L[c] \in Records
    BY <2>1, <2>2 DEF Records
  <2> QED BY <2>1, <2>2, <2>3, <2>4 DEF Records, Bare
<1>7. L \in Worlds
  <2>1. L = [c \in Creatures |-> L[c]]
    OBVIOUS
  <2> HIDE DEF L
  <2> QED BY <1>6, <2>1 DEF Worlds
<1> DEFINE V == W(where)
<1>8. /\ V \in [0 .. Buckets - 1 -> [Creatures -> Nat]]
      /\ \A c \in Creatures :
           /\ V[where[c]][c] = vectors[where[c]][c] + crea[c].toAdd
           /\ \A i \in 0 .. Buckets - 1 : i # where[c] => V[i][c] = vectors[i][c]
  <2>1. ASSUME NEW b \in 0 .. Buckets - 1, NEW c \in Creatures
        PROVE  /\ V[b][c] = vectors[b][c] + IF where[c] = b THEN crea[c].toAdd ELSE 0
               /\ V[b][c] \in Nat /\ vectors[b][c] \in Nat
    <3>1. vectors[b][c] \in Nat /\ crea[c].toAdd \in Nat
      BY <1>3, <1>6
    <3> QED BY <3>1
  <2>2. V \in [0 .. Buckets - 1 -> [Creatures -> Nat]]
    BY <2>1
  <2>3. ASSUME NEW c \in Creatures
        PROVE  /\ V[where[c]][c] = vectors[where[c]][c] + crea[c].toAdd
               /\ \A i \in 0 .. Buckets - 1 : i # where[c] => V[i][c] = vectors[i][c]
    <3> HIDE DEF V
    <3> QED BY <2>1, <2>3
  <2> HIDE DEF V
  <2> QED BY <2>2, <2>3
<1>9. vectors' = V
  BY <1>1
<1> HIDE DEF L, V, W
<1>10. ASSUME NEW c \in Creatures PROVE InBuckets(V, c) = InBuckets(vectors, c) + crea[c].toAdd
  <2>1. where[c] \in 0 .. Buckets - 1 /\ crea[c].toAdd \in Int
    BY <1>6
  <2> QED BY <1>3, <1>8, <2>1, InBucketsChange
<1>11. Good(L)
  <2>1. ASSUME NEW d \in Creatures PROVE Fresh(L, d) /\ (L[d].check => L[d].listed)
    <3>1. Fresh(crea, d) /\ Tidy(crea, d)
      BY <1>0 DEF Good
    <3> QED BY <1>6, <3>1 DEF Fresh, Tidy, Bare
  <2> QED BY <1>0, <1>6, <1>7, <2>1, CountersGood
<1>12. Accounts(L, spawned, V)
  <2> SUFFICES ASSUME NEW c \in Creatures
               PROVE  /\ Balance(L, c) = One(c \in spawned) + InBuckets(V, c)
                      /\ L[c].toAdd + InBuckets(V, c) = One(L[c].listed)
    BY DEF Accounts
  <2>1. /\ Balance(crea, c) = One(c \in spawned) + InBuckets(vectors, c)
        /\ crea[c].toAdd + InBuckets(vectors, c) = One(crea[c].listed)
    BY <1>0 DEF Accounts
  <2>2. Balance(L, c) = Balance(crea, c) + (L[c].useCount - crea[c].useCount) - (L[c].release - crea[c].release)
                        - (L[c].toAdd - crea[c].toAdd) - (One(L[c].client) - One(crea[c].client))
    BY <1>0, <1>6, <1>7, CountersBalance
  <2>3. InBuckets(vectors, c) \in Nat
    BY <1>3, InBucketsBound
  <2>4. /\ crea[c].useCount \in Int /\ crea[c].release \in Int /\ crea[c].toAdd \in Int
        /\ One(crea[c].client) \in Int /\ One(c \in spawned) \in Int
    BY <1>0 DEF Worlds, Records, One
  <2>5. One(L[c].client) = One(crea[c].client) /\ One(L[c].listed) = One(crea[c].listed)
    BY <1>6
  <2>6. Balance(crea, c) \in Int
    BY <1>0, BalanceIsInt
  <2>7. Balance(L, c) = Balance(crea, c) + crea[c].toAdd
    BY <1>6, <2>2, <2>4, <2>5, <2>6
  <2>8. Balance(L, c) = One(c \in spawned) + InBuckets(V, c)
    BY <1>10, <2>1, <2>3, <2>4, <2>7
  <2>9. L[c].toAdd + InBuckets(V, c) = crea[c].toAdd + InBuckets(vectors, c)
    BY <1>6, <1>10, <2>3, <2>4
  <2> QED BY <2>1, <2>5, <2>8, <2>9
<1>13. Bounded(L, TRUE, todo')
  <2> SUFFICES ASSUME NEW c \in Creatures
               PROVE  L[c].release + One(L[c].client) + One(Placed(L, c)) + One(TRUE /\ c \in todo')
                        <= MaxReleases + 2 + One(TRUE)
    BY DEF Bounded
  <2>1. crea[c].release + One(crea[c].client) + One(Placed(crea, c)) + One(walking /\ c \in todo)
          <= MaxReleases + 2 + One(walking)
    BY <1>0 DEF Bounded
  <2> DEFINE x == One(crea[c].client)
             y == One(Placed(crea, c))
             z == One(TRUE /\ c \in todo')
  <2>2. One(walking /\ c \in todo) = 0 /\ One(walking) = 0 /\ One(TRUE) = 1
    BY <1>2 DEF One
  <2>3. One(L[c].client) = x /\ One(Placed(L, c)) = y /\ L[c].release = crea[c].release
    BY <1>6 DEF Placed, Bare
  <2>4. crea[c].release \in Int /\ x \in Int /\ y \in Int /\ z \in 0 .. 1 /\ MaxReleases \in Nat
    BY <1>0, CreaturesAssumption DEF Worlds, Records, One
  <2>5. crea[c].release + x + y + 0 <= MaxReleases + 2 + 0
    BY <2>1, <2>2
  <2> HIDE DEF x, y, z
  <2>6. crea[c].release + x + y + z <= MaxReleases + 2 + 1
    BY <2>4, <2>5
  <2> QED BY <2>2, <2>3, <2>6 DEF z
<1>14. Watched(L, spawned, checkSpawnEvent)
  <2>1. spawned \subseteq Creatures
    BY <1>0 DEF Books, Creatures
  <2>2. \A d \in Creatures : L[d].stage = crea[d].stage
    BY <1>6 DEF Bare
  <2> QED BY <1>0, <2>1, <2>2 DEF Watched, Placed
<1>15. Books'
  <2>1. /\ spawned' \subseteq Monsters /\ checkSpawnEvent' \in BOOLEAN
        /\ vectors' \in [0 .. Buckets - 1 -> [Creatures -> Nat]]
    BY <1>0, <1>2, <1>8, <1>9 DEF Books
  <2>2. /\ walking' \in BOOLEAN /\ todo' \subseteq Creatures
        /\ walking' => \A c \in todo' : vectors'[lastIndex'][c] > 0
    BY <1>2
  <2> QED BY <1>5, <2>1, <2>2 DEF Books
<1>16. Good(crea') /\ Accounts(crea', spawned', vectors') /\ Watched(crea', spawned', checkSpawnEvent')
  BY <1>2, <1>9, <1>11, <1>12, <1>14
<1>17. Bounded(crea', walking', todo')
  BY <1>2, <1>13
<1> QED BY <1>15, <1>16, <1>17 DEF IInv

LEMMA RecountedKeepsBounds ==
    ASSUME NEW K \in Worlds, NEW L \in Worlds, NEW n, Recounted(K, L, n)
    PROVE  Lighter(K, L)
<1> SUFFICES ASSUME NEW c \in Creatures
             PROVE  L[c].release + One(L[c].client) + One(Placed(L, c))
                      <= K[c].release + One(K[c].client) + One(Placed(K, c))
  BY DEF Lighter
<1>1. One(L[c].client) = One(K[c].client) /\ One(Placed(L, c)) = One(Placed(K, c)) /\ L[c].release = K[c].release
  BY DEF Recounted, Bare, Placed
<1>2. K[c].release \in Int /\ One(K[c].client) \in Int /\ One(Placed(K, c)) \in Int
  BY DEF Worlds, Records, One
<1> QED BY <1>1, <1>2

\* A creature that one spawn gives up, or takes.
LEMMA RecountedAccounts ==
    ASSUME NEW K, NEW L, NEW n, Recounted(K, L, n), NEW S, NEW T, NEW V, Accounts(K, S, V),
           \A c \in Creatures : InBuckets(V, c) \in Nat,
           \A c \in Creatures : n[c] \in Int /\ n[c] = One(c \in T) - One(c \in S)
    PROVE  Accounts(L, T, V)
<1> SUFFICES ASSUME NEW c \in Creatures
             PROVE  /\ Balance(L, c) = One(c \in T) + InBuckets(V, c)
                    /\ L[c].toAdd + InBuckets(V, c) = One(L[c].listed)
  BY DEF Accounts
<1>1. /\ Balance(K, c) = One(c \in S) + InBuckets(V, c)
      /\ K[c].toAdd + InBuckets(V, c) = One(K[c].listed)
  BY DEF Accounts
<1>2. /\ Balance(L, c) = Balance(K, c) + n[c]
      /\ L[c].toAdd = K[c].toAdd /\ L[c].listed = K[c].listed
  BY DEF Recounted
<1>3. One(c \in S) \in Int /\ One(c \in T) \in Int
  BY DEF One
<1>4. Balance(L, c) = One(c \in T) + InBuckets(V, c)
  BY <1>1, <1>2, <1>3
<1> QED BY <1>1, <1>2, <1>4

LEMMA ConvinceStep ==
    ASSUME IInv, NEW p \in Players, NEW m \in Monsters, Convince(p, m)
    PROVE  IInv'
<1>0. /\ Good(crea) /\ crea \in Worlds /\ Books /\ Accounts(crea, spawned, vectors)
      /\ Bounded(crea, walking, todo) /\ Watched(crea, spawned, checkSpawnEvent)
      /\ p \in Creatures /\ m \in Creatures /\ spawned \subseteq Creatures
  BY DEF IInv, Good, Creatures, Books
<1>1. PICK o \in Orders :
        crea' = IF m \in spawned THEN releaseThing2(convinceCreature(crea, p, m, o), m)
                ELSE convinceCreature(crea, p, m, o)
  BY DEF Convince
<1> DEFINE C == convinceCreature(crea, p, m, o)
<1>2. /\ spawned' = spawned \ {m} /\ vectors' = vectors /\ lastIndex' = lastIndex
      /\ walking' = walking /\ todo' = todo
      /\ checkSpawnEvent' = (checkSpawnEvent \/ m \in spawned)
  BY DEF Convince, walkVars
<1>3. Placed(crea, p) /\ Placed(crea, m)
  BY DEF Convince, In, Placed
<1>4. Good(C) /\ Even(crea, C) /\ Remaining(crea, C)
  BY <1>0, <1>3, convinceCreatureGood
<1>5. crea' = IF m \in spawned THEN releaseThing2(C, m) ELSE C
  BY <1>1
<1> HIDE DEF C
<1>6. C \in Worlds /\ Kept(crea, C)
  BY <1>0, <1>4, EvenKept DEF Good
<1>7. Accounts(C, spawned, vectors) /\ Bounded(C, walking, todo)
  <2>1. walking \in BOOLEAN
    BY <1>0 DEF Books
  <2> QED BY <1>0, <1>6, <2>1, BucketsAreNat, AccountsKept, BoundedKept DEF Kept
<1>8. \A d \in Creatures : C[d].stage = crea[d].stage
  BY <1>4 DEF Remaining
<1>9. CASE m \notin spawned
  <2>1. crea' = C /\ spawned' = spawned /\ checkSpawnEvent' = checkSpawnEvent
    BY <1>0, <1>2, <1>5, <1>9 DEF Books
  <2>2. \A c \in spawned : crea'[c].stage # "none"
    BY <1>0, <1>8, <2>1 DEF Watched
  <2>3. checkSpawnEvent' \in BOOLEAN
    BY <1>0, <2>1 DEF Books
  <2>4. ~checkSpawnEvent' => ~checkSpawnEvent /\ \A n \in spawned : In(n) => crea'[n].stage = "in"
    BY <1>0, <1>8, <2>1 DEF In
  <2>5. Good(crea') /\ Kept(crea, crea')
    BY <1>4, <1>6, <2>1
  <2> QED BY <1>2, <2>1, <2>2, <2>3, <2>4, <2>5, Uneventful
<1>10. CASE m \in spawned
  <2> DEFINE L == releaseThing2(C, m)
             n == [d \in Creatures |-> IF d = m THEN 0 - 1 ELSE 0]
             i == 0 - 1
  <2>1. crea' = L
    BY <1>5, <1>10
  <2>2. L = [C EXCEPT ![m].useCount = C[m].useCount + i] /\ i \in Int
    <3>1. C[m].useCount \in Int
      BY <1>0, <1>6 DEF Worlds, Records
    <3>2. C[m].useCount - 1 = C[m].useCount + i
      BY <3>1
    <3>3. L = [C EXCEPT ![m].useCount = C[m].useCount - 1]
      BY <1>0, <1>6 DEF releaseThing2, Worlds
    <3>4. i \in Int
      OBVIOUS
    <3> HIDE DEF L, i
    <3> QED BY <3>2, <3>3, <3>4
  <2>3. n = [d \in Creatures |-> IF d = m THEN i ELSE 0]
    OBVIOUS
  <2>4. \A d \in Creatures : n[d] \in Int /\ n[d] = One(d \in spawned \ {m}) - One(d \in spawned)
    BY <1>10 DEF One
  <2> HIDE DEF L, n, i
  <2>5. Good(L) /\ Recounted(C, L, n)
    BY <1>0, <1>4, <2>2, <2>3, oneReferenceGood
  <2>6. L \in Worlds
    BY <2>5 DEF Good
  <2>7. Accounts(L, spawned \ {m}, vectors)
    BY <1>7, <2>4, <2>5, BucketsAreNat, RecountedAccounts
  <2>8. Bounded(L, walking, todo)
    <3>1. walking \in BOOLEAN
      BY <1>0 DEF Books
    <3>2. Lighter(C, L)
      BY <1>6, <2>5, <2>6, RecountedKeepsBounds
    <3> QED BY <1>6, <1>7, <2>6, <3>1, <3>2, BoundedKept
  <2>9. Watched(L, spawned \ {m}, TRUE)
    <3>1. \A d \in Creatures : L[d].stage = C[d].stage
      BY <2>5 DEF Recounted, Bare
    <3>2. \A d \in spawned \ {m} : L[d].stage # "none"
      BY <1>0, <1>8, <3>1 DEF Watched
    <3>3. Cardinality(spawned \ {m}) <= SpawnSize
      <4>1. IsFiniteSet(spawned) /\ Cardinality(spawned) \in Nat
        BY <1>0, CardinalityOfPart
      <4>2. Cardinality(spawned \ {m}) = Cardinality(spawned) - 1
        BY <1>10, <4>1, FS_RemoveElement
      <4> QED BY <1>0, <4>1, <4>2, CreaturesAssumption DEF Watched
    <3> QED BY <3>2, <3>3 DEF Watched
  <2>10. checkSpawnEvent' = TRUE
    BY <1>2, <1>10
  <2>11. Books'
    BY <1>0, <1>2, <2>10 DEF Books
  <2>12. Good(crea') /\ Accounts(crea', spawned', vectors') /\ Bounded(crea', walking', todo')
         /\ Watched(crea', spawned', checkSpawnEvent')
    BY <1>2, <2>1, <2>5, <2>7, <2>8, <2>9, <2>10
  <2> QED BY <2>11, <2>12 DEF IInv
<1> QED BY <1>9, <1>10

LEMMA SpawnCleanedGood ==
    ASSUME IInv
    PROVE  /\ Good(SpawnCleaned) /\ Accounts(SpawnCleaned, Living, vectors)
           /\ Bounded(SpawnCleaned, walking, todo) /\ Lighter(crea, SpawnCleaned)
           /\ \A d \in Creatures : SpawnCleaned[d].stage = crea[d].stage
           /\ Living \subseteq spawned /\ IsFiniteSet(Living) /\ Cardinality(Living) \in Nat
           /\ Cardinality(Living) <= SpawnSize
           /\ \A m \in Living : Placed(SpawnCleaned, m)
<1> DEFINE gone == {m \in spawned : crea[m].stage = "gone"}
           L == SpawnCleaned
           n == [d \in Creatures |-> 0 - One(d \in gone)]
<1>0. /\ Good(crea) /\ crea \in Worlds /\ Books /\ Accounts(crea, spawned, vectors)
      /\ Bounded(crea, walking, todo) /\ Watched(crea, spawned, checkSpawnEvent)
      /\ spawned \subseteq Creatures
  BY DEF IInv, Good, Creatures, Books
<1>1. L = releaseAll(crea, gone)
  BY DEF SpawnCleaned
<1>2. \A d \in Creatures : n[d] \in Int /\ n[d] = One(d \in Living) - One(d \in spawned)
  BY DEF Living, One
<1>3. n = [d \in Creatures |-> 0 - One(d \in gone)]
  OBVIOUS
<1> HIDE DEF L, n, gone
<1>4. Good(L) /\ Recounted(crea, L, n)
  BY <1>0, <1>1, <1>3, releaseAllGood
<1>5. L \in Worlds
  BY <1>4 DEF Good
<1>6. Accounts(L, Living, vectors)
  BY <1>0, <1>2, <1>4, BucketsAreNat, RecountedAccounts
<1>7. Lighter(crea, L)
  BY <1>0, <1>4, <1>5, RecountedKeepsBounds
<1>8. Bounded(L, walking, todo)
  <2>1. walking \in BOOLEAN
    BY <1>0 DEF Books
  <2> QED BY <1>0, <1>5, <1>7, <2>1, BoundedKept
<1>9. \A d \in Creatures : L[d].stage = crea[d].stage
  BY <1>4 DEF Recounted, Bare
<1>10. Living \subseteq spawned
  BY DEF Living
<1>11. IsFiniteSet(Living) /\ Cardinality(Living) \in Nat
  BY <1>0, <1>10, CardinalityOfPart
<1>12. Cardinality(Living) <= SpawnSize
  <2>1. IsFiniteSet(spawned) /\ Cardinality(spawned) \in Nat
    BY <1>0, CardinalityOfPart
  <2>2. Cardinality(Living) <= Cardinality(spawned)
    BY <1>10, <2>1, FS_Subset
  <2>3. Cardinality(spawned) <= SpawnSize
    BY <1>0 DEF Watched
  <2> QED BY <1>11, <2>1, <2>2, <2>3, CreaturesAssumption
<1>13. \A m \in Living : Placed(L, m)
  <2> SUFFICES ASSUME NEW m \in Living PROVE L[m].stage = "in"
    BY DEF Placed
  <2>1. m \in spawned /\ m \in Creatures /\ crea[m].stage # "gone"
    BY <1>0 DEF Living
  <2>2. crea[m].stage # "none"
    BY <1>0, <2>1 DEF Watched
  <2>3. crea[m].stage \in {"none", "in", "gone"}
    BY <1>0, <2>1 DEF Worlds, Records
  <2> QED BY <1>9, <2>1, <2>2, <2>3
<1> QED BY <1>4, <1>6, <1>7, <1>8, <1>9, <1>10, <1>11, <1>12, <1>13 DEF L

LEMMA spawnMonsterStep ==
    ASSUME IInv, NEW m \in Monsters, spawnMonster(m), Cardinality(Living) < SpawnSize
    PROVE  /\ Good(crea') /\ Accounts(crea', spawned', vectors) /\ Bounded(crea', walking, todo)
           /\ spawned' \subseteq Monsters /\ Cardinality(spawned') \in Nat /\ Cardinality(spawned') <= SpawnSize
           /\ \A c \in spawned' : Placed(crea', c)
<1> DEFINE K == SpawnCleaned
<1>0. /\ Good(crea) /\ crea \in Worlds /\ Books /\ Watched(crea, spawned, checkSpawnEvent)
      /\ m \in Creatures /\ spawned \subseteq Monsters /\ SpawnArea \in Areas /\ walking \in BOOLEAN
      /\ Monsters \subseteq Creatures
  <2>1. Good(crea) /\ Books /\ Watched(crea, spawned, checkSpawnEvent)
    BY DEF IInv
  <2>2. crea \in Worlds
    BY <2>1 DEF Good
  <2>3. m \in Creatures /\ Monsters \subseteq Creatures
    BY DEF Creatures
  <2>4. spawned \subseteq Monsters /\ walking \in BOOLEAN
    BY <2>1 DEF Books
  <2> QED BY <2>1, <2>2, <2>3, <2>4, CreaturesAssumption
<1>1. /\ Good(K) /\ Accounts(K, Living, vectors) /\ Bounded(K, walking, todo)
      /\ \A d \in Creatures : K[d].stage = crea[d].stage
      /\ Living \subseteq spawned /\ IsFiniteSet(Living) /\ Cardinality(Living) \in Nat
      /\ \A c \in Living : Placed(K, c)
  BY SpawnCleanedGood
<1>2. PICK o \in Orders : crea' = useThing2(placeCreature(K, m, SpawnArea, o), m)
  BY DEF spawnMonster
<1>3. crea[m].stage = "none" /\ spawned' = Living \cup {m}
  BY DEF spawnMonster, Free
<1> HIDE DEF K
<1>4. K \in Worlds /\ K[m].stage = "none"
  BY <1>0, <1>1, <1>3 DEF Good
<1>5. Expecting(K, m)
  <2>1. Fresh(K, m)
    BY <1>0, <1>1 DEF Good
  <2>2. \A d \in Creatures : Bare(K[d], K[d])
    BY DEF Bare
  <2>3. ~K[m].listed /\ K[m].toAdd = 0 /\ K[m].release = 0
    BY <1>4, <2>1 DEF Fresh
  <2> QED BY <1>0, <1>1, <1>4, <2>2, <2>3, ExpectingWhenFree
<1> DEFINE P == placeCreature(K, m, SpawnArea, o)
<1>6. Good(P) /\ EvenBut(K, P, m) /\ Placed(P, m) /\ P[m].release = 0
  BY <1>0, <1>4, <1>5, placeCreatureGood
<1>7. crea' = useThing2(P, m)
  BY <1>2
<1> HIDE DEF P
<1>8. P \in Worlds /\ Kept(K, P)
  BY <1>0, <1>4, <1>6, EvenButKept DEF Good
<1>9. Accounts(P, Living, vectors) /\ Bounded(P, walking, todo)
  BY <1>0, <1>1, <1>4, <1>8, BucketsAreNat, AccountsKept, BoundedKept DEF Kept
<1> DEFINE L == useThing2(P, m)
           n == [d \in Creatures |-> IF d = m THEN 1 ELSE 0]
<1>10. m \notin Living
  BY <1>0, <1>1, <1>3 DEF Watched
<1>11. \A d \in Creatures : n[d] \in Int /\ n[d] = One(d \in Living \cup {m}) - One(d \in Living)
  BY <1>10 DEF One
<1>12. n = [d \in Creatures |-> IF d = m THEN 1 ELSE 0] /\ 1 \in Int
  OBVIOUS
<1>13. L = [P EXCEPT ![m].useCount = P[m].useCount + 1]
  BY <1>0, <1>8 DEF useThing2, Worlds
<1> HIDE DEF L, n
<1>14. Good(L) /\ Recounted(P, L, n)
  BY <1>0, <1>6, <1>12, <1>13, oneReferenceGood
<1>15. L \in Worlds
  BY <1>14 DEF Good
<1>16. Accounts(L, Living \cup {m}, vectors)
  BY <1>9, <1>11, <1>14, BucketsAreNat, RecountedAccounts
<1>17. Bounded(L, walking, todo)
  <2>1. Lighter(P, L)
    BY <1>8, <1>14, <1>15, RecountedKeepsBounds
  <2> QED BY <1>0, <1>8, <1>9, <1>15, <2>1, BoundedKept
<1>18. \A c \in Living \cup {m} : Placed(L, c)
  <2>1. \A d \in Creatures : L[d].stage = P[d].stage
    BY <1>14 DEF Recounted, Bare
  <2>2. \A d \in Creatures : d # m => P[d].stage = K[d].stage
    BY <1>6 DEF EvenBut
  <2> QED BY <1>0, <1>1, <1>6, <2>1, <2>2 DEF Placed
<1>19. Cardinality(Living \cup {m}) = Cardinality(Living) + 1
  BY <1>1, <1>10, FS_AddElement
<1>20. Cardinality(spawned') \in Nat /\ Cardinality(spawned') <= SpawnSize
  BY <1>1, <1>3, <1>19, CreaturesAssumption
<1>21. spawned' \subseteq Monsters
  BY <1>0, <1>1, <1>3
<1> QED BY <1>3, <1>7, <1>14, <1>16, <1>17, <1>18, <1>20, <1>21 DEF L

LEMMA checkSpawnStep ==
    ASSUME IInv, checkSpawn
    PROVE  IInv'
<1>0. Books /\ SpawnSize \in Nat
  BY CreaturesAssumption DEF IInv
<1>1. /\ Good(crea') /\ Accounts(crea', spawned', vectors) /\ Bounded(crea', walking, todo)
      /\ spawned' \subseteq Monsters /\ Cardinality(spawned') \in Nat /\ Cardinality(spawned') <= SpawnSize
      /\ \A c \in spawned' : Placed(crea', c)
  <2>1. CASE Cardinality(Living) < SpawnSize /\ \E m \in Monsters : spawnMonster(m)
    BY <2>1, spawnMonsterStep
  <2>2. CASE crea' = SpawnCleaned /\ spawned' = Living
    <3>1. /\ Good(SpawnCleaned) /\ Accounts(SpawnCleaned, Living, vectors)
          /\ Bounded(SpawnCleaned, walking, todo)
          /\ Living \subseteq spawned /\ Cardinality(Living) \in Nat /\ Cardinality(Living) <= SpawnSize
          /\ \A m \in Living : Placed(SpawnCleaned, m)
      BY SpawnCleanedGood
    <3> QED BY <1>0, <2>2, <3>1 DEF Books
  <2> QED BY <2>1, <2>2 DEF checkSpawn
<1>2. /\ checkSpawnEvent' = (Cardinality(spawned') < SpawnSize)
      /\ vectors' = vectors /\ lastIndex' = lastIndex /\ walking' = walking /\ todo' = todo
  BY DEF checkSpawn, walkVars
<1>3. checkSpawnEvent' \/ Cardinality(spawned') = SpawnSize
  <2>1. Cardinality(spawned') < SpawnSize \/ Cardinality(spawned') = SpawnSize
    BY <1>0, <1>1
  <2>2. Cardinality(spawned') < SpawnSize => checkSpawnEvent'
    BY <1>2
  <2> QED BY <2>1, <2>2
<1>4. Watched(crea', spawned', checkSpawnEvent')
  BY <1>1, <1>3 DEF Watched, Placed
<1>5. Books'
  BY <1>0, <1>1, <1>2 DEF Books
<1>6. Accounts(crea', spawned', vectors') /\ Bounded(crea', walking', todo')
  BY <1>1, <1>2
<1> QED BY <1>1, <1>4, <1>5, <1>6 DEF IInv

LEMMA BlankIsRecord ==
    Blank \in Records
<1>1. SpawnArea \in Areas /\ NoCreature \in Creatures \cup {NoCreature}
  BY CreaturesAssumption
<1>2. {} \in SUBSET Monsters /\ {} \in SUBSET Creatures /\ 0 \in Nat /\ 0 \in Int
  OBVIOUS
<1> QED BY <1>1, <1>2 DEF Blank, Records

\* What Destroy makes of K.
destroyed(K, c) ==
    LET L == clearLists(K, c)
        S == releaseAll(L, L[c].summons)
        M == [s \in Creatures |-> IF s \in L[c].summons
                                  THEN [S[s] EXCEPT !.master = NoCreature, !.attacked = NoCreature]
                                  ELSE S[s]]
    IN  [M EXCEPT ![c] = Blank]

\* The lists of c are empty, and what was in them is released.
Cleared(K, L, c) ==
    \A d \in Creatures :
        /\ L[d].stage = K[d].stage /\ L[d].area = K[d].area /\ L[d].alive = K[d].alive
        /\ L[d].master = K[d].master /\ L[d].summons = K[d].summons
        /\ d # c => L[d].friends = K[d].friends /\ L[d].targets = K[d].targets
        /\ L[d].attacked = K[d].attacked /\ L[d].idle = K[d].idle
        /\ L[d].check = K[d].check /\ L[d].listed = K[d].listed /\ L[d].toAdd = K[d].toAdd
        /\ L[d].release = K[d].release /\ L[d].client = K[d].client
        /\ L[d].useCount = K[d].useCount - One(d \in K[c].friends) - One(d \in K[c].targets)

LEMMA clearListsFields ==
    ASSUME NEW K \in Worlds, NEW c \in Creatures
    PROVE  clearLists(K, c) \in Worlds /\ Cleared(K, clearLists(K, c), c)
<1> DEFINE F == releaseAll(K, K[c].friends)
           T == releaseAll(F, K[c].targets)
           L == clearLists(K, c)
<1>1. F \in Worlds /\ \A d \in Creatures : F[d] = [K[d] EXCEPT !.useCount = K[d].useCount - One(d \in K[c].friends)]
  BY releaseAllFields
<1> HIDE DEF F
<1>2. T \in Worlds /\ \A d \in Creatures : T[d] = [F[d] EXCEPT !.useCount = F[d].useCount - One(d \in K[c].targets)]
  BY <1>1, releaseAllFields
<1> HIDE DEF T
<1>3. ASSUME NEW d \in Creatures
      PROVE  /\ T[d].stage = K[d].stage /\ T[d].area = K[d].area /\ T[d].alive = K[d].alive
             /\ T[d].master = K[d].master /\ T[d].summons = K[d].summons
             /\ T[d].friends = K[d].friends /\ T[d].targets = K[d].targets
             /\ T[d].attacked = K[d].attacked /\ T[d].idle = K[d].idle
             /\ T[d].check = K[d].check /\ T[d].listed = K[d].listed /\ T[d].toAdd = K[d].toAdd
             /\ T[d].release = K[d].release /\ T[d].client = K[d].client
             /\ T[d].useCount = K[d].useCount - One(d \in K[c].friends) - One(d \in K[c].targets)
             /\ T[d] \in Records
  <2> DEFINE u == K[d].useCount - One(d \in K[c].friends)
             v == F[d].useCount - One(d \in K[c].targets)
  <2>1. K[d] \in Records /\ F[d] \in Records /\ T[d] \in Records
    BY <1>1, <1>2 DEF Worlds
  <2>2. u \in Int /\ v \in Int
    BY <2>1 DEF Records, One
  <2>3. F[d] = [K[d] EXCEPT !.useCount = u] /\ T[d] = [F[d] EXCEPT !.useCount = v]
    BY <1>1, <1>2
  <2>4. v = F[d].useCount - One(d \in K[c].targets) /\ u = K[d].useCount - One(d \in K[c].friends)
    OBVIOUS
  <2> HIDE DEF u, v
  <2>5. /\ F[d].useCount = u
        /\ F[d].stage = K[d].stage /\ F[d].area = K[d].area /\ F[d].alive = K[d].alive
        /\ F[d].master = K[d].master /\ F[d].summons = K[d].summons
        /\ F[d].friends = K[d].friends /\ F[d].targets = K[d].targets
        /\ F[d].attacked = K[d].attacked /\ F[d].idle = K[d].idle
        /\ F[d].check = K[d].check /\ F[d].listed = K[d].listed /\ F[d].toAdd = K[d].toAdd
        /\ F[d].release = K[d].release /\ F[d].client = K[d].client
    BY <2>1, <2>2, <2>3, OtherUseCount
  <2>6. /\ T[d].useCount = v
        /\ T[d].stage = F[d].stage /\ T[d].area = F[d].area /\ T[d].alive = F[d].alive
        /\ T[d].master = F[d].master /\ T[d].summons = F[d].summons
        /\ T[d].friends = F[d].friends /\ T[d].targets = F[d].targets
        /\ T[d].attacked = F[d].attacked /\ T[d].idle = F[d].idle
        /\ T[d].check = F[d].check /\ T[d].listed = F[d].listed /\ T[d].toAdd = F[d].toAdd
        /\ T[d].release = F[d].release /\ T[d].client = F[d].client
    BY <2>1, <2>2, <2>3, OtherUseCount
  <2> QED BY <2>1, <2>4, <2>5, <2>6
<1> DEFINE x == T[c].friends \ K[c].friends
           y == T[c].targets \ K[c].targets
           q == [T[c] EXCEPT !.friends = x, !.targets = y]
<1>4. L = [T EXCEPT ![c] = q]
  <2>1. L = [T EXCEPT ![c].friends = @ \ K[c].friends, ![c].targets = @ \ K[c].targets]
    BY DEF clearLists, letGo, T, F
  <2> QED BY <1>2, <2>1 DEF Worlds
<1>5. T[c] \in Records /\ x \in SUBSET Creatures /\ y \in SUBSET Creatures
  BY <1>3 DEF Records
<1> HIDE DEF x, y
<1>6. /\ q \in Records /\ q.useCount = T[c].useCount
      /\ q.stage = T[c].stage /\ q.area = T[c].area /\ q.alive = T[c].alive
      /\ q.master = T[c].master /\ q.summons = T[c].summons
      /\ q.attacked = T[c].attacked /\ q.idle = T[c].idle
      /\ q.check = T[c].check /\ q.listed = T[c].listed /\ q.toAdd = T[c].toAdd
      /\ q.release = T[c].release /\ q.client = T[c].client
  BY <1>5 DEF Records
<1> HIDE DEF q, L
<1>7. L \in Worlds /\ L[c] = q /\ \A d \in Creatures : d # c => L[d] = T[d]
  BY <1>2, <1>4, <1>6 DEF Worlds
<1>8. Cleared(K, L, c)
  <2> SUFFICES ASSUME NEW d \in Creatures
               PROVE  /\ L[d].stage = K[d].stage /\ L[d].area = K[d].area /\ L[d].alive = K[d].alive
                      /\ L[d].master = K[d].master /\ L[d].summons = K[d].summons
                      /\ d # c => L[d].friends = K[d].friends /\ L[d].targets = K[d].targets
                      /\ L[d].attacked = K[d].attacked /\ L[d].idle = K[d].idle
                      /\ L[d].check = K[d].check /\ L[d].listed = K[d].listed /\ L[d].toAdd = K[d].toAdd
                      /\ L[d].release = K[d].release /\ L[d].client = K[d].client
                      /\ L[d].useCount = K[d].useCount - One(d \in K[c].friends) - One(d \in K[c].targets)
    BY DEF Cleared
  <2>1. CASE d = c
    BY <1>3, <1>6, <1>7, <2>1
  <2>2. CASE d # c
    <3>1. L[d] = T[d]
      BY <1>7, <2>2
    <3> QED BY <1>3, <3>1
  <2> QED BY <2>1, <2>2
<1> QED BY <1>7, <1>8 DEF L

\* d after c has been destroyed.
AfterDestruction(K, L, c, d) ==
    /\ L[d].stage = K[d].stage /\ L[d].area = K[d].area /\ L[d].alive = K[d].alive
    /\ L[d].friends = K[d].friends /\ L[d].targets = K[d].targets /\ L[d].summons = K[d].summons
    /\ L[d].idle = K[d].idle
    /\ L[d].check = K[d].check /\ L[d].listed = K[d].listed /\ L[d].toAdd = K[d].toAdd
    /\ L[d].release = K[d].release /\ L[d].client = K[d].client
    /\ L[d].master = IF d \in K[c].summons THEN NoCreature ELSE K[d].master
    /\ L[d].attacked = IF d \in K[c].summons THEN NoCreature ELSE K[d].attacked
    /\ L[d].useCount = K[d].useCount - One(d \in K[c].friends) - One(d \in K[c].targets)
                       - One(d \in K[c].summons)

LEMMA destroyedFields ==
    ASSUME NEW K \in Worlds, NEW c \in Creatures
    PROVE  /\ destroyed(K, c) \in Worlds /\ destroyed(K, c)[c] = Blank
           /\ \A d \in Creatures : d # c => AfterDestruction(K, destroyed(K, c), c, d)
<1> DEFINE L == clearLists(K, c)
           S == releaseAll(L, L[c].summons)
           G(s) == IF s \in L[c].summons
                   THEN [S[s] EXCEPT !.master = NoCreature, !.attacked = NoCreature] ELSE S[s]
           M == [s \in Creatures |-> G(s)]
           D == destroyed(K, c)
<1>1. D = [M EXCEPT ![c] = Blank]
  BY DEF destroyed
<1>2. L \in Worlds /\ Cleared(K, L, c)
  BY clearListsFields
<1> HIDE DEF L
<1>3. S \in Worlds /\ \A d \in Creatures : S[d] = [L[d] EXCEPT !.useCount = L[d].useCount - One(d \in L[c].summons)]
  BY <1>2, releaseAllFields
<1> HIDE DEF S
<1>4. L[c].summons = K[c].summons
  BY <1>2 DEF Cleared
<1>5. ASSUME NEW d \in Creatures
      PROVE  /\ S[d] \in Records
             /\ S[d].useCount = L[d].useCount - One(d \in K[c].summons)
             /\ S[d].stage = L[d].stage /\ S[d].area = L[d].area /\ S[d].alive = L[d].alive
             /\ S[d].master = L[d].master /\ S[d].summons = L[d].summons
             /\ S[d].friends = L[d].friends /\ S[d].targets = L[d].targets
             /\ S[d].attacked = L[d].attacked /\ S[d].idle = L[d].idle
             /\ S[d].check = L[d].check /\ S[d].listed = L[d].listed /\ S[d].toAdd = L[d].toAdd
             /\ S[d].release = L[d].release /\ S[d].client = L[d].client
  <2> DEFINE u == L[d].useCount - One(d \in L[c].summons)
  <2>1. L[d] \in Records /\ S[d] \in Records
    BY <1>2, <1>3 DEF Worlds
  <2>2. u \in Int
    BY <2>1 DEF Records, One
  <2>3. S[d] = [L[d] EXCEPT !.useCount = u]
    BY <1>3
  <2>4. u = L[d].useCount - One(d \in K[c].summons)
    BY <1>4
  <2> HIDE DEF u
  <2>5. /\ S[d].useCount = u
        /\ S[d].stage = L[d].stage /\ S[d].area = L[d].area /\ S[d].alive = L[d].alive
        /\ S[d].master = L[d].master /\ S[d].summons = L[d].summons
        /\ S[d].friends = L[d].friends /\ S[d].targets = L[d].targets
        /\ S[d].attacked = L[d].attacked /\ S[d].idle = L[d].idle
        /\ S[d].check = L[d].check /\ S[d].listed = L[d].listed /\ S[d].toAdd = L[d].toAdd
        /\ S[d].release = L[d].release /\ S[d].client = L[d].client
    BY <2>1, <2>2, <2>3, OtherUseCount
  <2> QED BY <2>1, <2>4, <2>5
<1>6. ASSUME NEW d \in Creatures
      PROVE  /\ G(d) \in Records
             /\ G(d).useCount = S[d].useCount
             /\ G(d).stage = S[d].stage /\ G(d).area = S[d].area /\ G(d).alive = S[d].alive
             /\ G(d).summons = S[d].summons
             /\ G(d).friends = S[d].friends /\ G(d).targets = S[d].targets
             /\ G(d).idle = S[d].idle
             /\ G(d).check = S[d].check /\ G(d).listed = S[d].listed /\ G(d).toAdd = S[d].toAdd
             /\ G(d).release = S[d].release /\ G(d).client = S[d].client
             /\ G(d).master = IF d \in K[c].summons THEN NoCreature ELSE S[d].master
             /\ G(d).attacked = IF d \in K[c].summons THEN NoCreature ELSE S[d].attacked
  <2>1. S[d] \in Records
    BY <1>5
  <2>2. CASE d \in K[c].summons
    <3>1. G(d) = [S[d] EXCEPT !.master = NoCreature, !.attacked = NoCreature]
      BY <1>4, <2>2
    <3> HIDE DEF G
    <3>2. G(d) \in Records
      BY <2>1, <3>1 DEF Records
    <3> QED BY <2>1, <2>2, <3>1, <3>2 DEF Records
  <2>3. CASE d \notin K[c].summons
    <3>1. G(d) = S[d]
      BY <1>4, <2>3
    <3> HIDE DEF G
    <3> QED BY <2>1, <2>3, <3>1
  <2> QED BY <2>2, <2>3
<1>7. M \in Worlds /\ \A d \in Creatures : M[d] = G(d)
  <2> HIDE DEF G
  <2> QED BY <1>6 DEF Worlds
<1> HIDE DEF M, D
<1>8. D \in Worlds /\ D[c] = Blank /\ \A d \in Creatures : d # c => D[d] = M[d]
  BY <1>1, <1>7, BlankIsRecord DEF Worlds
<1>9. ASSUME NEW d \in Creatures, d # c PROVE AfterDestruction(K, D, c, d)
  <2>1. D[d] = G(d)
    BY <1>7, <1>8, <1>9
  <2> HIDE DEF G
  <2>2. /\ L[d].stage = K[d].stage /\ L[d].area = K[d].area /\ L[d].alive = K[d].alive
        /\ L[d].master = K[d].master /\ L[d].summons = K[d].summons
        /\ L[d].friends = K[d].friends /\ L[d].targets = K[d].targets
        /\ L[d].attacked = K[d].attacked /\ L[d].idle = K[d].idle
        /\ L[d].check = K[d].check /\ L[d].listed = K[d].listed /\ L[d].toAdd = K[d].toAdd
        /\ L[d].release = K[d].release /\ L[d].client = K[d].client
        /\ L[d].useCount = K[d].useCount - One(d \in K[c].friends) - One(d \in K[c].targets)
    BY <1>2, <1>9 DEF Cleared
  <2>3. D[d].useCount = K[d].useCount - One(d \in K[c].friends) - One(d \in K[c].targets)
                        - One(d \in K[c].summons)
    BY <1>5, <1>6, <2>1, <2>2
  <2>4. /\ D[d].master = IF d \in K[c].summons THEN NoCreature ELSE K[d].master
        /\ D[d].attacked = IF d \in K[c].summons THEN NoCreature ELSE K[d].attacked
    BY <1>5, <1>6, <2>1, <2>2
  <2>5. /\ D[d].stage = K[d].stage /\ D[d].area = K[d].area /\ D[d].alive = K[d].alive
        /\ D[d].friends = K[d].friends /\ D[d].targets = K[d].targets /\ D[d].summons = K[d].summons
        /\ D[d].idle = K[d].idle
        /\ D[d].check = K[d].check /\ D[d].listed = K[d].listed /\ D[d].toAdd = K[d].toAdd
        /\ D[d].release = K[d].release /\ D[d].client = K[d].client
    BY <1>5, <1>6, <2>1, <2>2
  <2> QED BY <2>3, <2>4, <2>5 DEF AfterDestruction
<1> QED BY <1>8, <1>9 DEF D

\* What is destroyed is held by nobody.
LEMMA DoomedIsAlone ==
    ASSUME IInv, NEW c \in Creatures, Doomed(c)
    PROVE  /\ crea[c].release = 0 /\ crea[c].toAdd = 0 /\ ~crea[c].client /\ ~crea[c].listed
           /\ crea[c].stage = "gone" /\ c \notin spawned
           /\ Balance(crea, c) = 0
           /\ \A d \in Creatures : c \notin crea[d].friends /\ c \notin crea[d].targets /\ c \notin crea[d].summons
<1> DEFINE f == Cardinality(Befriending(crea, c))
           t == Cardinality(Targeting(crea, c))
           s == Cardinality(Mastering(crea, c))
           p == One(crea[c].stage = "in")
           x == One(crea[c].client)
           y == One(c \in spawned)
           z == One(crea[c].listed)
           n == InBuckets(vectors, c)
           r == crea[c].release
           a == crea[c].toAdd
           b == Balance(crea, c)
<1>1. crea \in Worlds /\ Accounts(crea, spawned, vectors) /\ n \in Nat
  BY BucketsAreNat DEF IInv, Good
<1>2. /\ IsFiniteSet(Befriending(crea, c)) /\ IsFiniteSet(Targeting(crea, c)) /\ IsFiniteSet(Mastering(crea, c))
      /\ f \in Nat /\ t \in Nat /\ s \in Nat
  BY CardinalityOfPart DEF Befriending, Targeting, Mastering
<1>3. /\ p \in Nat /\ x \in Nat /\ y \in Nat /\ z \in Nat /\ r \in Nat /\ a \in Nat
      /\ crea[c].useCount = 0 /\ crea[c].stage # "none"
      /\ crea[c].stage \in {"none", "in", "gone"}
  BY <1>1 DEF One, Worlds, Records, Doomed
<1>4. b = crea[c].useCount - r - a - p - x - f - t - s
  BY DEF Balance
<1>5. b = y + n /\ a + n = z
  BY <1>1 DEF Accounts
<1> HIDE DEF f, t, s, p, x, y, z, n, r, a, b
<1>6. /\ f = 0 /\ t = 0 /\ s = 0 /\ p = 0 /\ x = 0 /\ y = 0 /\ n = 0 /\ r = 0 /\ a = 0 /\ z = 0 /\ b = 0
  BY <1>1, <1>2, <1>3, <1>4, <1>5
<1>7. Befriending(crea, c) = {} /\ Targeting(crea, c) = {} /\ Mastering(crea, c) = {}
  BY <1>2, <1>6, FS_EmptySet DEF f, t, s
<1>8. ~crea[c].client /\ ~crea[c].listed /\ crea[c].stage # "in" /\ c \notin spawned
  BY <1>6 DEF p, x, y, z, One
<1>9. \A d \in Creatures : c \notin crea[d].friends /\ c \notin crea[d].targets /\ c \notin crea[d].summons
  BY <1>7 DEF Befriending, Targeting, Mastering
<1> QED BY <1>3, <1>6, <1>8, <1>9 DEF r, a, b

LEMMA DestroyStep ==
    ASSUME IInv, NEW c \in Creatures, Destroy(c)
    PROVE  IInv'
<1>0. /\ Good(crea) /\ crea \in Worlds /\ Books /\ Watched(crea, spawned, checkSpawnEvent)
      /\ spawned \subseteq Creatures /\ Families(crea)
      /\ Agree(crea) /\ Company(crea) /\ NoChains(crea) /\ Masters(crea)
  <2>1. Good(crea) /\ Books /\ Watched(crea, spawned, checkSpawnEvent)
    BY DEF IInv
  <2>2. crea \in Worlds /\ Families(crea)
    BY <2>1 DEF Good
  <2>3. spawned \subseteq Creatures
    BY <2>1 DEF Books, Creatures
  <2> QED BY <2>1, <2>2, <2>3 DEF Families
<1> DEFINE L == destroyed(crea, c)
<1>1. /\ crea' = L /\ spawned' = spawned /\ checkSpawnEvent' = checkSpawnEvent /\ vectors' = vectors
      /\ lastIndex' = lastIndex /\ walking' = walking /\ todo' = todo
  BY DEF Destroy, destroyed
<1>2. /\ crea[c].release = 0 /\ crea[c].toAdd = 0 /\ ~crea[c].client /\ ~crea[c].listed
      /\ crea[c].stage = "gone" /\ c \notin spawned
      /\ Balance(crea, c) = 0
      /\ \A d \in Creatures : c \notin crea[d].friends /\ c \notin crea[d].targets /\ c \notin crea[d].summons
  BY DoomedIsAlone DEF Destroy
<1>3. /\ L \in Worlds /\ L[c] = Blank
      /\ \A d \in Creatures : d # c => AfterDestruction(crea, L, c, d)
  BY <1>0, destroyedFields
<1> HIDE DEF L
<1>4. /\ L[c].stage = "none" /\ L[c].master = NoCreature /\ L[c].attacked = NoCreature
      /\ L[c].summons = {} /\ L[c].friends = {} /\ L[c].targets = {}
      /\ ~L[c].check /\ ~L[c].listed /\ ~L[c].client
      /\ L[c].toAdd = 0 /\ L[c].release = 0 /\ L[c].useCount = 0
  BY <1>3 DEF Blank
<1>5. ASSUME NEW d \in Creatures, d # c
      PROVE  /\ L[d].stage = crea[d].stage /\ L[d].area = crea[d].area /\ L[d].alive = crea[d].alive
             /\ L[d].friends = crea[d].friends /\ L[d].targets = crea[d].targets
             /\ L[d].summons = crea[d].summons /\ L[d].idle = crea[d].idle
             /\ L[d].check = crea[d].check /\ L[d].listed = crea[d].listed /\ L[d].toAdd = crea[d].toAdd
             /\ L[d].release = crea[d].release /\ L[d].client = crea[d].client
             /\ L[d].master = IF d \in crea[c].summons THEN NoCreature ELSE crea[d].master
             /\ L[d].attacked = IF d \in crea[c].summons THEN NoCreature ELSE crea[d].attacked
             /\ L[d].useCount = crea[d].useCount - One(d \in crea[c].friends)
                                - One(d \in crea[c].targets) - One(d \in crea[c].summons)
  <2>1. AfterDestruction(crea, L, c, d)
    BY <1>3, <1>5
  <2> QED BY <2>1 DEF AfterDestruction
<1>6. ASSUME NEW d \in Creatures PROVE Balance(L, d) = Balance(crea, d)
  <2>1. CASE d = c
    <3>1. Befriending(L, c) = {} /\ Targeting(L, c) = {} /\ Mastering(L, c) = {}
      BY <1>2, <1>4, <1>5 DEF Befriending, Targeting, Mastering
    <3>2. Cardinality({}) = 0
      BY FS_EmptySet
    <3>3. One(L[c].stage = "in") = 0 /\ One(L[c].client) = 0
      BY <1>4 DEF One
    <3>4. Balance(L, c) = 0 - 0 - 0 - 0 - 0 - 0 - 0 - 0
      BY <1>4, <3>1, <3>2, <3>3 DEF Balance
    <3> QED BY <1>2, <2>1, <3>4
  <2>2. CASE d # c
    <3>1. \A e \in Creatures : e # c =>
            L[e].friends = crea[e].friends /\ L[e].targets = crea[e].targets /\ L[e].summons = crea[e].summons
      BY <1>5
    <3> DEFINE g == crea[d].release + crea[d].toAdd + One(crea[d].stage = "in") + One(crea[d].client)
               x == One(d \in crea[c].friends)
               y == One(d \in crea[c].targets)
               z == One(d \in crea[c].summons)
    <3>2. g \in Int /\ x \in Int /\ y \in Int /\ z \in Int /\ crea[d].useCount \in Int
      BY <1>0 DEF Worlds, Records, One
    <3>3. Shown(crea, d, c) = g + x + y + z
      BY DEF Shown
    <3>4. Shown(L, d, c) = g
      <4>1. One(d \in L[c].friends) = 0 /\ One(d \in L[c].targets) = 0 /\ One(d \in L[c].summons) = 0
        BY <1>4 DEF One
      <4>2. Shown(L, d, c) = g + 0 + 0 + 0
        BY <1>5, <2>2, <4>1 DEF Shown
      <4> HIDE DEF g
      <4> QED BY <3>2, <4>2
    <3>5. L[d].useCount = crea[d].useCount - x - y - z
      BY <1>5, <2>2
    <3> HIDE DEF g, x, y, z
    <3>6. L[d].useCount - crea[d].useCount = Shown(L, d, c) - Shown(crea, d, c)
      BY <3>2, <3>3, <3>4, <3>5
    <3> QED BY <1>0, <1>3, <3>1, <3>6, BalanceKept
  <2> QED BY <2>1, <2>2
<1>7. Agree(L)
  <2> SUFFICES ASSUME NEW x \in Creatures, NEW s \in Creatures
               PROVE  L[s].master = x <=> s \in L[x].summons
    BY DEF Agree
  <2>0. x # NoCreature /\ (crea[s].master = x <=> s \in crea[x].summons)
        /\ (crea[s].master = c <=> s \in crea[c].summons)
    BY <1>0, CreaturesFinite DEF Agree
  <2>1. CASE s = c
    <3>1. s \notin L[x].summons
      BY <1>2, <1>4, <1>5, <2>1
    <3> QED BY <1>4, <2>0, <2>1, <3>1
  <2>2. CASE s # c /\ x = c
    BY <1>4, <1>5, <2>0, <2>2
  <2>3. CASE s # c /\ x # c
    BY <1>5, <2>0, <2>3
  <2> QED BY <2>1, <2>2, <2>3
<1>8. Company(L) /\ NoChains(L) /\ Masters(L)
  <2>1. ASSUME NEW x \in Creatures, NEW s \in Creatures, s \in L[x].summons
        PROVE  x # c /\ s # c /\ s \in crea[x].summons
    BY <1>2, <1>4, <1>5, <2>1
  <2>2. Company(L)
    BY <1>0, <1>5, <2>1 DEF Company, Placed
  <2>3. NoChains(L)
    BY <1>0, <1>5, <2>1 DEF NoChains
  <2>4. Masters(L)
    BY <1>0, <1>5, <2>1 DEF Masters, Placed
  <2> QED BY <2>2, <2>3, <2>4
<1>9. ASSUME NEW d \in Creatures PROVE Fresh(L, d) /\ Tidy(L, d) /\ Awake(L, d) /\ Aims(L, d)
  <2>1. CASE d = c
    BY <1>4, <2>1 DEF Fresh, Tidy, Awake, Aims, Placed
  <2>2. CASE d # c
    <3>1. Fresh(crea, d) /\ Tidy(crea, d) /\ Awake(crea, d) /\ Aims(crea, d)
      BY <1>0 DEF Good
    <3>2. Fresh(L, d)
      BY <1>5, <2>2, <3>1 DEF Fresh
    <3>3. Tidy(L, d) /\ Awake(L, d)
      BY <1>5, <2>2, <3>1 DEF Tidy, Awake, Placed
    <3>4. Aims(L, d)
      <4>1. CASE L[d].attacked = NoCreature
        BY <4>1 DEF Aims
      <4>2. CASE L[d].attacked # NoCreature
        <5> DEFINE x == crea[d].attacked
        <5>1. L[d].attacked = x /\ x # NoCreature
          BY <1>5, <2>2, <4>2
        <5>2. x \in Creatures
          BY <1>0, <5>1 DEF Worlds, Records
        <5>3. Placed(crea, d) /\ Placed(crea, x) /\ Sees(crea, d, x)
          BY <3>1, <5>1 DEF Aims
        <5>4. x # c
          BY <1>2, <5>3 DEF Placed
        <5>5. Placed(L, d) /\ Placed(L, x) /\ Sees(L, d, x)
          BY <1>5, <2>2, <5>2, <5>3, <5>4 DEF Placed, Sees
        <5> QED BY <5>1, <5>5 DEF Aims
      <4> QED BY <4>1, <4>2
    <3> QED BY <3>2, <3>3, <3>4
  <2> QED BY <2>1, <2>2
<1>10. Good(L)
  BY <1>3, <1>7, <1>8, <1>9 DEF Good, Families
<1>11. Kept(crea, L)
  <2> SUFFICES ASSUME NEW d \in Creatures
               PROVE  /\ L[d].toAdd - One(L[d].listed) = crea[d].toAdd - One(crea[d].listed)
                      /\ \/ L[d].release + One(L[d].client) + One(Placed(L, d))
                              <= crea[d].release + One(crea[d].client) + One(Placed(crea, d))
                         \/ L[d].release = 0
    BY <1>6 DEF Kept, Lighter
  <2>1. CASE d = c
    <3>1. One(L[c].listed) = 0 /\ One(crea[c].listed) = 0
      BY <1>2, <1>4 DEF One
    <3> QED BY <1>2, <1>4, <2>1, <3>1
  <2>2. CASE d # c
    <3>1. /\ L[d].toAdd = crea[d].toAdd /\ One(L[d].listed) = One(crea[d].listed)
          /\ L[d].release = crea[d].release /\ One(L[d].client) = One(crea[d].client)
          /\ One(Placed(L, d)) = One(Placed(crea, d))
      BY <1>5, <2>2 DEF Placed
    <3>2. crea[d].release \in Int /\ One(crea[d].client) \in Int /\ One(Placed(crea, d)) \in Int
      BY <1>0 DEF Worlds, Records, One
    <3> QED BY <3>1, <3>2
  <2> QED BY <2>1, <2>2
<1>12. \A d \in spawned : L[d].stage = crea[d].stage
  BY <1>0, <1>2, <1>5
<1>13. \A d \in spawned : crea'[d].stage # "none"
  BY <1>0, <1>1, <1>12 DEF Watched
<1>14. checkSpawnEvent' \in BOOLEAN
  BY <1>0, <1>1 DEF Books
<1>15. ~checkSpawnEvent' => ~checkSpawnEvent /\ \A n \in spawned : In(n) => crea'[n].stage = "in"
  BY <1>1, <1>12 DEF In
<1>16. Good(crea') /\ Kept(crea, crea')
  BY <1>1, <1>10, <1>11
<1> QED BY <1>1, <1>13, <1>14, <1>15, <1>16, Uneventful

LEMMA InitInvariant ==
    ASSUME Init
    PROVE  IInv
<1> DEFINE R == [Blank EXCEPT !.stage = "in", !.alive = TRUE, !.useCount = 2]
<1>0. /\ spawned \in SUBSET Monsters /\ Cardinality(spawned) = SpawnSize
      /\ crea = [c \in Creatures |-> IF c \in spawned THEN R ELSE Blank]
      /\ checkSpawnEvent = FALSE /\ lastIndex = 0 /\ walking = FALSE /\ todo = {}
      /\ vectors = [b \in 0 .. Buckets - 1 |-> [c \in Creatures |-> 0]]
  BY DEF Init
<1>1. /\ R \in Records /\ R.stage = "in" /\ R.alive /\ R.useCount = 2
      /\ R.master = NoCreature /\ R.attacked = NoCreature /\ R.idle
      /\ R.summons = {} /\ R.friends = {} /\ R.targets = {}
      /\ ~R.check /\ ~R.listed /\ ~R.client /\ R.toAdd = 0 /\ R.release = 0
  <2> DEFINE al == TRUE
             n == 2
  <2>0. R = [Blank EXCEPT !.stage = "in", !.alive = al, !.useCount = n]
    OBVIOUS
  <2>1. al \in BOOLEAN /\ n \in Int /\ al = TRUE /\ n = 2
    OBVIOUS
  <2> HIDE DEF R, al, n
  <2>2. /\ R \in Records /\ R.stage = "in" /\ R.alive = al /\ R.useCount = n
        /\ R.master = Blank.master /\ R.attacked = Blank.attacked /\ R.idle = Blank.idle
        /\ R.summons = Blank.summons /\ R.friends = Blank.friends /\ R.targets = Blank.targets
        /\ R.check = Blank.check /\ R.listed = Blank.listed /\ R.client = Blank.client
        /\ R.toAdd = Blank.toAdd /\ R.release = Blank.release
    BY <2>0, <2>1, BlankIsRecord DEF Records
  <2>3. /\ Blank.master = NoCreature /\ Blank.attacked = NoCreature /\ Blank.idle
        /\ Blank.summons = {} /\ Blank.friends = {} /\ Blank.targets = {}
        /\ ~Blank.check /\ ~Blank.listed /\ ~Blank.client /\ Blank.toAdd = 0 /\ Blank.release = 0
    BY DEF Blank
  <2> QED BY <2>1, <2>2, <2>3
<1> HIDE DEF R
<1>2. /\ Blank.stage = "none" /\ Blank.useCount = 0
      /\ Blank.master = NoCreature /\ Blank.attacked = NoCreature
      /\ Blank.summons = {} /\ Blank.friends = {} /\ Blank.targets = {}
      /\ ~Blank.check /\ ~Blank.listed /\ ~Blank.client /\ Blank.toAdd = 0 /\ Blank.release = 0
  BY DEF Blank
<1>3. ASSUME NEW c \in Creatures
      PROVE  /\ crea[c] \in Records
             /\ crea[c].stage = IF c \in spawned THEN "in" ELSE "none"
             /\ crea[c].useCount = IF c \in spawned THEN 2 ELSE 0
             /\ crea[c].master = NoCreature /\ crea[c].attacked = NoCreature
             /\ crea[c].summons = {} /\ crea[c].friends = {} /\ crea[c].targets = {}
             /\ ~crea[c].check /\ ~crea[c].listed /\ ~crea[c].client
             /\ crea[c].toAdd = 0 /\ crea[c].release = 0
             /\ c \in spawned => crea[c].alive /\ crea[c].idle
  <2>1. CASE c \in spawned
    <3>1. crea[c] = R
      BY <1>0, <2>1
    <3> QED BY <1>1, <2>1, <3>1
  <2>2. CASE c \notin spawned
    <3>1. crea[c] = Blank
      BY <1>0, <2>2
    <3> QED BY <1>2, <2>2, <3>1, BlankIsRecord
  <2> QED BY <2>1, <2>2
<1>4. crea \in Worlds
  <2>1. crea = [c \in Creatures |-> crea[c]]
    BY <1>0
  <2> QED BY <1>3, <2>1 DEF Worlds
<1>5. Agree(crea) /\ Company(crea) /\ NoChains(crea) /\ Masters(crea)
  <2>1. Agree(crea)
    BY <1>3, CreaturesFinite DEF Agree
  <2>2. Company(crea) /\ NoChains(crea) /\ Masters(crea)
    BY <1>3 DEF Company, NoChains, Masters
  <2> QED BY <2>1, <2>2
<1>6. ASSUME NEW c \in Creatures PROVE Fresh(crea, c) /\ Tidy(crea, c) /\ Awake(crea, c) /\ Aims(crea, c)
  <2>1. Fresh(crea, c) /\ Tidy(crea, c) /\ Aims(crea, c)
    BY <1>3 DEF Fresh, Tidy, Aims
  <2>2. Awake(crea, c)
    <3>1. c \in spawned => c \notin Players
      BY <1>0, CreaturesAssumption
    <3> QED BY <1>3, <3>1 DEF Awake, Placed
  <2> QED BY <2>1, <2>2
<1>7. Good(crea)
  BY <1>4, <1>5, <1>6 DEF Good, Families
<1>8. Buckets \in Nat /\ Buckets > 0 /\ SpawnSize \in Nat /\ MaxReleases \in Nat
  BY CreaturesAssumption
<1>9. vectors \in [0 .. Buckets - 1 -> [Creatures -> Nat]]
  BY <1>0
<1>10. Accounts(crea, spawned, vectors)
  <2> SUFFICES ASSUME NEW c \in Creatures
               PROVE  /\ Balance(crea, c) = One(c \in spawned) + InBuckets(vectors, c)
                      /\ crea[c].toAdd + InBuckets(vectors, c) = One(crea[c].listed)
    BY DEF Accounts
  <2>1. InBuckets(vectors, c) = 0
    <3>1. \A b \in 0 .. Buckets - 1 : vectors[b][c] = 0
      BY <1>0
    <3> QED BY <1>9, <3>1, InBucketsEmpty
  <2>2. Befriending(crea, c) = {} /\ Targeting(crea, c) = {} /\ Mastering(crea, c) = {}
    BY <1>3 DEF Befriending, Targeting, Mastering
  <2>3. Cardinality({}) = 0
    BY FS_EmptySet
  <2>4. One(crea[c].client) = 0 /\ One(crea[c].listed) = 0
    BY <1>3 DEF One
  <2>5. Balance(crea, c) = crea[c].useCount - 0 - 0 - One(crea[c].stage = "in") - 0 - 0 - 0 - 0
    BY <1>3, <2>2, <2>3, <2>4 DEF Balance
  <2>6. CASE c \in spawned
    <3>1. One(crea[c].stage = "in") = 1 /\ crea[c].useCount = 2 /\ One(c \in spawned) = 1
      BY <1>3, <2>6 DEF One
    <3> QED BY <1>3, <2>1, <2>4, <2>5, <3>1
  <2>7. CASE c \notin spawned
    <3>1. One(crea[c].stage = "in") = 0 /\ crea[c].useCount = 0 /\ One(c \in spawned) = 0
      BY <1>3, <2>7 DEF One
    <3> QED BY <1>3, <2>1, <2>4, <2>5, <3>1
  <2> QED BY <2>6, <2>7
<1>11. Bounded(crea, walking, todo)
  <2> SUFFICES ASSUME NEW c \in Creatures
               PROVE  crea[c].release + One(crea[c].client) + One(Placed(crea, c)) + One(walking /\ c \in todo)
                        <= MaxReleases + 2 + One(walking)
    BY DEF Bounded
  <2>1. crea[c].release = 0 /\ One(crea[c].client) = 0 /\ One(walking /\ c \in todo) = 0 /\ One(walking) = 0
    BY <1>0, <1>3 DEF One
  <2>2. One(Placed(crea, c)) \in 0 .. 1
    BY DEF One
  <2> QED BY <1>8, <2>1, <2>2
<1>12. Watched(crea, spawned, checkSpawnEvent)
  <2>1. spawned \subseteq Creatures
    BY <1>0 DEF Creatures
  <2>2. \A m \in spawned : crea[m].stage = "in"
    BY <1>3, <2>1
  <2> QED BY <1>0, <1>8, <2>2 DEF Watched, Placed
<1>13. Books
  <2>1. lastIndex \in 0 .. Buckets - 1
    BY <1>0, <1>8
  <2> QED BY <1>0, <1>9, <2>1 DEF Books
<1> QED BY <1>7, <1>10, <1>11, <1>12, <1>13 DEF IInv

LEMMA StepInvariant ==
    ASSUME IInv, Next
    PROVE  IInv'
<1>1. CASE \E c \in Creatures : Destroy(c) \/ Hit(c) \/ Think(c) \/ Die(c) \/ Unlist(c)
  BY <1>1, DestroyStep, HitStep, ThinkStep, DieStep, UnlistStep
<1>2. CASE \E p \in Players : \/ Login(p) \/ Connect(p) \/ Disconnect(p) \/ Logout(p)
                              \/ \E x \in Creatures \cup {NoCreature} : Attack(p, x)
  BY <1>2, LoginStep, ConnectStep, DisconnectStep, LogoutStep, AttackStep
<1>3. CASE \E c \in Creatures, a \in Areas : Walk(c, a)
  BY <1>3, WalkStep
<1>4. CASE \E p \in Players, m \in Monsters : Convince(p, m) \/ Summon(p, m)
  BY <1>4, ConvinceStep, SummonStep
<1>5. CASE checkSpawn \/ StartWalk \/ EndWalk
  BY <1>5, checkSpawnStep, StartWalkStep, EndWalkStep
<1> QED BY <1>1, <1>2, <1>3, <1>4, <1>5 DEF Next

LEMMA StutteringInvariant ==
    ASSUME IInv, UNCHANGED vars
    PROVE  IInv'
<1>1. /\ crea' = crea /\ spawned' = spawned /\ checkSpawnEvent' = checkSpawnEvent /\ vectors' = vectors
      /\ lastIndex' = lastIndex /\ walking' = walking /\ todo' = todo
  BY DEF vars
<1>2. /\ Good(crea) /\ Books /\ Accounts(crea, spawned, vectors) /\ Bounded(crea, walking, todo)
      /\ Watched(crea, spawned, checkSpawnEvent)
  BY DEF IInv
<1>3. Books'
  BY <1>1, <1>2 DEF Books
<1>4. /\ Good(crea') /\ Accounts(crea', spawned', vectors') /\ Bounded(crea', walking', todo')
      /\ Watched(crea', spawned', checkSpawnEvent')
  BY <1>1, <1>2
<1> QED BY <1>3, <1>4 DEF IInv

\* The inductive invariant.
THEOREM InvariantHolds ==
    Spec => []IInv
<1>1. Init => IInv
  BY InitInvariant
<1>2. IInv /\ [Next]_vars => IInv'
  BY StepInvariant, StutteringInvariant
<1> QED BY <1>1, <1>2, PTL DEF Spec

-----------------------------------------------------------------------------
(* What the invariant gives. *)

LEMMA CountsFromInvariant ==
    ASSUME IInv, NEW c \in Creatures
    PROVE  /\ crea[c].useCount = Holders(c) /\ Listings(c) = One(crea[c].listed)
           /\ crea[c].useCount \in Nat
<1> DEFINE f == Cardinality(Befriending(crea, c))
           t == Cardinality(Targeting(crea, c))
           s == Cardinality(Mastering(crea, c))
           p == One(crea[c].stage = "in")
           x == One(crea[c].client)
           y == One(c \in spawned)
           n == InBuckets(vectors, c)
           r == crea[c].release
           a == crea[c].toAdd
           u == crea[c].useCount
           b == Balance(crea, c)
           P == {k \in {"map", "client", "spawn"} :
                   \/ k = "map" /\ In(c)
                   \/ k = "client" /\ crea[c].client
                   \/ k = "spawn" /\ c \in spawned}
<1>1. crea \in Worlds /\ Accounts(crea, spawned, vectors) /\ n \in Nat
  BY BucketsAreNat DEF IInv, Good
<1>2. f \in Nat /\ t \in Nat /\ s \in Nat
  BY CardinalityOfPart DEF Befriending, Targeting, Mastering
<1>3. p \in Nat /\ x \in Nat /\ y \in Nat /\ r \in Nat /\ a \in Nat /\ u \in Int
  BY <1>1 DEF One, Worlds, Records
<1>4. b = u - r - a - p - x - f - t - s
  BY DEF Balance
<1>5. b = y + n /\ a + n = One(crea[c].listed)
  BY <1>1 DEF Accounts
<1>6. Cardinality(P) = p + x + y
  <2> DEFINE A == {k \in {"map"} : In(c)}
             B == {k \in {"client"} : crea[c].client}
             D == {k \in {"spawn"} : c \in spawned}
  <2>1. P = (A \cup B) \cup D /\ A \cap B = {} /\ (A \cup B) \cap D = {}
    OBVIOUS
  <2>2. IsFiniteSet(A) /\ Cardinality(A) = p
    <3>1. CASE In(c)
      <4>1. A = {"map"} /\ p = 1
        BY <3>1 DEF One, In
      <4> QED BY <4>1, FS_Singleton
    <3>2. CASE ~In(c)
      <4>1. A = {} /\ p = 0
        BY <3>2 DEF One, In
      <4> QED BY <4>1, FS_EmptySet
    <3> QED BY <3>1, <3>2
  <2>3. IsFiniteSet(B) /\ Cardinality(B) = x
    <3>1. CASE crea[c].client
      <4>1. B = {"client"} /\ x = 1
        BY <3>1 DEF One
      <4> QED BY <4>1, FS_Singleton
    <3>2. CASE ~crea[c].client
      <4>1. B = {} /\ x = 0
        BY <3>2 DEF One
      <4> QED BY <4>1, FS_EmptySet
    <3> QED BY <3>1, <3>2
  <2>4. IsFiniteSet(D) /\ Cardinality(D) = y
    <3>1. CASE c \in spawned
      <4>1. D = {"spawn"} /\ y = 1
        BY <3>1 DEF One
      <4> QED BY <4>1, FS_Singleton
    <3>2. CASE c \notin spawned
      <4>1. D = {} /\ y = 0
        BY <3>2 DEF One
      <4> QED BY <4>1, FS_EmptySet
    <3> QED BY <3>1, <3>2
  <2> HIDE DEF A, B, D, P, p, x, y
  <2>5. IsFiniteSet(A \cup B) /\ Cardinality(A \cup B) = p + x
    <3>1. IsFiniteSet(A \cup B) /\ Cardinality(A \cup B) = Cardinality(A) + Cardinality(B) - Cardinality(A \cap B)
      BY <2>2, <2>3, FS_Union
    <3>2. Cardinality(A \cap B) = 0
      BY <2>1, FS_EmptySet
    <3> QED BY <1>3, <2>2, <2>3, <3>1, <3>2
  <2>6. Cardinality((A \cup B) \cup D) = Cardinality(A \cup B) + Cardinality(D) - Cardinality((A \cup B) \cap D)
    BY <2>4, <2>5, FS_Union
  <2>7. Cardinality((A \cup B) \cap D) = 0
    BY <2>1, FS_EmptySet
  <2> QED BY <1>3, <2>1, <2>4, <2>5, <2>6, <2>7
<1>7. Holders(c) = r + (a + n) + Cardinality(P) + f + t + s
  BY DEF Holders, Listings, Befriending, Targeting, Mastering
<1>8. Listings(c) = a + n
  BY DEF Listings
<1> HIDE DEF f, t, s, p, x, y, n, r, a, u, b, P
<1>9. u = Holders(c) /\ u \in Nat
  BY <1>1, <1>2, <1>3, <1>4, <1>5, <1>6, <1>7
<1> QED BY <1>5, <1>8, <1>9 DEF u, a, n

LEMMA TypesFromInvariant ==
    ASSUME IInv
    PROVE  TypeOK
<1>0. /\ Good(crea) /\ crea \in Worlds /\ Books /\ Accounts(crea, spawned, vectors)
      /\ Bounded(crea, walking, todo)
  BY DEF IInv, Good
<1>1. ASSUME NEW c \in Creatures
      PROVE  /\ crea[c].toAdd \in 0 .. 1 /\ crea[c].release \in 0 .. MaxReleases + 3
             /\ crea[c].useCount \in Nat /\ InBuckets(vectors, c) \in Nat /\ InBuckets(vectors, c) <= 1
  <2> DEFINE n == InBuckets(vectors, c)
             z == One(crea[c].listed)
             x == One(crea[c].client)
             p == One(Placed(crea, c))
             t == One(walking /\ c \in todo)
             w == One(walking)
             r == crea[c].release
             a == crea[c].toAdd
  <2>1. n \in Nat /\ a + n = z
    BY <1>0, BucketsAreNat DEF Accounts
  <2>2. r + x + p + t <= MaxReleases + 2 + w
    BY <1>0 DEF Bounded
  <2>3. /\ z \in 0 .. 1 /\ x \in 0 .. 1 /\ p \in 0 .. 1 /\ t \in 0 .. 1 /\ w \in 0 .. 1
        /\ r \in Nat /\ a \in Nat /\ MaxReleases \in Nat
    BY <1>0, CreaturesAssumption DEF One, Worlds, Records
  <2>4. crea[c].useCount \in Nat
    BY CountsFromInvariant
  <2> HIDE DEF n, z, x, p, t, w, r, a
  <2>5. a \in 0 .. 1 /\ n <= 1
    BY <2>1, <2>3
  <2>6. r \in 0 .. MaxReleases + 3
    BY <2>2, <2>3
  <2> QED BY <2>1, <2>4, <2>5, <2>6 DEF n, r, a
<1> DEFINE T == [
         stage : {"none", "in", "gone"}, area : Areas, alive : BOOLEAN,
         master : Creatures \cup {NoCreature}, summons : SUBSET Monsters,
         attacked : Creatures \cup {NoCreature},
         friends : SUBSET Creatures, targets : SUBSET Creatures,
         idle : BOOLEAN, masterInRange : BOOLEAN, check : BOOLEAN, listed : BOOLEAN,
         toAdd : 0 .. 1, release : 0 .. MaxReleases + 3, client : BOOLEAN, useCount : Nat]
<1>2. ASSUME NEW c \in Creatures PROVE crea[c] \in T
  <2>1. crea[c] \in Records
    BY <1>0 DEF Worlds
  <2>2. /\ crea[c].toAdd \in 0 .. 1 /\ crea[c].release \in 0 .. MaxReleases + 3
        /\ crea[c].useCount \in Nat
    BY <1>1
  <2> QED BY <2>1, <2>2 DEF Records
<1>3. crea \in [Creatures -> T]
  <2>1. crea = [c \in Creatures |-> crea[c]]
    BY <1>0 DEF Worlds
  <2> HIDE DEF T
  <2> QED BY <1>2, <2>1
<1>4. vectors \in [0 .. Buckets - 1 -> [Creatures -> 0 .. 1]]
  <2>1. vectors \in [0 .. Buckets - 1 -> [Creatures -> Nat]]
    BY <1>0 DEF Books
  <2>2. ASSUME NEW b \in 0 .. Buckets - 1, NEW c \in Creatures PROVE vectors[b][c] \in 0 .. 1
    <3>1. vectors[b][c] \in Nat /\ vectors[b][c] <= InBuckets(vectors, c)
      BY <2>1, InBucketsBound
    <3> QED BY <1>1, <3>1
  <2>3. ASSUME NEW b \in 0 .. Buckets - 1 PROVE vectors[b] \in [Creatures -> 0 .. 1]
    <3>1. vectors[b] = [c \in Creatures |-> vectors[b][c]]
      BY <2>1
    <3> QED BY <2>2, <3>1
  <2>4. vectors = [b \in 0 .. Buckets - 1 |-> vectors[b]]
    BY <2>1
  <2> QED BY <2>3, <2>4
<1> QED BY <1>0, <1>3, <1>4 DEF TypeOK, Books

\* Every record and every counter stays in its range: a creature is in one bucket at most, and
\* ToReleaseThings holds it no more often than connects, the removal and the walk put it there.
THEOREM TypesHold ==
    Spec => []TypeOK
BY InvariantHolds, TypesFromInvariant, PTL

\* A creature's useCount is the number of places that hold it, through every removal, destruction,
\* login, walk over a bucket and cleanup: it is destroyed when nobody refers to it and not before.
THEOREM CountsHold ==
    Spec => []CountsMatchHolders
<1>1. IInv => CountsMatchHolders
  BY CountsFromInvariant DEF CountsMatchHolders, One
<1> QED BY <1>1, InvariantHolds, PTL

\* Every player, every monster that is awake and every creature that has died is in the buckets, or
\* about to enter them, and the spawn that misses a monster has its check scheduled.
THEOREM NobodyForgotten ==
    Spec => []NobodyIsForgotten
<1>1. ASSUME IInv PROVE NobodyIsForgotten
  <2>1. \A c \in Creatures : Tidy(crea, c) /\ Awake(crea, c)
    BY <1>1 DEF IInv, Good
  <2>2. Watched(crea, spawned, checkSpawnEvent)
    BY <1>1 DEF IInv
  <2>3. \A c \in Creatures :
          /\ crea[c].check => crea[c].listed /\ In(c)
          /\ In(c) /\ (c \in Players \/ ~crea[c].idle \/ ~crea[c].alive) => crea[c].check
    BY <2>1 DEF Tidy, Awake, Placed, In
  <2>4. checkSpawnEvent \/ (Cardinality(spawned) = SpawnSize /\ \A m \in spawned : In(m))
    BY <2>2 DEF Watched, Placed, In
  <2> QED BY <2>3, <2>4 DEF NobodyIsForgotten
<1> QED BY <1>1, InvariantHolds, PTL

\* The pointer to a master, which nothing counts, names the creature that lists the summon, and a
\* master leaves the game no later than its summons.
THEOREM SummonsKeepMasters ==
    Spec => []SummonsHaveMasters
<1>1. ASSUME IInv PROVE SummonsHaveMasters
  <2>1. Agree(crea) /\ Masters(crea)
    BY <1>1 DEF IInv, Good, Families
  <2> QED BY <2>1 DEF SummonsHaveMasters, Agree, Masters, In, Placed
<1> QED BY <1>1, InvariantHolds, PTL

\* attackedCreature, which nothing counts, never dangles, and never names who is out of sight.
THEOREM AttackedStayInSight ==
    Spec => []AttackedAreInSight
<1>1. ASSUME IInv PROVE AttackedAreInSight
  <2>1. \A c \in Creatures : Aims(crea, c)
    BY <1>1 DEF IInv, Good
  <2> QED BY <2>1 DEF AttackedAreInSight, Aims, In, Placed, Sees
<1> QED BY <1>1, InvariantHolds, PTL

-----------------------------------------------------------------------------
(* Who is noticed: a wild monster owes its attention to the players, and the  *)
(* summons of players, that it sees.                                          *)

Wild(K, m) == m \in Monsters /\ Placed(K, m) /\ K[m].alive /\ K[m].master = NoCreature
Prey(K, c) == Placed(K, c) /\ (c \in Players \/ isPlayerSummon(K, c))
Due(K, m, c) == Wild(K, m) /\ Prey(K, c) /\ Sees(K, m, c)
Minds(K, m, c) == c \in K[m].targets /\ ~K[m].idle

Alert(K) == \A m, c \in Creatures : Due(K, m, c) => Minds(K, m, c)

\* Between K and L nobody has come to be noticed, and no monster has let go of whom it owes its
\* attention, where x is not concerned.
Mindful(K, L, x) ==
    \A m, c \in Creatures :
        Due(L, m, c) => /\ Due(K, m, c)
                        /\ Minds(K, m, c) => Minds(L, m, c) \/ x \in {m, c}

\* Only m has changed its mind.
Own(K, L, m) ==
    \A d \in Creatures : d # m => L[d].targets = K[d].targets /\ L[d].idle = K[d].idle
Settled(K, L) ==
    \A d \in Creatures : L[d].targets = K[d].targets /\ L[d].idle = K[d].idle

LEMMA DueOpponent ==
    ASSUME NEW K, NEW m \in Creatures, NEW c \in Creatures, Due(K, m, c)
    PROVE  isOpponent(K, m, c) /\ c # m /\ m \in Monsters
<1>1. NoCreature \notin Players /\ m \notin Players
  BY CreaturesAssumption, CreaturesFinite DEF Due, Wild, Creatures
<1>2. c # m
  BY <1>1 DEF Due, Wild, Prey, isPlayerSummon
<1> QED BY <1>1, <1>2 DEF Due, Wild, Prey, isPlayerSummon, isOpponent

LEMMA SteadyDue ==
    ASSUME NEW K, NEW L, Steady(K, L), NEW m \in Creatures, NEW c \in Creatures
    PROVE  Due(L, m, c) <=> Due(K, m, c)
BY DEF Steady, Quiet, Due, Wild, Prey, Placed, isPlayerSummon, Sees

LEMMA MindfulItself ==
    ASSUME NEW K, NEW x
    PROVE  Mindful(K, K, x)
BY DEF Mindful

LEMMA MindfulTransitive ==
    ASSUME NEW K, NEW L, NEW M, NEW x, Mindful(K, L, x), Mindful(L, M, x)
    PROVE  Mindful(K, M, x)
<1> SUFFICES ASSUME NEW m \in Creatures, NEW c \in Creatures, Due(M, m, c)
             PROVE  /\ Due(K, m, c)
                    /\ Minds(K, m, c) => Minds(M, m, c) \/ x \in {m, c}
  BY DEF Mindful
<1>1. /\ Due(L, m, c)
      /\ Minds(L, m, c) => Minds(M, m, c) \/ x \in {m, c}
  BY DEF Mindful
<1>2. /\ Due(K, m, c)
      /\ Minds(K, m, c) => Minds(L, m, c) \/ x \in {m, c}
  BY <1>1 DEF Mindful
<1> QED BY <1>1, <1>2

\* What spares nobody spares all the others.
LEMMA MindfulBut ==
    ASSUME NEW K, NEW L, NEW x, Mindful(K, L, NoCreature)
    PROVE  Mindful(K, L, x)
BY CreaturesFinite DEF Mindful

LEMMA MindfulAlert ==
    ASSUME NEW K, NEW L, Alert(K), Mindful(K, L, NoCreature)
    PROVE  Alert(L)
BY CreaturesFinite DEF Mindful, Alert

LEMMA SettledMindful ==
    ASSUME NEW K, NEW L, Steady(K, L), Settled(K, L)
    PROVE  Mindful(K, L, NoCreature)
BY SteadyDue DEF Mindful, Settled, Minds

\* m goes on minding whom it owes its attention, but for x.
LEMMA OwnMindful ==
    ASSUME NEW K, NEW L, Steady(K, L), NEW m \in Creatures, Own(K, L, m), NEW x,
           \A d \in Creatures : Due(K, m, d) /\ Minds(K, m, d) => Minds(L, m, d) \/ x \in {m, d}
    PROVE  Mindful(K, L, x)
<1> SUFFICES ASSUME NEW y \in Creatures, NEW d \in Creatures, Due(L, y, d)
             PROVE  /\ Due(K, y, d)
                    /\ Minds(K, y, d) => Minds(L, y, d) \/ x \in {y, d}
  BY DEF Mindful
<1>1. Due(K, y, d)
  BY SteadyDue
<1>2. CASE y = m
  BY <1>1, <1>2
<1>3. CASE y # m
  BY <1>1, <1>3 DEF Own, Minds
<1> QED BY <1>1, <1>2, <1>3

LEMMA OwnTransitive ==
    ASSUME NEW K, NEW L, NEW M, NEW m, Own(K, L, m), Own(L, M, m)
    PROVE  Own(K, M, m)
BY DEF Own

LEMMA SettledTransitive ==
    ASSUME NEW K, NEW L, NEW M, Settled(K, L), Settled(L, M)
    PROVE  Settled(K, M)
BY DEF Settled

LEMMA SettledOwn ==
    ASSUME NEW K, NEW L, NEW m, Settled(K, L)
    PROVE  Own(K, L, m)
BY DEF Own, Settled

-----------------------------------------------------------------------------
(* What becomes of the minds of monsters. *)

LEMMA useThing2Settled ==
    ASSUME NEW K \in Worlds, NEW c
    PROVE  Settled(K, useThing2(K, c))
BY DEF Settled, useThing2, Worlds, Records

LEMMA letGoMinds ==
    ASSUME NEW K \in Worlds, NEW m \in Creatures, NEW f, NEW t
    PROVE  /\ Own(K, letGo(K, m, f, t), m)
           /\ letGo(K, m, f, t)[m].idle = K[m].idle
           /\ letGo(K, m, f, t)[m].targets = K[m].targets \ t
<1> DEFINE F == releaseAll(K, f)
           T == releaseAll(F, t)
           L == letGo(K, m, f, t)
<1>1. F \in Worlds /\ \A d \in Creatures : F[d] = [K[d] EXCEPT !.useCount = K[d].useCount - One(d \in f)]
  BY releaseAllFields
<1>2. T \in Worlds /\ \A d \in Creatures : T[d] = [F[d] EXCEPT !.useCount = F[d].useCount - One(d \in t)]
  BY <1>1, releaseAllFields
<1>3. L = [T EXCEPT ![m].friends = @ \ f, ![m].targets = @ \ t]
  BY DEF letGo
<1> HIDE DEF F, T, L
<1>4. ASSUME NEW d \in Creatures
      PROVE  T[d].targets = K[d].targets /\ T[d].idle = K[d].idle
  <2>1. F[d].targets = K[d].targets /\ F[d].idle = K[d].idle
    BY <1>1 DEF Worlds, Records
  <2>2. T[d].targets = F[d].targets /\ T[d].idle = F[d].idle
    BY <1>1, <1>2 DEF Worlds, Records
  <2> QED BY <2>1, <2>2
<1>5. /\ L[m].targets = T[m].targets \ t /\ L[m].idle = T[m].idle
      /\ \A d \in Creatures : d # m => L[d] = T[d]
  BY <1>2, <1>3 DEF Worlds, Records
<1>6. /\ Own(K, L, m) /\ L[m].idle = K[m].idle /\ L[m].targets = K[m].targets \ t
  BY <1>4, <1>5 DEF Own
<1> QED BY <1>6 DEF L

LEMMA removeCreatureCheckSettled ==
    ASSUME NEW K \in Worlds, NEW m \in Creatures
    PROVE  Settled(K, removeCreatureCheck(K, m))
<1>1. \A b \in BOOLEAN : Settled(K, [K EXCEPT ![m].check = b])
  BY DEF Settled, Worlds, Records
<1>2. Settled(K, K)
  BY DEF Settled
<1> QED BY <1>1, <1>2 DEF removeCreatureCheck

LEMMA addCreatureCheckSettled ==
    ASSUME NEW K \in Worlds, NEW m \in Creatures
    PROVE  Settled(K, addCreatureCheck(K, m))
<1> DEFINE N == [K EXCEPT ![m].check = TRUE, ![m].listed = TRUE, ![m].toAdd = @ + 1]
<1>1. \A b \in BOOLEAN : Settled(K, [K EXCEPT ![m].check = b])
  BY DEF Settled, Worlds, Records
<1>2. Settled(K, K)
  BY DEF Settled
<1>3. Settled(K, useThing2(N, m))
  <2> DEFINE q == [K[m] EXCEPT !.check = TRUE, !.listed = TRUE, !.toAdd = @ + 1]
  <2>1. N = [K EXCEPT ![m] = q]
    BY DEF Worlds, Records
  <2>2. q \in Records /\ q.targets = K[m].targets /\ q.idle = K[m].idle
    <3>1. K[m] \in Records /\ K[m].toAdd + 1 \in Nat
      BY DEF Worlds, Records
    <3>2. \A b \in BOOLEAN, n \in Nat :
            /\ [K[m] EXCEPT !.check = b, !.listed = b, !.toAdd = n] \in Records
            /\ [K[m] EXCEPT !.check = b, !.listed = b, !.toAdd = n].targets = K[m].targets
            /\ [K[m] EXCEPT !.check = b, !.listed = b, !.toAdd = n].idle = K[m].idle
      BY <3>1 DEF Records
    <3> QED BY <3>1, <3>2
  <2> HIDE DEF q, N
  <2>3. N \in Worlds /\ Settled(K, N)
    BY <2>1, <2>2 DEF Settled, Worlds
  <2> HIDE DEF N
  <2> QED BY <2>3, useThing2Settled, SettledTransitive
<1> QED BY <1>1, <1>2, <1>3 DEF addCreatureCheck
LEMMA setIdleMinds ==
    ASSUME NEW K \in Worlds, NEW m \in Creatures, NEW b \in BOOLEAN
    PROVE  /\ Own(K, setIdle(K, m, b), m)
           /\ K[m].stage = "in" /\ K[m].alive
                => /\ setIdle(K, m, b)[m].idle = b
                   /\ setIdle(K, m, b)[m].targets = IF b THEN {} ELSE K[m].targets
<1> DEFINE I == [K EXCEPT ![m].idle = b]
           C == clearLists(I, m)
           L == setIdle(K, m, b)
<1>1. CASE K[m].stage = "gone" \/ ~K[m].alive
  <2>1. L = K
    BY <1>1 DEF setIdle
  <2> QED BY <1>1, <2>1 DEF Own
<1>2. CASE ~(K[m].stage = "gone" \/ ~K[m].alive)
  <2>1. L = IF b THEN removeCreatureCheck(C, m) ELSE addCreatureCheck(I, m)
    BY <1>2 DEF setIdle
  <2> HIDE DEF L
  <2>2. I \in Worlds /\ Own(K, I, m) /\ I[m].idle = b /\ I[m].targets = K[m].targets
    <3>1. \A x \in BOOLEAN :
            /\ [K EXCEPT ![m].idle = x] \in Worlds /\ Own(K, [K EXCEPT ![m].idle = x], m)
            /\ [K EXCEPT ![m].idle = x][m].idle = x
            /\ [K EXCEPT ![m].idle = x][m].targets = K[m].targets
      BY DEF Worlds, Records, Own
    <3> QED BY <3>1
  <2> HIDE DEF I
  <2>3. Own(I, C, m) /\ C[m].idle = I[m].idle /\ C[m].targets = {} /\ C \in Worlds
    <3>1. Own(I, C, m) /\ C[m].idle = I[m].idle /\ C[m].targets = I[m].targets \ I[m].targets
      BY <2>2, letGoMinds DEF clearLists
    <3>2. C \in Worlds
      BY <2>2, clearListsSteady DEF Steady
    <3> QED BY <3>1, <3>2
  <2> HIDE DEF C
  <2>4. CASE b
    <3>1. Settled(C, L)
      BY <2>1, <2>3, <2>4, removeCreatureCheckSettled
    <3>2. Own(K, L, m)
      BY <2>2, <2>3, <3>1, SettledOwn, OwnTransitive
    <3> QED BY <2>2, <2>3, <2>4, <3>1, <3>2 DEF Settled, L
  <2>5. CASE ~b
    <3>1. Settled(I, L)
      BY <2>1, <2>2, <2>5, addCreatureCheckSettled
    <3>2. Own(K, L, m)
      BY <2>2, <3>1, SettledOwn, OwnTransitive
    <3> QED BY <2>2, <2>5, <3>1, <3>2 DEF Settled, L
  <2> QED BY <2>4, <2>5
<1> QED BY <1>1, <1>2

\* A monster rests if it has no target.
LEMMA updateIdleStatusMinds ==
    ASSUME NEW K \in Worlds, NEW m \in Creatures
    PROVE  /\ Own(K, updateIdleStatus(K, m), m)
           /\ Wild(K, m) => /\ updateIdleStatus(K, m)[m].targets = K[m].targets
                            /\ K[m].targets # {} => ~updateIdleStatus(K, m)[m].idle
<1> DEFINE x == K[m].master
           b == IF x = NoCreature THEN K[m].targets = {}
                ELSE ~K[m].masterInRange \/ (x \in Monsters /\ K[x].idle)
           L == updateIdleStatus(K, m)
<1>1. b \in BOOLEAN /\ (Wild(K, m) => b = (K[m].targets = {}))
  BY DEF Worlds, Records, Wild
<1>2. L = setIdle(K, m, b)
  BY DEF updateIdleStatus
<1> HIDE DEF b, L
<1>3. /\ Own(K, L, m)
      /\ K[m].stage = "in" /\ K[m].alive
           => L[m].idle = b /\ L[m].targets = IF b THEN {} ELSE K[m].targets
  BY <1>1, <1>2, setIdleMinds
<1>4. Wild(K, m) => L[m].idle = b /\ L[m].targets = IF b THEN {} ELSE K[m].targets
  BY <1>3 DEF Wild, Placed
<1>5. Wild(K, m) => L[m].targets = K[m].targets /\ (K[m].targets # {} => ~L[m].idle)
  BY <1>1, <1>4
<1> QED BY <1>3, <1>5 DEF L

\* Whom a wild monster has among its targets it minds afterwards.
LEMMA updateIdleStatusMindful ==
    ASSUME NEW K \in Worlds, NEW m \in Monsters, K[m].stage # "none"
    PROVE  /\ Mindful(K, updateIdleStatus(K, m), NoCreature)
           /\ \A d \in Creatures :
                Due(K, m, d) /\ d \in K[m].targets => Minds(updateIdleStatus(K, m), m, d)
<1> DEFINE L == updateIdleStatus(K, m)
<1>0. m \in Creatures
  BY DEF Creatures
<1>1. /\ Own(K, L, m)
      /\ Wild(K, m) => L[m].targets = K[m].targets /\ (K[m].targets # {} => ~L[m].idle)
  BY <1>0, updateIdleStatusMinds
<1>2. Steady(K, L)
  BY updateIdleStatusSteady
<1> HIDE DEF L
<1>3. \A d \in Creatures : Due(K, m, d) /\ d \in K[m].targets => Minds(L, m, d)
  BY <1>1 DEF Due, Minds
<1>4. Mindful(K, L, NoCreature)
  <2>1. \A d \in Creatures : Due(K, m, d) /\ Minds(K, m, d) => Minds(L, m, d) \/ NoCreature \in {m, d}
    BY <1>3 DEF Minds
  <2> QED BY <1>0, <1>1, <1>2, <2>1, OwnMindful
<1> QED BY <1>3, <1>4 DEF L

LEMMA masterInRangeMinds ==
    ASSUME NEW K \in Worlds, NEW m \in Creatures, NEW b \in BOOLEAN
    PROVE  /\ Settled(K, [K EXCEPT ![m].masterInRange = b])
           /\ Mindful(K, [K EXCEPT ![m].masterInRange = b], NoCreature)
<1>1. Settled(K, [K EXCEPT ![m].masterInRange = b])
  BY DEF Settled, Worlds, Records
<1> QED BY <1>1, SettledMindful, masterInRangeSteady

LEMMA onCreatureFoundMindful ==
    ASSUME NEW K \in Worlds, NEW m \in Monsters, NEW c \in Creatures, K[m].stage # "none"
    PROVE  /\ Mindful(K, onCreatureFound(K, m, c), NoCreature)
           /\ Own(K, onCreatureFound(K, m, c), m)
           /\ Due(K, m, c) => Minds(onCreatureFound(K, m, c), m, c)
           /\ \A d \in Creatures : Due(K, m, d) /\ d \in K[m].targets
                => Minds(onCreatureFound(K, m, c), m, d)
<1> DEFINE F == IF isFriend(K, m, c) /\ c \notin K[m].friends THEN befriend(K, m, c) ELSE K
           T == IF isOpponent(F, m, c) /\ c \notin F[m].targets THEN target(F, m, c) ELSE F
           L == onCreatureFound(K, m, c)
<1>0. m \in Creatures
  BY DEF Creatures
<1>1. L = updateIdleStatus(T, m)
  BY DEF onCreatureFound, befriend, target
<1>2. Steady(K, F)
  BY <1>0, befriendSteady, SteadyItself
<1>3. Settled(K, F)
  <2>1. Settled(K, befriend(K, m, c))
    <3> DEFINE I == [K EXCEPT ![m].friends = @ \cup {c}]
    <3>1. I \in Worlds /\ Settled(K, I)
      BY <1>0 DEF Settled, Worlds, Records
    <3> HIDE DEF I
    <3>2. Settled(I, useThing2(I, c))
      BY <3>1, useThing2Settled
    <3>3. Settled(K, useThing2(I, c))
      BY <3>1, <3>2, SettledTransitive
    <3> QED BY <3>3 DEF befriend, I
  <2>2. Settled(K, K)
    BY DEF Settled
  <2> QED BY <2>1, <2>2
<1>4. F \in Worlds /\ F[m].stage # "none"
  BY <1>0, <1>2 DEF Steady
<1> HIDE DEF F, L
<1>5. Steady(F, T)
  BY <1>0, <1>4, targetSteady, SteadyItself
<1>6. Own(F, T, m) /\ F[m].targets \subseteq T[m].targets /\ (isOpponent(F, m, c) => c \in T[m].targets)
  <2>1. Own(F, target(F, m, c), m) /\ target(F, m, c)[m].targets = F[m].targets \cup {c}
    <3> DEFINE I == [F EXCEPT ![m].targets = @ \cup {c}]
    <3>1. I \in Worlds /\ Own(F, I, m) /\ I[m].targets = F[m].targets \cup {c}
      BY <1>0, <1>4 DEF Own, Worlds, Records
    <3> HIDE DEF I
    <3>2. Settled(I, useThing2(I, c))
      BY <3>1, useThing2Settled
    <3>3. Own(F, useThing2(I, c), m) /\ useThing2(I, c)[m].targets = F[m].targets \cup {c}
      BY <1>0, <3>1, <3>2, SettledOwn, OwnTransitive DEF Settled
    <3> QED BY <3>3 DEF target, I
  <2>2. Own(F, F, m)
    BY DEF Own
  <2> QED BY <2>1, <2>2
<1>7. T \in Worlds /\ T[m].stage # "none"
  BY <1>0, <1>4, <1>5 DEF Steady
<1> HIDE DEF T
<1>8. /\ Own(T, L, m) /\ Steady(T, L)
      /\ \A d \in Creatures : Due(T, m, d) /\ d \in T[m].targets => Minds(L, m, d)
  BY <1>0, <1>1, <1>7, updateIdleStatusMinds, updateIdleStatusMindful, updateIdleStatusSteady
<1>9. Own(K, L, m) /\ Steady(K, L)
  BY <1>2, <1>3, <1>5, <1>6, <1>8, SettledOwn, OwnTransitive, SteadyTransitive
<1>10. ASSUME NEW d \in Creatures PROVE Due(T, m, d) <=> Due(K, m, d)
  BY <1>0, <1>2, <1>5, SteadyTransitive, SteadyDue
<1>11. \A d \in Creatures : Due(K, m, d) /\ d \in K[m].targets => Minds(L, m, d)
  BY <1>0, <1>3, <1>6, <1>8, <1>10 DEF Settled
<1>12. Due(K, m, c) => Minds(L, m, c)
  <2>1. Due(K, m, c) => Due(F, m, c)
    BY <1>0, <1>2, SteadyDue
  <2> QED BY <1>0, <1>6, <1>8, <1>10, <2>1, DueOpponent
<1>13. Mindful(K, L, NoCreature)
  <2>1. \A d \in Creatures : Due(K, m, d) /\ Minds(K, m, d) => Minds(L, m, d) \/ NoCreature \in {m, d}
    BY <1>11 DEF Minds
  <2> QED BY <1>0, <1>9, <2>1, OwnMindful
<1> QED BY <1>9, <1>11, <1>12, <1>13 DEF L
LEMMA onCreatureEnterMindful ==
    ASSUME NEW K \in Worlds, NEW m \in Monsters, NEW c \in Creatures, K[m].stage # "none"
    PROVE  /\ Mindful(K, onCreatureEnter(K, m, c), NoCreature)
           /\ Due(K, m, c) => Minds(onCreatureEnter(K, m, c), m, c)
<1> DEFINE R == [K EXCEPT ![m].masterInRange = TRUE]
           E == IF K[m].master = c THEN updateIdleStatus(R, m) ELSE K
           L == onCreatureEnter(K, m, c)
<1>0. m \in Creatures
  BY DEF Creatures
<1>1. L = onCreatureFound(E, m, c)
  BY DEF onCreatureEnter
<1> HIDE DEF L
<1>2. Mindful(K, R, NoCreature) /\ Steady(K, R)
  BY <1>0, masterInRangeMinds, masterInRangeSteady
<1>3. R \in Worlds /\ R[m].stage # "none"
  BY <1>0, <1>2 DEF Steady
<1> HIDE DEF R
<1>4. Mindful(R, updateIdleStatus(R, m), NoCreature) /\ Steady(R, updateIdleStatus(R, m))
  BY <1>3, updateIdleStatusMindful, updateIdleStatusSteady
<1>5. Mindful(K, E, NoCreature) /\ Steady(K, E)
  BY <1>2, <1>4, MindfulTransitive, MindfulItself, SteadyTransitive, SteadyItself
<1>6. E \in Worlds /\ E[m].stage # "none"
  BY <1>0, <1>5 DEF Steady
<1> HIDE DEF E
<1>7. Mindful(E, L, NoCreature) /\ (Due(E, m, c) => Minds(L, m, c))
  BY <1>1, <1>6, onCreatureFoundMindful
<1>8. Due(E, m, c) <=> Due(K, m, c)
  BY <1>0, <1>5, SteadyDue
<1> QED BY <1>5, <1>7, <1>8, MindfulTransitive DEF L

\* m forgets c and nobody else.
LEMMA onCreatureLeaveMindful ==
    ASSUME NEW K \in Worlds, NEW m \in Monsters, NEW c \in Creatures, K[m].stage # "none"
    PROVE  /\ Mindful(K, onCreatureLeave(K, m, c), c)
           /\ ~Due(K, m, c) => Mindful(K, onCreatureLeave(K, m, c), NoCreature)
<1> DEFINE R == [K EXCEPT ![m].masterInRange = FALSE]
           A == IF K[m].master = c THEN updateIdleStatus(R, m) ELSE K
           F == IF isFriend(A, m, c) /\ c \in A[m].friends THEN letGo(A, m, {c}, {}) ELSE A
           T == letGo(F, m, {}, {c})
           U == IF T[m].targets = {} THEN updateIdleStatus(T, m) ELSE T
           L == onCreatureLeave(K, m, c)
<1>0. m \in Creatures
  BY DEF Creatures
<1>1. L = IF isOpponent(F, m, c) /\ c \in F[m].targets THEN U ELSE F
  BY DEF onCreatureLeave
<1> HIDE DEF L
<1>2. Mindful(K, R, NoCreature) /\ Steady(K, R)
  BY <1>0, masterInRangeMinds, masterInRangeSteady
<1>3. R \in Worlds /\ R[m].stage # "none"
  BY <1>0, <1>2 DEF Steady
<1> HIDE DEF R
<1>4. Mindful(R, updateIdleStatus(R, m), NoCreature) /\ Steady(R, updateIdleStatus(R, m))
  BY <1>3, updateIdleStatusMindful, updateIdleStatusSteady
<1>5. Mindful(K, A, NoCreature) /\ Steady(K, A)
  BY <1>2, <1>4, MindfulTransitive, MindfulItself, SteadyTransitive, SteadyItself
<1>6. A \in Worlds /\ A[m].stage # "none"
  BY <1>0, <1>5 DEF Steady
<1> HIDE DEF A
<1>7. Mindful(A, F, NoCreature) /\ Steady(A, F)
  <2>1. CASE c \in A[m].friends
    <3> DEFINE G == letGo(A, m, {c}, {})
    <3>1. Steady(A, G)
      BY <1>0, <1>6, <2>1, letGoSteady
    <3> DEFINE e == {}
    <3>2. /\ Own(A, letGo(A, m, {c}, e), m) /\ letGo(A, m, {c}, e)[m].idle = A[m].idle
          /\ letGo(A, m, {c}, e)[m].targets = A[m].targets \ e
      <4> HIDE DEF e
      <4> QED BY <1>0, <1>6, letGoMinds
    <3>3. Own(A, G, m) /\ G[m].idle = A[m].idle /\ G[m].targets = A[m].targets \ {}
      BY <3>2
    <3> HIDE DEF G
    <3>4. Settled(A, G)
      BY <3>3 DEF Own, Settled
    <3> QED BY <1>6, <3>1, <3>4, SettledMindful, MindfulItself, SteadyItself DEF G
  <2>2. CASE c \notin A[m].friends
    BY <1>6, <2>2, MindfulItself, SteadyItself
  <2> QED BY <2>1, <2>2
<1>8. F \in Worlds /\ F[m].stage # "none"
  BY <1>0, <1>6, <1>7 DEF Steady
<1> HIDE DEF F
<1>9. Mindful(K, F, NoCreature) /\ Steady(K, F)
  BY <1>5, <1>7, MindfulTransitive, SteadyTransitive
<1>10. ASSUME c \in F[m].targets
       PROVE  Mindful(F, U, c) /\ (~Due(F, m, c) => Mindful(F, U, NoCreature))
  <2>1. Steady(F, T)
    BY <1>0, <1>8, <1>10, letGoSteady
  <2>2. Own(F, T, m) /\ T[m].idle = F[m].idle /\ T[m].targets = F[m].targets \ {c}
    BY <1>0, <1>8, letGoMinds
  <2>3. T \in Worlds /\ T[m].stage # "none"
    BY <1>0, <1>8, <2>1 DEF Steady
  <2> HIDE DEF T
  <2>4. Mindful(T, updateIdleStatus(T, m), NoCreature)
    BY <2>3, updateIdleStatusMindful
  <2>5. Mindful(T, U, NoCreature)
    BY <2>4, MindfulItself
  <2> HIDE DEF U
  <2>6. Mindful(F, T, c)
    <3>1. \A d \in Creatures : Due(F, m, d) /\ Minds(F, m, d) => Minds(T, m, d) \/ c \in {m, d}
      BY <2>2 DEF Minds
    <3> QED BY <1>0, <2>1, <2>2, <3>1, OwnMindful
  <2>7. ASSUME ~Due(F, m, c) PROVE Mindful(F, T, NoCreature)
    <3>1. \A d \in Creatures : Due(F, m, d) /\ Minds(F, m, d) => Minds(T, m, d) \/ NoCreature \in {m, d}
      BY <2>2, <2>7 DEF Minds
    <3> QED BY <1>0, <2>1, <2>2, <3>1, OwnMindful
  <2> QED BY <2>5, <2>6, <2>7, MindfulBut, MindfulTransitive
<1> HIDE DEF U
<1>11. Mindful(F, L, c) /\ (~Due(F, m, c) => Mindful(F, L, NoCreature))
  BY <1>1, <1>10, MindfulItself
<1>12. Due(F, m, c) <=> Due(K, m, c)
  BY <1>0, <1>9, SteadyDue
<1> QED BY <1>9, <1>11, <1>12, MindfulBut, MindfulTransitive DEF L

LEMMA letOffMindful ==
    ASSUME NEW K \in Worlds, NEW c \in Creatures
    PROVE  Mindful(K, setAttackedCreature(K, c, NoCreature), NoCreature)
<1> DEFINE L == setAttackedCreature(K, c, NoCreature)
           S == K[c].summons \cup {c}
<1>1. L = [d \in Creatures |-> IF d \in S THEN [K[d] EXCEPT !.attacked = NoCreature] ELSE K[d]]
  BY DEF setAttackedCreature
<1>2. Settled(K, L)
  <2> HIDE DEF S
  <2> QED BY <1>1 DEF Settled, Worlds, Records
<1> HIDE DEF S
<1>3. Steady(K, L)
  BY letOffSteady
<1> QED BY <1>2, <1>3, SettledMindful

LEMMA internalCreatureDisappearMindful ==
    ASSUME NEW K \in Worlds, NEW m \in Creatures, NEW c
    PROVE  Mindful(K, internalCreatureDisappear(K, m, c), NoCreature)
BY letOffMindful, MindfulItself DEF internalCreatureDisappear

LEMMA onCreatureDisappearMindful ==
    ASSUME NEW K \in Worlds, NEW m \in Creatures, NEW c \in Creatures, K[m].stage # "none"
    PROVE  Mindful(K, onCreatureDisappear(K, m, c), c)
<1> DEFINE A == internalCreatureDisappear(K, m, c)
           L == onCreatureDisappear(K, m, c)
<1>0. m \in Players \/ m \in Monsters
  BY DEF Creatures
<1>1. Mindful(K, A, NoCreature) /\ Steady(K, A)
  BY internalCreatureDisappearMindful, internalCreatureDisappearSteady
<1>2. A \in Worlds /\ A[m].stage # "none"
  BY <1>1 DEF Steady
<1>3. L = IF m \in Players THEN A ELSE IF m = c THEN setIdle(A, m, TRUE) ELSE onCreatureLeave(A, m, c)
  BY DEF onCreatureDisappear
<1> HIDE DEF A, L
<1>4. Mindful(A, L, c)
  <2>1. CASE m \in Players
    BY <1>3, <2>1, MindfulItself
  <2>2. CASE m \notin Players /\ m = c
    <3>1. L = setIdle(A, m, TRUE)
      BY <1>3, <2>2
    <3>2. Own(A, L, m) /\ Steady(A, L)
      BY <1>0, <1>2, <2>2, <3>1, setIdleMinds, setIdleSteady
    <3> QED BY <2>2, <3>2, OwnMindful
  <2>3. CASE m \notin Players /\ m # c
    BY <1>0, <1>2, <1>3, <2>3, onCreatureLeaveMindful
  <2> QED BY <2>1, <2>2, <2>3
<1> QED BY <1>1, <1>4, MindfulBut, MindfulTransitive DEF L

-----------------------------------------------------------------------------
(* Looking around. *)

LEMMA updateTargetListMindful ==
    ASSUME NEW K \in Worlds, NEW m \in Monsters, NEW o \in Orders, K[m].stage # "none"
    PROVE  /\ Mindful(K, updateTargetList(K, m, o), NoCreature)
           /\ \A d \in Creatures : Due(K, m, d) => Minds(updateTargetList(K, m, o), m, d)
<1> DEFINE f == {c \in K[m].friends : ~K[c].alive \/ ~Sees(K, m, c)}
           t == {c \in K[m].targets : ~K[c].alive \/ ~Sees(K, m, c)}
           D == letGo(K, m, f, t)
           S == Spectators(K, {K[m].area}) \ {m}
           W == {X \in Worlds : Steady(D, X) /\ Own(D, X, m)}
           n == Len(o)
           U == updateTargetList(K, m, o)
<1>0. m \in Creatures /\ \A d \in Creatures : Due(K, m, d) => d \in S
  <2>1. m \in Creatures
    BY DEF Creatures
  <2> QED BY <2>1, DueOpponent DEF Due, Prey, Spectators, Sees
<1>00. \A d \in S : d \in Creatures
  BY DEF Spectators
<1>1. Steady(K, D) /\ Own(K, D, m)
  BY <1>0, letGoSteady, letGoMinds
<1>2. D \in Worlds /\ D[m].stage # "none"
  BY <1>0, <1>1 DEF Steady
<1>3. U = LookedFor(D, S, o, m)
  BY DEF updateTargetList, LookedFor, InTurn
<1> HIDE DEF D, S, U
<1>4. ASSUME NEW X \in W, NEW d \in S
      PROVE  /\ onCreatureFound(X, m, d) \in W
             /\ Due(K, m, d) => Minds(onCreatureFound(X, m, d), m, d)
             /\ \A e \in Creatures : Due(K, m, e) /\ e \in X[m].targets
                  => Minds(onCreatureFound(X, m, d), m, e)
  <2>1. X[m].stage # "none" /\ X \in Worlds /\ d \in Creatures
    BY <1>0, <1>00, <1>2 DEF Steady
  <2>2. /\ Steady(X, onCreatureFound(X, m, d)) /\ Own(X, onCreatureFound(X, m, d), m)
        /\ Due(X, m, d) => Minds(onCreatureFound(X, m, d), m, d)
        /\ \A e \in Creatures : Due(X, m, e) /\ e \in X[m].targets
                  => Minds(onCreatureFound(X, m, d), m, e)
    BY <2>1, onCreatureFoundSteady, onCreatureFoundMindful
  <2>3. onCreatureFound(X, m, d) \in W
    BY <2>2, SteadyTransitive, OwnTransitive DEF Steady
  <2>4. Steady(K, X)
    BY <1>1, SteadyTransitive
  <2>5. \A e \in Creatures : Due(X, m, e) <=> Due(K, m, e)
    BY <1>0, <2>4, SteadyDue
  <2> QED BY <2>1, <2>2, <2>3, <2>5
<1>5. D \in W
  BY <1>2, SteadyItself DEF Own
<1>6. \A X \in W : Steady(D, X) /\ Own(D, X, m)
  OBVIOUS
<1> HIDE DEF W, f, t
<1>7. PICK h \in [0 .. n -> W] : LookedForRun(h, D, S, o, m)
  <2>1. \A X \in W, d \in S : onCreatureFound(X, m, d) \in W
    BY <1>4
  <2> QED BY <1>5, <2>1, LookedForTurns
<1>8. n \in Nat
  BY OrdersReachAll
<1> HIDE DEF n
<1>9. /\ \A i \in 1 .. n : h[i - 1] \in W /\ h[i] = IF o[i] \in S THEN onCreatureFound(h[i - 1], m, o[i]) ELSE h[i - 1]
      /\ U = h[n] /\ h[n] \in W
  BY <1>3, <1>7, <1>8 DEF n, LookedForRun
<1>10. ASSUME NEW d \in Creatures, Due(K, m, d) PROVE Minds(h[n], m, d)
  <2> DEFINE Z == {X \in W : Minds(X, m, d)}
  <2>0. d \in S
    BY <1>0, <1>10
  <2>1. ASSUME NEW i \in 1 .. n, o[i] = d \/ h[i - 1] \in Z PROVE h[i] \in Z
    <3>1. CASE o[i] \in S
      <4>1. h[i] = onCreatureFound(h[i - 1], m, o[i]) /\ h[i - 1] \in W
        BY <1>9, <3>1
      <4>2. h[i] \in W
        BY <1>4, <3>1, <4>1
      <4>3. CASE o[i] = d
        BY <1>4, <1>10, <3>1, <4>1, <4>2, <4>3
      <4>4. CASE d \in h[i - 1][m].targets
        BY <1>4, <1>10, <3>1, <4>1, <4>2, <4>4
      <4> QED BY <2>1, <4>3, <4>4 DEF Minds
    <3>2. CASE o[i] \notin S
      BY <1>9, <2>0, <2>1, <3>2
    <3> QED BY <3>1, <3>2
  <2> HIDE DEF Z
  <2>2. h[n] \in Z
    BY <2>1, TurnsReach DEF n
  <2> QED BY <2>2 DEF Z
<1>11. Steady(K, U) /\ Own(K, U, m)
  BY <1>1, <1>6, <1>9, SteadyTransitive, OwnTransitive
<1>12. Mindful(K, U, NoCreature)
  <2>1. \A d \in Creatures : Due(K, m, d) /\ Minds(K, m, d) => Minds(U, m, d) \/ NoCreature \in {m, d}
    BY <1>9, <1>10
  <2> QED BY <1>0, <1>11, <2>1, OwnMindful
<1> QED BY <1>9, <1>10, <1>12 DEF U

\* A monster that has looked around minds everybody it owes its attention.
LEMMA LookAroundMindful ==
    ASSUME NEW K \in Worlds, NEW m \in Monsters, NEW o \in Orders, K[m].stage # "none"
    PROVE  /\ Mindful(K, LookAround(K, m, o), NoCreature)
           /\ \A d \in Creatures : Due(K, m, d) => Minds(LookAround(K, m, o), m, d)
<1> DEFINE U == updateTargetList(K, m, o)
           L == LookAround(K, m, o)
<1>0. m \in Creatures
  BY DEF Creatures
<1>1. /\ Steady(K, U) /\ Mindful(K, U, NoCreature)
      /\ \A d \in Creatures : Due(K, m, d) => Minds(U, m, d)
  BY updateTargetListSteady, updateTargetListMindful
<1>2. U \in Worlds /\ U[m].stage # "none"
  BY <1>0, <1>1 DEF Steady
<1>3. L = updateIdleStatus(U, m)
  BY DEF LookAround
<1> HIDE DEF U, L
<1>4. /\ Mindful(U, L, NoCreature)
      /\ \A d \in Creatures : Due(U, m, d) /\ d \in U[m].targets => Minds(L, m, d)
  BY <1>2, <1>3, updateIdleStatusMindful
<1>5. \A d \in Creatures : Due(U, m, d) <=> Due(K, m, d)
  BY <1>0, <1>1, SteadyDue
<1> QED BY <1>1, <1>4, <1>5, MindfulTransitive DEF L, Minds
-----------------------------------------------------------------------------
(* Losing creatures. *)

\* Nobody has come to be noticed or changed its mind.
LEMMA SparseMindful ==
    ASSUME NEW K, NEW L, Settled(K, L),
           \A m, c \in Creatures : Due(L, m, c) => Due(K, m, c)
    PROVE  Mindful(K, L, NoCreature)
BY DEF Mindful, Settled, Minds

LEMMA hurtMindful ==
    ASSUME NEW K \in Worlds, NEW c \in Creatures, NEW alive \in BOOLEAN, alive => K[c].alive
    PROVE  Mindful(K, [K EXCEPT ![c].alive = alive], NoCreature)
<1> DEFINE L == [K EXCEPT ![c].alive = alive]
<1>1. ASSUME NEW d \in Creatures
      PROVE  /\ L[d].stage = K[d].stage /\ L[d].area = K[d].area /\ (L[d].alive => K[d].alive)
             /\ L[d].master = K[d].master /\ L[d].targets = K[d].targets /\ L[d].idle = K[d].idle
  BY DEF Worlds, Records
<1> HIDE DEF L
<1>2. Settled(K, L)
  BY <1>1 DEF Settled
<1>3. ASSUME NEW m \in Creatures, NEW d \in Creatures, Due(L, m, d) PROVE Due(K, m, d)
  BY <1>1, <1>3 DEF Due, Wild, Prey, Placed, Sees, isPlayerSummon
<1>4. Mindful(K, L, NoCreature)
  BY <1>2, <1>3, SparseMindful
<1> QED BY <1>4 DEF L

LEMMA changeHealthMindful ==
    ASSUME NEW K \in Worlds, NEW c \in Creatures, NEW alive \in BOOLEAN,
           K[c].stage # "none", alive => K[c].alive
    PROVE  /\ Mindful(K, changeHealth(K, c, alive), NoCreature)
           /\ changeHealth(K, c, alive)[c].alive = alive
<1> DEFINE A == IF c \in Monsters THEN setIdle(K, c, FALSE) ELSE K
           L == [A EXCEPT ![c].alive = alive]
<1>1. changeHealth(K, c, alive) = L
  BY DEF changeHealth
<1>2. Steady(K, A)
  BY setIdleSteady, SteadyItself
<1>3. Own(K, A, c) /\ (Wild(K, c) => A[c].targets = K[c].targets /\ ~A[c].idle)
  <2>1. CASE c \in Monsters
    <3>1. A = setIdle(K, c, FALSE)
      BY <2>1
    <3> HIDE DEF A
    <3> QED BY <3>1, setIdleMinds DEF Wild, Placed
  <2>2. CASE c \notin Monsters
    BY <2>2 DEF Own, Wild
  <2> QED BY <2>1, <2>2
<1>4. A \in Worlds /\ A[c].alive = K[c].alive
  BY <1>2 DEF Steady
<1> HIDE DEF A
<1>5. Mindful(K, A, NoCreature)
  <2>1. \A d \in Creatures : Due(K, c, d) /\ Minds(K, c, d) => Minds(A, c, d) \/ NoCreature \in {c, d}
    BY <1>3 DEF Due, Minds
  <2> QED BY <1>2, <1>3, <2>1, OwnMindful
<1>6. Mindful(A, L, NoCreature)
  BY <1>4, hurtMindful
<1>7. L[c].alive = alive
  BY <1>4 DEF Worlds, Records
<1> QED BY <1>1, <1>5, <1>6, <1>7, MindfulTransitive

\* A monster that dies without its master does not come to notice anybody.
LEMMA removeSummonMindful ==
    ASSUME NEW K \in Worlds, NEW x \in Creatures, NEW s \in Creatures, ~K[s].alive
    PROVE  Mindful(K, removeSummon(K, x, s), NoCreature)
<1> DEFINE L == removeSummon(K, x, s)
<1>1. CASE s \notin K[x].summons
  BY <1>1, MindfulItself DEF removeSummon
<1>2. CASE s \in K[x].summons
  <2>1. Unsummoned(K, L, x, s)
    BY <1>2, removeSummonFields
  <2> HIDE DEF L
  <2>2. ASSUME NEW d \in Creatures
        PROVE  /\ L[d].stage = K[d].stage /\ L[d].area = K[d].area /\ L[d].alive = K[d].alive
               /\ L[d].master = IF d = s THEN NoCreature ELSE K[d].master
               /\ L[d].targets = K[d].targets /\ L[d].idle = K[d].idle
    BY <2>1 DEF Unsummoned, Alike
  <2>3. Settled(K, L)
    BY <2>2 DEF Settled
  <2>4. ASSUME NEW m \in Creatures, NEW d \in Creatures, Due(L, m, d) PROVE Due(K, m, d)
    <3>1. m # s
      BY <2>2, <2>4 DEF Due, Wild
    <3>2. Wild(K, m) /\ Sees(K, m, d)
      BY <2>2, <2>4, <3>1 DEF Due, Wild, Placed, Sees
    <3>3. NoCreature \notin Players
      BY CreaturesAssumption
    <3>4. Prey(K, d)
      BY <2>2, <2>4, <3>3 DEF Due, Prey, Placed, isPlayerSummon
    <3> QED BY <3>2, <3>4 DEF Due
  <2>5. Mindful(K, L, NoCreature)
    BY <2>3, <2>4, SparseMindful
  <2> QED BY <2>5 DEF L
<1> QED BY <1>1, <1>2

LEMMA destroySummonMindful ==
    ASSUME NEW K \in Worlds, NEW x \in Creatures, NEW s \in Creatures,
           K[s].stage # "none", Awake(K, s)
    PROVE  Mindful(K, destroySummon(K, x, s), NoCreature)
<1> DEFINE A == setAttackedCreature(K, s, NoCreature)
           H == changeHealth(A, s, FALSE)
           L == removeSummon(H, x, s)
<1>1. Waning(K, A) /\ Remaining(K, A) /\ Mindful(K, A, NoCreature)
  BY letOffWaning, letOffMindful
<1>2. A \in Worlds /\ A[s].stage # "none" /\ Awake(A, s)
  BY <1>1 DEF Waning, Less, Quiet, Remaining
<1> HIDE DEF A
<1>3. Waning(A, H) /\ Mindful(A, H, NoCreature) /\ H[s].alive = FALSE
  BY <1>2, changeHealthWaning, changeHealthMindful
<1>4. H \in Worlds
  BY <1>3 DEF Waning
<1> HIDE DEF H
<1>5. Mindful(H, L, NoCreature)
  BY <1>3, <1>4, removeSummonMindful
<1> HIDE DEF L
<1>6. Mindful(K, L, NoCreature)
  BY <1>1, <1>3, <1>5, MindfulTransitive
<1> QED BY <1>6 DEF L, H, A, destroySummon

LEMMA DestroyedMindful ==
    ASSUME NEW K \in Worlds, NEW S \in SUBSET Creatures, NEW x \in Creatures, NEW o \in Orders,
           \A s \in S : K[s].stage # "none" /\ Awake(K, s)
    PROVE  Mindful(K, Destroyed(K, S, o, x), NoCreature)
<1> DEFINE W == {X \in Worlds : Waning(K, X) /\ Remaining(K, X) /\ Mindful(K, X, NoCreature)}
<1>1. ASSUME NEW X \in W, NEW s \in S PROVE destroySummon(X, x, s) \in W
  <2>1. X[s].stage # "none" /\ Awake(X, s)
    BY DEF Waning, Less, Quiet, Remaining
  <2>2. /\ Waning(X, destroySummon(X, x, s)) /\ Remaining(X, destroySummon(X, x, s))
        /\ Mindful(X, destroySummon(X, x, s), NoCreature)
    BY <2>1, destroySummonWaning, destroySummonMindful
  <2>3. Waning(K, destroySummon(X, x, s)) /\ destroySummon(X, x, s) \in Worlds
    BY <2>2, WaningTransitive DEF Waning
  <2>4. Remaining(K, destroySummon(X, x, s))
    BY <2>2 DEF Remaining
  <2>5. Mindful(K, destroySummon(X, x, s), NoCreature)
    BY <2>2, MindfulTransitive
  <2> QED BY <2>3, <2>4, <2>5
<1>2. K \in W
  BY WaningItself, MindfulItself DEF Remaining
<1>3. \A X \in W : Mindful(K, X, NoCreature)
  OBVIOUS
<1> HIDE DEF W
<1>4. Destroyed(K, S, o, x) \in W
  <2>1. PICK h \in [0 .. Len(o) -> W] : DestroyedRun(h, K, S, o, x)
    BY <1>1, <1>2, DestroyedTurns
  <2>2. h[Len(o)] \in W
    BY <2>1, LastTurn
  <2>3. Destroyed(K, S, o, x) = h[Len(o)]
    BY <2>1 DEF DestroyedRun
  <2> QED BY <2>2, <2>3
<1> QED BY <1>3, <1>4

LEMMA destroySummonsMindful ==
    ASSUME NEW K, Good(K), NEW x \in Creatures, NEW o \in Orders
    PROVE  Mindful(K, destroySummons(K, x, o), NoCreature)
<1> DEFINE S == K[x].summons
<1>1. destroySummons(K, x, o) = Destroyed(K, S, o, x)
  BY DEF destroySummons, Destroyed, destroySummon
<1>2. S \in SUBSET Creatures /\ \A s \in S : K[s].stage # "none" /\ Awake(K, s)
  BY GoodStages DEF Good
<1>3. K \in Worlds
  BY DEF Good
<1> HIDE DEF S
<1> QED BY <1>1, <1>2, <1>3, DestroyedMindful

\* Whoever leaves the game is no longer noticed.
LEMMA LeftMindful ==
    ASSUME NEW K \in Worlds, NEW D \in Worlds, NEW c \in Creatures, Mindful(K, D, c)
    PROVE  Mindful(K, Left(D, c), NoCreature)
<1> DEFINE R == onRemoved(D, c)
           L == Left(D, c)
<1>1. R \in Worlds /\ \A d \in Creatures : AfterRemoval(D, R, c, d)
  BY onRemovedFields
<1>2. /\ L \in Worlds /\ \A d \in Creatures : d # c => L[d] = R[d]
      /\ L[c] = [R[c] EXCEPT !.release = L[c].release, !.check = L[c].check]
  BY LeftFields
<1> HIDE DEF R, L
<1>3. L[c].stage = "gone"
  <2>1. R[c] \in Records /\ R[c].stage = "gone"
    BY <1>1 DEF AfterRemoval, Worlds
  <2> QED BY <1>2, <2>1 DEF Records
<1>4. ASSUME NEW d \in Creatures, d # c
      PROVE  /\ L[d].stage = D[d].stage /\ L[d].area = D[d].area /\ L[d].alive = D[d].alive
             /\ L[d].master = D[d].master /\ L[d].targets = D[d].targets /\ L[d].idle = D[d].idle
  <2>1. L[d] = R[d] /\ AfterRemoval(D, R, c, d)
    BY <1>1, <1>2, <1>4
  <2> QED BY <1>4, <2>1 DEF AfterRemoval
<1>5. ASSUME NEW m \in Creatures, NEW d \in Creatures, Due(L, m, d)
      PROVE  /\ Due(K, m, d)
             /\ Minds(K, m, d) => Minds(L, m, d)
  <2>1. m # c /\ d # c
    BY <1>3, <1>5 DEF Due, Wild, Prey, Placed
  <2>2. Due(D, m, d) /\ (Minds(D, m, d) => Minds(L, m, d))
    BY <1>4, <1>5, <2>1 DEF Due, Wild, Prey, Placed, Sees, isPlayerSummon, Minds
  <2> QED BY <2>1, <2>2 DEF Mindful
<1>6. Mindful(K, L, NoCreature)
  BY <1>5 DEF Mindful
<1> QED BY <1>6 DEF L

LEMMA DisappearedMindful ==
    ASSUME NEW K \in Worlds, NEW S \in SUBSET Creatures, NEW o \in Orders, NEW c \in Creatures,
           \A d \in S : K[d].stage # "none"
    PROVE  Mindful(K, Disappeared(K, S, o, c), c)
<1> DEFINE W == {X \in Worlds : Steady(K, X) /\ Mindful(K, X, c)}
<1>1. ASSUME NEW X \in W, NEW d \in S PROVE onCreatureDisappear(X, d, c) \in W
  <2>1. X[d].stage # "none"
    BY DEF Steady
  <2>2. Steady(X, onCreatureDisappear(X, d, c)) /\ Mindful(X, onCreatureDisappear(X, d, c), c)
    BY <2>1, onCreatureDisappearSteady, onCreatureDisappearMindful
  <2>3. Steady(K, onCreatureDisappear(X, d, c)) /\ Mindful(K, onCreatureDisappear(X, d, c), c)
    BY <2>2, SteadyTransitive, MindfulTransitive
  <2> QED BY <2>3 DEF Steady
<1>2. K \in W
  BY SteadyItself, MindfulItself
<1>3. \A X \in W : Mindful(K, X, c)
  OBVIOUS
<1> HIDE DEF W
<1>4. Disappeared(K, S, o, c) \in W
  <2>1. PICK h \in [0 .. Len(o) -> W] : DisappearedRun(h, K, S, o, c)
    BY <1>1, <1>2, DisappearedTurns
  <2>2. h[Len(o)] \in W
    BY <2>1, LastTurn
  <2>3. Disappeared(K, S, o, c) = h[Len(o)]
    BY <2>1 DEF DisappearedRun
  <2> QED BY <2>2, <2>3
<1> QED BY <1>3, <1>4

LEMMA removeOneMindful ==
    ASSUME NEW K \in Worlds, NEW c \in Creatures, NEW o \in Orders
    PROVE  Mindful(K, removeOne(K, c, o), NoCreature)
<1> DEFINE S == Spectators(K, {K[c].area})
           D == Disappeared(K, S, o, c)
           L == removeOne(K, c, o)
<1>1. CASE ~Placed(K, c)
  BY <1>1, MindfulItself DEF removeOne
<1>2. CASE Placed(K, c)
  <2>1. L = Left(D, c)
    BY <1>2 DEF removeOne, Disappeared, Left
  <2>2. S \in SUBSET Creatures /\ \A d \in S : K[d].stage # "none"
    BY DEF Spectators, Placed
  <2> HIDE DEF S, L
  <2>3. Steady(K, D) /\ Mindful(K, D, c)
    BY <2>2, DisappearedSteady, DisappearedMindful
  <2>4. D \in Worlds
    BY <2>3 DEF Steady
  <2> HIDE DEF D
  <2> QED BY <2>1, <2>3, <2>4, LeftMindful DEF L
<1> QED BY <1>1, <1>2

LEMMA removeCreatureMindful ==
    ASSUME NEW K \in Worlds, NEW c \in Creatures, NEW o \in Orders
    PROVE  Mindful(K, removeCreature(K, c, o), NoCreature)
<1> DEFINE R == removeOne(K, c, o)
           S == R[c].summons
           W == {X \in Worlds : Mindful(K, X, NoCreature)}
<1>1. CASE ~Placed(K, c)
  BY <1>1, MindfulItself DEF removeCreature
<1>2. CASE Placed(K, c)
  <2>1. removeCreature(K, c, o) = Removed(R, S, o)
    BY <1>2 DEF removeCreature, Removed
  <2>2. R \in Worlds /\ Mindful(K, R, NoCreature)
    BY removeOneWaning, removeOneMindful DEF Waning
  <2> HIDE DEF R
  <2>3. S \in SUBSET Creatures
    BY <2>2 DEF Worlds, Records, Creatures
  <2> HIDE DEF S
  <2>4. ASSUME NEW X \in W, NEW s \in S PROVE removeOne(X, s, o) \in W
    <3>1. removeOne(X, s, o) \in Worlds /\ Mindful(X, removeOne(X, s, o), NoCreature)
      BY <2>3, removeOneWaning, removeOneMindful DEF Waning
    <3> QED BY <3>1, MindfulTransitive
  <2>5. R \in W
    BY <2>2
  <2>6. \A X \in W : Mindful(K, X, NoCreature)
    OBVIOUS
  <2> HIDE DEF W
  <2>7. Removed(R, S, o) \in W
    <3>1. PICK h \in [0 .. Len(o) -> W] : RemovedRun(h, R, S, o)
      BY <2>4, <2>5, RemovedTurns
    <3>2. h[Len(o)] \in W
      BY <3>1, LastTurn
    <3>3. Removed(R, S, o) = h[Len(o)]
      BY <3>1 DEF RemovedRun
    <3> QED BY <3>2, <3>3
  <2> QED BY <2>1, <2>6, <2>7
<1> QED BY <1>1, <1>2

\* The dead mind nobody.
LEMMA dieMindful ==
    ASSUME NEW K, Good(K), NEW c \in Creatures, ~K[c].alive, NEW o \in Orders
    PROVE  Mindful(K, die(K, c, o), NoCreature)
<1> DEFINE A == setAttackedCreature(K, c, NoCreature)
           D == destroySummons(A, c, o)
           C == clearLists(D, c)
           P == IF c \in Players THEN K ELSE C
           L == removeCreature(P, c, o)
<1>0. K \in Worlds
  BY DEF Good
<1>1. die(K, c, o) = L
  BY DEF die
<1>2. Steady(K, A) /\ Mindful(K, A, NoCreature)
  BY <1>0, letOffSteady, letOffMindful
<1>3. Good(A) /\ ~A[c].alive
  BY <1>2, SteadyGood DEF Steady
<1> HIDE DEF A
<1>4. Waning(A, D) /\ Mindful(A, D, NoCreature)
  BY <1>3, destroySummonsWaning, destroySummonsMindful
<1>5. D \in Worlds /\ ~D[c].alive
  BY <1>3, <1>4 DEF Waning, Less
<1> HIDE DEF D
<1>6. Steady(D, C) /\ Mindful(D, C, NoCreature)
  <2>1. Steady(D, C) /\ Own(D, C, c)
    BY <1>5, clearListsSteady, letGoMinds DEF clearLists
  <2>2. \A d \in Creatures : ~Due(D, c, d)
    BY <1>5 DEF Due, Wild
  <2> QED BY <2>1, <2>2, OwnMindful
<1>7. C \in Worlds
  BY <1>6 DEF Steady
<1> HIDE DEF C
<1>8. Mindful(K, C, NoCreature)
  BY <1>2, <1>4, <1>6, MindfulTransitive
<1>9. P \in Worlds /\ Mindful(K, P, NoCreature)
  BY <1>0, <1>7, <1>8, MindfulItself
<1> HIDE DEF P
<1>10. Mindful(P, L, NoCreature)
  BY <1>9, removeCreatureMindful
<1> HIDE DEF L
<1>11. Mindful(K, L, NoCreature)
  BY <1>9, <1>10, MindfulTransitive
<1> QED BY <1>1, <1>11
-----------------------------------------------------------------------------
(* Moves, and what they show. *)

LEMMA LeaveBehindMindful ==
    ASSUME NEW K \in Worlds, Families(K), NEW m \in Creatures, NEW c \in Creatures, NEW o \in Orders
    PROVE  Mindful(K, LeaveBehind(K, m, c, o), NoCreature)
<1> DEFINE S == {s \in K[c].summons : {K[s].area, K[c].area} \in Far}
           L == LeaveBehind(K, m, c, o)
           W == {X \in Worlds : Families(X) /\ Mindful(K, X, NoCreature)}
<1>1. CASE m # c
  BY <1>1, MindfulItself DEF LeaveBehind
<1>2. CASE m = c
  <2>1. L = LeftBehind(K, S, o)
    BY <1>2 DEF LeaveBehind, LeftBehind
  <2>2. S \in SUBSET Creatures
    BY DEF Worlds, Records, Creatures
  <2> HIDE DEF S, L
  <2>3. ASSUME NEW X \in W, NEW s \in S PROVE removeCreature(X, s, o) \in W
    <3>1. s \in Creatures
      BY <2>2
    <3>2. /\ removeCreature(X, s, o) \in Worlds /\ Families(removeCreature(X, s, o))
          /\ Mindful(X, removeCreature(X, s, o), NoCreature)
      BY <3>1, removeCreatureWaning, removeCreatureMindful DEF Waning
    <3> QED BY <3>2, MindfulTransitive
  <2>4. K \in W
    BY MindfulItself
  <2>5. \A X \in W : Mindful(K, X, NoCreature)
    OBVIOUS
  <2> HIDE DEF W
  <2>6. LeftBehind(K, S, o) \in W
    <3>1. PICK h \in [0 .. Len(o) -> W] : LeftBehindRun(h, K, S, o)
      BY <2>3, <2>4, LeftBehindTurns
    <3>2. h[Len(o)] \in W
      BY <3>1, LastTurn
    <3>3. LeftBehind(K, S, o) = h[Len(o)]
      BY <3>1 DEF LeftBehindRun
    <3> QED BY <3>2, <3>3
  <2> QED BY <2>1, <2>5, <2>6 DEF L
<1> QED BY <1>1, <1>2

LEMMA LoseSightMindful ==
    ASSUME NEW K \in Worlds, NEW m \in Creatures, NEW c \in Creatures
    PROVE  Mindful(K, LoseSight(K, m, c), NoCreature)
BY internalCreatureDisappearMindful, MindfulItself DEF LoseSight

\* m has taken notice of x.
Told(K, x, m) == \A d \in Creatures : x \in {m, d} /\ Due(K, m, d) => Minds(K, m, d)

\* Everybody minds whom it owes its attention, where x is not concerned.
AlertBut(K, x) == \A m, d \in Creatures : x \notin {m, d} /\ Due(K, m, d) => Minds(K, m, d)

LEMMA MindfulTold ==
    ASSUME NEW K, NEW L, NEW x, NEW m \in Creatures, Told(K, x, m), Mindful(K, L, NoCreature)
    PROVE  Told(L, x, m)
BY CreaturesFinite DEF Mindful, Told

LEMMA MindfulAlertBut ==
    ASSUME NEW K, NEW L, NEW x, AlertBut(K, x), Mindful(K, L, NoCreature)
    PROVE  AlertBut(L, x)
BY CreaturesFinite DEF Mindful, AlertBut

LEMMA NoticeMindful ==
    ASSUME NEW K \in Worlds, NEW m \in Creatures, NEW c \in Creatures, NEW a, NEW o \in Orders,
           K[m].stage # "none", K[c].area # a
    PROVE  Mindful(K, Notice(K, m, c, a, o), NoCreature) /\ Told(Notice(K, m, c, a, o), c, m)
<1> DEFINE now == Sees(K, m, c)
           before == K[m].area = a
           R == [K EXCEPT ![m].masterInRange = Sees(K, m, K[m].master)]
           A == IF K[m].master = NoCreature THEN K ELSE R
           E == IF now /\ ~before THEN onCreatureEnter(K, m, c)
                ELSE IF ~now /\ before THEN onCreatureLeave(K, m, c) ELSE K
           B == IF E[m].master = c /\ now THEN [E EXCEPT ![m].masterInRange = TRUE] ELSE E
           L == Notice(K, m, c, a, o)
<1>1. CASE m \in Players
  <2>1. L = K
    BY <1>1 DEF Notice
  <2>2. m \notin Monsters
    BY <1>1, CreaturesAssumption
  <2> QED BY <2>1, <2>2, MindfulItself DEF Told, Due, Wild
<1>2. CASE m \notin Players /\ m = c
  <2>1. m \in Monsters
    BY <1>2 DEF Creatures
  <2>2. L = LookAround(A, m, o)
    BY <1>2 DEF Notice
  <2>3. Sees(K, m, K[m].master) \in BOOLEAN
    BY DEF Sees
  <2>4. Steady(K, A) /\ Mindful(K, A, NoCreature)
    BY <2>3, masterInRangeSteady, SteadyItself, masterInRangeMinds, MindfulItself
  <2>5. A \in Worlds /\ A[m].stage # "none"
    BY <2>4 DEF Steady
  <2> HIDE DEF A, L
  <2>6. Mindful(A, L, NoCreature) /\ \A d \in Creatures : Due(A, m, d) => Minds(L, m, d)
    BY <2>1, <2>2, <2>5, LookAroundMindful
  <2>7. Told(L, c, m)
    BY <2>6 DEF Told, Mindful
  <2>8. Mindful(K, L, NoCreature)
    BY <2>4, <2>6, MindfulTransitive
  <2> QED BY <2>7, <2>8 DEF L
<1>3. CASE m \notin Players /\ m # c
  <2>1. m \in Monsters
    BY <1>3 DEF Creatures
  <2>2. L = updateIdleStatus(B, m)
    BY <1>3 DEF Notice
  <2>3. Steady(K, E)
    BY <2>1, onCreatureEnterSteady, onCreatureLeaveSteady, SteadyItself
  <2>4. Mindful(K, E, NoCreature) /\ (Due(K, m, c) => Minds(E, m, c))
    <3>1. CASE now /\ ~before
      BY <1>3, <2>1, <3>1, onCreatureEnterMindful
    <3>2. CASE ~now /\ before
      <4>1. ~Due(K, m, c)
        BY <3>2 DEF Due
      <4> QED BY <1>3, <2>1, <3>2, <4>1, onCreatureLeaveMindful
    <3>3. CASE ~now /\ ~before
      BY <3>3, MindfulItself DEF Due
    <3>4. now => ~before
      BY DEF Sees
    <3> QED BY <3>1, <3>2, <3>3, <3>4
  <2>5. E \in Worlds /\ E[m].stage # "none"
    BY <2>3 DEF Steady
  <2> HIDE DEF E
  <2>6. Steady(E, B) /\ Mindful(E, B, NoCreature) /\ Settled(E, B)
    <3>1. Settled(E, E)
      BY DEF Settled
    <3> QED BY <2>5, <3>1, masterInRangeSteady, SteadyItself, masterInRangeMinds, MindfulItself
  <2>7. B \in Worlds /\ B[m].stage # "none"
    BY <2>5, <2>6 DEF Steady
  <2> HIDE DEF B, L
  <2>8. Mindful(B, L, NoCreature)
    BY <2>1, <2>2, <2>7, updateIdleStatusMindful
  <2>9. Mindful(E, L, NoCreature)
    BY <2>6, <2>8, MindfulTransitive
  <2>10. Mindful(K, L, NoCreature)
    BY <2>4, <2>9, MindfulTransitive
  <2>11. Told(L, c, m)
    <3> SUFFICES ASSUME NEW d \in Creatures, c \in {m, d}, Due(L, m, d) PROVE Minds(L, m, d)
      BY DEF Told
    <3>1. d = c /\ Due(K, m, c)
      BY <1>3, <2>10 DEF Mindful
    <3>2. Minds(E, m, c)
      BY <2>4, <3>1
    <3> QED BY <2>9, <3>1, <3>2, CreaturesFinite DEF Mindful
  <2> QED BY <2>10, <2>11 DEF L
<1> QED BY <1>1, <1>2, <1>3

\* Whom monsters owe their attention, and whom they mind, depends on this.
Outwardly(K, L) ==
    \A d \in Creatures :
        /\ L[d].stage = K[d].stage /\ L[d].area = K[d].area /\ L[d].alive = K[d].alive
        /\ L[d].master = K[d].master /\ L[d].targets = K[d].targets /\ L[d].idle = K[d].idle

LEMMA OutwardlyMindful ==
    ASSUME NEW K, NEW L, Outwardly(K, L)
    PROVE  Mindful(K, L, NoCreature)
BY DEF Outwardly, Mindful, Due, Minds, Wild, Prey, Placed, Sees, isPlayerSummon

LEMMA OutwardlyAlert ==
    ASSUME NEW K, NEW L, Outwardly(K, L), Alert(K)
    PROVE  Alert(L)
BY OutwardlyMindful, MindfulAlert

LEMMA useThing2Outwardly ==
    ASSUME NEW K \in Worlds, NEW c
    PROVE  Outwardly(K, useThing2(K, c))
BY DEF Outwardly, useThing2, Worlds, Records

LEMMA releaseThing2Outwardly ==
    ASSUME NEW K \in Worlds, NEW c
    PROVE  Outwardly(K, releaseThing2(K, c))
BY DEF Outwardly, releaseThing2, Worlds, Records

LEMMA releaseAllOutwardly ==
    ASSUME NEW K \in Worlds, NEW S
    PROVE  Outwardly(K, releaseAll(K, S))
BY DEF Outwardly, releaseAll, Worlds, Records

LEMMA cleanupOutwardly ==
    ASSUME NEW K \in Worlds
    PROVE  Outwardly(K, cleanup(K))
<1> SUFFICES ASSUME NEW d \in Creatures
             PROVE  /\ cleanup(K)[d].stage = K[d].stage /\ cleanup(K)[d].area = K[d].area
                    /\ cleanup(K)[d].alive = K[d].alive /\ cleanup(K)[d].master = K[d].master
                    /\ cleanup(K)[d].targets = K[d].targets /\ cleanup(K)[d].idle = K[d].idle
  BY DEF Outwardly
<1>1. K[d] \in Records
  BY DEF Worlds
<1>2. cleanup(K)[d] = [K[d] EXCEPT !.useCount = K[d].useCount - K[d].release, !.release = 0]
  BY <1>1 DEF cleanup, Records
<1> DEFINE n == K[d].useCount - K[d].release
<1> HIDE DEF n
<1>3. cleanup(K)[d] = [K[d] EXCEPT !.useCount = n, !.release = 0]
  BY <1>2 DEF n
<1> QED BY <1>1, <1>3 DEF Records

LEMMA setAttackedCreatureOutwardly ==
    ASSUME NEW K \in Worlds, NEW c \in Creatures, NEW x
    PROVE  Outwardly(K, setAttackedCreature(K, c, x))
<1> DEFINE L == setAttackedCreature(K, c, x)
<1>1. ASSUME NEW d \in Creatures PROVE L[d] \in {[K[d] EXCEPT !.attacked = y] : y \in {x, NoCreature}} \cup {K[d]}
  <2>1. CASE x # NoCreature /\ ~Sees(K, c, x)
    BY <2>1 DEF setAttackedCreature, Worlds
  <2>2. CASE ~(x # NoCreature /\ ~Sees(K, c, x))
    <3>1. L = [e \in Creatures |->
                 IF e \in K[c].summons \cup {c}
                 THEN [K[e] EXCEPT !.attacked = IF x # NoCreature /\ ~Sees(K, e, x) THEN NoCreature ELSE x]
                 ELSE K[e]]
      BY <2>2 DEF setAttackedCreature
    <3> HIDE DEF L
    <3> QED BY <3>1
  <2> QED BY <2>1, <2>2
<1> HIDE DEF L
<1>2. ASSUME NEW d \in Creatures
      PROVE  /\ L[d].stage = K[d].stage /\ L[d].area = K[d].area /\ L[d].alive = K[d].alive
             /\ L[d].master = K[d].master /\ L[d].targets = K[d].targets /\ L[d].idle = K[d].idle
  <2>1. K[d] \in Records
    BY DEF Worlds
  <2> QED BY <1>1, <2>1 DEF Records
<1>3. Outwardly(K, L)
  BY <1>2 DEF Outwardly
<1> QED BY <1>3 DEF L

LEMMA PickTargetMindful ==
    ASSUME NEW K \in Worlds, NEW m \in Creatures, NEW x
    PROVE  Mindful(K, PickTarget(K, m, x), NoCreature)
<1>1. \/ PickTarget(K, m, x) = K
      \/ PickTarget(K, m, x) = setAttackedCreature(K, m, x)
  BY DEF PickTarget, selectTarget
<1>2. Mindful(K, setAttackedCreature(K, m, x), NoCreature)
  BY setAttackedCreatureOutwardly, OutwardlyMindful
<1> QED BY <1>1, <1>2, MindfulItself

LEMMA onCreatureMoveMindful ==
    ASSUME NEW K \in Worlds, Families(K), NEW m \in Creatures, NEW c \in Creatures, NEW a,
           NEW pick, NEW o \in Orders,
           K[m].stage # "none", K[c].area # a
    PROVE  Mindful(K, onCreatureMove(K, m, c, a, pick, o), NoCreature) /\ Told(onCreatureMove(K, m, c, a, pick, o), c, m)
<1> DEFINE B == LeaveBehind(K, m, c, o)
           C == LoseSight(B, m, c)
           L == Notice(C, m, c, a, o)
           P == onCreatureMove(K, m, c, a, pick, o)
<1>1. P = L \/ P = PickTarget(L, m, pick[m])
  BY DEF onCreatureMove
<1>2. Waning(K, B) /\ Mindful(K, B, NoCreature)
  BY LeaveBehindWaning, LeaveBehindMindful
<1>3. B \in Worlds /\ B[m].stage # "none" /\ B[c].area # a
  BY <1>2 DEF Waning, Less, Quiet
<1> HIDE DEF B, P
<1>4. Steady(B, C) /\ Mindful(B, C, NoCreature)
  BY <1>3, LoseSightSteady, LoseSightMindful
<1>5. C \in Worlds /\ C[m].stage # "none" /\ C[c].area # a
  BY <1>3, <1>4 DEF Steady, Quiet
<1> HIDE DEF C
<1>6. Mindful(C, L, NoCreature) /\ Told(L, c, m) /\ L \in Worlds
  BY <1>5, NoticeMindful, NoticeSteady DEF Steady
<1> HIDE DEF L
<1>7. Mindful(K, L, NoCreature)
  BY <1>2, <1>4, <1>6, MindfulTransitive
<1>8. Mindful(L, P, NoCreature)
  BY <1>1, <1>6, PickTargetMindful, MindfulItself
<1>9. Mindful(K, P, NoCreature) /\ Told(P, c, m)
  BY <1>6, <1>7, <1>8, MindfulTransitive, MindfulTold
<1> QED BY <1>9 DEF P

\* Everybody around has taken notice of c's move.
LEMMA MovedMindful ==
    ASSUME NEW M, NEW c \in Creatures, Displaced(M, c), Families(M),
           NEW S \in SUBSET Creatures, \A d \in S : M[d].stage # "none",
           NEW a, M[c].area # a, NEW pick, NEW o \in Orders
    PROVE  /\ Mindful(M, Moved(M, S, o, c, a, pick), NoCreature)
           /\ \A d \in S : Told(Moved(M, S, o, c, a, pick), c, d)
<1> DEFINE W == {X \in Worlds : Underway(M, X, c) /\ Mindful(M, X, NoCreature)}
           n == Len(o)
<1>1. ASSUME NEW X \in W, NEW d \in S
      PROVE  /\ onCreatureMove(X, d, c, a, pick, o) \in W /\ Told(onCreatureMove(X, d, c, a, pick, o), c, d)
             /\ Mindful(X, onCreatureMove(X, d, c, a, pick, o), NoCreature)
  <2>1. X \in Worlds /\ Families(X) /\ X[d].stage # "none" /\ X[c].area # a
    BY DEF Underway, Turning, Turned
  <2>2. Mindful(X, onCreatureMove(X, d, c, a, pick, o), NoCreature) /\ Told(onCreatureMove(X, d, c, a, pick, o), c, d)
    BY <2>1, onCreatureMoveMindful
  <2>3. Underway(M, onCreatureMove(X, d, c, a, pick, o), c)
    BY onCreatureMoveUnderway
  <2>4. onCreatureMove(X, d, c, a, pick, o) \in Worlds
    BY <2>3 DEF Underway
  <2>5. Mindful(M, onCreatureMove(X, d, c, a, pick, o), NoCreature)
    BY <2>2, MindfulTransitive
  <2> QED BY <2>2, <2>3, <2>4, <2>5
<1>2. M \in W
  BY WaningItself, WaningTurning, MindfulItself DEF Displaced, Underway
<1>3. \A X \in W : Mindful(M, X, NoCreature)
  OBVIOUS
<1> HIDE DEF W
<1>4. PICK h \in [0 .. n -> W] : MovedRun(h, M, S, o, c, a, pick)
  BY <1>1, <1>2, MovedTurns
<1>5. n \in Nat
  BY OrdersReachAll
<1> HIDE DEF n
<1>6. /\ \A i \in 1 .. n : h[i - 1] \in W /\ h[i] = IF o[i] \in S THEN onCreatureMove(h[i - 1], o[i], c, a, pick, o) ELSE h[i - 1]
      /\ Moved(M, S, o, c, a, pick) = h[n]
      /\ h[n] \in W
  BY <1>4, <1>5 DEF n, MovedRun
<1>7. ASSUME NEW d \in S PROVE Told(h[n], c, d)
  <2> DEFINE Z == {X \in W : Told(X, c, d)}
  <2>1. ASSUME NEW i \in 1 .. n, o[i] = d \/ h[i - 1] \in Z PROVE h[i] \in Z
    <3>1. CASE o[i] = d
      BY <1>1, <1>6, <3>1
    <3>2. CASE o[i] # d /\ o[i] \in S
      <4>1. h[i] = onCreatureMove(h[i - 1], o[i], c, a, pick, o) /\ h[i - 1] \in W /\ Told(h[i - 1], c, d)
        BY <1>6, <2>1, <3>2
      <4>2. h[i] \in W /\ Mindful(h[i - 1], h[i], NoCreature)
        BY <1>1, <3>2, <4>1
      <4>3. Told(h[i], c, d)
        BY <4>1, <4>2, MindfulTold
      <4> QED BY <4>2, <4>3
    <3>3. CASE o[i] # d /\ o[i] \notin S
      BY <1>6, <2>1, <3>3
    <3> QED BY <3>1, <3>2, <3>3
  <2> HIDE DEF Z
  <2>2. h[n] \in Z
    BY <2>1, TurnsReach DEF n
  <2> QED BY <2>2 DEF Z
<1> QED BY <1>3, <1>6, <1>7

\* Who has been told, and who was not concerned, make up everybody.
LEMMA AllAlert ==
    ASSUME NEW K, NEW x, AlertBut(K, x),
           \A m \in Creatures, d \in Creatures : x \in {m, d} /\ Due(K, m, d) => Told(K, x, m)
    PROVE  Alert(K)
BY DEF AlertBut, Alert, Told

LEMMA moveCreatureAlert ==
    ASSUME NEW K, Good(K), Alert(K), NEW c \in Creatures, Placed(K, c),
           NEW a \in Areas, a # K[c].area, NEW pick, NEW o \in Orders
    PROVE  Alert(moveCreature(K, c, a, pick, o))
<1> DEFINE M == [K EXCEPT ![c].area = a]
           S == Spectators(M, {K[c].area, a})
           b == K[c].area
           L == Moved(M, S, o, c, b, pick)
<1>0. K \in Worlds
  BY DEF Good
<1>1. moveCreature(K, c, a, pick, o) = L
  BY DEF moveCreature, Moved
<1>2. Displaced(M, c) /\ Families(M) /\ M \in Worlds
  <2>1. Displaced(M, c) /\ Families(M)
    BY relocated
  <2> HIDE DEF M
  <2> QED BY <2>1 DEF Displaced
<1>3. /\ S \in SUBSET Creatures
      /\ \A d \in Creatures : Placed(M, d) /\ M[d].area = a => d \in S
      /\ \A d \in S : M[d].stage # "none"
  BY DEF Spectators, Placed
<1>4. /\ M[c].area = a
      /\ \A d \in Creatures : /\ M[d].stage = K[d].stage /\ M[d].alive = K[d].alive
                              /\ M[d].master = K[d].master /\ (d # c => M[d].area = K[d].area)
                              /\ M[d].targets = K[d].targets /\ M[d].idle = K[d].idle
  BY <1>0 DEF Worlds, Records
<1>5. M[c].area # b
  BY <1>4
<1> HIDE DEF M, S, b
<1>6. Mindful(M, L, NoCreature) /\ \A d \in S : Told(L, c, d)
  BY <1>2, <1>3, <1>5, MovedMindful
<1> HIDE DEF L
<1>7. AlertBut(M, c)
  <2> SUFFICES ASSUME NEW m \in Creatures, NEW d \in Creatures, c \notin {m, d}, Due(M, m, d)
               PROVE  Minds(M, m, d)
    BY DEF AlertBut
  <2>1. Due(K, m, d)
    BY <1>4 DEF Due, Wild, Prey, Placed, Sees, isPlayerSummon
  <2> QED BY <1>4, <2>1 DEF Alert, Minds
<1>8. AlertBut(L, c)
  BY <1>6, <1>7, MindfulAlertBut
<1>9. ASSUME NEW m \in Creatures, NEW d \in Creatures, c \in {m, d}, Due(L, m, d) PROVE Told(L, c, m)
  <2>1. Due(M, m, d)
    BY <1>6, <1>9 DEF Mindful
  <2>2. Placed(M, m) /\ M[m].area = a
    BY <1>4, <1>9, <2>1 DEF Due, Wild, Sees
  <2> QED BY <1>3, <1>6, <2>2
<1>10. Alert(L)
  BY <1>8, <1>9, AllAlert
<1> QED BY <1>1, <1>10

-----------------------------------------------------------------------------
(* Newcomers. *)

LEMMA onCreatureAppearMindful ==
    ASSUME NEW K \in Worlds, NEW m \in Creatures, NEW c \in Creatures, NEW o \in Orders,
           K[m].stage # "none"
    PROVE  /\ Mindful(K, onCreatureAppear(K, m, c, o), NoCreature)
           /\ Told(onCreatureAppear(K, m, c, o), c, m)
<1> DEFINE R == [K EXCEPT ![m].masterInRange = Sees(K, m, K[m].master)]
           A == IF K[m].master = NoCreature THEN K ELSE R
           L == onCreatureAppear(K, m, c, o)
<1>1. CASE m \in Players
  <2>1. L = K
    BY <1>1 DEF onCreatureAppear
  <2>2. m \notin Monsters
    BY <1>1, CreaturesAssumption
  <2> QED BY <2>1, <2>2, MindfulItself DEF Told, Due, Wild
<1>2. CASE m \notin Players /\ m = c
  <2>1. m \in Monsters
    BY <1>2 DEF Creatures
  <2>2. L = LookAround(A, m, o)
    BY <1>2 DEF onCreatureAppear
  <2>3. Sees(K, m, K[m].master) \in BOOLEAN
    BY DEF Sees
  <2>4. Steady(K, A) /\ Mindful(K, A, NoCreature)
    BY <2>3, masterInRangeSteady, SteadyItself, masterInRangeMinds, MindfulItself
  <2>5. A \in Worlds /\ A[m].stage # "none"
    BY <2>4 DEF Steady
  <2> HIDE DEF A, L
  <2>6. Mindful(A, L, NoCreature) /\ \A d \in Creatures : Due(A, m, d) => Minds(L, m, d)
    BY <2>1, <2>2, <2>5, LookAroundMindful
  <2>7. Told(L, c, m)
    BY <2>6 DEF Told, Mindful
  <2>8. Mindful(K, L, NoCreature)
    BY <2>4, <2>6, MindfulTransitive
  <2> QED BY <2>7, <2>8 DEF L
<1>3. CASE m \notin Players /\ m # c
  <2>1. m \in Monsters
    BY <1>3 DEF Creatures
  <2>2. L = onCreatureEnter(K, m, c)
    BY <1>3 DEF onCreatureAppear
  <2> HIDE DEF L
  <2>3. Mindful(K, L, NoCreature) /\ (Due(K, m, c) => Minds(L, m, c))
    BY <2>1, <2>2, onCreatureEnterMindful
  <2>4. Told(L, c, m)
    BY <1>3, <2>3 DEF Told, Mindful
  <2> QED BY <2>3, <2>4 DEF L
<1> QED BY <1>1, <1>2, <1>3

\* Everybody around has taken notice of c.
LEMMA AppearedMindful ==
    ASSUME NEW P \in Worlds, NEW c \in Creatures,
           NEW S \in SUBSET Creatures, \A d \in S : P[d].stage # "none", NEW o \in Orders
    PROVE  /\ Mindful(P, Appeared(P, S, o, c), NoCreature)
           /\ \A d \in S : Told(Appeared(P, S, o, c), c, d)
<1> DEFINE W == {X \in Worlds : Steady(P, X) /\ Mindful(P, X, NoCreature)}
           n == Len(o)
<1>1. ASSUME NEW X \in W, NEW d \in S
      PROVE  /\ onCreatureAppear(X, d, c, o) \in W /\ Told(onCreatureAppear(X, d, c, o), c, d)
             /\ Mindful(X, onCreatureAppear(X, d, c, o), NoCreature)
  <2>1. X \in Worlds /\ X[d].stage # "none"
    BY DEF Steady
  <2>2. Mindful(X, onCreatureAppear(X, d, c, o), NoCreature) /\ Told(onCreatureAppear(X, d, c, o), c, d)
    BY <2>1, onCreatureAppearMindful
  <2>3. Steady(X, onCreatureAppear(X, d, c, o))
    BY <2>1, onCreatureAppearSteady
  <2>4. Mindful(P, onCreatureAppear(X, d, c, o), NoCreature) /\ Steady(P, onCreatureAppear(X, d, c, o))
    BY <2>2, <2>3, MindfulTransitive, SteadyTransitive
  <2> QED BY <2>2, <2>4 DEF Steady
<1>2. P \in W
  BY SteadyItself, MindfulItself
<1>3. \A X \in W : Mindful(P, X, NoCreature)
  OBVIOUS
<1> HIDE DEF W
<1>4. PICK h \in [0 .. n -> W] : AppearedRun(h, P, S, o, c)
  BY <1>1, <1>2, AppearedTurns
<1>5. n \in Nat
  BY OrdersReachAll
<1> HIDE DEF n
<1>6. /\ \A i \in 1 .. n : h[i - 1] \in W /\ h[i] = IF o[i] \in S THEN onCreatureAppear(h[i - 1], o[i], c, o) ELSE h[i - 1]
      /\ Appeared(P, S, o, c) = h[n]
      /\ h[n] \in W
  BY <1>4, <1>5 DEF n, AppearedRun
<1>7. ASSUME NEW d \in S PROVE Told(h[n], c, d)
  <2> DEFINE Z == {X \in W : Told(X, c, d)}
  <2>1. ASSUME NEW i \in 1 .. n, o[i] = d \/ h[i - 1] \in Z PROVE h[i] \in Z
    <3>1. CASE o[i] = d
      BY <1>1, <1>6, <3>1
    <3>2. CASE o[i] # d /\ o[i] \in S
      <4>1. h[i] = onCreatureAppear(h[i - 1], o[i], c, o) /\ h[i - 1] \in W /\ Told(h[i - 1], c, d)
        BY <1>6, <2>1, <3>2
      <4>2. h[i] \in W /\ Mindful(h[i - 1], h[i], NoCreature)
        BY <1>1, <3>2, <4>1
      <4>3. Told(h[i], c, d)
        BY <4>1, <4>2, MindfulTold
      <4> QED BY <4>2, <4>3
    <3>3. CASE o[i] # d /\ o[i] \notin S
      BY <1>6, <2>1, <3>3
    <3> QED BY <3>1, <3>2, <3>3
  <2> HIDE DEF Z
  <2>2. h[n] \in Z
    BY <2>1, TurnsReach DEF n
  <2> QED BY <2>2 DEF Z
<1> QED BY <1>3, <1>6, <1>7

LEMMA placeCreatureAlert ==
    ASSUME NEW K \in Worlds, NEW c \in Creatures, AlertBut(K, c), NEW a \in Areas, NEW o \in Orders
    PROVE  Alert(placeCreature(K, c, a, o))
<1> DEFINE P == arrived(K, c, a)
           S == Spectators(P, {a})
           A == Appeared(P, S, o, c)
           L == addCreatureCheck(A, c)
<1>1. placeCreature(K, c, a, o) = L
  BY DEF placeCreature, Appeared, arrived
<1>2. /\ P \in Worlds /\ P[c].stage = "in" /\ P[c].area = a
      /\ \A d \in Creatures : d # c => P[d] = K[d]
  BY arrivedFields
<1>3. /\ S \in SUBSET Creatures /\ \A d \in S : P[d].stage # "none"
      /\ \A d \in Creatures : Placed(P, d) /\ P[d].area = a => d \in S
  BY DEF Spectators, Placed
<1> HIDE DEF P, S
<1>4. Steady(P, A) /\ Mindful(P, A, NoCreature) /\ \A d \in S : Told(A, c, d)
  BY <1>2, <1>3, AppearedSteady, AppearedMindful
<1>5. A \in Worlds /\ A[c].stage # "none"
  BY <1>2, <1>4 DEF Steady
<1> HIDE DEF A
<1>6. Mindful(A, L, NoCreature)
  BY <1>5, addCreatureCheckSteady, addCreatureCheckSettled, SettledMindful
<1> HIDE DEF L
<1>7. AlertBut(P, c)
  BY <1>2 DEF AlertBut, Due, Wild, Prey, Placed, Sees, isPlayerSummon, Minds
<1>8. AlertBut(A, c)
  BY <1>4, <1>7, MindfulAlertBut
<1>9. ASSUME NEW m \in Creatures, NEW d \in Creatures, c \in {m, d}, Due(A, m, d) PROVE Told(A, c, m)
  <2>1. Due(P, m, d)
    BY <1>4, <1>9 DEF Mindful
  <2>2. Placed(P, m) /\ P[m].area = a
    BY <1>2, <1>9, <2>1 DEF Due, Wild, Sees
  <2> QED BY <1>3, <1>4, <2>2
<1>10. Alert(A)
  BY <1>8, <1>9, AllAlert
<1> QED BY <1>1, <1>6, <1>10, MindfulAlert
-----------------------------------------------------------------------------
(* Summons and converts. *)

\* What becomes of m's own pairs is left open.
LEMMA AlikeAlertBut ==
    ASSUME NEW K, NEW L, NEW x, AlertBut(K, x),
           \A d \in Creatures : Alike(L[d], K[d]) /\ (d # x => L[d].master = K[d].master)
    PROVE  AlertBut(L, x)
<1> SUFFICES ASSUME NEW m \in Creatures, NEW d \in Creatures, x \notin {m, d}, Due(L, m, d)
             PROVE  Minds(L, m, d)
  BY DEF AlertBut
<1>1. ASSUME NEW e \in {m, d}
      PROVE  /\ L[e].stage = K[e].stage /\ L[e].area = K[e].area /\ L[e].alive = K[e].alive
             /\ L[e].master = K[e].master /\ L[e].targets = K[e].targets /\ L[e].idle = K[e].idle
  BY DEF Alike
<1>2. Due(K, m, d)
  BY <1>1 DEF Due, Wild, Prey, Placed, Sees, isPlayerSummon
<1>3. Minds(K, m, d)
  BY <1>2 DEF AlertBut
<1> QED BY <1>1, <1>3 DEF Minds

LEMMA AlertAlertBut ==
    ASSUME NEW K, NEW x, Alert(K)
    PROVE  AlertBut(K, x)
BY DEF Alert, AlertBut

LEMMA SummonedAlert ==
    ASSUME NEW K, Good(K), Alert(K), NEW x \in Creatures, NEW m \in Monsters, Placed(K, x), NEW o \in Orders
    PROVE  Alert(Summoned(K, x, m, o))
<1> DEFINE N == addSummon(K, x, m)
           a == K[x].area
<1>0. K \in Worlds /\ m \in Creatures /\ a \in Areas
  BY DEF Good, Creatures, Worlds, Records
<1>1. Summoned(K, x, m, o) = placeCreature(N, m, a, o)
  BY DEF Summoned
<1>2. N \in Worlds /\ Summoning(K, N, x, m)
  BY <1>0, addSummonFields
<1> HIDE DEF N, a
<1>3. AlertBut(N, m)
  <2>1. \A d \in Creatures : Alike(N[d], K[d]) /\ (d # m => N[d].master = K[d].master)
    BY <1>2 DEF Summoning
  <2> QED BY <2>1, AlertAlertBut, AlikeAlertBut
<1> QED BY <1>0, <1>1, <1>2, <1>3, placeCreatureAlert

LEMMA noticeConvincedMindful ==
    ASSUME NEW K \in Worlds, NEW y \in Monsters, NEW m \in Creatures, NEW o \in Orders, K[y].stage # "none"
    PROVE  /\ Mindful(K, noticeConvinced(K, y, m, o), NoCreature)
           /\ Due(K, y, m) => Minds(noticeConvinced(K, y, m, o), y, m)
<1>1. CASE isFriend(K, y, m) \/ isOpponent(K, y, m)
  BY <1>1, LookAroundMindful DEF noticeConvinced
<1>2. CASE ~(isFriend(K, y, m) \/ isOpponent(K, y, m))
  <2>1. y \in Creatures
    BY DEF Creatures
  <2>2. ~Due(K, y, m)
    BY <1>2, <2>1, DueOpponent
  <2> QED BY <1>2, <2>2, MindfulItself DEF noticeConvinced
<1> QED BY <1>1, <1>2

LEMMA NoticedMindful ==
    ASSUME NEW K \in Worlds, NEW S \in SUBSET Monsters, NEW o \in Orders, NEW m \in Creatures,
           \A d \in S : K[d].stage # "none"
    PROVE  /\ Mindful(K, Noticed(K, S, o, m), NoCreature)
           /\ \A y \in S : Due(K, y, m) => Minds(Noticed(K, S, o, m), y, m)
<1> DEFINE W == {X \in Worlds : Steady(K, X) /\ Mindful(K, X, NoCreature)}
           n == Len(o)
<1>1. ASSUME NEW X \in W, NEW d \in S
      PROVE  /\ noticeConvinced(X, d, m, o) \in W
             /\ Mindful(X, noticeConvinced(X, d, m, o), NoCreature)
             /\ Steady(X, noticeConvinced(X, d, m, o))
             /\ Due(X, d, m) => Minds(noticeConvinced(X, d, m, o), d, m)
  <2>1. X \in Worlds /\ X[d].stage # "none"
    BY DEF Steady, Creatures
  <2>2. /\ Mindful(X, noticeConvinced(X, d, m, o), NoCreature)
        /\ Due(X, d, m) => Minds(noticeConvinced(X, d, m, o), d, m)
    BY <2>1, noticeConvincedMindful
  <2>3. Steady(X, noticeConvinced(X, d, m, o))
    BY <2>1, LookAroundSteady, SteadyItself DEF noticeConvinced
  <2>4. Steady(K, noticeConvinced(X, d, m, o)) /\ Mindful(K, noticeConvinced(X, d, m, o), NoCreature)
    BY <2>2, <2>3, SteadyTransitive, MindfulTransitive
  <2> QED BY <2>2, <2>3, <2>4 DEF Steady
<1>2. K \in W
  BY SteadyItself, MindfulItself
<1>3. \A X \in W : Mindful(K, X, NoCreature) /\ Steady(K, X)
  OBVIOUS
<1> HIDE DEF W
<1>4. PICK h \in [0 .. n -> W] : NoticedRun(h, K, S, o, m)
  BY <1>1, <1>2, NoticedTurns
<1>5. n \in Nat
  BY OrdersReachAll
<1> HIDE DEF n
<1>6. /\ \A i \in 1 .. n : h[i - 1] \in W /\ h[i] = IF o[i] \in S THEN noticeConvinced(h[i - 1], o[i], m, o) ELSE h[i - 1]
      /\ Noticed(K, S, o, m) = h[n]
      /\ h[n] \in W
  BY <1>4, <1>5 DEF n, NoticedRun
<1>7. ASSUME NEW d \in S, Due(K, d, m) PROVE Minds(h[n], d, m)
  <2> DEFINE Z == {X \in W : Minds(X, d, m)}
  <2>0. d \in Creatures
    BY DEF Creatures
  <2>1. ASSUME NEW i \in 1 .. n, o[i] = d \/ h[i - 1] \in Z PROVE h[i] \in Z
    <3>1. h[i - 1] \in W /\ Due(h[i - 1], d, m)
      <4>1. h[i - 1] \in W /\ Steady(K, h[i - 1])
        BY <1>3, <1>6
      <4> QED BY <1>7, <2>0, <4>1, SteadyDue
    <3>2. CASE o[i] = d
      BY <1>1, <1>6, <3>1, <3>2
    <3>3. CASE o[i] # d /\ o[i] \in S
      <4>1. h[i] = noticeConvinced(h[i - 1], o[i], m, o) /\ Minds(h[i - 1], d, m)
        BY <1>6, <2>1, <3>3
      <4>2. h[i] \in W /\ Mindful(h[i - 1], h[i], NoCreature) /\ Steady(h[i - 1], h[i])
        BY <1>1, <3>1, <3>3, <4>1
      <4>3. Due(h[i], d, m)
        BY <2>0, <3>1, <4>2, SteadyDue
      <4>4. Minds(h[i], d, m)
        BY <2>0, <4>1, <4>2, <4>3, CreaturesFinite DEF Mindful
      <4> QED BY <4>2, <4>4
    <3>4. CASE o[i] # d /\ o[i] \notin S
      BY <1>6, <2>1, <3>4
    <3> QED BY <3>2, <3>3, <3>4
  <2> HIDE DEF Z
  <2>2. \A i \in 1 .. Len(o) : o[i] = d \/ h[i - 1] \in Z => h[i] \in Z
    BY <2>1 DEF n
  <2>3. h[n] \in Z
    BY <2>0, <2>2, TurnsReach DEF n
  <2> QED BY <2>3 DEF Z
<1> QED BY <1>3, <1>6, <1>7
\* The convinced monster looks around, and those who see it look at it.
LEMMA convinceCreatureAlert ==
    ASSUME NEW K, Good(K), Alert(K), NEW p \in Players, NEW m \in Monsters, Placed(K, p), Placed(K, m),
           NEW o \in Orders
    PROVE  Alert(convinceCreature(K, p, m, o))
<1> DEFINE x == K[m].master
           R == IF x = NoCreature THEN K ELSE removeSummon(K, x, m)
           N == addSummon(R, p, m)
           A == setAttackedCreature(N, m, NoCreature)
           T == A[m].summons
           D == destroySummons(A, m, o)
           E == [D EXCEPT ![m].masterInRange = TRUE]
           L == LookAround(E, m, o)
           S == Monsters \cap Spectators(L, {L[m].area, L[p].area})
           C == Noticed(L, S, o, m)
<1>0. /\ K \in Worlds /\ m \in Creatures /\ p \in Creatures /\ p # m /\ p \notin Monsters
      /\ x \in Creatures \cup {NoCreature}
  BY CreaturesAssumption DEF Good, Creatures, Worlds, Records
<1>1. convinceCreature(K, p, m, o) = C
  BY DEF convinceCreature, Noticed, noticeConvinced
<1>2. Good(R) /\ Remaining(K, R) /\ R[m].master = NoCreature /\ AlertBut(R, m)
  <2>0. AlertBut(K, m)
    BY AlertAlertBut
  <2>1. CASE x = NoCreature
    BY <1>0, <2>0, <2>1 DEF Remaining
  <2>2. CASE x # NoCreature
    <3>1. R = removeSummon(K, x, m) /\ x \in Creatures /\ m \in K[x].summons
      BY <1>0, <2>2 DEF Good, Families, Agree
    <3>2. Waning(K, R) /\ Remaining(K, R)
      BY <1>0, <3>1, removeSummonWaning
    <3>3. Unsummoned(K, R, x, m)
      BY <1>0, <3>1, removeSummonFields
    <3> HIDE DEF R, x
    <3>4. Good(R)
      BY <3>2, RemainingGood
    <3>5. R[m].master = NoCreature /\ \A d \in Creatures : Alike(R[d], K[d]) /\ (d # m => R[d].master = K[d].master)
      BY <1>0, <3>3 DEF Unsummoned
    <3>6. AlertBut(R, m)
      BY <2>0, <3>5, AlikeAlertBut
    <3> QED BY <3>2, <3>4, <3>5, <3>6
  <2> QED BY <2>1, <2>2
<1> HIDE DEF R
<1>3. Placed(R, p) /\ Placed(R, m)
  BY <1>0, <1>2 DEF Remaining, Placed
<1>4. /\ N \in Worlds /\ Summoning(R, N, p, m)
      /\ \A d \in Creatures : Awake(N, d)
  BY <1>0, <1>2, <1>3, addSummonJoins
<1> HIDE DEF N
<1>5. ASSUME NEW d \in Creatures
      PROVE  /\ N[d].stage = R[d].stage /\ Alike(N[d], R[d]) /\ (d # m => N[d].master = R[d].master)
             /\ d # p => N[d].summons = R[d].summons
  BY <1>4 DEF Summoning, Alike
<1>6. AlertBut(N, m)
  BY <1>2, <1>5, AlikeAlertBut
<1>7. Steady(N, A) /\ Mindful(N, A, NoCreature)
  BY <1>0, <1>4, letOffSteady, letOffMindful
<1>8. /\ A \in Worlds /\ Waning(N, A) /\ Remaining(N, A)
      /\ A[m].summons = N[m].summons
  BY <1>0, <1>4, <1>7, SteadyWaning DEF Steady, Remaining
<1> HIDE DEF A
<1>9. T \in SUBSET Creatures /\ \A s \in T : A[s].stage # "none" /\ Awake(A, s)
  <2>1. T \subseteq R[m].summons
    BY <1>0, <1>5, <1>8
  <2>2. T \in SUBSET Creatures
    BY <1>0, <1>8 DEF Worlds, Records, Creatures
  <2> SUFFICES ASSUME NEW s \in T PROVE A[s].stage # "none" /\ Awake(A, s)
    BY <2>2
  <2>3. s \in Creatures /\ R[s].stage # "none"
    BY <1>0, <1>2, <2>1, GoodStages
  <2>4. Awake(A, s)
    BY <1>4, <1>8, <2>3 DEF Waning, Less, Quiet
  <2> QED BY <1>5, <1>8, <2>3, <2>4 DEF Remaining
<1>10. D = Destroyed(A, T, o, m)
  BY DEF destroySummons, Destroyed, destroySummon
<1> HIDE DEF T, D
<1>11. Waning(A, D) /\ Remaining(A, D) /\ Mindful(A, D, NoCreature)
  BY <1>0, <1>8, <1>9, <1>10, DestroyedWaning, DestroyedMindful
<1>12. D \in Worlds /\ D[m].stage # "none"
  <2>1. D[m].stage = K[m].stage
    BY <1>0, <1>2, <1>5, <1>8, <1>11 DEF Remaining
  <2> QED BY <1>11, <2>1 DEF Waning, Placed
<1>13. Steady(D, E) /\ Mindful(D, E, NoCreature)
  <2>1. TRUE \in BOOLEAN
    OBVIOUS
  <2> QED BY <1>0, <1>12, <2>1, masterInRangeSteady, masterInRangeMinds
<1>14. E \in Worlds /\ E[m].stage # "none"
  BY <1>0, <1>12, <1>13 DEF Steady
<1> HIDE DEF E
<1>15. Steady(E, L) /\ Mindful(E, L, NoCreature) /\ \A d \in Creatures : Due(E, m, d) => Minds(L, m, d)
  BY <1>14, LookAroundSteady, LookAroundMindful
<1> HIDE DEF L
<1>16. L \in Worlds
  BY <1>15 DEF Steady
<1>17. /\ S \in SUBSET Monsters /\ \A d \in S : L[d].stage # "none"
       /\ \A y \in Monsters : Due(L, y, m) => y \in S
  BY <1>0 DEF Spectators, Placed, Creatures, Due, Wild, Sees
<1> HIDE DEF S
<1>18. Steady(L, C) /\ Mindful(L, C, NoCreature) /\ \A y \in S : Due(L, y, m) => Minds(C, y, m)
  BY <1>0, <1>16, <1>17, NoticedSteady, NoticedMindful
<1> HIDE DEF C
<1>19. AlertBut(C, m)
  <2>1. AlertBut(A, m)
    BY <1>6, <1>7, MindfulAlertBut
  <2>2. AlertBut(D, m)
    BY <1>11, <2>1, MindfulAlertBut
  <2>3. AlertBut(E, m)
    BY <1>13, <2>2, MindfulAlertBut
  <2>4. AlertBut(L, m)
    BY <1>15, <2>3, MindfulAlertBut
  <2> QED BY <1>18, <2>4, MindfulAlertBut
<1>20. ASSUME NEW y \in Creatures, NEW d \in Creatures, m \in {y, d}, Due(C, y, d) PROVE Minds(C, y, d)
  <2>1. Due(L, y, d)
    BY <1>18, <1>20 DEF Mindful
  <2>2. CASE y = m
    <3>1. Due(E, m, d)
      BY <1>15, <2>1, <2>2, <1>20 DEF Mindful
    <3>2. Minds(L, m, d)
      BY <1>15, <3>1
    <3> QED BY <1>18, <1>20, <2>2, <3>2, CreaturesFinite DEF Mindful
  <2>3. CASE y # m
    <3>1. d = m /\ y \in Monsters
      BY <1>20, <2>1, <2>3 DEF Due, Wild
    <3> QED BY <1>17, <1>18, <2>1, <3>1
  <2> QED BY <2>2, <2>3
<1>21. Alert(C)
  BY <1>19, <1>20 DEF Alert, AlertBut
<1> QED BY <1>1, <1>21

-----------------------------------------------------------------------------
(* The steps. *)

LEMMA BareOutwardly ==
    ASSUME NEW K, NEW L, \A d \in Creatures : Bare(L[d], K[d])
    PROVE  Outwardly(K, L)
BY DEF Bare, Outwardly

LEMMA DestroyAlert ==
    ASSUME IInv, Alert(crea), NEW c \in Creatures, Destroy(c)
    PROVE  Alert(crea')
<1> DEFINE L == destroyed(crea, c)
<1>0. Good(crea) /\ crea \in Worlds /\ Masters(crea)
  BY DEF IInv, Good, Families
<1>1. crea' = L
  BY DEF Destroy, destroyed
<1>2. crea[c].stage = "gone"
  BY DoomedIsAlone DEF Destroy
<1>3. L[c] = Blank /\ \A d \in Creatures : d # c => AfterDestruction(crea, L, c, d)
  BY <1>0, destroyedFields
<1> HIDE DEF L
<1>4. ASSUME NEW d \in Creatures, Placed(L, d)
      PROVE  /\ d # c
             /\ L[d].stage = crea[d].stage /\ L[d].area = crea[d].area /\ L[d].alive = crea[d].alive
             /\ L[d].master = crea[d].master /\ L[d].targets = crea[d].targets /\ L[d].idle = crea[d].idle
  <2>1. d # c
    BY <1>3, <1>4 DEF Blank, Placed
  <2>2. AfterDestruction(crea, L, c, d)
    BY <1>3, <2>1
  <2>3. d \notin crea[c].summons
    BY <1>0, <1>2, <1>4, <2>2 DEF AfterDestruction, Masters, Placed
  <2> QED BY <2>1, <2>2, <2>3 DEF AfterDestruction
<1>5. ASSUME NEW m \in Creatures, NEW d \in Creatures, Due(L, m, d) PROVE Minds(L, m, d)
  <2>1. Placed(L, m) /\ Placed(L, d)
    BY <1>5 DEF Due, Wild, Prey
  <2>2. Due(crea, m, d)
    BY <1>4, <1>5, <2>1 DEF Due, Wild, Prey, Placed, Sees, isPlayerSummon
  <2>3. Minds(crea, m, d)
    BY <2>2 DEF Alert
  <2> QED BY <1>4, <2>1, <2>3 DEF Minds
<1>6. Alert(L)
  BY <1>5 DEF Alert
<1> QED BY <1>1, <1>6

LEMMA HitAlert ==
    ASSUME IInv, Alert(crea), NEW c \in Creatures, Hit(c)
    PROVE  Alert(crea')
<1>1. PICK alive \in BOOLEAN : crea' = changeHealth(crea, c, alive)
  BY DEF Hit
<1>2. crea \in Worlds /\ crea[c].stage # "none" /\ (alive => crea[c].alive)
  BY DEF IInv, Good, Hit, In
<1>3. Mindful(crea, changeHealth(crea, c, alive), NoCreature)
  BY <1>2, changeHealthMindful
<1> QED BY <1>1, <1>3, MindfulAlert

LEMMA DieAlert ==
    ASSUME IInv, Alert(crea), NEW c \in Creatures, Die(c)
    PROVE  Alert(crea')
<1>1. PICK o \in Orders : crea' = die(crea, c, o)
  BY DEF Die
<1>2. Good(crea) /\ ~crea[c].alive
  BY DEF IInv, Die
<1>3. Mindful(crea, die(crea, c, o), NoCreature)
  BY <1>2, dieMindful
<1> QED BY <1>1, <1>3, MindfulAlert

LEMMA UnlistAlert ==
    ASSUME IInv, Alert(crea), NEW c \in Creatures, Unlist(c)
    PROVE  Alert(crea')
<1>1. crea \in Worlds /\ crea' = unlisted(crea, c)
  BY DEF IInv, Good, Unlist, unlisted
<1>2. \A d \in Creatures : Bare(unlisted(crea, c)[d], crea[d])
  BY <1>1, unlistedFields
<1>3. Outwardly(crea, unlisted(crea, c))
  BY <1>2, BareOutwardly
<1> QED BY <1>1, <1>3, OutwardlyAlert

LEMMA ConnectAlert ==
    ASSUME IInv, Alert(crea), NEW p \in Players, Connect(p)
    PROVE  Alert(crea')
<1>1. crea \in Worlds /\ p \in Creatures /\ ~crea[p].client /\ crea' = attached(crea, p)
  BY DEF IInv, Good, Creatures, Connect, attached
<1>2. \A d \in Creatures : Bare(attached(crea, p)[d], crea[d])
  BY <1>1, attachedFields
<1>3. Outwardly(crea, attached(crea, p))
  BY <1>2, BareOutwardly
<1> QED BY <1>1, <1>3, OutwardlyAlert

LEMMA DisconnectAlert ==
    ASSUME IInv, Alert(crea), NEW p \in Players, Disconnect(p)
    PROVE  Alert(crea')
<1>1. crea \in Worlds /\ p \in Creatures /\ crea[p].client /\ crea' = detached(crea, p)
  BY DEF IInv, Good, Creatures, Disconnect, detached
<1>2. \A d \in Creatures : Bare(detached(crea, p)[d], crea[d])
  BY <1>1, detachedFields
<1>3. Outwardly(crea, detached(crea, p))
  BY <1>2, BareOutwardly
<1> QED BY <1>1, <1>3, OutwardlyAlert

LEMMA LoginAlert ==
    ASSUME IInv, Alert(crea), NEW p \in Players, Login(p)
    PROVE  Alert(crea')
<1> DEFINE L == attached(crea, p)
<1>0. crea \in Worlds /\ p \in Creatures /\ ~crea[p].client /\ Temple \in Areas
  BY CreaturesAssumption DEF IInv, Good, Fresh, Creatures, Login, Free
<1>1. PICK o \in Orders : crea' = placeCreature(L, p, Temple, o)
  BY DEF Login, attached
<1>2. L \in Worlds /\ \A d \in Creatures : Bare(L[d], crea[d])
  BY <1>0, attachedFields
<1> HIDE DEF L
<1>3. AlertBut(L, p)
  BY <1>2, BareOutwardly, OutwardlyAlert, AlertAlertBut
<1>4. Alert(placeCreature(L, p, Temple, o))
  BY <1>0, <1>2, <1>3, placeCreatureAlert
<1> QED BY <1>1, <1>4

LEMMA LogoutAlert ==
    ASSUME IInv, Alert(crea), NEW p \in Players, Logout(p)
    PROVE  Alert(crea')
<1>1. PICK o \in Orders : crea' = removeCreature(crea, p, o)
  BY DEF Logout
<1>2. crea \in Worlds /\ p \in Creatures
  BY DEF IInv, Good, Creatures
<1>3. Mindful(crea, removeCreature(crea, p, o), NoCreature)
  BY <1>2, removeCreatureMindful
<1> QED BY <1>1, <1>3, MindfulAlert

LEMMA AttackAlert ==
    ASSUME IInv, Alert(crea), NEW p \in Players, NEW x, Attack(p, x)
    PROVE  Alert(crea')
<1>1. crea \in Worlds /\ p \in Creatures /\ crea' = setAttackedCreature(crea, p, x)
  BY DEF IInv, Good, Creatures, Attack
<1>2. Outwardly(crea, setAttackedCreature(crea, p, x))
  BY <1>1, setAttackedCreatureOutwardly
<1> QED BY <1>1, <1>2, OutwardlyAlert

LEMMA WalkAlert ==
    ASSUME IInv, Alert(crea), NEW c \in Creatures, NEW a \in Areas, Walk(c, a)
    PROVE  Alert(crea')
<1>1. PICK pick \in Picks(crea, c, a), o \in Orders : crea' = cleanup(moveCreature(crea, c, a, pick, o))
  BY DEF Walk
<1> DEFINE M == moveCreature(crea, c, a, pick, o)
<1>2. Good(crea) /\ Placed(crea, c) /\ a # crea[c].area
  BY DEF IInv, Walk, In, Placed
<1>3. Good(M) /\ Alert(M)
  BY <1>2, moveCreatureGood, moveCreatureAlert
<1>4. crea' = cleanup(M)
  BY <1>1
<1> HIDE DEF M
<1>5. Outwardly(M, cleanup(M))
  BY <1>3, cleanupOutwardly DEF Good
<1>6. Alert(cleanup(M))
  BY <1>3, <1>5, OutwardlyAlert
<1> QED BY <1>4, <1>6

LEMMA ConvinceAlert ==
    ASSUME IInv, Alert(crea), NEW p \in Players, NEW m \in Monsters, Convince(p, m)
    PROVE  Alert(crea')
<1>1. PICK o \in Orders :
        crea' = IF m \in spawned THEN releaseThing2(convinceCreature(crea, p, m, o), m)
                ELSE convinceCreature(crea, p, m, o)
  BY DEF Convince
<1> DEFINE C == convinceCreature(crea, p, m, o)
<1>2. Good(crea) /\ Placed(crea, p) /\ Placed(crea, m)
  BY DEF IInv, Convince, In, Placed
<1>3. Good(C) /\ Alert(C)
  BY <1>2, convinceCreatureGood, convinceCreatureAlert
<1>4. crea' = releaseThing2(C, m) \/ crea' = C
  BY <1>1
<1> HIDE DEF C
<1>5. Outwardly(C, releaseThing2(C, m))
  BY <1>3, releaseThing2Outwardly DEF Good
<1>6. Alert(releaseThing2(C, m))
  BY <1>3, <1>5, OutwardlyAlert
<1> QED BY <1>3, <1>4, <1>6

LEMMA SummonAlert ==
    ASSUME IInv, Alert(crea), NEW p \in Players, NEW m \in Monsters, Summon(p, m)
    PROVE  Alert(crea')
<1>1. PICK o \in Orders : crea' = Summoned(crea, p, m, o)
  BY DEF Summon
<1>2. Good(crea) /\ p \in Creatures /\ Placed(crea, p)
  BY DEF IInv, Creatures, Summon, In, Placed
<1>3. Alert(Summoned(crea, p, m, o))
  BY <1>2, SummonedAlert
<1> QED BY <1>1, <1>3
LEMMA placedIsWorld ==
    ASSUME NEW K \in Worlds, NEW c \in Creatures, NEW a \in Areas, NEW o \in Orders
    PROVE  placeCreature(K, c, a, o) \in Worlds
<1> DEFINE P == arrived(K, c, a)
           S == Spectators(P, {a})
           A == Appeared(P, S, o, c)
<1>1. placeCreature(K, c, a, o) = addCreatureCheck(A, c)
  BY DEF placeCreature, Appeared, arrived
<1>2. P \in Worlds /\ P[c].stage = "in"
  BY arrivedFields
<1>3. S \in SUBSET Creatures /\ \A d \in S : P[d].stage # "none"
  BY DEF Spectators, Placed
<1> HIDE DEF P, S
<1>4. Steady(P, A)
  BY <1>2, <1>3, AppearedSteady
<1>5. A \in Worlds /\ A[c].stage # "none"
  BY <1>2, <1>4 DEF Steady
<1> HIDE DEF A
<1> QED BY <1>1, <1>5, addCreatureCheckSteady DEF Steady


LEMMA AttackedAlert ==
    ASSUME NEW c \in Creatures, Good(crea), Alert(crea), NEW K \in Attacked(c)
    PROVE  Alert(K)
<1> DEFINE x == crea[c].attacked
<1>1. CASE K = crea
  BY <1>1
<1>2. CASE K # crea
  <2>1. x \notin {c, NoCreature} /\ K \in {changeHealth(crea, x, alive) : alive \in {b \in BOOLEAN : crea[x].alive}}
    BY <1>2 DEF Attacked
  <2>2. PICK alive \in BOOLEAN : crea[x].alive /\ K = changeHealth(crea, x, alive)
    BY <2>1
  <2>3. Aims(crea, c) /\ x \in Creatures /\ crea \in Worlds
    BY <2>1 DEF Good, Worlds, Records
  <2>4. crea[x].stage # "none"
    BY <2>1, <2>3 DEF Aims, Placed
  <2> HIDE DEF x
  <2>5. Mindful(crea, changeHealth(crea, x, alive), NoCreature)
    BY <2>2, <2>3, <2>4, changeHealthMindful
  <2> QED BY <2>2, <2>5, MindfulAlert
<1> QED BY <1>1, <1>2

LEMMA SelectedAlert ==
    ASSUME NEW K \in Worlds, Alert(K), NEW c \in Creatures, NEW S \in Selected(K, c)
    PROVE  Alert(S)
<1>1. S = K \/ \E x : S = selectTarget(K, c, x)
  BY DEF Selected
<1>2. \A x : selectTarget(K, c, x) = K \/ selectTarget(K, c, x) = setAttackedCreature(K, c, x)
  BY DEF selectTarget
<1>3. \A x : Alert(setAttackedCreature(K, c, x))
  BY setAttackedCreatureOutwardly, OutwardlyAlert
<1> QED BY <1>1, <1>2, <1>3

LEMMA ThinkPlayerAlert ==
    ASSUME IInv, Alert(crea), NEW c \in Creatures, ThinkPlayer(c)
    PROVE  Alert(crea')
<1>0. Good(crea)
  BY DEF IInv
<1>1. PICK K \in Attacked(c) :
        \/ crea' = K
        \/ \E o \in Orders : crea' = removeCreature(K, c, o)
  BY DEF ThinkPlayer
<1>2. Good(K) /\ Alert(K)
  BY <1>0, AttackedStill, AttackedAlert DEF Still
<1>3. ASSUME NEW o \in Orders PROVE Alert(removeCreature(K, c, o))
  <2>1. Mindful(K, removeCreature(K, c, o), NoCreature)
    BY <1>2, removeCreatureMindful DEF Good
  <2> QED BY <1>2, <2>1, MindfulAlert
<1> QED BY <1>1, <1>2, <1>3

LEMMA ThinkMonsterAlert ==
    ASSUME IInv, Alert(crea), NEW c \in Monsters, crea[c].check, ThinkMonster(c)
    PROVE  Alert(crea')
<1>0. Good(crea) /\ c \in Creatures
  BY DEF IInv, Creatures
<1>1. Placed(crea, c)
  BY <1>0 DEF Good, Tidy
<1> DEFINE Despawns(K) == \E o \in Orders : crea' = removeCreature(K, c, o)
           Summons(S) == \E m \in Monsters, o \in Orders : crea' = Summoned(S, c, m, o)
<1>2. PICK K \in Attacked(c) :
        \/ Despawns(K)
        \/ crea' = updateIdleStatus(K, c)
        \/ \E S \in Selected(updateIdleStatus(K, c), c) : crea' = S \/ Summons(S)
  BY DEF ThinkMonster
<1> DEFINE U == updateIdleStatus(K, c)
<1>3. Still(crea, K) /\ Alert(K)
  BY <1>0, AttackedStill, AttackedAlert
<1>4. K \in Worlds /\ K[c].stage # "none"
  BY <1>0, <1>1, <1>3 DEF Still, Remaining, Placed, Good
<1>5. Still(K, U) /\ Alert(U)
  <2>1. Still(K, U)
    BY <1>3, <1>4, updateIdleStatusGood DEF Still
  <2>2. Mindful(K, U, NoCreature)
    BY <1>4, updateIdleStatusMindful
  <2> HIDE DEF U
  <2> QED BY <1>3, <2>1, <2>2, MindfulAlert
<1>6. Still(crea, U)
  BY <1>3, <1>5, StillTransitive
<1>7. Placed(U, c)
  BY <1>0, <1>1, <1>6 DEF Still, Remaining, Placed
<1> HIDE DEF U
<1>8. CASE Despawns(K)
  <2>1. PICK o \in Orders : crea' = removeCreature(K, c, o)
    BY <1>8
  <2>2. Mindful(K, removeCreature(K, c, o), NoCreature)
    BY <1>0, <1>4, removeCreatureMindful
  <2> QED BY <1>3, <2>1, <2>2, MindfulAlert
<1>9. CASE crea' = U
  BY <1>5, <1>9
<1>10. CASE \E S \in Selected(U, c) : crea' = S \/ Summons(S)
  <2>1. PICK S \in Selected(U, c) : crea' = S \/ Summons(S)
    BY <1>10
  <2>2. Still(U, S) /\ Alert(S)
    BY <1>0, <1>5, <1>6, <1>7, SelectedStill, SelectedAlert DEF Still, Good
  <2>3. CASE crea' = S
    BY <2>2, <2>3
  <2>4. CASE Summons(S)
    <3>1. PICK m \in Monsters, o \in Orders : crea' = Summoned(S, c, m, o)
      BY <2>4
    <3>2. Good(S) /\ Placed(S, c)
      BY <1>0, <1>7, <2>2 DEF Still, Remaining, Placed
    <3>3. Alert(Summoned(S, c, m, o))
      BY <1>0, <2>2, <3>2, SummonedAlert
    <3> QED BY <3>1, <3>3
  <2> QED BY <2>1, <2>3, <2>4
<1> QED BY <1>2, <1>8, <1>9, <1>10 DEF U

LEMMA ThinkAlert ==
    ASSUME IInv, Alert(crea), NEW c \in Creatures, Think(c)
    PROVE  Alert(crea')
<1>1. CASE c \in Players
  BY <1>1, ThinkPlayerAlert DEF Think
<1>2. CASE c \notin Players
  BY <1>2, ThinkMonsterAlert DEF Think, Creatures
<1> QED BY <1>1, <1>2

LEMMA checkSpawnAlert ==
    ASSUME IInv, Alert(crea), checkSpawn
    PROVE  Alert(crea')
<1> DEFINE K == SpawnCleaned
<1>0. crea \in Worlds
  BY DEF IInv, Good
<1>1. K \in Worlds /\ Alert(K)
  <2> DEFINE S == {m \in spawned : crea[m].stage = "gone"}
  <2>1. K = releaseAll(crea, S)
    BY DEF SpawnCleaned
  <2> HIDE DEF S, K
  <2>2. K \in Worlds /\ Outwardly(crea, K)
    BY <1>0, <2>1, releaseAllFields, releaseAllOutwardly
  <2> QED BY <2>2, OutwardlyAlert
<1>2. crea' = K \/ \E m \in Monsters : spawnMonster(m)
  BY DEF checkSpawn
<1>3. CASE \E m \in Monsters : spawnMonster(m)
  <2>1. PICK m \in Monsters, o \in Orders : crea' = useThing2(placeCreature(K, m, SpawnArea, o), m)
    BY <1>3 DEF spawnMonster
  <2> DEFINE P == placeCreature(K, m, SpawnArea, o)
  <2> HIDE DEF K
  <2>2. m \in Creatures /\ SpawnArea \in Areas /\ AlertBut(K, m)
    BY <1>1, AlertAlertBut, CreaturesAssumption DEF Creatures
  <2>3. Alert(P)
    BY <1>1, <2>2, placeCreatureAlert
  <2>4. crea' = useThing2(P, m) /\ P \in Worlds
    <3>1. crea' = useThing2(P, m)
      BY <2>1
    <3>2. P \in Worlds
      BY placedIsWorld, <1>1, <2>2
    <3> QED BY <3>1, <3>2
  <2> HIDE DEF P
  <2>5. Outwardly(P, useThing2(P, m))
    BY <2>4, useThing2Outwardly
  <2>6. Alert(useThing2(P, m))
    BY <2>3, <2>5, OutwardlyAlert
  <2> QED BY <2>4, <2>6
<1> QED BY <1>1, <1>2, <1>3

LEMMA StartWalkAlert ==
    ASSUME IInv, Alert(crea), StartWalk
    PROVE  Alert(crea')
<1> DEFINE L == [c \in Creatures |-> [crea[c] EXCEPT !.toAdd = 0]]
<1>1. crea \in Worlds /\ crea' = L
  BY DEF IInv, Good, StartWalk
<1>2. Outwardly(crea, L)
  BY <1>1 DEF Outwardly, Worlds, Records
<1> HIDE DEF L
<1>3. Alert(L)
  BY <1>2, OutwardlyAlert
<1> QED BY <1>1, <1>3

LEMMA EndWalkAlert ==
    ASSUME IInv, Alert(crea), EndWalk
    PROVE  Alert(crea')
<1>1. crea \in Worlds /\ crea' = cleanup(crea)
  BY DEF IInv, Good, EndWalk
<1>2. Outwardly(crea, cleanup(crea))
  BY <1>1, cleanupOutwardly
<1> QED BY <1>1, <1>2, OutwardlyAlert

\* At the start nobody has a player to notice.
LEMMA InitAlert ==
    ASSUME Init
    PROVE  Alert(crea)
<1>1. \A c \in Creatures : crea[c].master = NoCreature /\ (c \in Players => crea[c].stage = "none")
  <2> DEFINE R == [Blank EXCEPT !.stage = "in", !.alive = TRUE, !.useCount = 2]
  <2>1. crea = [c \in Creatures |-> IF c \in spawned THEN R ELSE Blank] /\ spawned \subseteq Monsters
    BY DEF Init
  <2>2. R.master = NoCreature /\ Blank.master = NoCreature /\ Blank.stage = "none"
    BY DEF Blank
  <2>3. Players \cap Monsters = {}
    BY CreaturesAssumption
  <2> HIDE DEF R
  <2> QED BY <2>1, <2>2, <2>3
<1>2. NoCreature \notin Players
  BY CreaturesAssumption
<1> QED BY <1>1, <1>2 DEF Alert, Due, Prey, Placed, isPlayerSummon

LEMMA StepAlert ==
    ASSUME IInv, Alert(crea), [Next]_vars
    PROVE  Alert(crea')
<1>1. CASE \E c \in Creatures : Destroy(c) \/ Hit(c) \/ Think(c) \/ Die(c) \/ Unlist(c)
  BY <1>1, DestroyAlert, HitAlert, ThinkAlert, DieAlert, UnlistAlert
<1>2. CASE \E p \in Players : \/ Login(p) \/ Connect(p) \/ Disconnect(p) \/ Logout(p)
                              \/ \E x \in Creatures \cup {NoCreature} : Attack(p, x)
  BY <1>2, LoginAlert, ConnectAlert, DisconnectAlert, LogoutAlert, AttackAlert
<1>3. CASE \E c \in Creatures, a \in Areas : Walk(c, a)
  BY <1>3, WalkAlert
<1>4. CASE \E p \in Players, m \in Monsters : Convince(p, m) \/ Summon(p, m)
  BY <1>4, ConvinceAlert, SummonAlert
<1>5. CASE checkSpawn \/ StartWalk \/ EndWalk
  BY <1>5, checkSpawnAlert, StartWalkAlert, EndWalkAlert
<1>6. CASE UNCHANGED vars
  BY <1>6 DEF vars
<1> QED BY <1>1, <1>2, <1>3, <1>4, <1>5, <1>6 DEF Next

\* However they have come to share an area - by a move, a login, a summoning, a conversion, a spawn -
\* a wild monster has the players and the players' summons that it sees among its targets and is
\* awake, so checkCreatures lets it think.
THEOREM MonstersStayAwake ==
    Spec => []MonstersWakeInSight
<1>1. Init => Alert(crea)
  BY InitAlert
<1>2. IInv /\ Alert(crea) /\ [Next]_vars => Alert(crea)'
  BY StepAlert
<1>3. ASSUME Alert(crea) PROVE MonstersWakeInSight
  <2> SUFFICES ASSUME NEW m \in Monsters, NEW c \in Creatures,
                      In(m), crea[m].alive, crea[m].master = NoCreature, In(c), Sees(crea, m, c),
                      isOpponent(crea, m, c)
               PROVE  c \in crea[m].targets /\ ~crea[m].idle
    BY DEF MonstersWakeInSight
  <2>1. NoCreature \notin Players /\ m \in Creatures
    BY CreaturesAssumption DEF Creatures
  <2>2. Due(crea, m, c)
    BY <2>1 DEF Due, Wild, Prey, Placed, In, isOpponent, isPlayerSummon
  <2> QED BY <1>3, <2>1, <2>2 DEF Alert, Minds
<1> QED BY <1>1, <1>2, <1>3, InvariantHolds, PTL DEF Spec
=============================================================================

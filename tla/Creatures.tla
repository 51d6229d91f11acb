----------------------------- MODULE Creatures ------------------------------
(* How long a creature lives, and who thinks: reference counts, deferred      *)
(* deletion (FreeThing and cleanup), the buckets of Game::checkCreatures, the *)
(* friends and targets of monsters, masters and summons, spawns and the       *)
(* clients of players (game.cpp, creature.cpp, monster.cpp, spawn.cpp,        *)
(* protocolgame.cpp). Everything runs on the dispatcher.                      *)
(*                                                                            *)
(* The map is a set of areas: who is in the same one sees and is seen. Events *)
(* reach the spectators of an area one after the other, in any order. Players *)
(* and monsters are objects in memory: a player who logs in again may get     *)
(* another one. The bucket of a creature is chosen when it enters it, and its *)
(* creatures are visited in any order. Left out: npcs, conditions, which keep *)
(* a monster awake, parties, placements that fail and at once delete what was *)
(* to be placed, protection zones, and whom a creature follows.               *)
(* An operator named X_How is X with a bug; no specification uses it.         *)
EXTENDS Integers, FiniteSets, SequencesExt

CONSTANTS
    Players, Monsters,  \* objects
    Areas,
    SpawnArea, Temple,  \* where monsters and players appear
    Far,                \* the pairs of areas more than 30 tiles apart
    SpawnSize,          \* monsters that one spawn keeps
    Buckets,            \* EVENT_CREATURECOUNT
    MaxSummons,
    MaxReleases,        \* bound: players connect while they are in ToReleaseThings less often than this
    NoCreature

ASSUME CreaturesAssumption ==
    /\ Players \cap Monsters = {} /\ NoCreature \notin Players \cup Monsters
    /\ IsFiniteSet(Players) /\ IsFiniteSet(Monsters)
    /\ SpawnArea \in Areas /\ Temple \in Areas
    /\ Far \subseteq {{a, b} : a, b \in Areas} \ {{a} : a \in Areas}
    /\ SpawnSize \in Nat /\ MaxSummons \in Nat /\ MaxReleases \in Nat
    /\ Buckets \in Nat \ {0}

Creatures == Players \cup Monsters

VARIABLES
    crea,             \* what each object holds, see Blank
    spawned,          \* Spawn::spawnedMap; these monsters also point at the spawn
    checkSpawnEvent,  \* whether Spawn::checkSpawnEvent is scheduled
    vectors,          \* checkCreatureVectors: how often each creature is in each
    lastIndex,        \* checkCreatureLastIndex
    walking, todo     \* checkCreatures is running, and the creatures it has yet to come to

vars == <<crea, spawned, checkSpawnEvent, vectors, lastIndex, walking, todo>>

\* Free memory. "in" is placed on the map, "gone" is isRemoved().
Blank == [
    stage |-> "none", area |-> SpawnArea, alive |-> FALSE,
    master |-> NoCreature, summons |-> {}, friends |-> {}, targets |-> {},
    attacked |-> NoCreature,   \* attackedCreature; what a removed creature attacked nobody reads
    idle |-> TRUE, masterInRange |-> FALSE,
    check |-> FALSE,    \* creatureCheck
    listed |-> FALSE,   \* checkCreatureVectorIndex >= 0
    toAdd |-> 0,        \* how often in toAddCheckCreatureVector
    release |-> 0,      \* how often in ToReleaseThings
    client |-> FALSE,   \* Player::client # NULL: a ProtocolGame holds the player
    useCount |-> 0]

Orders == SetToSeqs(Creatures)
In(c) == crea[c].stage = "in"
Dead(c) == In(c) /\ ~crea[c].alive
Placed(K, c) == K[c].stage = "in"
Sees(K, c, d) == K[c].area = K[d].area

Spectators(K, A) == {c \in Creatures : Placed(K, c) /\ K[c].area \in A}

\* What step makes of K, for each member of S in the order o.
InTurn(step(_, _), K, S, o) ==
    LET after[n \in 0 .. Len(o)] ==
            IF n = 0 THEN K
            ELSE IF o[n] \in S THEN step(after[n - 1], o[n]) ELSE after[n - 1]
    IN  after[Len(o)]

-----------------------------------------------------------------------------
(* References. *)

useThing2(K, c) == [K EXCEPT ![c].useCount = @ + 1]

\* The destructor runs as a step of its own, see Destroy.
releaseThing2(K, c) == [K EXCEPT ![c].useCount = @ - 1]

releaseAll(K, S) ==
    IF S = {} THEN K
    ELSE [c \in Creatures |-> IF c \in S THEN [K[c] EXCEPT !.useCount = @ - 1] ELSE K[c]]

FreeThing(K, c) == [K EXCEPT ![c].release = @ + 1]

\* m lets go of friends and of targets.
letGo(K, m, friends, targets) ==
    [releaseAll(releaseAll(K, friends), targets) EXCEPT ![m].friends = @ \ friends,
                                                        ![m].targets = @ \ targets]

\* A bug: the friends are dropped without releaseThing2.
clearLists_Friends(K, m) ==
    [releaseAll(K, K[m].targets) EXCEPT ![m].targets = {}, ![m].friends = {}]

clearLists(K, m) == letGo(K, m, K[m].friends, K[m].targets)

-----------------------------------------------------------------------------
(* Who thinks. *)

\* A bug: a creature that is in a bucket waits for another one.
addCreatureCheck_Again(K, c) ==
    IF K[c].stage = "gone" THEN K
    ELSE useThing2([K EXCEPT ![c].check = TRUE, ![c].listed = TRUE, ![c].toAdd = @ + 1], c)

addCreatureCheck(K, c) ==
    IF K[c].stage = "gone" THEN K
    ELSE IF K[c].listed THEN [K EXCEPT ![c].check = TRUE]
    ELSE useThing2([K EXCEPT ![c].check = TRUE, ![c].listed = TRUE, ![c].toAdd = @ + 1], c)

removeCreatureCheck(K, c) == IF K[c].listed THEN [K EXCEPT ![c].check = FALSE] ELSE K

setIdle(K, m, b) ==
    IF K[m].stage = "gone" \/ ~K[m].alive THEN K
    ELSE IF b THEN removeCreatureCheck(clearLists([K EXCEPT ![m].idle = TRUE], m), m)
    ELSE addCreatureCheck([K EXCEPT ![m].idle = FALSE], m)

updateIdleStatus(K, m) ==
    LET x == K[m].master IN
    setIdle(K, m,
        IF x = NoCreature THEN K[m].targets = {}
        ELSE ~K[m].masterInRange \/ (x \in Monsters /\ K[x].idle))

-----------------------------------------------------------------------------
(* Whom creatures attack. A pointer that is not counted. *)

\* A bug: a summon attacks what only its master sees.
setAttackedCreature_Blind(K, c, x) ==
    IF x # NoCreature /\ ~Sees(K, c, x) THEN [K EXCEPT ![c].attacked = NoCreature]
    ELSE [d \in Creatures |-> IF d \in K[c].summons \cup {c} THEN [K[d] EXCEPT !.attacked = x]
                              ELSE K[d]]

\* Creature::setAttackedCreature, which passes the order on to the summons.
setAttackedCreature(K, c, x) ==
    IF x # NoCreature /\ ~Sees(K, c, x) THEN [K EXCEPT ![c].attacked = NoCreature]
    ELSE [d \in Creatures |->
             IF d \in K[c].summons \cup {c}
             THEN [K[d] EXCEPT !.attacked = IF x # NoCreature /\ ~Sees(K, d, x) THEN NoCreature ELSE x]
             ELSE K[d]]

\* Monster::selectTarget, called with a target of the monster, or with what its master attacks.
selectTarget(K, c, x) ==
    IF x \in K[c].targets /\ Placed(K, x) /\ Sees(K, c, x) THEN setAttackedCreature(K, c, x) ELSE K

internalCreatureDisappear(K, m, c) ==
    IF K[m].attacked = c THEN setAttackedCreature(K, m, NoCreature) ELSE K

-----------------------------------------------------------------------------
(* What monsters notice. *)

isPlayerSummon(K, c) == K[c].master \in Players

isFriend(K, m, c) ==
    IF isPlayerSummon(K, m) THEN c = K[m].master \/ K[c].master = K[m].master
    ELSE c \in Monsters /\ K[c].master = NoCreature

isOpponent(K, m, c) ==
    IF isPlayerSummon(K, m) THEN c # K[m].master
    ELSE c \in Players \/ isPlayerSummon(K, c)

onCreatureFound(K, m, c) ==
    LET F == IF isFriend(K, m, c) /\ c \notin K[m].friends
             THEN useThing2([K EXCEPT ![m].friends = @ \cup {c}], c) ELSE K
        T == IF isOpponent(F, m, c) /\ c \notin F[m].targets
             THEN useThing2([F EXCEPT ![m].targets = @ \cup {c}], c) ELSE F
    IN  updateIdleStatus(T, m)

onCreatureEnter(K, m, c) ==
    onCreatureFound(
        IF K[m].master = c THEN updateIdleStatus([K EXCEPT ![m].masterInRange = TRUE], m) ELSE K,
        m, c)

onCreatureLeave(K, m, c) ==
    LET A == IF K[m].master = c
             THEN updateIdleStatus([K EXCEPT ![m].masterInRange = FALSE], m) ELSE K
        F == IF isFriend(A, m, c) /\ c \in A[m].friends THEN letGo(A, m, {c}, {}) ELSE A
    IN  IF isOpponent(F, m, c) /\ c \in F[m].targets
        THEN LET T == letGo(F, m, {}, {c})
             IN  IF T[m].targets = {} THEN updateIdleStatus(T, m) ELSE T
        ELSE F

updateTargetList(K, m, o) ==
    LET lost(L) == {c \in L : ~K[c].alive \/ ~Sees(K, m, c)}
        D == letGo(K, m, lost(K[m].friends), lost(K[m].targets))
    IN  InTurn(LAMBDA X, c : onCreatureFound(X, m, c), D, Spectators(K, {K[m].area}) \ {m}, o)

LookAround(K, m, o) == updateIdleStatus(updateTargetList(K, m, o), m)

-----------------------------------------------------------------------------
(* Masters and summons. Summons have no summons of their own. *)

addSummon(K, x, s) == useThing2([K EXCEPT ![s].master = x, ![x].summons = @ \cup {s}], s)

removeSummon(K, x, s) ==
    IF s \in K[x].summons
    THEN releaseThing2([K EXCEPT ![x].summons = @ \ {s}, ![s].master = NoCreature], s)
    ELSE K

\* A bug: a hit does not wake a monster.
changeHealth_Asleep(K, c, alive) == [K EXCEPT ![c].alive = alive]

changeHealth(K, c, alive) ==
    LET A == IF c \in Monsters THEN setIdle(K, c, FALSE) ELSE K
    IN  [A EXCEPT ![c].alive = alive]

destroySummons(K, x, o) ==
    InTurn(LAMBDA X, s :
               removeSummon(changeHealth(setAttackedCreature(X, s, NoCreature), s, FALSE), x, s),
           K, K[x].summons, o)

-----------------------------------------------------------------------------
(* Game::removeCreature, placeCreature and moves. *)

onCreatureDisappear(K, m, c) ==
    LET A == internalCreatureDisappear(K, m, c)
    IN  IF m \in Players THEN A
        ELSE IF m = c THEN setIdle(A, m, TRUE)
        ELSE onCreatureLeave(A, m, c)

\* Creature::onRemoved. A master that is removed itself keeps its list.
onRemoved(K, c) ==
    LET x == K[c].master
        G == [K EXCEPT ![c].stage = "gone", ![c].idle = TRUE, ![c].masterInRange = FALSE,
                        ![c].attacked = NoCreature]
    IN  IF x # NoCreature /\ K[x].stage = "in" THEN removeSummon(G, x, c) ELSE G

removeOne(K, c, o) ==
    IF ~Placed(K, c) THEN K
    ELSE LET D == InTurn(LAMBDA X, m : onCreatureDisappear(X, m, c),
                         K, Spectators(K, {K[c].area}), o)
         IN  removeCreatureCheck(FreeThing(onRemoved(D, c), c), c)

\* A bug: the summons stay.
removeCreature_Alone(K, c, o) == removeOne(K, c, o)

removeCreature(K, c, o) ==
    LET R == removeOne(K, c, o)
    IN  IF ~Placed(K, c) THEN K
        ELSE InTurn(LAMBDA X, s : removeOne(X, s, o), R, R[c].summons, o)

onCreatureAppear(K, m, c, o) ==
    IF m \in Players THEN K
    ELSE IF m # c THEN onCreatureEnter(K, m, c)
    ELSE LookAround(IF K[m].master = NoCreature THEN K
                    ELSE [K EXCEPT ![m].masterInRange = Sees(K, m, K[m].master)], m, o)

\* c has been created, and has a master if it is a summon.
placeCreature(K, c, a, o) ==
    LET P == useThing2([K EXCEPT ![c].stage = "in", ![c].area = a, ![c].alive = TRUE], c)
    IN  addCreatureCheck(
            InTurn(LAMBDA X, m : onCreatureAppear(X, m, c, o), P, Spectators(P, {a}), o), c)

\* Creature::onCreatureMove: a creature that moves removes the summons it has left more than 30
\* tiles behind, and nobody goes on attacking what is out of sight.
LeaveBehind(K, m, c, o) ==
    IF m # c THEN K
    ELSE InTurn(LAMBDA X, s : removeCreature(X, s, o), K,
                {s \in K[c].summons : {K[s].area, K[c].area} \in Far}, o)

LoseSight(K, m, c) ==
    LET x == K[m].attacked
    IN  IF x # NoCreature /\ c \in {m, x} /\ ~Sees(K, m, x)
        THEN internalCreatureDisappear(K, m, x) ELSE K

\* Monster::onCreatureMove of m, when c has come from area a: first what m notices...
Notice(K, m, c, a, o) ==
    LET now == Sees(K, m, c)
        before == K[m].area = a
    IN  IF m \in Players THEN K
        ELSE IF m = c
        THEN LookAround(IF K[m].master = NoCreature THEN K
                        ELSE [K EXCEPT ![m].masterInRange = Sees(K, m, K[m].master)], m, o)
        ELSE LET E == IF now /\ ~before THEN onCreatureEnter(K, m, c)
                      ELSE IF ~now /\ before THEN onCreatureLeave(K, m, c) ELSE K
             IN  updateIdleStatus(IF E[m].master = c /\ now
                                  THEN [E EXCEPT ![m].masterInRange = TRUE] ELSE E, m)

\* ... then a monster without a master may turn on x: on c, or, when it follows somebody, on the
\* one who stands in its way. Whom it follows is left out, so it may do so or not. What a removed
\* monster attacks nobody reads.
PickTarget(K, m, x) ==
    IF x # NoCreature /\ Placed(K, m) /\ K[m].master = NoCreature /\ isOpponent(K, m, x)
    THEN selectTarget(K, m, x) ELSE K

\* Whom each monster may turn on when c moves to a: opponents it then sees.
Picks(K, c, a) ==
    LET M == [K EXCEPT ![c].area = a]
    IN  {pick \in [Monsters -> Creatures \cup {NoCreature}] :
            \A m \in Monsters :
                \/ pick[m] = NoCreature
                \/ /\ m # c /\ Placed(M, m) /\ M[m].master = NoCreature
                   /\ Placed(M, pick[m]) /\ Sees(M, m, pick[m]) /\ isOpponent(M, m, pick[m])}

onCreatureMove(K, m, c, a, pick, o) ==
    LET N == Notice(LoseSight(LeaveBehind(K, m, c, o), m, c), m, c, a, o)
    IN  IF m \in Monsters \ {c} THEN PickTarget(N, m, pick[m]) ELSE N

moveCreature(K, c, a, pick, o) ==
    LET M == [K EXCEPT ![c].area = a]
    IN  InTurn(LAMBDA X, m : onCreatureMove(X, m, c, K[c].area, pick, o),
               M, Spectators(M, {K[c].area, a}), o)

\* A bug: the monsters around are not told.
convinceCreature_Quietly(K, p, m, o) ==
    LET x == K[m].master
        N == addSummon(IF x = NoCreature THEN K ELSE removeSummon(K, x, m), p, m)
        D == destroySummons(setAttackedCreature(N, m, NoCreature), m, o)
    IN  LookAround([D EXCEPT ![m].masterInRange = TRUE], m, o)

convinceCreature(K, p, m, o) ==
    LET x == K[m].master
        N == addSummon(IF x = NoCreature THEN K ELSE removeSummon(K, x, m), p, m)
        D == destroySummons(setAttackedCreature(N, m, NoCreature), m, o)
        L == LookAround([D EXCEPT ![m].masterInRange = TRUE], m, o)
    IN  InTurn(LAMBDA X, y : IF isFriend(X, y, m) \/ isOpponent(X, y, m)
                             THEN LookAround(X, y, o) ELSE X,
               L, Monsters \cap Spectators(L, {L[m].area, L[p].area}), o)

\* Monster::die and Player::die.
die(K, c, o) ==
    removeCreature(
        IF c \in Players THEN K
        ELSE clearLists(destroySummons(setAttackedCreature(K, c, NoCreature), c, o), c), c, o)

-----------------------------------------------------------------------------
(* The destructor, and the tasks other than checkCreatures. *)

Doomed(c) == crea[c].stage # "none" /\ crea[c].useCount = 0

\* ~Monster and ~Creature, before anything else happens.
Destroy(c) ==
    /\ Doomed(c)
    /\ LET L == clearLists(crea, c)
           S == releaseAll(L, L[c].summons)
           M == [s \in Creatures |-> IF s \in L[c].summons
                                     THEN [S[s] EXCEPT !.master = NoCreature, !.attacked = NoCreature]
                                     ELSE S[s]]
       IN  crea' = [M EXCEPT ![c] = Blank]
    /\ UNCHANGED <<spawned, checkSpawnEvent, vectors, lastIndex, walking, todo>>

\* Monster::onCreatureDisappear of a spawn's monster starts the spawn's check.
SpawnNotices == checkSpawnEvent \/ \E m \in spawned : In(m) /\ crea'[m].stage # "in"

walkVars == <<vectors, lastIndex, walking, todo>>

Task == ~walking /\ \A c \in Creatures : ~Doomed(c)
Ordinary == UNCHANGED <<spawned, walkVars>> /\ checkSpawnEvent' = SpawnNotices

Free(c) == crea[c].stage = "none"

\* ProtocolGame::login.
Login(p) ==
    /\ Task /\ Free(p)
    /\ \E o \in Orders :
         crea' = placeCreature(useThing2([crea EXCEPT ![p].client = TRUE], p), p, Temple, o)
    /\ Ordinary

\* ProtocolGame::connect of another client.
Connect(p) ==
    /\ Task /\ In(p) /\ ~crea[p].client /\ crea[p].release < MaxReleases
    /\ crea' = useThing2([crea EXCEPT ![p].client = TRUE], p)
    /\ Ordinary

\* ProtocolGame::releaseProtocol and deleteProtocolTask, which follows at once or when the
\* protocol's messages have been sent.
Disconnect(p) ==
    /\ Task /\ crea[p].client
    /\ crea' = FreeThing([crea EXCEPT ![p].client = FALSE], p)
    /\ Ordinary

\* ProtocolGame::logout, Player::kickPlayer.
Logout(p) ==
    /\ Task /\ In(p)
    /\ \E o \in Orders : crea' = removeCreature(crea, p, o)
    /\ Ordinary

\* Game::playerSetAttackedCreature. The client may name any creature, or none.
Attack(p, x) ==
    /\ Task /\ In(p) /\ x \in {c \in Creatures : In(c)} \cup {NoCreature} /\ x # p
    /\ crea' = setAttackedCreature(crea, p, x)
    /\ Ordinary

Hit(c) ==
    /\ Task /\ In(c) /\ crea[c].alive
    /\ \E alive \in BOOLEAN : crea' = changeHealth(crea, c, alive)
    /\ Ordinary

\* Game::cleanup.
cleanup(K) ==
    [c \in Creatures |-> [K[c] EXCEPT !.useCount = @ - K[c].release, !.release = 0]]

\* Game::checkCreatureWalk.
Walk(c, a) ==
    /\ Task /\ In(c) /\ crea[c].alive /\ a # crea[c].area
    /\ \E pick \in Picks(crea, c, a), o \in Orders : crea' = cleanup(moveCreature(crea, c, a, pick, o))
    /\ Ordinary

\* The convince rune. It works on a monster that is dead and not yet removed, too.
Convince(p, m) ==
    /\ Task /\ In(p) /\ crea[p].alive /\ In(m) /\ Sees(crea, p, m)
    /\ crea[m].master # p
    /\ Cardinality(crea[p].summons) < MaxSummons
    /\ \E o \in Orders :
         LET C == convinceCreature(crea, p, m, o)
         IN  crea' = IF m \in spawned THEN releaseThing2(C, m) ELSE C
    /\ spawned' = spawned \ {m}
    /\ checkSpawnEvent' = (checkSpawnEvent \/ m \in spawned)
    /\ UNCHANGED walkVars

\* The summon spell and Monster::onThinkDefense.
Summoned(K, x, m, o) == placeCreature(addSummon(K, x, m), m, K[x].area, o)

Summon(p, m) ==
    /\ Task /\ In(p) /\ crea[p].alive /\ Free(m)
    /\ Cardinality(crea[p].summons) < MaxSummons
    /\ \E o \in Orders : crea' = Summoned(crea, p, m, o)
    /\ Ordinary

-----------------------------------------------------------------------------
(* Spawn::checkSpawn. *)

SpawnCleaned == LET gone == {m \in spawned : crea[m].stage = "gone"} IN releaseAll(crea, gone)
Living == {m \in spawned : crea[m].stage # "gone"}

findPlayer == \E p \in Players : In(p) /\ crea[p].area = SpawnArea

spawnMonster(m) ==
    /\ Free(m) /\ ~findPlayer
    /\ \E o \in Orders : crea' = useThing2(placeCreature(SpawnCleaned, m, SpawnArea, o), m)
    /\ spawned' = Living \cup {m}

checkSpawn ==
    /\ Task /\ checkSpawnEvent
    /\ \/ Cardinality(Living) < SpawnSize /\ \E m \in Monsters : spawnMonster(m)
       \/ crea' = SpawnCleaned /\ spawned' = Living
    /\ checkSpawnEvent' = (Cardinality(spawned') < SpawnSize)
    /\ UNCHANGED walkVars

-----------------------------------------------------------------------------
(* Game::checkCreatures: the creatures of one bucket, one per step. *)

StartWalk ==
    /\ Task
    /\ lastIndex' = (lastIndex + 1) % Buckets
    /\ \E where \in [Creatures -> 0 .. Buckets - 1] :
         /\ \A c \in Creatures : crea[c].toAdd = 0 => where[c] = 0
         /\ vectors' = [b \in 0 .. Buckets - 1 |-> [c \in Creatures |->
                vectors[b][c] + IF where[c] = b THEN crea[c].toAdd ELSE 0]]
    /\ crea' = [c \in Creatures |-> [crea[c] EXCEPT !.toAdd = 0]]
    /\ todo' = {c \in Creatures : vectors'[lastIndex'][c] > 0}
    /\ walking' = TRUE
    /\ UNCHANGED <<spawned, checkSpawnEvent>>

Walking == walking /\ \A c \in Creatures : ~Doomed(c)
Visit(c) ==
    /\ Walking /\ c \in todo /\ todo' = todo \ {c}
    /\ UNCHANGED <<spawned, lastIndex, walking>>

\* Creature::onAttacking: the attacked creature may be hit, and it may die.
Attacked(c) ==
    LET x == crea[c].attacked
    IN  {crea} \cup (IF x \in {c, NoCreature} THEN {}
                     ELSE {changeHealth(crea, x, alive) : alive \in {b \in BOOLEAN : crea[x].alive}})

\* Player::onThink: a player who may leave is removed when there is no client, when pings have
\* long had no answer, or when the player has been idle for too long.
ThinkPlayer(c) ==
    /\ \E K \in Attacked(c) : crea' = K \/ \E o \in Orders : crea' = removeCreature(K, c, o)
    /\ UNCHANGED vectors

Selected(K, c) ==
    LET x == K[c].master
    IN  IF x = NoCreature THEN {K} \cup {selectTarget(K, c, t) : t \in K[c].targets}
        ELSE {IF K[c].attacked = NoCreature THEN selectTarget(K, c, K[x].attacked) ELSE K}

ThinkMonster(c) ==
    /\ \E K \in Attacked(c), o \in Orders :
         \/ c \in spawned /\ crea' = removeCreature(K, c, o)   \* Monster::despawn
         \/ \E U \in {updateIdleStatus(K, c)} :
              \/ U[c].idle /\ crea' = U
              \/ ~U[c].idle /\ \E S \in Selected(U, c) :
                   \/ crea' = S
                   \/ /\ S[c].master = NoCreature /\ Cardinality(S[c].summons) < MaxSummons
                      /\ S[c].attacked # NoCreature
                      /\ \E m \in Monsters : Free(m) /\ crea' = Summoned(S, c, m, o)
    /\ UNCHANGED vectors

Think(c) ==
    /\ Visit(c) /\ crea[c].check /\ crea[c].alive
    /\ IF c \in Players THEN ThinkPlayer(c) ELSE ThinkMonster(c)
    /\ checkSpawnEvent' = SpawnNotices

\* Creature::onDie.
Die(c) ==
    /\ Visit(c) /\ crea[c].check /\ ~crea[c].alive
    /\ \E o \in Orders : crea' = die(crea, c, o)
    /\ checkSpawnEvent' = SpawnNotices
    /\ UNCHANGED vectors

\* A creature that no longer thinks leaves the bucket.
Unlist(c) ==
    /\ Visit(c) /\ ~crea[c].check
    /\ crea' = FreeThing([crea EXCEPT ![c].listed = FALSE], c)
    /\ vectors' = [vectors EXCEPT ![lastIndex][c] = @ - 1]
    /\ UNCHANGED checkSpawnEvent

EndWalk ==
    /\ Walking /\ todo = {}
    /\ crea' = cleanup(crea)
    /\ walking' = FALSE
    /\ UNCHANGED <<spawned, checkSpawnEvent, vectors, lastIndex, todo>>

-----------------------------------------------------------------------------
(* At the start each spawn has its monsters, which nobody has seen yet. *)
Init ==
    /\ spawned \in {S \in SUBSET Monsters : Cardinality(S) = SpawnSize}
    /\ crea = [c \in Creatures |->
         IF c \in spawned THEN [Blank EXCEPT !.stage = "in", !.alive = TRUE, !.useCount = 2] ELSE Blank]
    /\ checkSpawnEvent = FALSE
    /\ vectors = [b \in 0 .. Buckets - 1 |-> [c \in Creatures |-> 0]]
    /\ lastIndex = 0
    /\ walking = FALSE /\ todo = {}

Next ==
    \/ \E c \in Creatures : Destroy(c) \/ Hit(c) \/ Think(c) \/ Die(c) \/ Unlist(c)
    \/ \E p \in Players : Login(p) \/ Connect(p) \/ Disconnect(p) \/ Logout(p)
                         \/ \E x \in Creatures \cup {NoCreature} : Attack(p, x)
    \/ \E c \in Creatures, a \in Areas : Walk(c, a)
    \/ \E p \in Players, m \in Monsters : Convince(p, m) \/ Summon(p, m)
    \/ checkSpawn \/ StartWalk \/ EndWalk

Spec == Init /\ [][Next]_vars

-----------------------------------------------------------------------------
TypeOK ==
    /\ crea \in [Creatures -> [
         stage : {"none", "in", "gone"}, area : Areas, alive : BOOLEAN,
         master : Creatures \cup {NoCreature}, summons : SUBSET Monsters,
         attacked : Creatures \cup {NoCreature},
         friends : SUBSET Creatures, targets : SUBSET Creatures,
         idle : BOOLEAN, masterInRange : BOOLEAN, check : BOOLEAN, listed : BOOLEAN,
         toAdd : 0 .. 1, release : 0 .. MaxReleases + 3, client : BOOLEAN, useCount : Nat]]
    /\ spawned \subseteq Monsters /\ checkSpawnEvent \in BOOLEAN
    /\ vectors \in [0 .. Buckets - 1 -> [Creatures -> 0 .. 1]]
    /\ lastIndex \in 0 .. Buckets - 1
    /\ walking \in BOOLEAN /\ todo \subseteq Creatures

\* How often c is in the buckets V.
InBuckets(V, c) ==
    LET upTo[n \in 0 .. Buckets] == IF n = 0 THEN 0 ELSE upTo[n - 1] + V[n - 1][c]
    IN  upTo[Buckets]

Listings(c) == crea[c].toAdd + InBuckets(vectors, c)

Holders(c) ==
    crea[c].release + Listings(c)
    + Cardinality({x \in {"map", "client", "spawn"} :
                     \/ x = "map" /\ In(c)
                     \/ x = "client" /\ crea[c].client
                     \/ x = "spawn" /\ c \in spawned})
    + Cardinality({m \in Creatures : c \in crea[m].friends})
    + Cardinality({m \in Creatures : c \in crea[m].targets})
    + Cardinality({m \in Creatures : c \in crea[m].summons})

\* useCount is the number of places that hold a creature - the map, its client, its spawn, its
\* master, a bucket, lists of monsters, ToReleaseThings - so it is freed when nothing refers
\* to it and not before; and it is in one bucket at most, as checkCreatureVectorIndex says.
CountsMatchHolders ==
    \A c \in Creatures :
        /\ crea[c].useCount = Holders(c)
        /\ Listings(c) = IF crea[c].listed THEN 1 ELSE 0

\* What has to happen later is scheduled: checkCreatures will come to every player, to every
\* monster that is awake, and to every creature that has died, to bury it, but to none that
\* is no longer in the game; and a spawn that misses a monster has its check scheduled.
NobodyIsForgotten ==
    /\ \A c \in Creatures :
         /\ crea[c].check => crea[c].listed /\ In(c)
         /\ In(c) /\ (c \in Players \/ ~crea[c].idle \/ ~crea[c].alive) => crea[c].check
    /\ checkSpawnEvent \/ (Cardinality(spawned) = SpawnSize /\ \A m \in spawned : In(m))

\* However players, summons and monsters have come to share an area, a monster without a
\* master has each of them that is its opponent among its targets, and it is awake.
MonstersWakeInSight ==
    \A m \in Monsters, c \in Creatures :
        In(m) /\ crea[m].alive /\ crea[m].master = NoCreature /\ In(c) /\ Sees(crea, m, c)
          /\ isOpponent(crea, m, c)
        => c \in crea[m].targets /\ ~crea[m].idle

\* The pointer to the master, which is not counted, is never left behind: it names the one
\* creature that lists the summon, and no summon stays in the game without its master.
SummonsHaveMasters ==
    \A x, s \in Creatures :
        /\ crea[s].master = x <=> s \in crea[x].summons
        /\ In(s) /\ crea[s].master = x => In(x)

\* attackedCreature, which is not counted either, never names a creature that has left the game
\* or the sight of the one who attacks it.
AttackedAreInSight ==
    \A c \in Creatures :
        crea[c].attacked # NoCreature => In(crea[c].attacked) /\ Sees(crea, c, crea[c].attacked)
=============================================================================

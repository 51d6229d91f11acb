------------------------------- MODULE Trade -------------------------------
(***************************************************************************)
(* Trade: two players offer each other an item, accept, and the items change  *)
(* hands.  Between those steps everything else in the world may move: the     *)
(* players, the items, the bags the items are in.  Hooks that the moves call  *)
(* cancel a trade.                                                           *)
(*                                                                         *)
(* Requests, moves and departures are tasks of the dispatcher, so a step is a *)
(* whole one of them.  Tiles lie in a row.  An item is at a tile, in the hands *)
(* (slots) of a player, or in a bag.  Stackable items, ownership of house       *)
(* documents and what the line of sight allows are left out.                   *)
(* An operator named X_How is X with a bug; no specification uses it.          *)
(***************************************************************************)
EXTENDS Integers, FiniteSets

CONSTANTS Players, Items,
          Bags,      \* the items that are containers
          Tiles,
          Slots,     \* how many items a player's slots hold
          BagRoom,   \* how many items lie directly in a bag
          Capacity,  \* how many items a player can carry, those in bags too
          MaxOffer,  \* how many items can be traded at once
          NoPlayer, NoItem, Nowhere

ASSUME TradeAssumption ==
    /\ IsFiniteSet(Items) /\ Bags \subseteq Items /\ Tiles \subseteq Int
    /\ Players \cap Items = {} /\ Tiles \cap (Players \cup Items) = {}
    /\ Slots \in Nat /\ BagRoom \in Nat /\ Capacity \in Nat /\ MaxOffer \in Nat
    /\ NoPlayer \notin Players /\ NoItem \notin Items
    /\ Nowhere \notin Tiles \cup Players \cup Items

Places == Tiles \cup Players \cup Bags \cup {Nowhere}

VARIABLES pos,          \* the tile a player stands on; Nowhere: not in the game
          at,           \* where an item is
          tradeState, tradePartner, tradeItem,
          tradeItems,   \* who offers an item
          intact        \* history: nothing moved or changed an offer since it was made

trade == <<tradeState, tradePartner, tradeItem, tradeItems, intact>>
vars == <<pos, at, trade>>

TradeStates == {"none", "initiated", "accept", "acknowledge"}

Init ==
    /\ pos = [p \in Players |-> Nowhere]
    /\ at \in [Items -> Tiles \cup Players]
    /\ \A p \in Players : Cardinality({i \in Items : at[i] = p}) <= Slots
    /\ tradeState = [p \in Players |-> "none"]
    /\ tradePartner = [p \in Players |-> NoPlayer]
    /\ tradeItem = [p \in Players |-> NoItem]
    /\ tradeItems = [i \in Items |-> NoPlayer]
    /\ intact = [p \in Players |-> TRUE]

-----------------------------------------------------------------------------
(* The world.  w is a placement of the items, as the variable at is.          *)

\* The bags around an item, and the cylinder around them all.
Outward(w, i) ==
    LET up[n \in 0..Cardinality(Bags)] ==
            LET c == up[n - 1] IN IF n = 0 THEN w[i] ELSE IF c \in Bags THEN w[c] ELSE c
    IN  up
Holders(w, i) == LET up == Outward(w, i) IN {up[n] : n \in 0..Cardinality(Bags)} \cap Bags
Top(w, i) == IF w[i] \in Bags THEN Outward(w, i)[Cardinality(Bags)] ELSE w[i]

\* isHoldingItem
Holds(w, b, i) == b \in Bags /\ i \in Items /\ w[i] \in Bags /\ b \in Holders(w, i)

Contents(w, i) == {j \in Items : Holds(w, i, j)}
Carried(w, p) == {i \in Items : Top(w, i) = p}

\* getPosition of an item
Where(w, i) == LET t == Top(w, i) IN IF t \in Players THEN pos[t] ELSE t

areInRange(d, a, b) == a \in Tiles /\ b \in Tiles /\ a - b \in -d..d

HasRoom(w, place) == place \in Tiles \cup {Nowhere}
                     \/ Cardinality({i \in Items : w[i] = place}) <
                            (IF place \in Bags THEN BagRoom ELSE Slots)
hasCapacity(w, p, i) == i \in Carried(w, p)
                        \/ Cardinality(Carried(w, p) \cup Contents(w, i) \cup {i}) <= Capacity

\* A container cannot be put into itself or into a bag it holds.
NotInItself(w, i, d) == d # i /\ ~Holds(w, i, d)

\* queryDestination of a player, when the item may go anywhere: a slot or a bag, but
\* neither the item itself nor what the player offers, nor a bag in one of them.
queryDestination_AlsoOffer(w, p, i) ==
    {d \in {p} \cup {b \in Bags : Top(w, b) = p /\ NotInItself(w, i, b)} :
        HasRoom(w, d) /\ hasCapacity(w, p, i)}
queryDestination(w, p, i) ==
    {d \in {p} \cup {b \in Bags : /\ Top(w, b) = p /\ NotInItself(w, i, b)
                                  /\ b # tradeItem[p] /\ ~Holds(w, tradeItem[p], b)} :
        HasRoom(w, d) /\ hasCapacity(w, p, i)}

-----------------------------------------------------------------------------
(* The hooks: who cancels its trade when something happens to an item.  hear  *)
(* is the set of players whose trade is not being carried out just now.       *)

checkTradeState(w, r, i) == tradeItem[r] = i \/ Holds(w, tradeItem[r], i)

InGame == {p \in Players : pos[p] # Nowhere}
Offering == {p \in InGame : tradeItem[p] # NoItem}
Near(w, b) == {p \in Players : areInRange(2, pos[p], Where(w, b))}

\* The offer is in the item that was taken away or replaced.
WentWith(w, r, i) ==
    IF w[i] \in Bags THEN w[tradeItem[r]] # w[i] /\ Holds(w, w[i], tradeItem[r])
    ELSE Holds(w, i, tradeItem[r])

Witnesses(w, i) == CASE w[i] \in Tiles   -> InGame
                     [] w[i] \in Players -> {w[i]}
                     [] w[i] \in Bags    -> Near(w, w[i])
                     [] OTHER            -> {}

onRemove(w, i, hear) ==
    {r \in Offering \cap Witnesses(w, i) \cap hear : checkTradeState(w, r, i) \/ WentWith(w, r, i)}

onUpdate(w, i, replaced, hear) ==
    {r \in Offering \cap Witnesses(w, i) \cap hear :
        checkTradeState(w, r, i) \/ (replaced /\ WentWith(w, r, i))}

\* Only containers tell that something was added to them.
onAdd_Silent(w, i, hear) == {}
onAdd(w, i, hear) ==
    {r \in Offering \cap Witnesses(w, i) \cap hear : w[i] \in Bags /\ checkTradeState(w, r, i)}

-----------------------------------------------------------------------------
(* Beginning and end of a trade                                            *)

Touches(w, i, r) == tradeItem[r] # NoItem
                    /\ (tradeItem[r] = i \/ Holds(w, tradeItem[r], i) \/ Holds(w, i, tradeItem[r]))

Partners_OneSide(S) == S
Partners(S) == S \cup ({tradePartner[p] : p \in S} \ {NoPlayer})

\* The trades of the players in S and of their partners end.  touched are those whose
\* offers a move or a change in this step concerned.
internalCloseTrade(S, touched) ==
    LET C == Partners(S)
    IN  /\ tradeState' = [p \in Players |-> IF p \in C THEN "none" ELSE tradeState[p]]
        /\ tradePartner' = [p \in Players |-> IF p \in C THEN NoPlayer ELSE tradePartner[p]]
        /\ tradeItem' = [p \in Players |-> IF p \in C THEN NoItem ELSE tradeItem[p]]
        /\ tradeItems' = [i \in Items |-> IF \E p \in C : tradeItem[p] = i THEN NoPlayer
                                          ELSE tradeItems[i]]
        /\ intact' = [p \in Players |-> p \in C \/ (intact[p] /\ p \notin touched)]

\* A player can start one trade, and answer the partner's.
MayTrade_Again(p, q) ==
    /\ tradeState[p] = "none" \/ tradePartner[p] = q
    /\ tradeState[q] = "none" \/ tradePartner[q] = p
MayTrade(p, q) ==
    /\ tradeState[p] = "none" \/ (tradeState[p] = "acknowledge" /\ tradePartner[p] = q)
    /\ tradeState[q] = "none" \/ tradePartner[q] = p

internalStartTrade(p, q, i) ==
    /\ MayTrade(p, q)
    /\ tradeState' = [tradeState EXCEPT ![p] = "initiated",
                                        ![q] = IF @ = "none" THEN "acknowledge" ELSE @]
    /\ tradePartner' = [tradePartner EXCEPT ![p] = q,
                                            ![q] = IF tradeState[q] = "none" THEN p ELSE @]
    /\ tradeItem' = [tradeItem EXCEPT ![p] = i]
    /\ tradeItems' = [tradeItems EXCEPT ![i] = p]
    /\ intact' = [intact EXCEPT ![p] = TRUE]

AlreadyTraded_Same(i) == tradeItems[i] # NoPlayer
AlreadyTraded_Nested(i) == \E j \in Items : /\ tradeItems[j] # NoPlayer
                                            /\ Holds(at, i, j) \/ Holds(at, j, i)
AlreadyTraded(i) == \E j \in Items : /\ tradeItems[j] # NoPlayer
                                     /\ i = j \/ Holds(at, i, j) \/ Holds(at, j, i)

\* internalGetThing: the player's own things, and what lies on tiles and in bags there.  An
\* item that is too far away is walked to; 400 ms later the same request is made again.
InReach(p, i) == Top(at, i) \in Tiles \cup {p} /\ areInRange(1, Where(at, i), pos[p])

RequestTrade(p, q, i) ==
    /\ {p, q} \subseteq InGame /\ p # q
    /\ areInRange(2, pos[q], pos[p])
    /\ InReach(p, i)
    /\ ~AlreadyTraded(i)
    /\ Cardinality(Contents(at, i)) + 1 <= MaxOffer
    /\ internalStartTrade(p, q, i)
    /\ UNCHANGED <<pos, at>>

CloseTrade(p) ==
    /\ p \in InGame
    /\ internalCloseTrade({p}, {})
    /\ UNCHANGED <<pos, at>>

-----------------------------------------------------------------------------
(* Accepting.  The tests come first, the results of the two moves are ignored. *)

CanAdd(w, p, i) == i \in Items /\ queryDestination(w, p, i) # {}

\* What internalMoveItem may make of the world.
Moved(w, p, i) == IF CanAdd(w, p, i)
                  THEN {[w EXCEPT ![i] = d] : d \in queryDestination(w, p, i)}
                  ELSE {w}

BothFit(p, q) == CanAdd(at, q, tradeItem[p]) /\ CanAdd(at, p, tradeItem[q])

Transfer_Abandoned(p, q) ==
    /\ tradeState' = [tradeState EXCEPT ![p] = "transfer", ![q] = "transfer"]
    /\ UNCHANGED <<at, tradePartner, tradeItem, tradeItems, intact>>
Transfer(p, q) ==
    LET one == tradeItem[p]
        two == tradeItem[q]
        others == Players \ {p, q}
    IN  IF BothFit(p, q)
        THEN \E w1 \in Moved(at, q, one) : \E w2 \in Moved(w1, p, two) :
               /\ at' = w2
               /\ internalCloseTrade(
                     {p} \cup onRemove(at, one, others) \cup onAdd(w1, one, others)
                         \cup onRemove(w1, two, others) \cup onAdd(w2, two, others),
                     {r \in others : \/ Touches(at, one, r) \/ Touches(w1, one, r)
                                     \/ Touches(w1, two, r) \/ Touches(w2, two, r)})
        ELSE UNCHANGED at /\ internalCloseTrade({p}, {})

AcceptTrade(p) ==
    /\ p \in InGame
    /\ tradeState[p] \in {"acknowledge", "initiated"}
    /\ tradePartner[p] # NoPlayer
    /\ IF tradeState[tradePartner[p]] = "accept" THEN Transfer(p, tradePartner[p])
       ELSE /\ tradeState' = [tradeState EXCEPT ![p] = "accept"]
            /\ UNCHANGED <<at, tradePartner, tradeItem, tradeItems, intact>>
    /\ UNCHANGED pos

-----------------------------------------------------------------------------
(* What else happens                                                       *)

\* A walk, a push or a teleport; the player's things come along.
onCreatureMove_OnlyPartner(p, t) == /\ tradePartner[p] # NoPlayer
                                    /\ ~areInRange(2, pos[tradePartner[p]], t)
onCreatureMove(p, t) ==
    \/ /\ tradeItem[p] # NoItem
       /\ Top(at, tradeItem[p]) # p /\ ~areInRange(1, Where(at, tradeItem[p]), t)
    \/ /\ tradePartner[p] # NoPlayer
       /\ ~areInRange(2, pos[tradePartner[p]], t)

Move(p, t) ==
    /\ p \in InGame /\ t # pos[p]
    /\ pos' = [pos EXCEPT ![p] = t]
    /\ internalCloseTrade({r \in {p} : onCreatureMove(p, t)}, {})
    /\ UNCHANGED at

\* onCreatureDisappear, for a logout, a kick or a death.
Leave(p) ==
    /\ p \in InGame
    /\ pos' = [pos EXCEPT ![p] = Nowhere]
    /\ internalCloseTrade({r \in {p} : tradePartner[p] # NoPlayer}, {})
    /\ UNCHANGED at

\* A player comes back as a new object.
Enter(p, t) ==
    /\ p \notin InGame
    /\ pos' = [pos EXCEPT ![p] = t]
    /\ UNCHANGED <<at, trade>>

\* Somebody or a script moves, drops, takes, creates (from Nowhere) or destroys an item.
MoveItem(i, d) ==
    /\ NotInItself(at, i, d)
    /\ at[i] = Nowhere \/ Where(at, i) # Nowhere
    /\ d \in Players => d \in InGame
    /\ d \in Bags => Where(at, d) # Nowhere
    /\ HasRoom([at EXCEPT ![i] = Nowhere], d)
    /\ \A p \in InGame : p = (IF d \in Bags THEN Top(at, d) ELSE d) => hasCapacity(at, p, i)
    /\ at' = [at EXCEPT ![i] = d]
    /\ internalCloseTrade(onRemove(at, i, Players) \cup onAdd(at', i, Players),
                          {r \in Players : Touches(at, i, r) \/ Touches(at', i, r)})
    /\ UNCHANGED pos

\* transformItem, decay, a changed count: the same object or another in its place.
ChangeItem(i, replaced) ==
    /\ Where(at, i) # Nowhere
    /\ internalCloseTrade(onUpdate(at, i, replaced, Players),
                          {r \in Players : tradeItem[r] = i
                                           \/ (tradeItem[r] # NoItem /\ Holds(at, tradeItem[r], i))})
    /\ UNCHANGED <<pos, at>>

Next ==
    \/ \E p, q \in Players, i \in Items : RequestTrade(p, q, i)
    \/ \E p \in Players : AcceptTrade(p) \/ CloseTrade(p) \/ Leave(p)
    \/ \E p \in Players, t \in Tiles : Move(p, t) \/ Enter(p, t)
    \/ \E i \in Items, d \in Places : MoveItem(i, d)
    \/ \E i \in Items, replaced \in BOOLEAN : ChangeItem(i, replaced)

Spec == Init /\ [][Next]_vars

-----------------------------------------------------------------------------
(* Properties                                                              *)

\* The values the variables take; no player is left in TRADE_TRANSFER, where
\* internalCloseTrade would do nothing for it.
TypeOK ==
    /\ pos \in [Players -> Tiles \cup {Nowhere}]
    /\ at \in [Items -> Places]
    /\ tradeState \in [Players -> TradeStates]
    /\ tradePartner \in [Players -> Players \cup {NoPlayer}]
    /\ tradeItem \in [Players -> Items \cup {NoItem}]
    /\ tradeItems \in [Items -> Players \cup {NoPlayer}]
    /\ intact \in [Players -> BOOLEAN]

\* A trade has two sides that know of each other, both in the game, at least one of
\* which has offered something.  internalStartTrade writes to both players and every way
\* out of a trade (game.cpp:2858-2866, 2993-3044) must clear both.
PartnersAgree ==
    \A p \in Players :
        /\ tradePartner[p] = NoPlayer <=> tradeState[p] = "none"
        /\ tradePartner[p] # NoPlayer =>
               /\ tradePartner[p] # p /\ tradePartner[tradePartner[p]] = p
               /\ p \in InGame
               /\ tradeItem[p] # NoItem \/ tradeItem[tradePartner[p]] # NoItem
        /\ tradeState[p] \in {"none", "acknowledge"} => tradeItem[p] = NoItem
        /\ tradeState[p] = "initiated" => tradeItem[p] # NoItem

\* tradeItems lists exactly the items on offer, so that an item is neither offered
\* twice nor refused for ever after a trade that is over.
OffersRegistered ==
    \A i \in Items, p \in Players : tradeItems[i] = p <=> tradeItem[p] = i

\* No offer is in another one: the loop in playerRequestTrade looks only when an offer
\* is made, later it takes the hooks to keep the offers apart.
OffersDisjoint ==
    \A p, q \in Players : p # q /\ tradeItem[p] # NoItem /\ tradeItem[q] # NoItem =>
        tradeItem[p] # tradeItem[q] /\ ~Holds(at, tradeItem[p], tradeItem[q])

\* What is on offer is what the partner was shown: an item that moved, changed, got or
\* lost something is on offer no more (Player::checkTradeState and the hooks).
OffersIntact == \A p \in Players : intact[p]

\* Partners stay within two tiles, an offer within one tile of its owner; the hooks of
\* containers only reach players that close.
TradersInReach ==
    \A p \in Players : tradePartner[p] # NoPlayer =>
        /\ areInRange(2, pos[p], pos[tradePartner[p]])
        /\ tradeItem[p] # NoItem => InReach(p, tradeItem[p])

\* Accepting moves nothing, or each of the two offers to the other player and nothing
\* else.  The code tests both additions first and then ignores what the two moves say.
Exchanged(p, q) ==
    /\ tradeItem[p] # NoItem /\ tradeItem[q] # NoItem
    /\ Top(at', tradeItem[p]) = q /\ Top(at', tradeItem[q]) = p
    /\ \A i \in Items \ {tradeItem[p], tradeItem[q]} : at'[i] = at[i]

ExchangeOrNothing ==
    [][at' # at => \A p \in Players : AcceptTrade(p) => Exchanged(p, tradePartner[p])]_vars

\* Once a player has accepted and both have offered, the offers stay what they are
\* until the trade is over.
AgreementKept ==
    \A p \in Players :
        /\ tradeState[p] = "accept" /\ tradeState'[p] # "none"
        /\ tradeItem[p] # NoItem /\ tradeItem[tradePartner[p]] # NoItem
        => /\ tradePartner'[p] = tradePartner[p] /\ tradeItem'[p] = tradeItem[p]
           /\ tradeItem'[tradePartner[p]] = tradeItem[tradePartner[p]]

AgreementStands == [][AgreementKept]_vars
=============================================================================

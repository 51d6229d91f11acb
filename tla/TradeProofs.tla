---------------------------- MODULE TradeProofs ----------------------------
(***************************************************************************)
(* Theorems about Trade, for any players, items, bags and tiles.              *)
(*                                                                         *)
(* First the trades: their two sides agree, tradeItems lists what is on offer,  *)
(* and an agreement stands until the trade is over.  Every step either starts a  *)
(* trade, accepts one, leaves the trades alone or ends the trades of a set of    *)
(* players; which set the hooks come to is of no concern.                      *)
(*                                                                         *)
(* Then the items: no offer is in another one, moves or changes unheard, or gets *)
(* out of its owner's reach, and a trade moves both offers or none.  Bags are in *)
(* bags to any depth, but never in a circle; so what is true of an item if it is *)
(* true of the bag it is in, is true of all items.                             *)
(***************************************************************************)
EXTENDS Trade, RecursionLemmas

IInv == TypeOK /\ PartnersAgree /\ OffersRegistered

\* What the tests of playerRequestTrade leave open of the world.
StartTrade(p, q, i) ==
    /\ {p, q} \subseteq InGame /\ p # q
    /\ tradeItems[i] = NoPlayer
    /\ internalStartTrade(p, q, i)
    /\ UNCHANGED <<pos, at>>

-----------------------------------------------------------------------------
\* Partners are partners of each other, so the set of the players whose trades end,
\* with their partners, leaves no partner behind.
LEMMA PartnersClosed ==
    ASSUME TypeOK, PartnersAgree, NEW S \in SUBSET Players
    PROVE  /\ S \subseteq Partners(S)
           /\ Partners(S) \subseteq Players
           /\ \A p \in Players : p \notin Partners(S) /\ tradePartner[p] # NoPlayer
                                   => tradePartner[p] \in Players \ Partners(S)
<1>1. S \subseteq Partners(S) /\ Partners(S) \subseteq Players
  BY DEF Partners, TypeOK
<1>2. ASSUME NEW p \in Players, p \notin Partners(S), tradePartner[p] # NoPlayer
      PROVE  tradePartner[p] \in Players \ Partners(S)
  <2>1. tradePartner[p] \in Players /\ tradePartner[tradePartner[p]] = p
    BY <1>2 DEF TypeOK, PartnersAgree
  <2>2. tradePartner[p] \notin S
    <3>1. ASSUME tradePartner[p] \in S PROVE FALSE
      <4>1. tradePartner[tradePartner[p]] \in Partners(S)
        BY <2>1, <3>1, TradeAssumption DEF Partners
      <4> QED BY <1>2, <2>1, <4>1
    <3> QED BY <3>1
  <2>3. ASSUME NEW s \in S, tradePartner[s] = tradePartner[p] PROVE FALSE
    <3>1. tradePartner[s] # NoPlayer /\ s \in Players
      BY <1>2, <2>3
    <3>2. tradePartner[tradePartner[s]] = s
      BY <3>1 DEF PartnersAgree
    <3> QED BY <1>1, <1>2, <2>1, <2>3, <3>2
  <2> QED BY <2>1, <2>2, <2>3 DEF Partners
<1> QED BY <1>1, <1>2

\* Ending the trades of any set of players keeps the invariant, whatever the items do,
\* as long as the players who go on trading stay in the game.
LEMMA EndKeepsInv ==
    ASSUME IInv, NEW S \in SUBSET Players, NEW touched, internalCloseTrade(S, touched),
           pos' \in [Players -> Tiles \cup {Nowhere}], at' \in [Items -> Places],
           \A p \in Players \ Partners(S) : tradePartner[p] # NoPlayer => p \in InGame'
    PROVE  IInv'
<1> USE DEF IInv
<1> DEFINE C == Partners(S)
<1>1. /\ tradeState' = [p \in Players |-> IF p \in C THEN "none" ELSE tradeState[p]]
      /\ tradePartner' = [p \in Players |-> IF p \in C THEN NoPlayer ELSE tradePartner[p]]
      /\ tradeItem' = [p \in Players |-> IF p \in C THEN NoItem ELSE tradeItem[p]]
      /\ tradeItems' = [i \in Items |-> IF \E p \in C : tradeItem[p] = i THEN NoPlayer
                                        ELSE tradeItems[i]]
      /\ intact' = [p \in Players |-> p \in C \/ (intact[p] /\ p \notin touched)]
  BY DEF internalCloseTrade
<1>2. /\ C \subseteq Players
      /\ \A p \in Players : p \notin C /\ tradePartner[p] # NoPlayer
                              => tradePartner[p] \in Players \ C
  BY PartnersClosed
<1> HIDE DEF C
<1>3. TypeOK'
  <2>1. tradeState' \in [Players -> TradeStates]
    BY <1>1 DEF TypeOK, TradeStates
  <2>2. tradePartner' \in [Players -> Players \cup {NoPlayer}]
    BY <1>1 DEF TypeOK
  <2>3. tradeItem' \in [Players -> Items \cup {NoItem}]
    BY <1>1 DEF TypeOK
  <2>4. tradeItems' \in [Items -> Players \cup {NoPlayer}]
    BY <1>1 DEF TypeOK
  <2>5. intact' \in [Players -> BOOLEAN]
    BY <1>1
  <2>6. pos' \in [Players -> Tiles \cup {Nowhere}] /\ at' \in [Items -> Places]
    OBVIOUS
  <2> QED BY <2>1, <2>2, <2>3, <2>4, <2>5, <2>6 DEF TypeOK, Places
<1>4. PartnersAgree'
  <2> SUFFICES ASSUME NEW p \in Players
               PROVE  /\ tradePartner'[p] = NoPlayer <=> tradeState'[p] = "none"
                      /\ tradePartner'[p] # NoPlayer =>
                           /\ tradePartner'[p] # p /\ tradePartner'[tradePartner'[p]] = p
                           /\ p \in InGame'
                           /\ tradeItem'[p] # NoItem \/ tradeItem'[tradePartner'[p]] # NoItem
                      /\ tradeState'[p] \in {"none", "acknowledge"} => tradeItem'[p] = NoItem
                      /\ tradeState'[p] = "initiated" => tradeItem'[p] # NoItem
    BY DEF PartnersAgree
  <2>1. CASE p \in C
    BY <1>1, <2>1
  <2>2. CASE p \notin C
    <3>1. /\ tradePartner'[p] = tradePartner[p] /\ tradeState'[p] = tradeState[p]
          /\ tradeItem'[p] = tradeItem[p]
      BY <1>1, <2>2
    <3>2. ASSUME tradePartner[p] # NoPlayer
          PROVE  /\ tradePartner'[tradePartner[p]] = tradePartner[tradePartner[p]]
                 /\ tradeItem'[tradePartner[p]] = tradeItem[tradePartner[p]]
                 /\ p \in InGame'
      BY <1>1, <1>2, <2>2, <3>2 DEF PartnersAgree, C
    <3> QED BY <3>1, <3>2 DEF PartnersAgree
  <2> QED BY <2>1, <2>2
<1>5. OffersRegistered'
  <2> SUFFICES ASSUME NEW i \in Items, NEW p \in Players
               PROVE  tradeItems'[i] = p <=> tradeItem'[p] = i
    BY DEF OffersRegistered
  <2>1. tradeItems[i] = p <=> tradeItem[p] = i
    BY DEF OffersRegistered
  <2>2. \A c \in C : tradeItem[c] = i => tradeItems[i] = c
    BY <1>2 DEF OffersRegistered
  <2>3. CASE p \in C
    BY <1>1, <2>1, <2>3, TradeAssumption
  <2>4. CASE p \notin C
    BY <1>1, <2>1, <2>2, <2>4, TradeAssumption
  <2> QED BY <2>3, <2>4
<1> QED BY <1>3, <1>4, <1>5

-----------------------------------------------------------------------------
\* A new offer keeps the invariant.
LEMMA StartKeepsInv ==
    ASSUME IInv, NEW p \in Players, NEW q \in Players, NEW i \in Items, StartTrade(p, q, i)
    PROVE  IInv'
<1> USE DEF IInv
<1>1. /\ p \in InGame /\ q \in InGame /\ p # q /\ tradeItems[i] = NoPlayer
      /\ MayTrade(p, q)
      /\ tradeState' = [tradeState EXCEPT ![p] = "initiated",
                                          ![q] = IF @ = "none" THEN "acknowledge" ELSE @]
      /\ tradePartner' = [tradePartner EXCEPT ![p] = q,
                                              ![q] = IF tradeState[q] = "none" THEN p ELSE @]
      /\ tradeItem' = [tradeItem EXCEPT ![p] = i]
      /\ tradeItems' = [tradeItems EXCEPT ![i] = p]
      /\ intact' = [intact EXCEPT ![p] = TRUE]
      /\ pos' = pos /\ at' = at
  BY DEF StartTrade, internalStartTrade
<1>2. tradeItem[p] = NoItem
  BY <1>1 DEF MayTrade, PartnersAgree
<1>3. TypeOK'
  BY <1>1 DEF TypeOK, TradeStates, Places
<1>4. /\ tradePartner'[p] = q /\ tradePartner'[q] = p
      /\ tradeState'[p] = "initiated" /\ tradeState'[q] # "none"
      /\ tradeItem'[p] = i /\ tradeItem'[q] = tradeItem[q]
  BY <1>1 DEF TypeOK, MayTrade, PartnersAgree
<1>5. PartnersAgree'
  <2> SUFFICES ASSUME NEW r \in Players
               PROVE  /\ tradePartner'[r] = NoPlayer <=> tradeState'[r] = "none"
                      /\ tradePartner'[r] # NoPlayer =>
                           /\ tradePartner'[r] # r /\ tradePartner'[tradePartner'[r]] = r
                           /\ r \in InGame'
                           /\ tradeItem'[r] # NoItem \/ tradeItem'[tradePartner'[r]] # NoItem
                      /\ tradeState'[r] \in {"none", "acknowledge"} => tradeItem'[r] = NoItem
                      /\ tradeState'[r] = "initiated" => tradeItem'[r] # NoItem
    BY DEF PartnersAgree
  <2>0. InGame' = InGame
    BY <1>1 DEF InGame
  <2>1. CASE r = p
    BY <1>1, <1>4, <2>0, <2>1, TradeAssumption
  <2>2. CASE r = q
    <3>1. tradeState[q] = "none" =>
            tradeState'[q] = "acknowledge" /\ tradeItem[q] = NoItem
      BY <1>1 DEF TypeOK, PartnersAgree
    <3>2. tradeState[q] # "none" => tradeState'[q] = tradeState[q]
      BY <1>1 DEF TypeOK
    <3> QED BY <1>1, <1>4, <2>0, <2>2, <3>1, <3>2, TradeAssumption DEF PartnersAgree
  <2>3. CASE r \notin {p, q}
    <3>1. /\ tradePartner'[r] = tradePartner[r] /\ tradeState'[r] = tradeState[r]
          /\ tradeItem'[r] = tradeItem[r]
      BY <1>1, <2>3 DEF TypeOK
    <3>2. ASSUME tradePartner[r] # NoPlayer
          PROVE  tradePartner[r] \in Players \ {p, q}
      <4>1. tradePartner[r] \in Players /\ tradePartner[tradePartner[r]] = r
        BY <3>2 DEF TypeOK, PartnersAgree
      <4>2. tradePartner[p] \in {NoPlayer, q} /\ tradePartner[q] \in {NoPlayer, p}
        BY <1>1 DEF MayTrade, PartnersAgree
      <4> QED BY <2>3, <4>1, <4>2, TradeAssumption
    <3>3. ASSUME tradePartner[r] # NoPlayer
          PROVE  /\ tradePartner'[tradePartner[r]] = tradePartner[tradePartner[r]]
                 /\ tradeItem'[tradePartner[r]] = tradeItem[tradePartner[r]]
      BY <1>1, <3>2, <3>3 DEF TypeOK
    <3> QED BY <2>0, <3>1, <3>3 DEF PartnersAgree
  <2> QED BY <2>1, <2>2, <2>3
<1>6. OffersRegistered'
  <2> SUFFICES ASSUME NEW j \in Items, NEW r \in Players
               PROVE  tradeItems'[j] = r <=> tradeItem'[r] = j
    BY DEF OffersRegistered
  <2>1. tradeItems[j] = r <=> tradeItem[r] = j
    BY DEF OffersRegistered
  <2>2. \A k \in Items : tradeItems[k] # p
    BY <1>2, TradeAssumption DEF OffersRegistered
  <2>3. /\ tradeItems'[j] = IF j = i THEN p ELSE tradeItems[j]
        /\ tradeItem'[r] = IF r = p THEN i ELSE tradeItem[r]
    BY <1>1 DEF TypeOK
  <2> QED BY <1>1, <2>1, <2>2, <2>3, TradeAssumption
<1> QED BY <1>3, <1>5, <1>6

-----------------------------------------------------------------------------
\* The hooks name players only.
LEMMA HooksArePlayers ==
    ASSUME NEW w, NEW i, NEW hear, NEW replaced
    PROVE  /\ onRemove(w, i, hear) \in SUBSET Players
           /\ onAdd(w, i, hear) \in SUBSET Players
           /\ onUpdate(w, i, replaced, hear) \in SUBSET Players
BY DEF onRemove, onAdd, onUpdate, Offering, InGame

\* Where internalMoveItem puts an item is a place.
LEMMA MovedPlaces ==
    ASSUME NEW w \in [Items -> Places], NEW p \in Players, NEW i, NEW w2 \in Moved(w, p, i)
    PROVE  w2 \in [Items -> Places]
<1>1. queryDestination(w, p, i) \subseteq Places
  BY DEF queryDestination, Places
<1>2. CASE CanAdd(w, p, i)
  <2>1. i \in Items
    BY <1>2 DEF CanAdd
  <2>2. PICK d \in queryDestination(w, p, i) : w2 = [w EXCEPT ![i] = d]
    BY <1>2 DEF Moved
  <2> QED BY <1>1, <2>1, <2>2
<1>3. CASE ~CanAdd(w, p, i)
  BY <1>3 DEF Moved
<1> QED BY <1>2, <1>3

\* Nobody trades at the start.
LEMMA InitInv == Init => IInv
BY TradeAssumption DEF Init, IInv, TypeOK, PartnersAgree, OffersRegistered, TradeStates, Places

\* Carrying a trade out, or failing to, ends it.
LEMMA TransferKeepsInv ==
    ASSUME IInv, NEW p \in Players, tradePartner[p] # NoPlayer,
           Transfer(p, tradePartner[p]), UNCHANGED pos
    PROVE  IInv'
<1> DEFINE q == tradePartner[p]
<1>1. q \in Players /\ at \in [Items -> Places] /\ pos' \in [Players -> Tiles \cup {Nowhere}]
  BY DEF IInv, TypeOK
<1>2. \A r \in Players : tradePartner[r] # NoPlayer => r \in InGame'
  BY DEF IInv, PartnersAgree, InGame
<1>3. CASE BothFit(p, q)
  <2>1. PICK w1 \in Moved(at, q, tradeItem[p]) : \E w2 \in Moved(w1, p, tradeItem[q]) :
          /\ at' = w2
          /\ \E S \in SUBSET Players : \E touched : internalCloseTrade(S, touched)
    <3> DEFINE others == Players \ {p, q}
               Heard(w1, w2) == {p} \cup onRemove(at, tradeItem[p], others)
                                    \cup onAdd(w1, tradeItem[p], others)
                                    \cup onRemove(w1, tradeItem[q], others)
                                    \cup onAdd(w2, tradeItem[q], others)
               Touched(w1, w2) == {r \in others :
                    \/ Touches(at, tradeItem[p], r) \/ Touches(w1, tradeItem[p], r)
                    \/ Touches(w1, tradeItem[q], r) \/ Touches(w2, tradeItem[q], r)}
    <3>1. \A w1, w2 : Heard(w1, w2) \in SUBSET Players
      BY HooksArePlayers
    <3>2. \E w1 \in Moved(at, q, tradeItem[p]) : \E w2 \in Moved(w1, p, tradeItem[q]) :
            at' = w2 /\ internalCloseTrade(Heard(w1, w2), Touched(w1, w2))
      BY <1>3 DEF Transfer
    <3> QED BY <3>1, <3>2
  <2>2. at' \in [Items -> Places]
    BY <1>1, <2>1, MovedPlaces
  <2> QED BY <1>1, <1>2, <2>1, <2>2, EndKeepsInv
<1>4. CASE ~BothFit(p, q)
  <2>1. at' = at /\ internalCloseTrade({p}, {})
    BY <1>4 DEF Transfer
  <2> QED BY <1>1, <1>2, <2>1, EndKeepsInv
<1> QED BY <1>3, <1>4

\* An action that ends the trades of S and leaves the other traders in the game.
LEMMA StepKeepsInv == IInv /\ [Next]_vars => IInv'
<1> SUFFICES ASSUME IInv, [Next]_vars PROVE IInv'
  OBVIOUS
<1>0. /\ pos \in [Players -> Tiles \cup {Nowhere}] /\ at \in [Items -> Places]
      /\ tradePartner \in [Players -> Players \cup {NoPlayer}]
      /\ \A r \in Players : tradePartner[r] # NoPlayer => r \in InGame
  BY DEF IInv, TypeOK, PartnersAgree
<1>1. ASSUME NEW p \in Players, NEW q \in Players, NEW i \in Items, RequestTrade(p, q, i)
      PROVE  IInv'
  <2>1. tradeItems[i] = NoPlayer
    BY <1>1 DEF RequestTrade, AlreadyTraded
  <2>2. StartTrade(p, q, i)
    BY <1>1, <2>1 DEF RequestTrade, StartTrade
  <2> QED BY <2>2, StartKeepsInv
<1>2. ASSUME NEW p \in Players, AcceptTrade(p) PROVE IInv'
  <2>1. CASE tradeState[tradePartner[p]] = "accept"
    BY <1>2, <2>1, TransferKeepsInv DEF AcceptTrade
  <2>2. CASE tradeState[tradePartner[p]] # "accept"
    <3>1. /\ tradeState' = [tradeState EXCEPT ![p] = "accept"]
          /\ UNCHANGED <<pos, at, tradePartner, tradeItem, tradeItems, intact>>
          /\ tradePartner[p] # NoPlayer
      BY <1>2, <2>2 DEF AcceptTrade
    <3>2. TypeOK'
      BY <3>1 DEF IInv, TypeOK, TradeStates, Places
    <3>3. PartnersAgree'
      BY <3>1 DEF IInv, TypeOK, PartnersAgree, InGame
    <3>4. OffersRegistered'
      BY <3>1 DEF IInv, OffersRegistered
    <3> QED BY <3>2, <3>3, <3>4 DEF IInv
  <2> QED BY <2>1, <2>2
<1>3. ASSUME NEW p \in Players, CloseTrade(p) PROVE IInv'
  <2>1. internalCloseTrade({p}, {}) /\ pos' = pos /\ at' = at /\ InGame' = InGame
    BY <1>3 DEF CloseTrade, InGame
  <2> QED BY <1>0, <2>1, EndKeepsInv
<1>4. ASSUME NEW p \in Players, Leave(p) PROVE IInv'
  <2> DEFINE S == {r \in {p} : tradePartner[p] # NoPlayer}
  <2>1. internalCloseTrade(S, {}) /\ at' = at /\ pos' = [pos EXCEPT ![p] = Nowhere]
    BY <1>4 DEF Leave
  <2>2. S \in SUBSET Players /\ S \subseteq Partners(S)
    BY DEF Partners
  <2>3. \A r \in Players \ Partners(S) : tradePartner[r] # NoPlayer => r \in InGame'
    <3> SUFFICES ASSUME NEW r \in Players \ Partners(S), tradePartner[r] # NoPlayer
                 PROVE  r \in InGame'
      OBVIOUS
    <3>1. r # p /\ r \in InGame
      BY <1>0, <2>2
    <3> QED BY <1>0, <2>1, <3>1 DEF InGame
  <2>4. pos' \in [Players -> Tiles \cup {Nowhere}]
    BY <1>0, <2>1
  <2> HIDE DEF S
  <2> QED BY <1>0, <2>1, <2>2, <2>3, <2>4, EndKeepsInv
<1>5. ASSUME NEW p \in Players, NEW t \in Tiles, Move(p, t) PROVE IInv'
  <2> DEFINE S == {r \in {p} : onCreatureMove(p, t)}
  <2>1. internalCloseTrade(S, {}) /\ at' = at /\ pos' = [pos EXCEPT ![p] = t]
    BY <1>5 DEF Move
  <2>2. S \in SUBSET Players
    OBVIOUS
  <2>3. pos' \in [Players -> Tiles \cup {Nowhere}] /\ InGame \subseteq InGame'
    BY <1>0, <2>1, TradeAssumption DEF InGame
  <2> HIDE DEF S
  <2> QED BY <1>0, <2>1, <2>2, <2>3, EndKeepsInv
<1>6. ASSUME NEW p \in Players, NEW t \in Tiles, Enter(p, t) PROVE IInv'
  <2>1. pos' = [pos EXCEPT ![p] = t] /\ UNCHANGED <<at, trade>>
    BY <1>6 DEF Enter
  <2>2. pos' \in [Players -> Tiles \cup {Nowhere}] /\ InGame \subseteq InGame'
    BY <1>0, <2>1, TradeAssumption DEF InGame
  <2>3. TypeOK'
    BY <2>1, <2>2 DEF IInv, TypeOK, trade, Places
  <2>4. PartnersAgree'
    BY <2>1, <2>2 DEF IInv, PartnersAgree, trade
  <2>5. OffersRegistered'
    BY <2>1 DEF IInv, OffersRegistered, trade
  <2> QED BY <2>3, <2>4, <2>5 DEF IInv
<1>7. ASSUME NEW i \in Items, NEW d \in Places, MoveItem(i, d) PROVE IInv'
  <2> DEFINE S == onRemove(at, i, Players) \cup onAdd(at', i, Players)
             touched == {r \in Players : Touches(at, i, r) \/ Touches(at', i, r)}
  <2>1. internalCloseTrade(S, touched) /\ at' = [at EXCEPT ![i] = d] /\ pos' = pos
    BY <1>7 DEF MoveItem
  <2>2. S \in SUBSET Players
    BY HooksArePlayers
  <2>3. at' \in [Items -> Places] /\ InGame' = InGame
    BY <1>0, <2>1 DEF InGame
  <2> HIDE DEF S, touched
  <2> QED BY <1>0, <2>1, <2>2, <2>3, EndKeepsInv
<1>8. ASSUME NEW i \in Items, NEW replaced \in BOOLEAN, ChangeItem(i, replaced) PROVE IInv'
  <2> DEFINE S == onUpdate(at, i, replaced, Players)
             touched == {r \in Players : tradeItem[r] = i
                           \/ (tradeItem[r] # NoItem /\ Holds(at, tradeItem[r], i))}
  <2>1. internalCloseTrade(S, touched) /\ at' = at /\ pos' = pos
    BY <1>8 DEF ChangeItem
  <2>2. S \in SUBSET Players
    BY HooksArePlayers
  <2>3. InGame' = InGame
    BY <2>1 DEF InGame
  <2> HIDE DEF S, touched
  <2> QED BY <1>0, <2>1, <2>2, <2>3, EndKeepsInv
<1>9. CASE UNCHANGED vars
  <2>1. TypeOK'
    BY <1>9 DEF IInv, vars, trade, TypeOK, Places
  <2>2. PartnersAgree' /\ OffersRegistered'
    BY <1>9 DEF IInv, vars, trade, PartnersAgree, OffersRegistered, InGame
  <2> QED BY <2>1, <2>2 DEF IInv
<1> QED BY <1>1, <1>2, <1>3, <1>4, <1>5, <1>6, <1>7, <1>8, <1>9 DEF Next

\* The invariant and its three parts: what the variables hold, the two sides of a trade
\* agree, and tradeItems lists what is on offer.
THEOREM TradeInv == Spec => []IInv
<1>1. Init => IInv
  BY InitInv
<1>2. IInv /\ [Next]_vars => IInv'
  BY StepKeepsInv
<1> QED BY <1>1, <1>2, PTL DEF Spec

\* Every variable of Trade keeps its type; no player is left in TRADE_TRANSFER.
THEOREM TypeCorrect == Spec => []TypeOK
<1>1. IInv => TypeOK
  BY DEF IInv
<1> QED BY <1>1, TradeInv, PTL

\* Both sides of a trade always know of each other (internalStartTrade, internalCloseTrade).
THEOREM PartnersAlwaysAgree == Spec => []PartnersAgree
<1>1. IInv => PartnersAgree
  BY DEF IInv
<1> QED BY <1>1, TradeInv, PTL

\* tradeItems is always the list of what is on offer: no item stays refused for trade.
THEOREM OffersAlwaysRegistered == Spec => []OffersRegistered
<1>1. IInv => OffersRegistered
  BY DEF IInv
<1> QED BY <1>1, TradeInv, PTL

-----------------------------------------------------------------------------
\* Ending some trades does not alter the others.
LEMMA EndKeepsAgreement ==
    ASSUME IInv, NEW S \in SUBSET Players, NEW touched, internalCloseTrade(S, touched)
    PROVE  AgreementKept
<1> SUFFICES ASSUME NEW p \in Players, tradeState[p] = "accept", tradeState'[p] # "none"
             PROVE  /\ tradePartner'[p] = tradePartner[p] /\ tradeItem'[p] = tradeItem[p]
                    /\ tradeItem'[tradePartner[p]] = tradeItem[tradePartner[p]]
  BY DEF AgreementKept
<1> DEFINE C == Partners(S)
<1>1. /\ tradeState' = [r \in Players |-> IF r \in C THEN "none" ELSE tradeState[r]]
      /\ tradePartner' = [r \in Players |-> IF r \in C THEN NoPlayer ELSE tradePartner[r]]
      /\ tradeItem' = [r \in Players |-> IF r \in C THEN NoItem ELSE tradeItem[r]]
  BY DEF internalCloseTrade
<1>2. p \notin C /\ tradePartner[p] # NoPlayer
  BY <1>1 DEF IInv, PartnersAgree
<1>3. tradePartner[p] \in Players \ C
  BY <1>2, PartnersClosed DEF IInv
<1> HIDE DEF C
<1> QED BY <1>1, <1>2, <1>3

\* A player who has accepted can make no other offer, nor can a partner who has
\* offered, and nobody else can trade with either.
LEMMA StartKeepsAgreement ==
    ASSUME IInv, NEW a \in Players, NEW b \in Players, NEW i \in Items,
           internalStartTrade(a, b, i)
    PROVE  AgreementKept
<1> SUFFICES ASSUME NEW p \in Players, tradeState[p] = "accept",
                    tradeItem[tradePartner[p]] # NoItem
             PROVE  /\ tradePartner'[p] = tradePartner[p] /\ tradeItem'[p] = tradeItem[p]
                    /\ tradeItem'[tradePartner[p]] = tradeItem[tradePartner[p]]
  BY DEF AgreementKept
<1> DEFINE q == tradePartner[p]
<1>1. q \in Players /\ tradePartner[q] = p /\ tradeState[q] \notin {"none", "acknowledge"}
  BY TradeAssumption DEF IInv, TypeOK, PartnersAgree
<1>2. a # p /\ a # q
  BY <1>1 DEF internalStartTrade, MayTrade
<1>3. tradeItem'[p] = tradeItem[p] /\ tradeItem'[q] = tradeItem[q]
  BY <1>1, <1>2 DEF internalStartTrade, IInv, TypeOK
<1>4. tradePartner'[p] = tradePartner[p]
  BY <1>2 DEF internalStartTrade, IInv, TypeOK
<1> QED BY <1>3, <1>4

\* No step alters an agreement that it does not end.
LEMMA StepKeepsAgreement == IInv /\ [Next]_vars => [AgreementKept]_vars
<1> SUFFICES ASSUME IInv, Next PROVE AgreementKept
  OBVIOUS
<1>1. ASSUME \A p \in Players : tradeState[p] = "accept" =>
               UNCHANGED <<tradePartner, tradeItem>>
      PROVE  AgreementKept
  BY <1>1 DEF AgreementKept
<1>2. ASSUME NEW p \in Players, NEW q \in Players, NEW i \in Items, RequestTrade(p, q, i)
      PROVE  AgreementKept
  BY <1>2, StartKeepsAgreement DEF RequestTrade
<1>3. ASSUME NEW p \in Players, AcceptTrade(p) PROVE AgreementKept
  <2>1. CASE tradeState[tradePartner[p]] # "accept"
    BY <1>1, <1>3, <2>1 DEF AcceptTrade
  <2>2. CASE Transfer(p, tradePartner[p])
    <3> DEFINE one == tradeItem[p]
               two == tradeItem[tradePartner[p]]
               others == Players \ {p, tradePartner[p]}
               Heard(w1, w2) == {p} \cup onRemove(at, one, others) \cup onAdd(w1, one, others)
                                    \cup onRemove(w1, two, others) \cup onAdd(w2, two, others)
    <3>1. \A w1, w2 : Heard(w1, w2) \in SUBSET Players
      BY HooksArePlayers
    <3>2. \/ internalCloseTrade({p}, {})
          \/ \E w1, w2, touched : internalCloseTrade(Heard(w1, w2), touched)
      BY <2>2 DEF Transfer
    <3> HIDE DEF Heard
    <3> QED BY <3>1, <3>2, EndKeepsAgreement
  <2> QED BY <1>3, <2>1, <2>2 DEF AcceptTrade
<1>4. ASSUME NEW p \in Players, CloseTrade(p) PROVE AgreementKept
  BY <1>4, EndKeepsAgreement DEF CloseTrade
<1>5. ASSUME NEW p \in Players, Leave(p) PROVE AgreementKept
  BY <1>5, EndKeepsAgreement DEF Leave
<1>6. ASSUME NEW p \in Players, NEW t \in Tiles, Move(p, t) PROVE AgreementKept
  BY <1>6, EndKeepsAgreement DEF Move
<1>7. ASSUME NEW p \in Players, NEW t \in Tiles, Enter(p, t) PROVE AgreementKept
  BY <1>1, <1>7 DEF Enter, trade
<1>8. ASSUME NEW i \in Items, NEW d \in Places, MoveItem(i, d) PROVE AgreementKept
  BY <1>8, EndKeepsAgreement, HooksArePlayers DEF MoveItem
<1>9. ASSUME NEW i \in Items, NEW replaced \in BOOLEAN, ChangeItem(i, replaced)
      PROVE  AgreementKept
  BY <1>9, EndKeepsAgreement, HooksArePlayers DEF ChangeItem
<1> QED BY <1>2, <1>3, <1>4, <1>5, <1>6, <1>7, <1>8, <1>9 DEF Next

\* Once a player has accepted and both have offered, neither offer changes until the
\* trade is over (the guards of internalStartTrade, game.cpp:2745-2752).
THEOREM AgreementAlwaysStands == Spec => AgreementStands
<1>1. IInv /\ [Next]_vars => [AgreementKept]_vars
  BY StepKeepsAgreement
<1> QED BY <1>1, TradeInv, PTL DEF Spec, AgreementStands

-----------------------------------------------------------------------------
(* The items                                                               *)

\* Bags are well-founded: of some bags, one is in none of them.
Grounded(w) == \A S \in SUBSET Bags : S # {} => \E b \in S : w[b] \notin S

LEMMA Depth == IsFiniteSet(Bags) /\ Cardinality(Bags) \in Nat
<1>1. IsFiniteSet(Bags)
  BY FS_Subset, TradeAssumption
<1> QED BY <1>1, FS_CardinalityType

\* The recursive function Outward follows at from cylinder to cylinder.
LEMMA OutwardSteps ==
    ASSUME NEW w \in [Items -> Places], NEW i \in Items
    PROVE  LET up == Outward(w, i)
               N == Cardinality(Bags)
           IN  /\ up \in [0 .. N -> Places] /\ up[0] = w[i]
               /\ \A n \in 1 .. N : up[n] = IF up[n - 1] \in Bags THEN w[up[n - 1]] ELSE up[n - 1]
<1> DEFINE N == Cardinality(Bags)
           X == Places
           b == w[i]
           St == [n \in 1 .. N |-> [c \in X |-> IF c \in Bags THEN w[c] ELSE c]]
           F(g) == [n \in 0 .. N |-> LET c == g[n - 1]
                                     IN  IF n = 0 THEN w[i] ELSE IF c \in Bags THEN w[c] ELSE c]
           up == CHOOSE g : g = F(g)
<1>0. N \in Nat /\ Bags \subseteq Items
  BY Depth, TradeAssumption
<1>1. St \in [1 .. N -> [X -> X]] /\ b \in X
  BY <1>0
<1>2. PICK g \in [0 .. N -> X] : Recursion(g, N, b, St)
  <2> HIDE DEF b, St, X, N
  <2> QED BY <1>0, <1>1, RecursionExists
<1>3. g[0] = b /\ \A n \in 1 .. N : g[n] = St[n][g[n - 1]]
  <2> HIDE DEF b, St, X, N
  <2> QED BY <1>2 DEF Recursion
<1>4. g = F(g)
  <2> SUFFICES ASSUME NEW n \in 0 .. N PROVE g[n] = F(g)[n]
    BY <1>2
  <2>1. CASE n = 0
    BY <2>1, <1>3
  <2>2. CASE n # 0
    <3>1. n \in 1 .. N /\ n - 1 \in 0 .. N /\ g[n - 1] \in X
      BY <2>2, <1>0, <1>2
    <3>2. g[n] = St[n][g[n - 1]]
      BY <3>1, <1>3
    <3> QED BY <3>1, <3>2, <2>2
  <2> QED BY <2>1, <2>2
<1>5. up = F(up)
  BY <1>4
<1>6. Outward(w, i) = up
  BY DEF Outward
<1> HIDE DEF up
<1>7. up[0] = w[i] /\ DOMAIN up = 0 .. N
  BY <1>0, <1>5
<1>8. ASSUME NEW n \in 1 .. N
      PROVE  up[n] = IF up[n - 1] \in Bags THEN w[up[n - 1]] ELSE up[n - 1]
  <2>1. n \in 0 .. N /\ n # 0
    BY <1>0
  <2> QED BY <2>1, <1>5
<1> DEFINE S == {n \in 0 .. N : up[n] \in Places}
<1>9. 0 .. N \subseteq S
  <2>1. 0 \in S
    BY <1>0, <1>7
  <2>2. ASSUME NEW n \in 1 .. N, n - 1 \in S PROVE n \in S
    BY <2>2, <1>0, <1>8
  <2> HIDE DEF S, N
  <2> QED BY <1>0, <2>1, <2>2, IntervalInduction
<1>10. up \in [0 .. N -> Places]
  BY <1>5, <1>7, <1>9
<1> QED BY <1>6, <1>7, <1>8, <1>10

\* Outside all bags there is no further out.
LEMMA OutwardStays ==
    ASSUME NEW w \in [Items -> Places], NEW i \in Items,
           NEW m \in 0 .. Cardinality(Bags), Outward(w, i)[m] \notin Bags
    PROVE  \A n \in m .. Cardinality(Bags) : Outward(w, i)[n] = Outward(w, i)[m]
<1> DEFINE N == Cardinality(Bags)
           up == Outward(w, i)
           S == {n \in 0 .. N : n >= m => up[n] = up[m]}
<1>0. N \in Nat
  BY Depth
<1>1. \A n \in 1 .. N : up[n] = IF up[n - 1] \in Bags THEN w[up[n - 1]] ELSE up[n - 1]
  BY OutwardSteps
<1>2. 0 \in S
  BY <1>0
<1>3. ASSUME NEW n \in 1 .. N, n - 1 \in S PROVE n \in S
  <2>1. CASE n - 1 >= m
    BY <1>0, <1>1, <1>3, <2>1
  <2>2. CASE ~(n - 1 >= m)
    BY <1>0, <2>2
  <2> QED BY <2>1, <2>2
<1>4. 0 .. N \subseteq S
  <2> HIDE DEF S, N
  <2> QED BY <1>0, <1>2, <1>3, IntervalInduction
<1> QED BY <1>0, <1>4

\* There are not enough bags to stay in bags all the way.
LEMMA OutwardLeavesBags ==
    ASSUME NEW w \in [Items -> Places], Grounded(w), NEW i \in Items
    PROVE  Outward(w, i)[Cardinality(Bags)] \notin Bags
<1> DEFINE N == Cardinality(Bags)
           up == Outward(w, i)
<1>0. N \in Nat /\ IsFiniteSet(Bags)
  BY Depth
<1>1. /\ up \in [0 .. N -> Places]
      /\ \A n \in 1 .. N : up[n] = IF up[n - 1] \in Bags THEN w[up[n - 1]] ELSE up[n - 1]
  BY OutwardSteps
<1> SUFFICES ASSUME up[N] \in Bags PROVE FALSE
  OBVIOUS
<1>2. ASSUME NEW m \in 0 .. N PROVE up[m] \in Bags
  <2> SUFFICES ASSUME up[m] \notin Bags PROVE FALSE
    OBVIOUS
  <2>1. up[N] = up[m]
    BY <1>0, OutwardStays
  <2> QED BY <2>1
<1>3. \E x, y \in 0 .. N : x # y /\ up[x] = up[y]
  <2>1. up \in [0 .. N -> Bags]
    BY <1>1, <1>2
  <2>2. IsFiniteSet(0 .. N) /\ Cardinality(0 .. N) = N + 1
    BY <1>0, FS_Interval
  <2>3. N < Cardinality(0 .. N)
    BY <1>0, <2>2
  <2> HIDE DEF up
  <2> QED BY <1>0, <2>1, <2>2, <2>3, FS_PigeonHole
<1>4. PICK x \in 0 .. N, y \in 0 .. N : x < y /\ up[x] = up[y]
  BY <1>0, <1>3
<1> DEFINE T == {up[n] : n \in x .. y - 1}
<1>5. T \in SUBSET Bags /\ T # {}
  <2>1. up[x] \in T
    BY <1>0, <1>4
  <2> QED BY <1>0, <1>2, <2>1
<1>6. ASSUME NEW n \in x .. y - 1 PROVE w[up[n]] \in T
  <2>1. n + 1 \in 1 .. N /\ (n + 1) - 1 = n /\ n \in 0 .. N
    BY <1>0
  <2>2. up[n + 1] = w[up[n]]
    BY <1>1, <1>2, <2>1
  <2>3. CASE n = y - 1
    <3>1. w[up[n]] = up[x]
      BY <1>0, <1>4, <2>2, <2>3
    <3> QED BY <1>0, <1>4, <3>1
  <2>4. CASE n # y - 1
    <3>1. n + 1 \in x .. y - 1
      BY <1>0, <2>4
    <3> QED BY <2>2, <3>1
  <2> QED BY <2>3, <2>4
<1> QED BY <1>5, <1>6 DEF Grounded

\* From a bag outward it is the same way, one step shorter.
LEMMA OutwardFromBag ==
    ASSUME NEW w \in [Items -> Places], NEW i \in Items, w[i] \in Bags
    PROVE  \A n \in 1 .. Cardinality(Bags) : Outward(w, i)[n] = Outward(w, w[i])[n - 1]
<1> DEFINE N == Cardinality(Bags)
           up == Outward(w, i)
           on == Outward(w, w[i])
           S == {n \in 0 .. N : n > 0 => up[n] = on[n - 1]}
<1>0. N \in Nat /\ w[i] \in Items
  BY Depth, TradeAssumption
<1>1. /\ up[0] = w[i] /\ on[0] = w[w[i]]
      /\ \A n \in 1 .. N : up[n] = IF up[n - 1] \in Bags THEN w[up[n - 1]] ELSE up[n - 1]
      /\ \A n \in 1 .. N : on[n] = IF on[n - 1] \in Bags THEN w[on[n - 1]] ELSE on[n - 1]
  BY <1>0, OutwardSteps
<1>2. 0 \in S
  BY <1>0
<1>3. ASSUME NEW n \in 1 .. N, n - 1 \in S PROVE n \in S
  <2>1. CASE n = 1
    BY <1>0, <1>1, <2>1
  <2>2. CASE n # 1
    <3>1. n - 1 \in 1 .. N /\ n - 1 > 0
      BY <1>0, <2>2
    <3>2. up[n - 1] = on[(n - 1) - 1]
      BY <1>3, <3>1
    <3>3. on[n - 1] = IF on[(n - 1) - 1] \in Bags THEN w[on[(n - 1) - 1]] ELSE on[(n - 1) - 1]
      BY <1>1, <3>1
    <3>4. up[n] = IF up[n - 1] \in Bags THEN w[up[n - 1]] ELSE up[n - 1]
      BY <1>1
    <3> QED BY <1>0, <3>2, <3>3, <3>4
  <2> QED BY <2>1, <2>2
<1>4. 0 .. N \subseteq S
  <2> HIDE DEF S, N
  <2> QED BY <1>0, <1>2, <1>3, IntervalInduction
<1> QED BY <1>0, <1>4

\* What holds an item: the bag it is in, and what holds that.
LEMMA HoldsStep ==
    ASSUME NEW w \in [Items -> Places], Grounded(w), NEW b, NEW i \in Items
    PROVE  Holds(w, b, i) <=> w[i] \in Bags /\ (b = w[i] \/ Holds(w, b, w[i]))
<1> DEFINE N == Cardinality(Bags)
           up == Outward(w, i)
           on == Outward(w, w[i])
<1>0. N \in Nat
  BY Depth
<1>1. CASE w[i] \notin Bags
  BY <1>1 DEF Holds
<1>2. CASE w[i] \in Bags
  <2>0. w[i] \in Items
    BY <1>2, TradeAssumption
  <2>1. /\ up[0] = w[i] /\ on[0] = w[w[i]]
        /\ \A n \in 1 .. N : up[n] = on[n - 1]
    BY <1>2, <2>0, OutwardSteps, OutwardFromBag
  <2>2. up[N] \notin Bags /\ on[N] \notin Bags
    BY <2>0, OutwardLeavesBags
  <2>3. Holds(w, b, i) <=> b \in Bags /\ \E n \in 0 .. N : b = up[n]
    BY <1>2 DEF Holds, Holders
  <2>4. Holds(w, b, w[i]) <=> w[w[i]] \in Bags /\ b \in Bags /\ \E n \in 0 .. N : b = on[n]
    BY <2>0 DEF Holds, Holders
  <2>5. ASSUME b \in Bags, NEW n \in 0 .. N, b = up[n], b # w[i]
        PROVE  Holds(w, b, w[i])
    <3>1. n \in 1 .. N
      BY <1>0, <2>1, <2>5
    <3>2. b = on[n - 1] /\ n - 1 \in 0 .. N
      BY <1>0, <2>1, <2>5, <3>1
    <3>3. w[w[i]] \in Bags
      <4> SUFFICES ASSUME w[w[i]] \notin Bags PROVE FALSE
        OBVIOUS
      <4>1. 0 \in 0 .. N /\ n - 1 \in 0 .. N
        BY <1>0, <3>2
      <4>2. on[n - 1] = on[0]
        BY <1>0, <2>0, <2>1, <4>1, OutwardStays
      <4> QED BY <2>1, <2>5, <3>2, <4>2
    <3> QED BY <2>4, <2>5, <3>2, <3>3
  <2>6. ASSUME b = w[i] PROVE Holds(w, b, i)
    <3>1. 0 \in 0 .. N
      BY <1>0
    <3> QED BY <1>2, <2>1, <2>3, <2>6, <3>1
  <2>7. ASSUME Holds(w, b, w[i]) PROVE Holds(w, b, i)
    <3>1. b \in Bags
      BY <2>4, <2>7
    <3>2. PICK n \in 0 .. N : b = on[n]
      BY <2>4, <2>7
    <3>3. n # N
      BY <2>2, <3>1, <3>2
    <3>4. n + 1 \in 1 .. N /\ n + 1 \in 0 .. N /\ (n + 1) - 1 = n
      BY <1>0, <3>3
    <3>5. b = up[n + 1]
      BY <2>1, <3>2, <3>4
    <3> QED BY <2>3, <3>1, <3>4, <3>5
  <2> QED BY <1>2, <2>3, <2>5, <2>6, <2>7
<1> QED BY <1>1, <1>2

\* The outermost cylinder is that of the bag an item is in.
LEMMA TopStep ==
    ASSUME NEW w \in [Items -> Places], Grounded(w), NEW i \in Items
    PROVE  /\ Top(w, i) = IF w[i] \in Bags THEN Top(w, w[i]) ELSE w[i]
           /\ Top(w, i) \in Places \ Bags
<1> DEFINE N == Cardinality(Bags)
           up == Outward(w, i)
           on == Outward(w, w[i])
<1>0. N \in Nat
  BY Depth
<1>1. up \in [0 .. N -> Places] /\ up[N] \notin Bags
  BY OutwardSteps, OutwardLeavesBags
<1>2. Top(w, i) \in Places \ Bags
  BY <1>0, <1>1 DEF Top
<1>3. CASE w[i] \notin Bags
  BY <1>2, <1>3 DEF Top
<1>4. CASE w[i] \in Bags
  <2>0. w[i] \in Items /\ Bags # {}
    BY <1>4, TradeAssumption
  <2>1. N # 0
    BY <2>0, Depth, FS_EmptySet
  <2>2. N \in 1 .. N /\ N - 1 \in 0 .. N /\ N \in (N - 1) .. N /\ 0 \in 0 .. N /\ N \in 0 .. N
    BY <1>0, <2>1
  <2>3. up[N] = on[N - 1]
    BY <1>4, <2>2, OutwardFromBag
  <2>4. on[N] = on[N - 1]
    BY <1>1, <2>0, <2>2, <2>3, OutwardStays
  <2>5. /\ Top(w, i) = up[N]
        /\ Top(w, w[i]) = IF w[w[i]] \in Bags THEN on[N] ELSE w[w[i]]
    BY <1>4 DEF Top
  <2>6. ASSUME w[w[i]] \notin Bags PROVE on[N] = w[w[i]]
    <3>1. on[0] = w[w[i]]
      BY <2>0, OutwardSteps
    <3>2. on[N] = on[0]
      BY <2>0, <2>2, <2>6, <3>1, OutwardStays
    <3> QED BY <3>1, <3>2
  <2>7. Top(w, i) = Top(w, w[i])
    BY <2>3, <2>4, <2>5, <2>6
  <2> QED BY <1>2, <1>4, <2>7
<1> QED BY <1>3, <1>4

\* What passes from a bag to what is in it, and begins outside all bags, is true of all items.
LEMMA OutwardInduction ==
    ASSUME NEW w \in [Items -> Places], Grounded(w), NEW S,
           \A i \in Items : (w[i] \in Bags => w[i] \in S) => i \in S
    PROVE  Items \subseteq S
<1> DEFINE T == Bags \ S
<1>1. T = {}
  <2> SUFFICES ASSUME T # {} PROVE FALSE
    OBVIOUS
  <2>1. PICK b \in T : w[b] \notin T
    <3> HIDE DEF T
    <3>1. T \in SUBSET Bags
      BY DEF T
    <3> QED BY <3>1 DEF Grounded
  <2> QED BY <2>1, TradeAssumption
<1> QED BY <1>1

LEMMA HoldsTypes ==
    ASSUME NEW w, NEW b, NEW i, Holds(w, b, i)
    PROVE  b \in Bags /\ b \in Items /\ i \in Items /\ w[i] \in Bags /\ w[i] \in Items
BY TradeAssumption DEF Holds

\* A bag that holds a bag holds what is in it.
LEMMA HoldsTransitive ==
    ASSUME NEW w \in [Items -> Places], Grounded(w), NEW a, NEW b, NEW i,
           Holds(w, a, b), Holds(w, b, i)
    PROVE  Holds(w, a, i)
<1> DEFINE S == {j \in Items : Holds(w, b, j) => Holds(w, a, j)}
<1>0. b \in Items /\ i \in Items
  BY HoldsTypes
<1>1. ASSUME NEW j \in Items, w[j] \in Bags => w[j] \in S PROVE j \in S
  BY <1>1, HoldsStep, HoldsTypes
<1>2. Items \subseteq S
  <2> HIDE DEF S
  <2> QED BY <1>1, OutwardInduction
<1> QED BY <1>0, <1>2

\* No bag holds itself.
LEMMA HoldsNotItself ==
    ASSUME NEW w \in [Items -> Places], Grounded(w), NEW b
    PROVE  ~Holds(w, b, b)
<1> DEFINE S == {j \in Items : ~Holds(w, j, j)}
<1>1. ASSUME NEW j \in Items, w[j] \in Bags => w[j] \in S PROVE j \in S
  <2> SUFFICES ASSUME Holds(w, j, j) PROVE FALSE
    OBVIOUS
  <2>1. w[j] \in Bags /\ w[j] \in Items /\ ~Holds(w, w[j], w[j])
    BY <1>1, HoldsTypes
  <2>2. Holds(w, w[j], j) /\ (j = w[j] \/ Holds(w, j, w[j]))
    BY <2>1, HoldsStep
  <2> QED BY <2>1, <2>2, HoldsTransitive
<1>2. Items \subseteq S
  <2> HIDE DEF S
  <2> QED BY <1>1, OutwardInduction
<1> QED BY <1>2, HoldsTypes

\* Things are where their bags are.
LEMMA HoldsTop ==
    ASSUME NEW w \in [Items -> Places], Grounded(w), NEW b, NEW i, Holds(w, b, i)
    PROVE  Top(w, i) = Top(w, b)
<1> DEFINE S == {j \in Items : Holds(w, b, j) => Top(w, j) = Top(w, b)}
<1>1. ASSUME NEW j \in Items, w[j] \in Bags => w[j] \in S PROVE j \in S
  BY <1>1, HoldsStep, TopStep, HoldsTypes
<1>2. Items \subseteq S
  <2> HIDE DEF S
  <2> QED BY <1>1, OutwardInduction
<1> QED BY <1>2, HoldsTypes

-----------------------------------------------------------------------------
\* What putting an item somewhere else does to the bags, unless it is put into itself.
LEMMA PutKeepsGrounded ==
    ASSUME NEW w \in [Items -> Places], Grounded(w), NEW i \in Items, NEW d \in Places,
           NotInItself(w, i, d)
    PROVE  [w EXCEPT ![i] = d] \in [Items -> Places] /\ Grounded([w EXCEPT ![i] = d])
<1> DEFINE v == [w EXCEPT ![i] = d]
<1>1. v \in [Items -> Places] /\ v[i] = d /\ \A j \in Items \ {i} : v[j] = w[j]
  OBVIOUS
<1> SUFFICES ASSUME NEW S \in SUBSET Bags, S # {}, \A b \in S : v[b] \in S
             PROVE  FALSE
  BY <1>1 DEF Grounded
<1> HIDE DEF v
<1>2. S \subseteq Items
  BY TradeAssumption
<1>3. PICK b \in S : w[b] \notin S
  BY DEF Grounded
<1>4. i \in S /\ d \in S
  BY <1>1, <1>2, <1>3
<1> DEFINE T == {c \in S : c = d \/ Holds(w, c, d)}
<1>5. d \in T /\ T \in SUBSET Bags
  BY <1>4
<1>6. ASSUME NEW c \in T PROVE w[c] \in T
  <2>1. c # i
    BY DEF NotInItself
  <2>2. w[c] \in S /\ w[c] \in Bags /\ c \in Items
    BY <1>1, <1>2, <2>1
  <2>3. Holds(w, w[c], c)
    BY <2>2, HoldsStep
  <2>4. CASE c = d
    BY <2>2, <2>3, <2>4
  <2>5. CASE Holds(w, c, d)
    BY <2>2, <2>3, <2>5, HoldsTransitive
  <2> QED BY <2>4, <2>5
<1> QED BY <1>5, <1>6 DEF Grounded

\* Items that are neither moved nor in the moved one stay where they are.
LEMMA PutLeavesOthers ==
    ASSUME NEW w \in [Items -> Places], Grounded(w), NEW i \in Items, NEW d \in Places,
           NotInItself(w, i, d), NEW j \in Items, j # i, ~Holds(w, i, j)
    PROVE  /\ Top([w EXCEPT ![i] = d], j) = Top(w, j)
           /\ \A b : Holds([w EXCEPT ![i] = d], b, j) <=> Holds(w, b, j)
<1> DEFINE v == [w EXCEPT ![i] = d]
           Same(k) == Top(v, k) = Top(w, k) /\ \A b : Holds(v, b, k) <=> Holds(w, b, k)
           S == {k \in Items : k # i /\ ~Holds(w, i, k) => Same(k)}
<1>1. v \in [Items -> Places] /\ Grounded(v) /\ \A k \in Items \ {i} : v[k] = w[k]
  BY PutKeepsGrounded
<1> HIDE DEF v
<1>2. ASSUME NEW k \in Items, w[k] \in Bags => w[k] \in S PROVE k \in S
  <2> SUFFICES ASSUME k # i, ~Holds(w, i, k) PROVE Same(k)
    OBVIOUS
  <2>1. v[k] = w[k]
    BY <1>1
  <2>2. CASE w[k] \notin Bags
    <3>1. Top(v, k) = Top(w, k)
      BY <1>1, <2>1, <2>2, TopStep
    <3>2. \A b : Holds(v, b, k) <=> Holds(w, b, k)
      BY <1>1, <2>1, <2>2, HoldsStep
    <3> QED BY <3>1, <3>2
  <2>3. CASE w[k] \in Bags
    <3>1. w[k] # i /\ ~Holds(w, i, w[k])
      BY <2>3, HoldsStep
    <3>2. w[k] \in Items /\ Same(w[k])
      BY <1>2, <2>3, <3>1
    <3>3. Top(v, k) = Top(w, k)
      BY <1>1, <2>1, <2>3, <3>2, TopStep
    <3>4. \A b : Holds(v, b, k) <=> Holds(w, b, k)
      BY <1>1, <2>1, <2>3, <3>2, HoldsStep
    <3> QED BY <3>3, <3>4
  <2> QED BY <2>2, <2>3
<1>3. Items \subseteq S
  <2> HIDE DEF S
  <2> QED BY <1>2, OutwardInduction
<1> QED BY <1>3 DEF v

\* The moved item keeps what is in it.
LEMMA PutKeepsContents ==
    ASSUME NEW w \in [Items -> Places], Grounded(w), NEW i \in Items, NEW d \in Places,
           NotInItself(w, i, d), NEW j
    PROVE  Holds([w EXCEPT ![i] = d], i, j) <=> Holds(w, i, j)
<1> DEFINE v == [w EXCEPT ![i] = d]
           S == {k \in Items : Holds(v, i, k) <=> Holds(w, i, k)}
<1>1. v \in [Items -> Places] /\ Grounded(v) /\ \A k \in Items \ {i} : v[k] = w[k]
  BY PutKeepsGrounded
<1> HIDE DEF v
<1>2. ASSUME NEW k \in Items, w[k] \in Bags => w[k] \in S PROVE k \in S
  <2>1. CASE k = i
    BY <1>1, <2>1, HoldsNotItself
  <2>2. CASE k # i
    <3>1. v[k] = w[k]
      BY <1>1, <2>2
    <3>2. Holds(v, i, k) <=> w[k] \in Bags /\ (i = w[k] \/ Holds(v, i, w[k]))
      BY <1>1, <3>1, HoldsStep
    <3>3. Holds(w, i, k) <=> w[k] \in Bags /\ (i = w[k] \/ Holds(w, i, w[k]))
      BY HoldsStep
    <3> QED BY <1>2, <3>2, <3>3
  <2> QED BY <2>1, <2>2
<1>3. Items \subseteq S
  <2> HIDE DEF S
  <2> QED BY <1>2, OutwardInduction
<1>4. CASE j \in Items
  BY <1>3, <1>4 DEF v
<1>5. CASE j \notin Items
  BY <1>5, HoldsTypes
<1> QED BY <1>4, <1>5

\* The moved item and what is in it come to where it is put.
LEMMA PutArrives ==
    ASSUME NEW w \in [Items -> Places], Grounded(w), NEW i \in Items, NEW d \in Places,
           NotInItself(w, i, d)
    PROVE  /\ Top([w EXCEPT ![i] = d], i) = IF d \in Bags THEN Top(w, d) ELSE d
           /\ \A j : Holds(w, i, j) => Top([w EXCEPT ![i] = d], j) = Top([w EXCEPT ![i] = d], i)
<1> DEFINE v == [w EXCEPT ![i] = d]
<1>1. v \in [Items -> Places] /\ Grounded(v) /\ v[i] = d
  BY PutKeepsGrounded
<1>2. ASSUME d \in Bags PROVE Top(v, d) = Top(w, d)
  BY <1>2, PutLeavesOthers, TradeAssumption DEF NotInItself
<1>3. \A j : Holds(v, i, j) <=> Holds(w, i, j)
  BY PutKeepsContents
<1> HIDE DEF v
<1>4. Top(v, i) = IF d \in Bags THEN Top(w, d) ELSE d
  BY <1>1, <1>2, TopStep
<1>5. \A j : Holds(w, i, j) => Top(v, j) = Top(v, i)
  BY <1>1, <1>3, HoldsTop
<1> QED BY <1>4, <1>5 DEF v

-----------------------------------------------------------------------------
\* r has an offer, and close by.
Offers(w, r) ==
    /\ r \in Offering /\ tradeItem[r] \in Items
    /\ Top(w, tradeItem[r]) \in Tiles \cup {r}
    /\ areInRange(1, Where(w, tradeItem[r]), pos[r])

\* Who has an offer at the outermost place of i sees what happens to i.
LEMMA OwnersWitness ==
    ASSUME NEW w \in [Items -> Places], Grounded(w), NEW i \in Items,
           NEW r \in Players, Offers(w, r), Top(w, i) = Top(w, tradeItem[r])
    PROVE  r \in Witnesses(w, i)
<1>1. r \in InGame /\ Top(w, i) \in Tiles \cup {r} /\ areInRange(1, Where(w, i), pos[r])
  BY DEF Offers, Offering, Where
<1>2. Top(w, i) = IF w[i] \in Bags THEN Top(w, w[i]) ELSE w[i]
  BY TopStep
<1>3. /\ Bags \cap Players = {} /\ Bags \cap Tiles = {} /\ Tiles \cap Players = {}
      /\ Nowhere \notin Tiles \cup Players
  BY TradeAssumption
<1>4. CASE w[i] \in Tiles
  <2>1. Witnesses(w, i) = InGame
    BY <1>3, <1>4 DEF Witnesses
  <2> QED BY <1>1, <2>1
<1>5. CASE w[i] \in Players
  <2>1. w[i] \notin Bags /\ w[i] \notin Tiles
    BY <1>3, <1>5
  <2>2. w[i] = r
    BY <1>1, <1>2, <2>1
  <2>3. Witnesses(w, i) = {w[i]}
    BY <1>5, <2>1 DEF Witnesses
  <2> QED BY <2>2, <2>3
<1>6. CASE w[i] \in Bags
  <2>1. Where(w, w[i]) = Where(w, i)
    BY <1>2, <1>6 DEF Where
  <2>2. pos[r] \in Int /\ Where(w, i) \in Int
    BY <1>1, TradeAssumption DEF areInRange
  <2>3. areInRange(2, pos[r], Where(w, w[i]))
    BY <1>1, <2>1, <2>2 DEF areInRange
  <2>4. Witnesses(w, i) = Near(w, w[i])
    BY <1>3, <1>6 DEF Witnesses
  <2> QED BY <2>3, <2>4 DEF Near
<1>7. CASE w[i] = Nowhere
  BY <1>1, <1>2, <1>3, <1>7, TradeAssumption
<1> QED BY <1>4, <1>5, <1>6, <1>7 DEF Places

\* Whoever's offer a move concerns hears of it, before or after the move.
LEMMA MovesAreHeard ==
    ASSUME NEW w \in [Items -> Places], Grounded(w), NEW i \in Items, NEW d \in Places,
           NotInItself(w, i, d), NEW hear, NEW r \in hear \cap Players, Offers(w, r),
           Touches(w, i, r) \/ Touches([w EXCEPT ![i] = d], i, r)
    PROVE  r \in onRemove(w, i, hear) \cup onAdd([w EXCEPT ![i] = d], i, hear)
<1> DEFINE v == [w EXCEPT ![i] = d]
           o == tradeItem[r]
<1>0. r \in Offering /\ o \in Items
  BY DEF Offers
<1>1. CASE o = i
  <2>1. r \in Witnesses(w, i)
    BY <1>1, OwnersWitness
  <2> QED BY <1>0, <1>1, <2>1 DEF onRemove, checkTradeState
<1>2. CASE Holds(w, o, i)
  <2>1. r \in Witnesses(w, i)
    BY <1>2, OwnersWitness, HoldsTop
  <2> QED BY <1>0, <1>2, <2>1 DEF onRemove, checkTradeState
<1>3. CASE Holds(w, i, o)
  <2>1. r \in Witnesses(w, i)
    BY <1>3, OwnersWitness, HoldsTop
  <2>2. WentWith(w, r, i)
    <3>1. CASE w[i] \in Bags
      <4>1. Holds(w, w[i], i) /\ w[i] \in Items
        BY <3>1, HoldsStep, TradeAssumption
      <4>2. Holds(w, w[i], o)
        BY <1>3, <4>1, HoldsTransitive
      <4>3. i = w[o] \/ Holds(w, i, w[o])
        BY <1>0, <1>3, HoldsStep
      <4>4. w[o] # w[i]
        <5>1. i # w[i]
          BY <4>1, HoldsNotItself
        <5>2. ~Holds(w, i, w[i])
          BY <4>1, HoldsTransitive, HoldsNotItself
        <5> QED BY <4>3, <5>1, <5>2
      <4> QED BY <3>1, <4>2, <4>4 DEF WentWith
    <3> QED BY <1>3, <3>1 DEF WentWith
  <2> QED BY <1>0, <2>1, <2>2 DEF onRemove
<1>4. CASE Holds(v, i, o)
  BY <1>3, <1>4, PutKeepsContents
<1>5. CASE Holds(v, o, i) /\ o # i /\ ~Holds(w, i, o)
  <2>1. v \in [Items -> Places] /\ Grounded(v)
    BY PutKeepsGrounded
  <2>2. Top(v, o) = Top(w, o)
    BY <1>0, <1>5, PutLeavesOthers
  <2> HIDE DEF v
  <2>3. Offers(v, r)
    BY <2>2 DEF Offers, Where
  <2>4. r \in Witnesses(v, i)
    BY <1>5, <2>1, <2>3, HoldsTop, OwnersWitness
  <2>5. v[i] \in Bags
    BY <1>5, HoldsTypes
  <2> QED BY <1>0, <1>5, <2>4, <2>5 DEF onAdd, checkTradeState, v
<1> QED BY <1>1, <1>2, <1>3, <1>4, <1>5 DEF Touches

\* Whoever's offer a change concerns hears of it.
LEMMA ChangesAreHeard ==
    ASSUME NEW w \in [Items -> Places], Grounded(w), NEW i \in Items, NEW replaced, NEW hear,
           NEW r \in hear \cap Players, Offers(w, r),
           tradeItem[r] = i \/ Holds(w, tradeItem[r], i)
    PROVE  r \in onUpdate(w, i, replaced, hear)
<1>1. r \in Witnesses(w, i)
  BY OwnersWitness, HoldsTop
<1>2. r \in Offering
  BY DEF Offers
<1> QED BY <1>1, <1>2 DEF onUpdate, checkTradeState

-----------------------------------------------------------------------------
\* What queryDestination answers for an offer: the player or a bag the player has, which is
\* neither the item, nor the player's own offer, nor in one of them.
LEMMA DestinationFits ==
    ASSUME NEW w \in [Items -> Places], Grounded(w), NEW p \in Players, NEW i \in Items,
           NEW d \in queryDestination(w, p, i)
    PROVE  /\ d \in Places /\ NotInItself(w, i, d)
           /\ (IF d \in Bags THEN Top(w, d) ELSE d) = p
           /\ tradeItem[p] \in Items => d # tradeItem[p] /\ ~Holds(w, tradeItem[p], d)
<1>1. d = p \/ (/\ d \in Bags /\ Top(w, d) = p /\ NotInItself(w, i, d)
                /\ d # tradeItem[p] /\ ~Holds(w, tradeItem[p], d))
  BY DEF queryDestination
<1>2. CASE d = p
  <2>1. d \notin Items /\ d \notin Bags
    BY <1>2, TradeAssumption
  <2> QED BY <1>2, <2>1, HoldsTypes DEF NotInItself, Places
<1> QED BY <1>1, <1>2 DEF Places

\* When the first of two offers has moved to q, the second still fits p where it did before: the
\* first one has taken no room there, nor has the second become larger.
LEMMA SecondStillFits ==
    ASSUME NEW w \in [Items -> Places], Grounded(w),
           NEW p \in Players, NEW q \in Players, p # q,
           tradeItem[p] \in Items, tradeItem[q] \in Items,
           tradeItem[p] # tradeItem[q], ~Holds(w, tradeItem[p], tradeItem[q]),
           NEW d1 \in queryDestination(w, q, tradeItem[p]), CanAdd(w, p, tradeItem[q])
    PROVE  /\ CanAdd([w EXCEPT ![tradeItem[p]] = d1], p, tradeItem[q])
           /\ ~Holds([w EXCEPT ![tradeItem[p]] = d1], tradeItem[q], tradeItem[p])
<1> DEFINE one == tradeItem[p]
           two == tradeItem[q]
           v == [w EXCEPT ![one] = d1]
<1>0. IsFiniteSet(Items) /\ Bags \subseteq Items /\ p \notin Items /\ q \notin Items
  BY TradeAssumption
<1>1. /\ d1 \in Places /\ NotInItself(w, one, d1)
      /\ (IF d1 \in Bags THEN Top(w, d1) ELSE d1) = q
      /\ d1 # two /\ ~Holds(w, two, d1)
  BY DestinationFits
<1>2. v \in [Items -> Places] /\ Grounded(v) /\ v[one] = d1 /\ \A j \in Items \ {one} : v[j] = w[j]
  BY <1>1, PutKeepsGrounded
<1>3. ASSUME NEW j \in Items, j # one, ~Holds(w, one, j)
      PROVE  Top(v, j) = Top(w, j) /\ \A b : Holds(v, b, j) <=> Holds(w, b, j)
  BY <1>1, <1>3, PutLeavesOthers
<1>4. Top(v, one) = q /\ \A j : Holds(w, one, j) => Top(v, j) = q
  <2>1. Top(v, one) = IF d1 \in Bags THEN Top(w, d1) ELSE d1
    BY <1>1, PutArrives
  <2>2. \A j : Holds(w, one, j) => Top(v, j) = Top(v, one)
    BY <1>1, PutArrives
  <2> QED BY <1>1, <2>1, <2>2
<1> HIDE DEF v
<1>5. \A j : Holds(v, two, j) => Holds(w, two, j)
  <2> DEFINE S == {j \in Items : Holds(v, two, j) => Holds(w, two, j)}
  <2>1. ASSUME NEW j \in Items, v[j] \in Bags => v[j] \in S PROVE j \in S
    <3> SUFFICES ASSUME Holds(v, two, j) PROVE Holds(w, two, j)
      OBVIOUS
    <3>1. v[j] \in Bags /\ (two = v[j] \/ Holds(v, two, v[j]))
      BY <1>2, HoldsStep
    <3>2. CASE j = one
      <4>1. d1 \in Items /\ d1 # one /\ ~Holds(w, one, d1)
        BY <1>0, <1>1, <1>2, <3>1, <3>2 DEF NotInItself
      <4>2. ~Holds(v, two, d1)
        BY <1>1, <1>3, <4>1
      <4> QED BY <1>1, <1>2, <3>1, <3>2, <4>2
    <3>3. CASE j # one
      <4>1. w[j] = v[j]
        BY <1>2, <3>3
      <4> QED BY <2>1, <3>1, <4>1, HoldsStep
    <3> QED BY <3>2, <3>3
  <2>2. Items \subseteq S
    <3> HIDE DEF S
    <3> QED BY <1>2, <2>1, OutwardInduction
  <2> QED BY <2>2, HoldsTypes
<1>6. ~Holds(v, two, one)
  <2>1. CASE d1 \in Bags
    <3>1. d1 \in Items /\ d1 # one /\ ~Holds(w, one, d1)
      BY <1>0, <1>1, <2>1 DEF NotInItself
    <3>2. ~Holds(v, two, d1)
      BY <1>1, <1>3, <3>1
    <3> QED BY <1>1, <1>2, <3>2, HoldsStep
  <2>2. CASE d1 \notin Bags
    BY <1>2, <2>2, HoldsStep
  <2> QED BY <2>1, <2>2
<1>7. PICK d \in queryDestination(w, p, two) : TRUE
  BY DEF CanAdd
<1>8. /\ d = p \/ (/\ d \in Bags /\ Top(w, d) = p /\ NotInItself(w, two, d)
                   /\ d # one /\ ~Holds(w, one, d))
      /\ HasRoom(w, d) /\ hasCapacity(w, p, two)
  BY DEF queryDestination
<1>9. d = p \/ (/\ d \in Bags /\ Top(v, d) = p /\ NotInItself(v, two, d)
                /\ d # one /\ ~Holds(v, one, d))
  BY <1>0, <1>3, <1>8 DEF NotInItself
<1>10. HasRoom(v, d)
  <2>1. d # d1 /\ d \notin Tiles \cup {Nowhere}
    <3>1. d \in Players \cup Items
      BY <1>0, <1>8
    <3>2. (IF d \in Bags THEN Top(w, d) ELSE d) = p
      BY <1>0, <1>8
    <3> QED BY <1>1, <3>1, <3>2, TradeAssumption
  <2> DEFINE A == {j \in Items : w[j] = d}
             B == {j \in Items : v[j] = d}
  <2>2. B \subseteq A /\ A \subseteq Items
    BY <1>2, <2>1
  <2>3. IsFiniteSet(A)
    <3> HIDE DEF A, B
    <3> QED BY <1>0, <2>2, FS_Subset
  <2>4. Cardinality(B) <= Cardinality(A) /\ Cardinality(B) \in Nat /\ Cardinality(A) \in Nat
    <3> HIDE DEF A, B
    <3> QED BY <2>2, <2>3, FS_Subset, FS_CardinalityType
  <2>5. Cardinality(A) < (IF d \in Bags THEN BagRoom ELSE Slots)
    BY <1>8, <2>1 DEF HasRoom
  <2>6. Cardinality(B) < (IF d \in Bags THEN BagRoom ELSE Slots)
    <3> HIDE DEF A, B
    <3> QED BY <2>4, <2>5, TradeAssumption
  <2> QED BY <2>6 DEF HasRoom
<1>11. hasCapacity(v, p, two)
  <2>1. Carried(v, p) \subseteq Carried(w, p)
    BY <1>3, <1>4 DEF Carried
  <2>2. two \in Carried(w, p) => two \in Carried(v, p)
    BY <1>3 DEF Carried
  <2>3. Contents(v, two) \subseteq Contents(w, two)
    BY <1>5 DEF Contents
  <2> DEFINE A == Carried(w, p) \cup Contents(w, two) \cup {two}
             B == Carried(v, p) \cup Contents(v, two) \cup {two}
  <2>4. B \subseteq A /\ A \subseteq Items
    BY <2>1, <2>3 DEF Carried, Contents
  <2>5. IsFiniteSet(A)
    <3> HIDE DEF A, B
    <3> QED BY <1>0, <2>4, FS_Subset
  <2>6. Cardinality(B) <= Cardinality(A) /\ Cardinality(B) \in Nat /\ Cardinality(A) \in Nat
    <3> HIDE DEF A, B
    <3> QED BY <2>4, <2>5, FS_Subset, FS_CardinalityType
  <2>7. Cardinality(A) <= Capacity => Cardinality(B) <= Capacity
    <3> HIDE DEF A, B
    <3> QED BY <2>6, TradeAssumption
  <2> QED BY <1>8, <2>2, <2>7 DEF hasCapacity
<1>12. d \in queryDestination(v, p, two)
  BY <1>9, <1>10, <1>11 DEF queryDestination
<1> QED BY <1>4, <1>6, <1>12 DEF CanAdd, v

-----------------------------------------------------------------------------
\* The invariant of items and trades together.
WorldInv == IInv /\ Grounded(at) /\ OffersDisjoint /\ OffersIntact /\ TradersInReach

\* Who offers something is in the game, and close to it.
LEMMA OfferersAreClose ==
    ASSUME WorldInv, NEW r \in Players, tradeItem[r] # NoItem
    PROVE  /\ Offers(at, r) /\ tradeItem[r] \in Items
           /\ InReach(r, tradeItem[r]) /\ tradePartner[r] # NoPlayer
<1>1. tradeItem[r] \in Items
  BY DEF WorldInv, IInv, TypeOK
<1>2. tradePartner[r] # NoPlayer /\ r \in InGame
  BY DEF WorldInv, IInv, PartnersAgree
<1>3. InReach(r, tradeItem[r])
  BY <1>2 DEF WorldInv, TradersInReach
<1> QED BY <1>1, <1>2, <1>3 DEF InReach, Offers, Offering

\* The trades that go on stay sound, if everybody whose offer was touched heard of it, no other
\* offer went into anything else, and nobody who goes on trading got out of reach.
LEMMA EndKeepsWorld ==
    ASSUME WorldInv, NEW S \in SUBSET Players, NEW touched, internalCloseTrade(S, touched),
           touched \subseteq Partners(S),
           \A r \in Players \ Partners(S) : tradeItem[r] # NoItem =>
               \A b : Holds(at', b, tradeItem[r]) => Holds(at, b, tradeItem[r]),
           \A r \in Players \ Partners(S) : tradePartner[r] # NoPlayer =>
               areInRange(2, pos'[r], pos'[tradePartner[r]]),
           \A r \in Players \ Partners(S), o \in Items : tradeItem[r] = o => InReach(r, o)'
    PROVE  OffersDisjoint' /\ OffersIntact' /\ TradersInReach'
<1> DEFINE C == Partners(S)
<1>1. /\ tradePartner' = [p \in Players |-> IF p \in C THEN NoPlayer ELSE tradePartner[p]]
      /\ tradeItem' = [p \in Players |-> IF p \in C THEN NoItem ELSE tradeItem[p]]
      /\ intact' = [p \in Players |-> p \in C \/ (intact[p] /\ p \notin touched)]
  BY DEF internalCloseTrade
<1>2. tradeItem \in [Players -> Items \cup {NoItem}]
  BY DEF WorldInv, IInv, TypeOK
<1> HIDE DEF C
<1>3. OffersDisjoint'
  <2> SUFFICES ASSUME NEW p \in Players, NEW q \in Players, p # q,
                      tradeItem'[p] # NoItem, tradeItem'[q] # NoItem
               PROVE  /\ tradeItem'[p] # tradeItem'[q]
                      /\ ~Holds(at', tradeItem'[p], tradeItem'[q])
    BY DEF OffersDisjoint
  <2>1. /\ p \notin C /\ q \notin C
        /\ tradeItem'[p] = tradeItem[p] /\ tradeItem'[q] = tradeItem[q]
    BY <1>1
  <2>2. tradeItem[p] # tradeItem[q] /\ ~Holds(at, tradeItem[p], tradeItem[q])
    BY <2>1 DEF WorldInv, OffersDisjoint
  <2> QED BY <2>1, <2>2 DEF C
<1>4. OffersIntact'
  BY <1>1 DEF OffersIntact, WorldInv, C
<1>5. TradersInReach'
  <2> SUFFICES ASSUME NEW p \in Players, tradePartner'[p] # NoPlayer
               PROVE  /\ areInRange(2, pos'[p], pos'[tradePartner'[p]])
                      /\ tradeItem'[p] # NoItem => InReach(p, tradeItem[p])' /\ tradeItem'[p] = tradeItem[p]
    BY DEF TradersInReach, InReach, Where, Top, Outward
  <2> QED BY <1>1, <1>2 DEF C
<1> QED BY <1>3, <1>4, <1>5

LEMMA InRangeBothWays ==
    ASSUME NEW a, NEW b, areInRange(2, a, b)
    PROVE  areInRange(2, b, a)
<1>1. a \in Int /\ b \in Int /\ a \in Tiles /\ b \in Tiles /\ a - b \in -2 .. 2
  BY TradeAssumption DEF areInRange
<1>2. b - a \in -2 .. 2
  BY <1>1
<1> QED BY <1>1, <1>2 DEF areInRange

\* A new offer is apart from all others, and close.
LEMMA RequestKeepsWorld ==
    ASSUME WorldInv, NEW p \in Players, NEW q \in Players, NEW i \in Items, RequestTrade(p, q, i)
    PROVE  OffersDisjoint' /\ OffersIntact' /\ TradersInReach'
<1>1. /\ p \in InGame /\ q \in InGame /\ p # q /\ areInRange(2, pos[q], pos[p])
      /\ InReach(p, i) /\ ~AlreadyTraded(i) /\ MayTrade(p, q)
      /\ tradePartner' = [tradePartner EXCEPT ![p] = q,
                                              ![q] = IF tradeState[q] = "none" THEN p ELSE @]
      /\ tradeItem' = [tradeItem EXCEPT ![p] = i]
      /\ intact' = [intact EXCEPT ![p] = TRUE]
      /\ pos' = pos /\ at' = at
  BY DEF RequestTrade, internalStartTrade
<1>2. /\ tradeItem \in [Players -> Items \cup {NoItem}]
      /\ tradePartner \in [Players -> Players \cup {NoPlayer}]
      /\ intact \in [Players -> BOOLEAN]
  BY DEF WorldInv, IInv, TypeOK
<1>3. ASSUME NEW r \in Players, tradeItem[r] # NoItem
      PROVE  /\ tradeItem[r] # i /\ ~Holds(at, i, tradeItem[r]) /\ ~Holds(at, tradeItem[r], i)
  <2>1. tradeItem[r] \in Items /\ tradeItems[tradeItem[r]] = r
    BY <1>2, <1>3 DEF WorldInv, IInv, OffersRegistered
  <2>2. tradeItems[tradeItem[r]] # NoPlayer
    BY <2>1, TradeAssumption
  <2> QED BY <1>1, <2>1, <2>2 DEF AlreadyTraded
<1>4. OffersDisjoint'
  <2> SUFFICES ASSUME NEW a \in Players, NEW b \in Players, a # b,
                      tradeItem'[a] # NoItem, tradeItem'[b] # NoItem
               PROVE  tradeItem'[a] # tradeItem'[b] /\ ~Holds(at, tradeItem'[a], tradeItem'[b])
    BY <1>1 DEF OffersDisjoint
  <2>1. CASE a = p
    BY <1>1, <1>2, <1>3, <2>1
  <2>2. CASE b = p
    BY <1>1, <1>2, <1>3, <2>2
  <2>3. CASE a # p /\ b # p
    BY <1>1, <1>2, <2>3 DEF WorldInv, OffersDisjoint
  <2> QED BY <2>1, <2>2, <2>3
<1>5. OffersIntact'
  BY <1>1, <1>2 DEF OffersIntact, WorldInv
<1>6. TradersInReach'
  <2> SUFFICES ASSUME NEW r \in Players, tradePartner'[r] # NoPlayer
               PROVE  /\ areInRange(2, pos[r], pos[tradePartner'[r]])
                      /\ tradeItem'[r] # NoItem => InReach(r, tradeItem'[r])
    <3>1. \A r, o : InReach(r, o)' <=> InReach(r, o)
      BY <1>1 DEF InReach, Where, Top, Outward
    <3> QED BY <1>1, <3>1 DEF TradersInReach
  <2>1. areInRange(2, pos[p], pos[q])
    BY <1>1, InRangeBothWays
  <2>2. CASE r = p
    BY <1>1, <1>2, <2>1, <2>2
  <2>3. CASE r = q
    <3>1. tradePartner'[q] = p
      BY <1>1, <1>2 DEF MayTrade, WorldInv, IInv, PartnersAgree
    <3>2. tradeItem'[q] = tradeItem[q]
      BY <1>1, <1>2
    <3>3. tradeItem[q] # NoItem => InReach(q, tradeItem[q])
      BY OfferersAreClose
    <3> QED BY <1>1, <2>3, <3>1, <3>2, <3>3
  <2>4. CASE r # p /\ r # q
    BY <1>1, <1>2, <2>4 DEF WorldInv, TradersInReach
  <2> QED BY <2>2, <2>3, <2>4
<1> QED BY <1>4, <1>5, <1>6

\* A step that neither moves nor touches an offer leaves the world sound.
LEMMA StillKeepsWorld ==
    ASSUME WorldInv, NEW S \in SUBSET Players, NEW touched, internalCloseTrade(S, touched),
           touched \subseteq Partners(S), UNCHANGED <<pos, at>>
    PROVE  OffersDisjoint' /\ OffersIntact' /\ TradersInReach'
<1>1. \A r \in Players \ Partners(S) : tradePartner[r] # NoPlayer =>
          areInRange(2, pos'[r], pos'[tradePartner[r]])
  BY DEF WorldInv, TradersInReach
<1>2. ASSUME NEW r \in Players, NEW o \in Items, tradeItem[r] = o PROVE InReach(r, o)'
  <2>1. InReach(r, o)
    BY <1>2, OfferersAreClose, TradeAssumption
  <2> QED BY <2>1 DEF InReach, Where, Top, Outward
<1>3. at' = at
  OBVIOUS
<1> QED BY <1>1, <1>2, <1>3, EndKeepsWorld

\* Players who walk away end their trade, and so do those whose offer they leave behind.
LEMMA MoveKeepsWorld ==
    ASSUME WorldInv, NEW p \in Players, NEW t \in Tiles, Move(p, t)
    PROVE  OffersDisjoint' /\ OffersIntact' /\ TradersInReach'
<1> DEFINE S == {r \in {p} : onCreatureMove(p, t)}
<1>1. internalCloseTrade(S, {}) /\ at' = at /\ pos' = [pos EXCEPT ![p] = t]
  BY DEF Move
<1>2. S \in SUBSET Players /\ pos \in [Players -> Tiles \cup {Nowhere}]
  BY DEF WorldInv, IInv, TypeOK
<1>3. \A r \in Players : (r = p /\ onCreatureMove(p, t)) => r \in Partners(S)
  BY DEF Partners
<1> HIDE DEF S
<1>4. ASSUME NEW r \in Players \ Partners(S), tradePartner[r] # NoPlayer
      PROVE  areInRange(2, pos'[r], pos'[tradePartner[r]])
  <2>1. /\ tradePartner[r] \in Players \ Partners(S) /\ tradePartner[r] # r
        /\ tradePartner[tradePartner[r]] = r
    BY <1>2, <1>4, PartnersClosed DEF WorldInv, IInv, PartnersAgree
  <2>2. areInRange(2, pos[r], pos[tradePartner[r]])
    BY <1>4 DEF WorldInv, TradersInReach
  <2>3. CASE r = p
    <3>1. areInRange(2, pos[tradePartner[p]], t)
      BY <1>3, <1>4, <2>3 DEF onCreatureMove
    <3>2. areInRange(2, t, pos[tradePartner[p]])
      BY <3>1, InRangeBothWays
    <3> QED BY <1>1, <1>2, <2>1, <2>3, <3>2
  <2>4. CASE tradePartner[r] = p
    <3>1. areInRange(2, pos[r], t)
      BY <1>3, <2>1, <2>4, TradeAssumption DEF onCreatureMove
    <3> QED BY <1>1, <1>2, <2>1, <2>4, <3>1
  <2>5. CASE r # p /\ tradePartner[r] # p
    BY <1>1, <1>2, <2>1, <2>2, <2>5
  <2> QED BY <2>3, <2>4, <2>5
<1>5. ASSUME NEW r \in Players \ Partners(S), NEW o \in Items, tradeItem[r] = o
      PROVE  InReach(r, o)'
  <2>1. InReach(r, o)
    BY <1>5, OfferersAreClose, TradeAssumption
  <2>2. /\ Top(at, o)' = Top(at, o)
        /\ InReach(r, o)' <=> Top(at, o)' \in Tiles \cup {r} /\ areInRange(1, Where(at, o)', pos'[r])
        /\ Where(at, o)' = IF Top(at, o)' \in Players THEN pos'[Top(at, o)'] ELSE Top(at, o)'
    BY <1>1 DEF InReach, Where, Top, Outward
  <2>3. /\ Top(at, o) \in Tiles \cup {r} /\ areInRange(1, Where(at, o), pos[r])
        /\ Where(at, o) = IF Top(at, o) \in Players THEN pos[Top(at, o)] ELSE Top(at, o)
    BY <2>1 DEF InReach, Where
  <2>4. CASE r # p
    <3>1. Where(at, o)' = Where(at, o)
      BY <1>1, <1>2, <2>2, <2>3, <2>4, TradeAssumption
    <3> QED BY <1>1, <1>2, <2>2, <2>3, <2>4, <3>1
  <2>5. CASE r = p /\ Top(at, o) = p
    <3>1. Where(at, o)' = t /\ pos'[r] = t
      BY <1>1, <1>2, <2>2, <2>5
    <3>2. areInRange(1, t, t)
      BY TradeAssumption DEF areInRange
    <3> QED BY <2>2, <2>3, <3>1, <3>2
  <2>6. CASE r = p /\ Top(at, o) # p
    <3>1. areInRange(1, Where(at, o), t)
      BY <1>3, <1>5, <2>6, TradeAssumption DEF onCreatureMove
    <3>2. Where(at, o)' = Where(at, o) /\ pos'[r] = t
      BY <1>1, <1>2, <2>2, <2>3, <2>6, TradeAssumption
    <3> QED BY <2>2, <2>3, <3>1, <3>2
  <2> QED BY <2>4, <2>5, <2>6
<1> QED BY <1>1, <1>2, <1>4, <1>5, EndKeepsWorld

\* Who is not in a trade may come and go; who is, ends the trade.
LEMMA AbsentKeepWorld ==
    ASSUME WorldInv, NEW p \in Players, NEW t \in Tiles \cup {Nowhere},
           NEW S \in SUBSET Players, internalCloseTrade(S, {}),
           tradePartner[p] # NoPlayer => p \in S, at' = at, pos' = [pos EXCEPT ![p] = t]
    PROVE  OffersDisjoint' /\ OffersIntact' /\ TradersInReach'
<1>1. pos \in [Players -> Tiles \cup {Nowhere}]
  BY DEF WorldInv, IInv, TypeOK
<1>2. ASSUME NEW r \in Players \ Partners(S), tradePartner[r] # NoPlayer
      PROVE  r # p /\ areInRange(2, pos'[r], pos'[tradePartner[r]])
  <2>1. tradePartner[r] \in Players \ Partners(S) /\ tradePartner[tradePartner[r]] = r
    BY <1>2, PartnersClosed DEF WorldInv, IInv, PartnersAgree
  <2>2. r # p /\ tradePartner[r] # p
    BY <1>2, <2>1, PartnersClosed, TradeAssumption DEF WorldInv, IInv
  <2> QED BY <1>1, <1>2, <2>1, <2>2 DEF WorldInv, TradersInReach
<1>3. ASSUME NEW r \in Players \ Partners(S), NEW o \in Items, tradeItem[r] = o
      PROVE  InReach(r, o)'
  <2>1. InReach(r, o) /\ r # p
    BY <1>2, <1>3, OfferersAreClose, TradeAssumption
  <2>2. /\ Top(at, o)' = Top(at, o)
        /\ InReach(r, o)' <=> Top(at, o)' \in Tiles \cup {r} /\ areInRange(1, Where(at, o)', pos'[r])
        /\ Where(at, o)' = IF Top(at, o)' \in Players THEN pos'[Top(at, o)'] ELSE Top(at, o)'
    BY DEF InReach, Where, Top, Outward
  <2>3. /\ Top(at, o) \in Tiles \cup {r} /\ areInRange(1, Where(at, o), pos[r])
        /\ Where(at, o) = IF Top(at, o) \in Players THEN pos[Top(at, o)] ELSE Top(at, o)
    BY <2>1 DEF InReach, Where
  <2>4. Where(at, o)' = Where(at, o) /\ pos'[r] = pos[r]
    BY <1>1, <2>1, <2>2, <2>3, TradeAssumption
  <2> QED BY <2>2, <2>3, <2>4
<1> QED BY <1>2, <1>3, EndKeepsWorld

\* However an item moves, whoever's offer it concerns hears of it, and the others are where they were.
LEMMA MoveItemKeepsWorld ==
    ASSUME WorldInv, NEW i \in Items, NEW d \in Places, MoveItem(i, d)
    PROVE  Grounded(at') /\ OffersDisjoint' /\ OffersIntact' /\ TradersInReach'
<1> DEFINE S == onRemove(at, i, Players) \cup onAdd(at', i, Players)
           touched == {r \in Players : Touches(at, i, r) \/ Touches(at', i, r)}
<1>1. /\ internalCloseTrade(S, touched) /\ at' = [at EXCEPT ![i] = d] /\ pos' = pos
      /\ NotInItself(at, i, d)
  BY DEF MoveItem
<1>2. at \in [Items -> Places] /\ Grounded(at)
  BY DEF WorldInv, IInv, TypeOK
<1>3. S \in SUBSET Players /\ Grounded(at')
  BY <1>1, <1>2, HooksArePlayers, PutKeepsGrounded
<1>4. S \subseteq Partners(S)
  <2> HIDE DEF S
  <2> QED BY DEF Partners
<1>5. touched \subseteq Partners(S)
  <2> SUFFICES ASSUME NEW r \in Players, Touches(at, i, r) \/ Touches(at', i, r) PROVE r \in S
    BY <1>4
  <2>1. Offers(at, r)
    BY OfferersAreClose DEF Touches
  <2> QED BY <1>1, <1>2, <2>1, MovesAreHeard
<1>6. ASSUME NEW r \in Players \ Partners(S), NEW o \in Items, tradeItem[r] = o
      PROVE  Top(at', o) = Top(at, o) /\ \A b : Holds(at', b, o) <=> Holds(at, b, o)
  <2>1. o # i /\ ~Holds(at, i, o)
    BY <1>5, <1>6, TradeAssumption DEF Touches
  <2> QED BY <1>1, <1>2, <2>1, PutLeavesOthers
<1>7. ASSUME NEW r \in Players \ Partners(S), NEW o \in Items, tradeItem[r] = o
      PROVE  InReach(r, o)'
  <2>1. InReach(r, o)
    BY <1>7, OfferersAreClose, TradeAssumption
  <2> QED BY <1>1, <1>6, <1>7, <2>1 DEF InReach, Where
<1>8. ASSUME NEW r \in Players \ Partners(S), tradePartner[r] # NoPlayer
      PROVE  areInRange(2, pos'[r], pos'[tradePartner[r]])
  BY <1>1, <1>8 DEF WorldInv, TradersInReach
<1>9. \A r \in Players \ Partners(S) : tradeItem[r] # NoItem => tradeItem[r] \in Items
  BY OfferersAreClose
<1> HIDE DEF S, touched
<1> QED BY <1>1, <1>3, <1>5, <1>6, <1>7, <1>8, <1>9, EndKeepsWorld

\* Who hears of the two moves of a trade, when the world is first v and then u, and whose offers
\* they concern.
Heard(p, q, v, u) ==
    {p} \cup onRemove(at, tradeItem[p], Players \ {p, q}) \cup onAdd(v, tradeItem[p], Players \ {p, q})
        \cup onRemove(v, tradeItem[q], Players \ {p, q}) \cup onAdd(u, tradeItem[q], Players \ {p, q})
Concerned(p, q, v, u) ==
    {r \in Players \ {p, q} : \/ Touches(at, tradeItem[p], r) \/ Touches(v, tradeItem[p], r)
                              \/ Touches(v, tradeItem[q], r) \/ Touches(u, tradeItem[q], r)}

\* The offers of p and q move, one to d1, the other to d2.
TwoMoves(p, q, v, d1, d2) ==
    /\ tradeItem[p] \in Items /\ tradeItem[q] \in Items /\ tradeItem[p] # tradeItem[q]
    /\ d1 \in Places /\ NotInItself(at, tradeItem[p], d1) /\ v = [at EXCEPT ![tradeItem[p]] = d1]
    /\ d2 \in Places /\ NotInItself(v, tradeItem[q], d2) /\ at' = [v EXCEPT ![tradeItem[q]] = d2]
    /\ Top(at', tradeItem[p]) = q /\ Top(at', tradeItem[q]) = p
    /\ internalCloseTrade(Heard(p, q, v, at'), Concerned(p, q, v, at'))

\* If both offers fit, both move.
LEMMA TransferMoves ==
    ASSUME WorldInv, NEW p \in Players, NEW q, q = tradePartner[p], q # NoPlayer,
           Transfer(p, q), BothFit(p, q)
    PROVE  \E v, d1, d2 : TwoMoves(p, q, v, d1, d2)
<1> DEFINE one == tradeItem[p]
           two == tradeItem[q]
<1>1. at \in [Items -> Places] /\ Grounded(at)
  BY DEF WorldInv, IInv, TypeOK
<1>2. /\ one \in Items /\ two \in Items
      /\ CanAdd(at, q, one) /\ CanAdd(at, p, two)
  BY DEF BothFit, CanAdd
<1>3. q \in Players /\ p # q
  BY DEF WorldInv, IInv, PartnersAgree, TypeOK
<1>4. one # two /\ ~Holds(at, one, two)
  BY <1>2, <1>3, TradeAssumption DEF WorldInv, OffersDisjoint
<1>5. PICK v, u : /\ v \in Moved(at, q, one) /\ u \in Moved(v, p, two)
                  /\ at' = u /\ internalCloseTrade(Heard(p, q, v, u), Concerned(p, q, v, u))
  BY DEF Transfer, Heard, Concerned
<1>6. PICK d1 \in queryDestination(at, q, one) : v = [at EXCEPT ![one] = d1]
  BY <1>2, <1>5 DEF Moved
<1>7. CanAdd(v, p, two) /\ Top(v, one) = q /\ ~Holds(v, two, one)
  <2>1. CanAdd([at EXCEPT ![one] = d1], p, two)
    BY <1>1, <1>2, <1>3, <1>4, SecondStillFits
  <2>2. Top([at EXCEPT ![one] = d1], one) = q
    <3>1. /\ d1 \in Places /\ NotInItself(at, one, d1)
          /\ (IF d1 \in Bags THEN Top(at, d1) ELSE d1) = q
      BY <1>1, <1>2, <1>3, DestinationFits
    <3>2. Top([at EXCEPT ![one] = d1], one) = IF d1 \in Bags THEN Top(at, d1) ELSE d1
      <4> HIDE DEF one
      <4> QED BY <1>1, <1>2, <3>1, PutArrives
    <3> QED BY <3>1, <3>2
  <2>3. ~Holds([at EXCEPT ![one] = d1], two, one)
    BY <1>1, <1>2, <1>3, <1>4, SecondStillFits
  <2> HIDE DEF one, two
  <2> QED BY <1>6, <2>1, <2>2, <2>3
<1>8. d1 \in Places /\ NotInItself(at, one, d1)
  BY <1>1, <1>2, <1>3, <1>6, DestinationFits
<1>9. v \in [Items -> Places] /\ Grounded(v)
  BY <1>1, <1>2, <1>6, <1>8, PutKeepsGrounded
<1>10. PICK d2 \in queryDestination(v, p, two) : u = [v EXCEPT ![two] = d2]
  BY <1>5, <1>7 DEF Moved
<1>11. /\ d2 \in Places /\ NotInItself(v, two, d2)
       /\ (IF d2 \in Bags THEN Top(v, d2) ELSE d2) = p
  BY <1>2, <1>9, <1>10, DestinationFits
<1>12. Top(u, two) = p
  <2>1. Top([v EXCEPT ![two] = d2], two) = IF d2 \in Bags THEN Top(v, d2) ELSE d2
    <3> HIDE DEF one, two
    <3> QED BY <1>2, <1>9, <1>11, PutArrives
  <2> QED BY <1>10, <1>11, <2>1
<1>13. Top(u, one) = q
  BY <1>2, <1>4, <1>7, <1>9, <1>10, <1>11, PutLeavesOthers
<1>14. TwoMoves(p, q, v, d1, d2)
  BY <1>2, <1>4, <1>5, <1>6, <1>8, <1>10, <1>11, <1>12, <1>13 DEF TwoMoves
<1> QED BY <1>14

\* Carrying a trade out concerns no other offer whose owner does not hear of it.
LEMMA TransferKeepsWorld ==
    ASSUME WorldInv, NEW p \in Players, NEW q, q = tradePartner[p], q # NoPlayer,
           Transfer(p, q), UNCHANGED pos
    PROVE  Grounded(at') /\ OffersDisjoint' /\ OffersIntact' /\ TradersInReach'
<1>1. CASE ~BothFit(p, q)
  <2>1. at' = at /\ internalCloseTrade({p}, {})
    BY <1>1 DEF Transfer
  <2> QED BY <2>1, StillKeepsWorld DEF WorldInv
<1>2. CASE BothFit(p, q)
  <2>1. PICK v, d1, d2 : TwoMoves(p, q, v, d1, d2)
    BY <1>2, TransferMoves
  <2> DEFINE one == tradeItem[p]
             two == tradeItem[q]
             others == Players \ {p, q}
             S == Heard(p, q, v, at')
             touched == Concerned(p, q, v, at')
  <2>0. /\ one \in Items /\ two \in Items
        /\ d1 \in Places /\ NotInItself(at, one, d1) /\ v = [at EXCEPT ![one] = d1]
        /\ d2 \in Places /\ NotInItself(v, two, d2) /\ at' = [v EXCEPT ![two] = d2]
        /\ internalCloseTrade(S, touched)
    BY <2>1 DEF TwoMoves
  <2>2. at \in [Items -> Places] /\ Grounded(at)
    BY DEF WorldInv, IInv, TypeOK
  <2>3. v \in [Items -> Places] /\ Grounded(v)
    BY <2>0, <2>2, PutKeepsGrounded
  <2>4. Grounded(at')
    BY <2>0, <2>3, PutKeepsGrounded
  <2>5. S \in SUBSET Players
    BY DEF Heard, onRemove, onAdd, Offering, InGame
  <2>6. S \subseteq Partners(S) /\ p \in Partners(S) /\ q \in Partners(S)
    <3>1. p \in S
      BY DEF Heard
    <3> HIDE DEF S
    <3> QED BY <3>1 DEF Partners
  <2>7. ASSUME NEW r \in others, Touches(at, one, r) \/ Touches(v, one, r) PROVE r \in S
    <3>1. Offers(at, r)
      BY <2>7, OfferersAreClose DEF Touches
    <3>2. r \in onRemove(at, one, others) \cup onAdd(v, one, others)
      BY <2>0, <2>2, <2>7, <3>1, MovesAreHeard
    <3> QED BY <3>2 DEF Heard
  <2>8. ASSUME NEW r \in others, NEW o \in Items, tradeItem[r] = o,
               ~Touches(at, one, r)
        PROVE  Offers(v, r) /\ Top(v, o) = Top(at, o) /\ \A b : Holds(v, b, o) <=> Holds(at, b, o)
    <3>1. o # one /\ ~Holds(at, one, o)
      BY <2>8, TradeAssumption DEF Touches
    <3>2. Top(v, o) = Top(at, o) /\ \A b : Holds(v, b, o) <=> Holds(at, b, o)
      BY <2>0, <2>2, <3>1, PutLeavesOthers
    <3>3. Offers(at, r)
      BY <2>8, OfferersAreClose, TradeAssumption
    <3> QED BY <2>8, <3>2, <3>3 DEF Offers, Where
  <2>9. touched \subseteq S
    <3> SUFFICES ASSUME NEW r \in others, ~Touches(at, one, r),
                        Touches(v, two, r) \/ Touches(at', two, r)
                 PROVE  r \in S
      BY <2>7 DEF Concerned
    <3>1. tradeItem[r] \in Items
      BY OfferersAreClose DEF Touches
    <3>2. Offers(v, r)
      BY <2>8, <3>1
    <3>3. r \in onRemove(v, two, others) \cup onAdd(at', two, others)
      BY <2>0, <2>3, <3>2, MovesAreHeard
    <3> QED BY <3>3 DEF Heard
  <2>10. ASSUME NEW r \in Players \ Partners(S), NEW o \in Items, tradeItem[r] = o
         PROVE  Top(at', o) = Top(at, o) /\ \A b : Holds(at', b, o) <=> Holds(at, b, o)
    <3>1. r \in others /\ ~Touches(at, one, r) /\ ~Touches(v, two, r)
      BY <2>6, <2>9 DEF Concerned
    <3>2. o # two /\ ~Holds(v, two, o)
      BY <2>10, <3>1, TradeAssumption DEF Touches
    <3>3. Top(at', o) = Top(v, o) /\ \A b : Holds(at', b, o) <=> Holds(v, b, o)
      BY <2>0, <2>3, <3>2, PutLeavesOthers
    <3> QED BY <2>8, <2>10, <3>1, <3>3
  <2>11. ASSUME NEW r \in Players \ Partners(S), NEW o \in Items, tradeItem[r] = o
         PROVE  InReach(r, o)'
    <3>1. InReach(r, o)
      BY <2>11, OfferersAreClose, TradeAssumption
    <3> QED BY <2>10, <2>11, <3>1 DEF InReach, Where
  <2>12. ASSUME NEW r \in Players \ Partners(S), tradePartner[r] # NoPlayer
         PROVE  areInRange(2, pos'[r], pos'[tradePartner[r]])
    BY <2>12 DEF WorldInv, TradersInReach
  <2>13. \A r \in Players \ Partners(S) : tradeItem[r] # NoItem => tradeItem[r] \in Items
    BY OfferersAreClose
  <2>14. touched \subseteq Partners(S)
    BY <2>6, <2>9
  <2> HIDE DEF S, touched
  <2> QED BY <2>0, <2>4, <2>5, <2>10, <2>11, <2>12, <2>13, <2>14, EndKeepsWorld
<1> QED BY <1>1, <1>2

LEMMA InitWorld == Init => WorldInv
<1> SUFFICES ASSUME Init PROVE WorldInv
  OBVIOUS
<1>1. IInv
  BY InitInv
<1>2. Grounded(at)
  BY TradeAssumption DEF Init, Grounded
<1> QED BY <1>1, <1>2, TradeAssumption DEF Init, WorldInv, OffersDisjoint, OffersIntact, TradersInReach

LEMMA StepKeepsWorld == WorldInv /\ [Next]_vars => WorldInv'
<1> SUFFICES ASSUME WorldInv, [Next]_vars
             PROVE  Grounded(at') /\ OffersDisjoint' /\ OffersIntact' /\ TradersInReach'
  BY StepKeepsInv DEF WorldInv
<1>0. Grounded(at)
  BY DEF WorldInv
<1>1. ASSUME NEW p \in Players, NEW q \in Players, NEW i \in Items, RequestTrade(p, q, i)
      PROVE  Grounded(at') /\ OffersDisjoint' /\ OffersIntact' /\ TradersInReach'
  BY <1>0, <1>1, RequestKeepsWorld DEF RequestTrade
<1>2. ASSUME NEW p \in Players, AcceptTrade(p)
      PROVE  Grounded(at') /\ OffersDisjoint' /\ OffersIntact' /\ TradersInReach'
  <2>1. CASE tradeState[tradePartner[p]] = "accept"
    BY <1>2, <2>1, TransferKeepsWorld DEF AcceptTrade
  <2>2. CASE tradeState[tradePartner[p]] # "accept"
    <3>1. UNCHANGED <<pos, at, tradePartner, tradeItem, tradeItems, intact>>
      BY <1>2, <2>2 DEF AcceptTrade
    <3>2. \A r, o : InReach(r, o)' <=> InReach(r, o)
      BY <3>1 DEF InReach, Where
    <3>3. TradersInReach'
      BY <3>1, <3>2 DEF WorldInv, TradersInReach
    <3> QED BY <1>0, <3>1, <3>3 DEF WorldInv, OffersDisjoint, OffersIntact
  <2> QED BY <2>1, <2>2
<1>3. ASSUME NEW p \in Players, CloseTrade(p)
      PROVE  Grounded(at') /\ OffersDisjoint' /\ OffersIntact' /\ TradersInReach'
  BY <1>0, <1>3, StillKeepsWorld DEF CloseTrade
<1>4. ASSUME NEW p \in Players, Leave(p)
      PROVE  Grounded(at') /\ OffersDisjoint' /\ OffersIntact' /\ TradersInReach'
  BY <1>0, <1>4, AbsentKeepWorld DEF Leave
<1>5. ASSUME NEW p \in Players, NEW t \in Tiles, Move(p, t)
      PROVE  Grounded(at') /\ OffersDisjoint' /\ OffersIntact' /\ TradersInReach'
  BY <1>0, <1>5, MoveKeepsWorld DEF Move
<1>6. ASSUME NEW p \in Players, NEW t \in Tiles, Enter(p, t)
      PROVE  Grounded(at') /\ OffersDisjoint' /\ OffersIntact' /\ TradersInReach'
  <2>1. pos' = [pos EXCEPT ![p] = t] /\ at' = at
        /\ UNCHANGED <<tradeState, tradePartner, tradeItem, tradeItems, intact>>
    BY <1>6 DEF Enter, trade
  <2>2. tradePartner[p] = NoPlayer
    BY <1>6 DEF Enter, WorldInv, IInv, PartnersAgree
  <2>3. internalCloseTrade({}, {})
    BY <2>1 DEF internalCloseTrade, Partners, WorldInv, IInv, TypeOK
  <2> QED BY <1>0, <2>1, <2>2, <2>3, AbsentKeepWorld
<1>7. ASSUME NEW i \in Items, NEW d \in Places, MoveItem(i, d)
      PROVE  Grounded(at') /\ OffersDisjoint' /\ OffersIntact' /\ TradersInReach'
  BY <1>7, MoveItemKeepsWorld
<1>8. ASSUME NEW i \in Items, NEW replaced \in BOOLEAN, ChangeItem(i, replaced)
      PROVE  Grounded(at') /\ OffersDisjoint' /\ OffersIntact' /\ TradersInReach'
  <2> DEFINE S == onUpdate(at, i, replaced, Players)
             touched == {r \in Players : tradeItem[r] = i
                           \/ (tradeItem[r] # NoItem /\ Holds(at, tradeItem[r], i))}
  <2>1. internalCloseTrade(S, touched) /\ UNCHANGED <<pos, at>>
    BY <1>8 DEF ChangeItem
  <2>2. S \in SUBSET Players /\ at \in [Items -> Places]
    BY HooksArePlayers DEF WorldInv, IInv, TypeOK
  <2>3. touched \subseteq S
    BY <1>0, <2>2, OfferersAreClose, ChangesAreHeard, TradeAssumption
  <2>4. S \subseteq Partners(S)
    <3> HIDE DEF S
    <3> QED BY DEF Partners
  <2> HIDE DEF S, touched
  <2> QED BY <1>0, <2>1, <2>2, <2>3, <2>4, StillKeepsWorld
<1>9. CASE UNCHANGED vars
  <2>1. UNCHANGED <<pos, at, tradePartner, tradeItem, intact>>
    BY <1>9 DEF vars, trade
  <2>2. \A r, o : InReach(r, o)' <=> InReach(r, o)
    BY <2>1 DEF InReach, Where
  <2>3. TradersInReach'
    BY <2>1, <2>2 DEF WorldInv, TradersInReach
  <2> QED BY <1>0, <2>1, <2>3 DEF WorldInv, OffersDisjoint, OffersIntact
<1> QED BY <1>1, <1>2, <1>3, <1>4, <1>5, <1>6, <1>7, <1>8, <1>9 DEF Next

\* The invariant of items and trades, for any players, nesting of bags and moves.
THEOREM TradeWorldInv == Spec => []WorldInv
<1>1. Init => WorldInv
  BY InitWorld
<1>2. WorldInv /\ [Next]_vars => WorldInv'
  BY StepKeepsWorld
<1> QED BY <1>1, <1>2, PTL DEF Spec

\* No offer ever lies in another one: what playerRequestTrade tests when an offer is made the
\* hooks of the containers keep true afterwards.
THEOREM OffersStayDisjoint == Spec => []OffersDisjoint
<1>1. WorldInv => OffersDisjoint
  BY DEF WorldInv
<1> QED BY <1>1, TradeWorldInv, PTL

\* The hooks (postRemoveNotification and the others, Player::checkTradeState) miss no move and no
\* change of what is on offer, in however many bags it is.
THEOREM OffersStayIntact == Spec => []OffersIntact
<1>1. WorldInv => OffersIntact
  BY DEF WorldInv
<1> QED BY <1>1, TradeWorldInv, PTL

\* Traders are always close to each other and to what they offer (onCreatureMove, the hooks).
THEOREM TradersStayInReach == Spec => []TradersInReach
<1>1. WorldInv => TradersInReach
  BY DEF WorldInv
<1> QED BY <1>1, TradeWorldInv, PTL

\* If a trade moves anything, both offers have changed hands and nothing else has moved, though
\* internalTradeEnd ignores what the two moves return (game.cpp:2837).
THEOREM AllOrNothing == Spec => ExchangeOrNothing
<1> DEFINE A == at' # at => \A p \in Players : AcceptTrade(p) => Exchanged(p, tradePartner[p])
<1>1. WorldInv /\ [Next]_vars => [A]_vars
  <2> SUFFICES ASSUME WorldInv, at' # at, NEW p \in Players, AcceptTrade(p)
               PROVE  Exchanged(p, tradePartner[p])
    OBVIOUS
  <2> DEFINE q == tradePartner[p]
  <2>1. Transfer(p, q) /\ q # NoPlayer
    BY DEF AcceptTrade
  <2>2. BothFit(p, q)
    BY <2>1 DEF Transfer
  <2>3. PICK v, d1, d2 : TwoMoves(p, q, v, d1, d2)
    BY <2>1, <2>2, TransferMoves
  <2>4. at \in [Items -> Places]
    BY DEF WorldInv, IInv, TypeOK
  <2>5. \A i \in Items \ {tradeItem[p], tradeItem[q]} : at'[i] = at[i]
    BY <2>3, <2>4 DEF TwoMoves
  <2> QED BY <2>3, <2>5, TradeAssumption DEF Exchanged, TwoMoves
<1> QED BY <1>1, TradeWorldInv, PTL DEF Spec, ExchangeOrNothing

=============================================================================

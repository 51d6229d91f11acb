---------------------------- MODULE WaitingList ----------------------------
(***************************************************************************)
(* WaitingList: who may enter a full server, as ProtocolGame::login asks it.  *)
(*                                                                         *)
(* login and everything it calls run as one task, so a step is a whole login, *)
(* a player's leaving, or the clock.  An entry keeps the seconds that are left *)
(* of its timeout instead of a date; it stays in the list, expired, until the *)
(* next login cleans up.                                                     *)
(* An operator named X_How is X with a bug; no specification uses it.         *)
(***************************************************************************)
EXTENDS Integers, FiniteSets, SequencesExt

CONSTANTS Players,
          Premium,      \* those for whom isPremium()
          AlwaysLogin,  \* those with PlayerFlag_CanAlwaysLogin
          MaxPlayers,   \* MAX_PLAYERS
          Nobody

ASSUME WaitingListAssumption ==
    /\ Premium \subseteq Players /\ AlwaysLogin \subseteq Players
    /\ Nobody \notin Players /\ MaxPlayers \in Nat

\* The clock moves this many seconds at a time; every timeout is a multiple of it.
TimeStep == 5

VARIABLES waitList,  \* the entries: player and seconds left
          online,    \* the players in the game, counted by Status
          told       \* the last player whose client was told its place on the list

vars == <<waitList, online, told>>

Init == waitList = <<>> /\ online = {} /\ told = Nobody

-----------------------------------------------------------------------------
getTime(slot) == IF slot < 5 THEN 5 ELSE IF slot < 10 THEN 10 ELSE IF slot < 20 THEN 20
                 ELSE IF slot < 50 THEN 60 ELSE 120
getTimeOut(slot) == getTime(slot) + 15

Entry(p, slot) == [player |-> p, left |-> getTimeOut(slot)]

cleanUpList(list) ==
    LET kept[i \in 0 .. Len(list)] ==
          IF i = 0 THEN <<>>
          ELSE IF list[i].left > 0 THEN Append(kept[i - 1], list[i]) ELSE kept[i - 1]
    IN  kept[Len(list)]

InList(p, list) == \E i \in DOMAIN list : list[i].player = p
findClient(p, list) == SelectInSeq(list, LAMBDA w : w.player = p)

\* Where a premium player's entry goes: before the first entry that is not premium.
premiumSlot(list) == SelectInSeq(list, LAMBDA w : w.player \notin Premium)

\* A new entry.  A premium player's is inserted by a loop that finds no place when
\* everyone on the list is premium, or nobody is on it: then the entry is lost.
Enlist_AtBack(p, list) == Append(list, Entry(p, Len(list) + 1))
Enlist(p, list) ==
    IF p \notin Premium THEN Append(list, Entry(p, Len(list) + 1))
    ELSE IF premiumSlot(list) = 0 THEN list
    ELSE InsertAt(list, premiumSlot(list), Entry(p, premiumSlot(list)))

-----------------------------------------------------------------------------
\* clientLogin answered TRUE.  What login does next may fail.
Enter(p) == /\ told' = Nobody
            /\ online' = online \cup {p} \/ UNCHANGED online

Wait(p) == told' = p /\ UNCHANGED online

LoginAlways(p) ==
    /\ p \in AlwaysLogin \ online
    /\ Enter(p) /\ UNCHANGED waitList

LoginWithRoom(p) ==
    /\ p \in Players \ (AlwaysLogin \cup online)
    /\ waitList = <<>> /\ Cardinality(online) < MaxPlayers
    /\ Enter(p) /\ UNCHANGED waitList

\* The rest of clientLogin, after cleanUpList.
MustAsk(p) == /\ p \in Players \ (AlwaysLogin \cup online)
              /\ waitList # <<>> \/ Cardinality(online) >= MaxPlayers

HasRoom_IgnoresSlot(slot) == Cardinality(online) < MaxPlayers
HasRoom(slot) == Cardinality(online) + slot <= MaxPlayers

LoginFromList(p) ==
    LET list == cleanUpList(waitList)
    IN /\ MustAsk(p) /\ InList(p, list) /\ HasRoom(findClient(p, list))
       /\ waitList' = RemoveAt(list, findClient(p, list))
       /\ Enter(p)

WaitLonger(p) ==
    LET list == cleanUpList(waitList)
        slot == findClient(p, list)
    IN /\ MustAsk(p) /\ InList(p, list) /\ ~HasRoom(slot)
       /\ waitList' = [list EXCEPT ![slot] = Entry(p, slot)]
       /\ Wait(p)

Join(p) ==
    LET list == cleanUpList(waitList)
    IN /\ MustAsk(p) /\ ~InList(p, list)
       /\ waitList' = Enlist(p, list)
       /\ Wait(p)

clientLogin(p) == \/ LoginAlways(p) \/ LoginWithRoom(p) \/ LoginFromList(p)
                  \/ WaitLonger(p) \/ Join(p)

Logout(p) == p \in online /\ online' = online \ {p} /\ UNCHANGED <<waitList, told>>

Tick == /\ \E i \in DOMAIN waitList : waitList[i].left > 0
        /\ waitList' = [i \in DOMAIN waitList |->
                          [waitList[i] EXCEPT !.left = IF @ > 0 THEN @ - TimeStep ELSE @]]
        /\ UNCHANGED <<online, told>>

Next == Tick \/ \E p \in Players : clientLogin(p) \/ Logout(p)

Spec == Init /\ [][Next]_vars

-----------------------------------------------------------------------------
\* The list holds only players who must ask, each with a timeout the code can compute.
TypeOK ==
    /\ \A i \in DOMAIN waitList : /\ waitList[i].player \in Players \ AlwaysLogin
                                  /\ waitList[i].left \in 0..getTimeOut(50)
    /\ online \subseteq Players /\ told \in Players \cup {Nobody}

\* Over any history of joins, expiries and retries nobody holds two places, nobody waits
\* who need not ask, and premium players are ahead of the others.
ListIsOrdered ==
    /\ TypeOK
    /\ \A i, j \in DOMAIN waitList : waitList[i].player = waitList[j].player => i = j
    /\ \A i, j \in DOMAIN waitList :
         i < j /\ waitList[j].player \in Premium => waitList[i].player \in Premium

\* Ahead of p: all who wait before it, or all who wait when it has no place.
Ahead(p) == LET list == cleanUpList(waitList)
            IN IF InList(p, list) THEN findClient(p, list) - 1 ELSE Len(list)

\* Who enters through the list leaves room for everyone who is ahead of it.
NobodyIsOvertaken ==
    [][\A p \in Players \ AlwaysLogin :
         p \in online' \ online => Cardinality(online') + Ahead(p) <= MaxPlayers]_vars

\* login tells a client that must wait "You are at place N on the waiting list": it has one.
ToldMeansListed == told = Nobody \/ InList(told, waitList)
=============================================================================

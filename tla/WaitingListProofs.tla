------------------------- MODULE WaitingListProofs -------------------------
(***************************************************************************)
(* Theorems about WaitingList, for any players and any limit.  The list is a  *)
(* sequence, so they rest on what cleanUpList, a recursive function, returns  *)
(* (CleanUpKeepsAPart) and on what insertion and removal do to positions.     *)
(***************************************************************************)
EXTENDS WaitingList, RecursionLemmas

\* What the list may hold.
Entries == [player : Players \ AlwaysLogin,
            left : {n \in 0 .. getTimeOut(50) : n % TimeStep = 0}]

Ordered(list) ==
    /\ \A i, j \in DOMAIN list : list[i].player = list[j].player => i = j
    /\ \A i, j \in DOMAIN list :
         i < j /\ list[j].player \in Premium => list[i].player \in Premium

\* C is what is left of a list L.
PartOf(C, L) ==
    /\ C \in Seq(Entries)
    /\ \E e \in [1 .. Len(C) -> 1 .. Len(L)] :
         /\ \A j \in 1 .. Len(C) : C[j] = L[e[j]]
         /\ \A i, j \in 1 .. Len(C) : i < j => e[i] < e[j]

IInv ==
    /\ waitList \in Seq(Entries) /\ Ordered(waitList)
    /\ online \subseteq Players /\ IsFiniteSet(online)
    /\ told \in Players \cup {Nobody}

-----------------------------------------------------------------------------
\* What is left of an ordered list is ordered.
LEMMA PartIsOrdered ==
  ASSUME NEW L \in Seq(Entries), Ordered(L), NEW C, PartOf(C, L)
  PROVE  Ordered(C)
<1>1. PICK e \in [1 .. Len(C) -> 1 .. Len(L)] :
         /\ \A j \in 1 .. Len(C) : C[j] = L[e[j]]
         /\ \A i, j \in 1 .. Len(C) : i < j => e[i] < e[j]
  BY DEF PartOf
<1>2. DOMAIN C = 1 .. Len(C) /\ DOMAIN L = 1 .. Len(L) /\ Len(C) \in Nat /\ Len(L) \in Nat
  BY DEF PartOf
<1>3. ASSUME NEW i \in DOMAIN C, NEW j \in DOMAIN C, C[i].player = C[j].player PROVE i = j
  <2>1. e[i] = e[j] BY <1>1, <1>2, <1>3 DEF Ordered
  <2> QED BY <2>1, <1>1, <1>2
<1>4. ASSUME NEW i \in DOMAIN C, NEW j \in DOMAIN C, i < j, C[j].player \in Premium
      PROVE  C[i].player \in Premium
  BY <1>1, <1>2, <1>4 DEF Ordered
<1> QED BY <1>3, <1>4 DEF Ordered

\* cleanUpList drops entries and changes no others: by induction over the entries it has looked at,
\* for the recursive function that it is has one solution.
LEMMA CleanUpKeepsAPart ==
  ASSUME NEW L \in Seq(Entries)
  PROVE  PartOf(cleanUpList(L), L)
<1> DEFINE n == Len(L)
           X == Seq(Entries)
           b == <<>>
           St == [i \in 1 .. n |-> [x \in X |-> IF L[i].left > 0 THEN Append(x, L[i]) ELSE x]]
           F(g) == [i \in 0 .. n |-> IF i = 0 THEN <<>>
                                     ELSE IF L[i].left > 0 THEN Append(g[i - 1], L[i]) ELSE g[i - 1]]
           kept == CHOOSE g : g = F(g)
<1>0. n \in Nat /\ \A i \in 1 .. n : L[i] \in Entries OBVIOUS
<1>1. St \in [1 .. n -> [X -> X]] /\ b \in X
  <2>1. ASSUME NEW i \in 1 .. n, NEW x \in X
        PROVE  (IF L[i].left > 0 THEN Append(x, L[i]) ELSE x) \in X
    BY <1>0
  <2>2. b \in X OBVIOUS
  <2> HIDE DEF X, b, n
  <2> QED BY <2>1, <2>2
<1>2. PICK g \in [0 .. n -> X] : Recursion(g, n, b, St)
  <2> HIDE DEF b, St, X, n
  <2> QED BY <1>0, <1>1, RecursionExists
<1>3. g[0] = b /\ \A i \in 1 .. n : g[i] = St[i][g[i-1]]
  <2> HIDE DEF b, St, X, n
  <2> QED BY <1>2 DEF Recursion
<1>4. g = F(g)
  <2> SUFFICES ASSUME NEW i \in 0 .. n PROVE g[i] = F(g)[i] BY <1>2
  <2>1. CASE i = 0 BY <2>1, <1>3
  <2>2. CASE i # 0
    <3>1. i \in 1 .. n /\ i - 1 \in 0 .. n /\ g[i-1] \in X
      <4> HIDE DEF n, X, St, F, kept
      <4>1. i \in 1 .. n /\ i - 1 \in 0 .. n BY <2>2, <1>0
      <4> QED BY <4>1, <1>2
    <3>3. g[i] = St[i][g[i-1]] BY <3>1, <1>3
    <3> QED BY <3>1, <3>3, <2>2
  <2> QED BY <2>1, <2>2
<1>5. kept = F(kept) BY <1>4
<1>6. cleanUpList(L) = kept[n] BY DEF cleanUpList
<1> HIDE DEF kept
<1> DEFINE S == {i \in 0 .. n : /\ kept[i] \in X
                                /\ \E e \in [1 .. Len(kept[i]) -> 1 .. i] :
                                     /\ \A j \in 1 .. Len(kept[i]) : kept[i][j] = L[e[j]]
                                     /\ \A j, k \in 1 .. Len(kept[i]) : j < k => e[j] < e[k]}
<1>7. 0 \in S
  <2>1. kept[0] = <<>> BY <1>5, <1>0
  <2>2. 0 \in 0 .. n BY <1>0
  <2>3. [x \in {} |-> 0] \in [1 .. Len(<<>>) -> 1 .. 0] OBVIOUS
  <2> QED BY <2>1, <2>2, <2>3
<1>8. ASSUME NEW i \in 1 .. n, i - 1 \in S PROVE i \in S
  <2>1. PICK e \in [1 .. Len(kept[i-1]) -> 1 .. i-1] :
          /\ \A j \in 1 .. Len(kept[i-1]) : kept[i-1][j] = L[e[j]]
          /\ \A j, k \in 1 .. Len(kept[i-1]) : j < k => e[j] < e[k]
    BY <1>8
  <2>2. kept[i-1] \in X /\ i \in 0 .. n /\ i # 0 /\ L[i] \in Entries BY <1>8, <1>0
  <2>3. kept[i] = IF L[i].left > 0 THEN Append(kept[i - 1], L[i]) ELSE kept[i - 1]
    BY <1>5, <2>2
  <2>4. CASE ~(L[i].left > 0)
    <3>1. kept[i] = kept[i-1] BY <2>3, <2>4
    <3>2. e \in [1 .. Len(kept[i]) -> 1 .. i] BY <2>1, <3>1, <2>2
    <3> QED BY <2>1, <2>2, <3>1, <3>2
  <2>5. CASE L[i].left > 0
    <3> DEFINE m == Len(kept[i-1])
               d == [j \in 1 .. m + 1 |-> IF j = m + 1 THEN i ELSE e[j]]
    <3>1. kept[i] = Append(kept[i-1], L[i]) /\ m \in Nat BY <2>3, <2>5, <2>2
    <3>2. kept[i] \in X /\ Len(kept[i]) = m + 1 BY <3>1, <2>2
    <3>3. ASSUME NEW j \in 1 .. m
          PROVE  j \in 1 .. m + 1 /\ kept[i][j] = kept[i-1][j] /\ d[j] = e[j] /\ e[j] < i /\ e[j] \in 1 .. i
      <4>1. e[j] \in 1 .. (i - 1) BY <2>1
      <4>2. j \in 1 .. m + 1 /\ j # m + 1 BY <3>1
      <4>3. d[j] = e[j] BY <4>2
      <4>4. kept[i][j] = kept[i-1][j] BY <3>1, <2>2
      <4> QED BY <4>1, <4>2, <4>3, <4>4, <2>2
    <3>4. kept[i][m + 1] = L[i] /\ d[m + 1] = i BY <3>1, <2>2
    <3>5. \A j \in 1 .. m + 1 : j \in 1 .. m \/ j = m + 1 BY <3>1
    <3> HIDE DEF m, d
    <3>6. \A j \in 1 .. m + 1 : d[j] \in 1 .. i BY <3>3, <3>4, <3>5
    <3>7. d \in [1 .. m + 1 -> 1 .. i] BY <3>6 DEF d
    <3>8. \A j \in 1 .. m + 1 : kept[i][j] = L[d[j]] BY <3>3, <3>4, <3>5, <2>1 DEF m
    <3>9. \A j, k \in 1 .. m + 1 : j < k => d[j] < d[k]
      <4> SUFFICES ASSUME NEW j \in 1 .. m + 1, NEW k \in 1 .. m + 1, j < k PROVE d[j] < d[k] OBVIOUS
      <4>1. j \in 1 .. m BY <3>1, <3>5
      <4>2. CASE k = m + 1 BY <4>1, <4>2, <3>3, <3>4
      <4>3. CASE k \in 1 .. m BY <4>1, <4>3, <3>3, <2>1 DEF m
      <4> QED BY <4>2, <4>3, <3>5
    <3> QED BY <3>2, <3>7, <3>8, <3>9, <2>2
  <2> QED BY <2>4, <2>5
<1>9. 0 .. n \subseteq S
  <2> HIDE DEF S
  <2> QED BY <1>0, <1>7, <1>8, IntervalInduction
<1>10. n \in S
  <2> HIDE DEF S, n
  <2> QED BY <1>9, <1>0
<1> QED BY <1>6, <1>10 DEF PartOf

\* An empty list stays empty.
LEMMA CleanUpOfNothing == cleanUpList(<<>>) = <<>>
<1>1. <<>> \in Seq(Entries) OBVIOUS
<1>2. PartOf(cleanUpList(<<>>), <<>>) BY <1>1, CleanUpKeepsAPart
<1>3. PICK e \in [1 .. Len(cleanUpList(<<>>)) -> 1 .. 0] : TRUE BY <1>2 DEF PartOf
<1>4. cleanUpList(<<>>) \in Seq(Entries) BY <1>2 DEF PartOf
<1>5. Len(cleanUpList(<<>>)) = 0
  <2> SUFFICES ASSUME Len(cleanUpList(<<>>)) # 0 PROVE FALSE OBVIOUS
  <2>1. 1 \in 1 .. Len(cleanUpList(<<>>)) BY <1>4
  <2>2. e[1] \in 1 .. 0 BY <2>1, <1>3
  <2> QED BY <2>2
<1> QED BY <1>4, <1>5

-----------------------------------------------------------------------------
\* Min of a nonempty set of slots is one of them.
LEMMA MinIsSmallest ==
  ASSUME NEW I \in SUBSET Nat, I # {}
  PROVE  Min(I) \in I /\ \A i \in I : Min(I) <= i
BY SmallestExists DEF Min

\* findClient finds an entry of the player, if there is one.
LEMMA FoundClient ==
  ASSUME NEW L \in Seq(Entries), NEW p, InList(p, L)
  PROVE  findClient(p, L) \in 1 .. Len(L) /\ L[findClient(p, L)].player = p
<1> DEFINE I == {i \in 1 .. Len(L) : L[i].player = p}
<1>1. I \in SUBSET Nat /\ I # {} BY DEF InList
<1>2. Min(I) \in I
  <2> HIDE DEF I
  <2> QED BY <1>1, MinIsSmallest
<1>3. findClient(p, L) = Min(I) BY <1>1 DEF findClient, SelectInSeq
<1> QED BY <1>2, <1>3

\* A new premium entry comes before the first that is not premium.
LEMMA PremiumSlotIsFirst ==
  ASSUME NEW L \in Seq(Entries), premiumSlot(L) # 0
  PROVE  /\ premiumSlot(L) \in 1 .. Len(L)
         /\ L[premiumSlot(L)].player \notin Premium
         /\ \A i \in 1 .. Len(L) : i < premiumSlot(L) => L[i].player \in Premium
<1> DEFINE I == {i \in 1 .. Len(L) : L[i].player \notin Premium}
<1>1. I \in SUBSET Nat OBVIOUS
<1>2. I # {} /\ premiumSlot(L) = Min(I) BY DEF premiumSlot, SelectInSeq
<1>3. Min(I) \in I /\ \A i \in I : Min(I) <= i
  <2> HIDE DEF I
  <2> QED BY <1>1, <1>2, MinIsSmallest
<1>4. premiumSlot(L) \in I /\ \A i \in I : premiumSlot(L) <= i BY <1>2, <1>3
<1>5. premiumSlot(L) \in 1 .. Len(L) /\ L[premiumSlot(L)].player \notin Premium BY <1>4
<1>6. ASSUME NEW i \in 1 .. Len(L), i < premiumSlot(L) PROVE L[i].player \in Premium
  <2>1. i \notin I BY <1>4, <1>5, <1>6
  <2> QED BY <2>1
<1> QED BY <1>5, <1>6

\* A player who enters leaves the rest of the list as it is.
LEMMA RemoveAtIsPart ==
  ASSUME NEW L \in Seq(Entries), NEW k \in 1 .. Len(L)
  PROVE  PartOf(RemoveAt(L, k), L)
<1> DEFINE C == RemoveAt(L, k)
           e == [j \in 1 .. Len(L) - 1 |-> IF j < k THEN j ELSE j + 1]
           A == SubSeq(L, 1, k - 1)
           B == SubSeq(L, k + 1, Len(L))
<1>a. C = A \o B BY DEF RemoveAt
<1>b. /\ A \in Seq(Entries) /\ Len(A) = k - 1
      /\ \A i \in 1 .. k - 1 : A[i] = L[i]
  OBVIOUS
<1>c. /\ B \in Seq(Entries) /\ Len(B) = Len(L) - k
      /\ \A i \in 1 .. Len(L) - k : B[i] = L[k + i]
  OBVIOUS
<1>2. C \in Seq(Entries) /\ Len(C) = Len(L) - 1
  <2>1. A \in Seq(Entries) /\ B \in Seq(Entries) BY <1>b, <1>c
  <2>2. Len(A) = k - 1 /\ Len(B) = Len(L) - k BY <1>b, <1>c
  <2> HIDE DEF A, B, C
  <2>3. C \in Seq(Entries) BY <1>a, <2>1
  <2>4. Len(C) = Len(A) + Len(B) BY <1>a, <2>1
  <2> QED BY <2>2, <2>3, <2>4
<1>3. \A j \in 1 .. Len(C) : C[j] = L[e[j]]
  <2> SUFFICES ASSUME NEW j \in 1 .. Len(C) PROVE C[j] = L[e[j]] OBVIOUS
  <2> HIDE DEF A, B, C
  <2>1. CASE j < k BY <1>a, <1>b, <1>c, <1>2, <2>1
  <2>2. CASE ~(j < k)
    <3>1. C[j] = B[j - (k - 1)] BY <1>a, <1>b, <1>c, <1>2, <2>2
    <3>2. j - (k - 1) \in 1 .. Len(L) - k BY <1>2, <2>2
    <3> QED BY <1>c, <1>2, <2>2, <3>1, <3>2
  <2> QED BY <2>1, <2>2
<1>4. e \in [1 .. Len(C) -> 1 .. Len(L)] BY <1>2
<1>5. \A i, j \in 1 .. Len(C) : i < j => e[i] < e[j] BY <1>2
<1> HIDE DEF C, e
<1>6. PartOf(C, L) BY <1>2, <1>3, <1>4, <1>5 DEF PartOf
<1> QED BY <1>6 DEF C

\* An insertion moves the entries behind it back by one.
LEMMA InsertAtElements ==
  ASSUME NEW L \in Seq(Entries), NEW k \in 1 .. Len(L), NEW w \in Entries
  PROVE  /\ InsertAt(L, k, w) \in Seq(Entries)
         /\ Len(InsertAt(L, k, w)) = Len(L) + 1
         /\ \A j \in 1 .. Len(L) + 1 :
              InsertAt(L, k, w)[j] = IF j < k THEN L[j] ELSE IF j = k THEN w ELSE L[j - 1]
<1> DEFINE A == SubSeq(L, 1, k - 1)
           B == SubSeq(L, k, Len(L))
           C == A \o <<w>>
           D == C \o B
<1>1. /\ A \in Seq(Entries) /\ Len(A) = k - 1
      /\ \A i \in 1 .. k - 1 : A[i] = L[i]
  OBVIOUS
<1>2. /\ B \in Seq(Entries) /\ Len(B) = Len(L) - k + 1
      /\ \A i \in 1 .. Len(L) - k + 1 : B[i] = L[k + i - 1]
  OBVIOUS
<1>3. InsertAt(L, k, w) = D BY DEF InsertAt
<1> HIDE DEF A, B
<1>4. C \in Seq(Entries) /\ Len(C) = k /\ C[k] = w /\ \A i \in 1 .. k - 1 : C[i] = L[i]
  BY <1>1
<1> HIDE DEF C
<1>5. D \in Seq(Entries) /\ Len(D) = Len(L) + 1
  <2>1. B \in Seq(Entries) /\ C \in Seq(Entries) BY <1>2, <1>4
  <2>2. Len(C) = k /\ Len(B) = Len(L) - k + 1 BY <1>2, <1>4
  <2>3. D \in Seq(Entries) /\ Len(D) = Len(C) + Len(B) BY <2>1
  <2> QED BY <2>2, <2>3
<1>6. ASSUME NEW j \in 1 .. Len(L) + 1
      PROVE  D[j] = IF j < k THEN L[j] ELSE IF j = k THEN w ELSE L[j - 1]
  <2>1. CASE j <= k BY <1>2, <1>4, <2>1
  <2>2. CASE ~(j <= k)
    <3>1. D[j] = B[j - k] BY <1>2, <1>4, <2>2
    <3>2. j - k \in 1 .. Len(L) - k + 1 /\ k + (j - k) - 1 = j - 1 BY <2>2
    <3> QED BY <1>2, <2>2, <3>1, <3>2
  <2> QED BY <2>1, <2>2
<1> HIDE DEF D
<1> QED BY <1>3, <1>5, <1>6

\* Every timeout that the code computes is a multiple of TimeStep.
LEMMA EntryType ==
  ASSUME NEW p \in Players \ AlwaysLogin, NEW slot \in Nat
  PROVE  Entry(p, slot) \in Entries /\ Entry(p, slot).player = p
BY DEF Entry, Entries, getTimeOut, getTime, TimeStep

\* A new entry goes to the end, or to the end of the premium entries.
LEMMA EnlistKeepsOrder ==
  ASSUME NEW L \in Seq(Entries), Ordered(L), NEW p \in Players \ AlwaysLogin, ~InList(p, L)
  PROVE  Enlist(p, L) \in Seq(Entries) /\ Ordered(Enlist(p, L))
<1>0. \A i \in 1 .. Len(L) : L[i].player # p
  BY DEF InList
<1>1. CASE p \notin Premium
  <2> DEFINE w == Entry(p, Len(L) + 1)
             C == Append(L, w)
  <2>1. w \in Entries /\ w.player = p BY EntryType
  <2> HIDE DEF w
  <2>2. C \in Seq(Entries) /\ Len(C) = Len(L) + 1 /\ C[Len(L) + 1] = w BY <2>1
  <2>3. \A i \in 1 .. Len(L) : C[i] = L[i] BY <2>1
  <2> HIDE DEF C
  <2>4. Ordered(C) BY <1>0, <1>1, <2>1, <2>2, <2>3 DEF Ordered
  <2>5. Enlist(p, L) = C BY <1>1 DEF Enlist, C, w
  <2> QED BY <2>2, <2>4, <2>5
<1>2. CASE p \in Premium /\ premiumSlot(L) = 0
  BY <1>2 DEF Enlist
<1>3. CASE p \in Premium /\ premiumSlot(L) # 0
  <2> DEFINE k == premiumSlot(L)
             w == Entry(p, k)
             C == InsertAt(L, k, w)
  <2>1. /\ k \in 1 .. Len(L) /\ L[k].player \notin Premium
        /\ \A i \in 1 .. Len(L) : i < k => L[i].player \in Premium
    BY <1>3, PremiumSlotIsFirst
  <2>2. w \in Entries /\ w.player = p BY <2>1, EntryType
  <2> HIDE DEF k, w
  <2>3. /\ C \in Seq(Entries) /\ Len(C) = Len(L) + 1
        /\ \A j \in 1 .. Len(L) + 1 : C[j] = IF j < k THEN L[j] ELSE IF j = k THEN w ELSE L[j - 1]
    BY <2>1, <2>2, InsertAtElements
  <2>4. Enlist(p, L) = C BY <1>3 DEF Enlist, k, w
  <2> HIDE DEF C
  <2> DEFINE old(j) == IF j < k THEN j ELSE j - 1
  <2>a. ASSUME NEW j \in 1 .. Len(L) + 1, j # k
        PROVE  old(j) \in 1 .. Len(L) /\ C[j] = L[old(j)]
    BY <2>1, <2>3, <2>a
  <2>b. C[k] = w BY <2>1, <2>3
  <2>5. ASSUME NEW i \in 1 .. Len(L) + 1, NEW j \in 1 .. Len(L) + 1, C[i].player = C[j].player PROVE i = j
    <3>1. CASE i = k \/ j = k BY <1>0, <2>a, <2>b, <2>2, <2>5, <3>1
    <3>2. CASE i # k /\ j # k
      <4>1. old(i) = old(j) BY <2>a, <2>5, <3>2 DEF Ordered
      <4> QED BY <4>1, <3>2, <2>1
    <3> QED BY <3>1, <3>2
  <2>6. ASSUME NEW i \in 1 .. Len(L) + 1, NEW j \in 1 .. Len(L) + 1, i < j, C[j].player \in Premium
        PROVE  C[i].player \in Premium
    <3>1. \A m \in 1 .. Len(L) : L[m].player \in Premium => m < k
      BY <2>1 DEF Ordered
    <3>2. j <= k
      <4> SUFFICES ASSUME j > k PROVE FALSE BY <2>1
      <4>1. C[j] = L[j - 1] /\ j - 1 \in 1 .. Len(L) BY <2>1, <2>3
      <4>2. j - 1 < k BY <2>6, <3>1, <4>1
      <4> QED BY <2>1, <4>2
    <3>3. i < k BY <2>1, <2>6, <3>2
    <3>4. C[i] = L[i] BY <2>3, <3>3
    <3> QED BY <2>1, <3>3, <3>4
  <2>7. Ordered(C) BY <2>3, <2>5, <2>6 DEF Ordered
  <2> QED BY <2>3, <2>4, <2>7
<1> QED BY <1>1, <1>2, <1>3

-----------------------------------------------------------------------------
\* The list is empty at first.
LEMMA InitIsOrdered == Init => IInv
BY FS_EmptySet, WaitingListAssumption DEF Init, IInv, Ordered

\* What cleanUpList leaves is a list like any other.
LEMMA CleanListIsOrdered ==
  ASSUME IInv
  PROVE  cleanUpList(waitList) \in Seq(Entries) /\ Ordered(cleanUpList(waitList))
BY CleanUpKeepsAPart, PartIsOrdered DEF IInv, PartOf

\* Those who enter are players, and finitely many.
LEMMA EnterKeepsPlayers ==
  ASSUME IInv, NEW p \in Players, Enter(p)
  PROVE  /\ online' \subseteq Players /\ IsFiniteSet(online')
         /\ told' \in Players \cup {Nobody}
BY FS_AddElement DEF IInv, Enter

\* Each login, logout and tick keeps the list in order.
LEMMA StepKeepsOrder == IInv /\ [Next]_vars => IInv'
<1> SUFFICES ASSUME IInv, [Next]_vars PROVE IInv' OBVIOUS
<1> DEFINE list == cleanUpList(waitList)
<1>0. list \in Seq(Entries) /\ Ordered(list) BY CleanListIsOrdered
<1> HIDE DEF list
<1>1. ASSUME NEW p \in Players, LoginAlways(p) \/ LoginWithRoom(p) PROVE IInv'
  BY <1>1, EnterKeepsPlayers DEF LoginAlways, LoginWithRoom, IInv
<1>2. ASSUME NEW p \in Players, LoginFromList(p) PROVE IInv'
  <2>1. /\ InList(p, list) /\ waitList' = RemoveAt(list, findClient(p, list)) /\ Enter(p)
    BY <1>2 DEF LoginFromList, list
  <2>2. findClient(p, list) \in 1 .. Len(list) BY <1>0, <2>1, FoundClient
  <2>3. PartOf(waitList', list) BY <1>0, <2>1, <2>2, RemoveAtIsPart
  <2>4. waitList' \in Seq(Entries) /\ Ordered(waitList')
    BY <1>0, <2>3, PartIsOrdered DEF PartOf
  <2> QED BY <2>1, <2>4, EnterKeepsPlayers DEF IInv
<1>3. ASSUME NEW p \in Players, WaitLonger(p) PROVE IInv'
  <2> DEFINE slot == findClient(p, list)
  <2>1. /\ MustAsk(p) /\ InList(p, list) /\ waitList' = [list EXCEPT ![slot] = Entry(p, slot)] /\ Wait(p)
    BY <1>3 DEF WaitLonger, list
  <2>2. slot \in 1 .. Len(list) /\ list[slot].player = p BY <1>0, <2>1, FoundClient
  <2> HIDE DEF slot
  <2>3. Entry(p, slot) \in Entries /\ Entry(p, slot).player = p
    BY <2>1, <2>2, EntryType DEF MustAsk
  <2>4. waitList' \in Seq(Entries) /\ Len(waitList') = Len(list)
    BY <1>0, <2>1, <2>2, <2>3
  <2>5. \A i \in 1 .. Len(list) : waitList'[i].player = list[i].player
    BY <1>0, <2>1, <2>2, <2>3
  <2>6. Ordered(waitList') BY <1>0, <2>4, <2>5 DEF Ordered
  <2> QED BY <2>1, <2>4, <2>6 DEF IInv, Wait
<1>4. ASSUME NEW p \in Players, Join(p) PROVE IInv'
  <2>1. /\ MustAsk(p) /\ ~InList(p, list) /\ waitList' = Enlist(p, list) /\ Wait(p)
    BY <1>4 DEF Join, list
  <2>2. waitList' \in Seq(Entries) /\ Ordered(waitList')
    BY <1>0, <2>1, EnlistKeepsOrder DEF MustAsk
  <2> QED BY <2>1, <2>2 DEF IInv, Wait
<1>5. ASSUME NEW p \in Players, Logout(p) PROVE IInv'
  BY <1>5, FS_RemoveElement DEF Logout, IInv
<1>6. ASSUME Tick PROVE IInv'
  <2>0. /\ DOMAIN waitList = 1 .. Len(waitList) /\ Len(waitList) \in Nat
        /\ \A i \in 1 .. Len(waitList) : waitList[i] \in Entries
    BY DEF IInv
  <2>a. ASSUME NEW w \in Entries
        PROVE  [w EXCEPT !.left = IF @ > 0 THEN @ - TimeStep ELSE @] \in Entries
    BY DEF Entries, TimeStep, getTimeOut, getTime
  <2>b. waitList' = [i \in 1 .. Len(waitList) |->
                       [waitList[i] EXCEPT !.left = IF @ > 0 THEN @ - TimeStep ELSE @]]
    BY <1>6, <2>0 DEF Tick
  <2>c. waitList' \in [1 .. Len(waitList) -> Entries] BY <2>0, <2>a, <2>b
  <2>1. waitList' \in Seq(Entries) /\ Len(waitList') = Len(waitList)
    BY <2>0, <2>c
  <2>2. \A i \in 1 .. Len(waitList) : waitList'[i].player = waitList[i].player
    BY <2>0, <2>b DEF Entries
  <2>3. Ordered(waitList') BY <2>1, <2>2 DEF Ordered, IInv
  <2> QED BY <1>6, <2>1, <2>3 DEF IInv, Tick
<1>7. ASSUME UNCHANGED vars PROVE IInv'
  BY <1>7 DEF vars, IInv
<1> QED BY <1>1, <1>2, <1>3, <1>4, <1>5, <1>6, <1>7 DEF Next, clientLogin

\* The invariant is at least what the run checks.
LEMMA OrderedIsListIsOrdered == IInv => ListIsOrdered
<1> SUFFICES ASSUME IInv PROVE ListIsOrdered OBVIOUS
<1>1. ASSUME NEW i \in DOMAIN waitList
      PROVE  waitList[i].player \in Players \ AlwaysLogin /\ waitList[i].left \in 0 .. getTimeOut(50)
  <2>1. waitList[i] \in Entries BY DEF IInv
  <2> QED BY <2>1 DEF Entries
<1> QED BY <1>1 DEF IInv, ListIsOrdered, TypeOK, Ordered

\* For any players, however they come and go: nobody holds two places or waits without need,
\* and premium players are ahead of the others.
THEOREM WaitingListStaysOrdered == Spec => []ListIsOrdered
<1>1. Spec => []IInv
  BY InitIsOrdered, StepKeepsOrder, PTL DEF Spec
<1> QED BY <1>1, OrderedIsListIsOrdered, PTL

-----------------------------------------------------------------------------
\* Who enters through the list had a place, and there was room for it and all before it.
LEMMA EnteringLeavesRoom ==
  ASSUME IInv, [Next]_vars, NEW p \in Players \ AlwaysLogin, p \in online' \ online
  PROVE  Cardinality(online') + Ahead(p) <= MaxPlayers
<1> DEFINE list == cleanUpList(waitList)
<1>0. list \in Seq(Entries) BY CleanListIsOrdered
<1>1. PICK q \in Players : Enter(q) /\ (LoginAlways(q) \/ LoginWithRoom(q) \/ LoginFromList(q))
  BY DEF Next, vars, clientLogin, WaitLonger, Join, Wait, Logout, Tick, LoginAlways, LoginWithRoom, LoginFromList
<1>2. q = p /\ Cardinality(online') = Cardinality(online) + 1 /\ Cardinality(online) \in Nat
  BY <1>1, FS_AddElement, FS_CardinalityType DEF Enter, IInv
<1>3. CASE LoginWithRoom(p)
  <2>1. list = <<>> BY <1>3, CleanUpOfNothing DEF LoginWithRoom
  <2>2. ~InList(p, list) /\ Len(list) = 0 BY <2>1 DEF InList
  <2>3. Ahead(p) = 0 BY <2>2 DEF Ahead
  <2> QED BY <1>2, <1>3, <2>3, WaitingListAssumption DEF LoginWithRoom
<1>4. CASE LoginFromList(p)
  <2>1. InList(p, list) /\ Cardinality(online) + findClient(p, list) <= MaxPlayers
    BY <1>4 DEF LoginFromList, HasRoom
  <2>2. findClient(p, list) \in 1 .. Len(list) BY <1>0, <2>1, FoundClient
  <2>3. Ahead(p) = findClient(p, list) - 1 BY <2>1 DEF Ahead
  <2> HIDE DEF list
  <2> QED BY <1>2, <2>1, <2>2, <2>3, WaitingListAssumption
<1>5. ~LoginAlways(p) BY DEF LoginAlways
<1> QED BY <1>1, <1>2, <1>3, <1>4, <1>5

\* For any players and any limit: who enters leaves room for everyone ahead of it on the list.
THEOREM NobodyIsEverOvertaken == Spec => NobodyIsOvertaken
<1>1. Spec => []IInv
  BY InitIsOrdered, StepKeepsOrder, PTL DEF Spec
<1>2. IInv /\ [Next]_vars => [\A p \in Players \ AlwaysLogin :
         p \in online' \ online => Cardinality(online') + Ahead(p) <= MaxPlayers]_vars
  BY EnteringLeavesRoom
<1> QED BY <1>1, <1>2, PTL DEF Spec, NobodyIsOvertaken
=============================================================================

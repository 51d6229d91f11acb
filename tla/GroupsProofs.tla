--------------------------- MODULE GroupsProofs ---------------------------
(* Proofs about Groups, for any players, gamemasters, parties and channels.   *)
(* The three invariants of the run are inductive together with TypeOK, and    *)
(* the reports need no other; users of channels need the parties.             *)
EXTENDS Groups, TLAPS

\* What the lists of parties say of each other, leaving out who is in the game.
\* The players in own have invited themselves.
Agree(lead, mem, inv, mine, notes, own) ==
    /\ \A x \in Players, q \in Parties :
         /\ mine[x] = q <=> (lead[q] = x \/ x \in mem[q])
         /\ x \in inv[q] => q \in notes[x]
         /\ x \in own \/ (q \in notes[x] => x \in inv[q] /\ mine[x] # q)
    /\ \A q \in Parties :
         /\ lead[q] \notin mem[q]
         /\ lead[q] # NoPlayer <=> mem[q] \cup inv[q] # {}

PartyTypes(lead, mem, inv, mine, notes) ==
    /\ lead \in [Parties -> Players \cup {NoPlayer}]
    /\ mem \in [Parties -> SUBSET Players]
    /\ inv \in [Parties -> SUBSET Players]
    /\ mine \in [Players -> Parties \cup {NoParty}]
    /\ notes \in [Players -> SUBSET Parties]

InTheGame(lead, mem, inv, on) ==
    \A q \in Parties : mem[q] \cup inv[q] \cup ({lead[q]} \ {NoPlayer}) \subseteq on

LEMMA PartiesAgreeParts ==
    PartiesAgree <=> /\ Agree(leader, members, invited, partyOf, invitations, selfInvited)
                     /\ InTheGame(leader, members, invited, online)
BY DEF PartiesAgree, Agree, InTheGame

LEMMA PartiesAgreeParts2 ==
    PartiesAgree' <=> /\ Agree(leader', members', invited', partyOf', invitations', selfInvited')
                      /\ InTheGame(leader', members', invited', online')
BY DEF PartiesAgree, Agree, InTheGame

\* What disbanding the parties in ended needs: the others are in order, and the pointers of
\* the players in these lead there or (of the player who just left) nowhere.
Disbandable(ended, lead, mem, inv, mine, notes, own) ==
    /\ ended \subseteq Parties
    /\ PartyTypes(lead, mem, inv, mine, notes)
    /\ \A x \in Players, q \in Parties \ ended :
         /\ mine[x] = q <=> (lead[q] = x \/ x \in mem[q])
         /\ x \in own \/ (q \in notes[x] => mine[x] # q)
    /\ \A x \in Players, q \in ended :
         /\ mine[x] = q => lead[q] = x \/ x \in mem[q]
         /\ lead[q] = x \/ x \in mem[q] => mine[x] \in {q, NoParty}
    /\ \A x \in Players, q \in Parties :
         /\ x \in inv[q] => q \in notes[x]
         /\ x \in own \/ (q \in notes[x] => x \in inv[q])
    /\ \A q \in Parties \ ended :
         /\ lead[q] \notin mem[q]
         /\ lead[q] # NoPlayer <=> mem[q] \cup inv[q] # {}

\* And what it leaves.
Disbanded(ended, lead, mem, inv, mine, own) ==
    /\ PartyTypes(leader', members', invited', partyOf', invitations')
    /\ Agree(leader', members', invited', partyOf', invitations', own)
    /\ \A q \in ended : leader'[q] = NoPlayer
    /\ \A q \in Parties \ ended : leader'[q] = lead[q] /\ members'[q] = mem[q]
    /\ \A q \in Parties : members'[q] \subseteq mem[q] /\ invited'[q] \subseteq inv[q]
    /\ \A x \in Players : partyOf'[x] = IF mine[x] \in ended THEN NoParty ELSE mine[x]

LEMMA DisbandAgrees ==
    ASSUME NEW ended, NEW lead, NEW mem, NEW inv, NEW mine, NEW notes, NEW own,
           Disbandable(ended, lead, mem, inv, mine, notes, own),
           Disband(ended, lead, mem, inv, mine, notes)
    PROVE  Disbanded(ended, lead, mem, inv, mine, own)
<1> DEFINE In(x) == {q \in ended : x = lead[q] \/ x \in mem[q]}
<1>1. /\ leader' = [q \in Parties |-> IF q \in ended THEN NoPlayer ELSE lead[q]]
      /\ members' = [q \in Parties |-> IF q \in ended THEN {} ELSE mem[q]]
      /\ invited' = [q \in Parties |-> IF q \in ended THEN {} ELSE inv[q]]
      /\ partyOf' = [x \in Players |-> IF In(x) # {} THEN NoParty ELSE mine[x]]
      /\ invitations' = [x \in Players |-> {q \in notes[x] : ~(q \in ended /\ x \in inv[q])}]
  BY DEF Disband
<1> USE GroupsAssumption
<1>0. Disbandable(ended, lead, mem, inv, mine, notes, own)
  OBVIOUS
<1>2. PartyTypes(leader', members', invited', partyOf', invitations')
  BY <1>0, <1>1 DEF Disbandable, PartyTypes
<1>3. \A x \in Players : partyOf'[x] = IF mine[x] \in ended THEN NoParty ELSE mine[x]
  <2> TAKE x \in Players
  <2>1. CASE mine[x] \in ended
    BY <1>0, <2>1, <1>1 DEF Disbandable
  <2>2. CASE mine[x] \notin ended
    <3>1. In(x) # {} => mine[x] = NoParty
      BY <1>0, <2>2 DEF Disbandable
    <3> QED BY <3>1, <2>2, <1>1
  <2> QED BY <2>1, <2>2
<1>4. ASSUME NEW x \in Players, NEW q \in Parties
      PROVE  /\ partyOf'[x] = q <=> (leader'[q] = x \/ x \in members'[q])
             /\ x \in invited'[q] => q \in invitations'[x]
             /\ x \in own \/ (q \in invitations'[x] => x \in invited'[q] /\ partyOf'[x] # q)
  <2>1. CASE q \in ended
    BY <1>0, <2>1, <1>1, <1>3 DEF Disbandable, PartyTypes, GroupsAssumption
  <2>2. CASE q \notin ended
    BY <1>0, <2>2, <1>1, <1>3 DEF Disbandable, PartyTypes, GroupsAssumption
  <2> QED BY <2>1, <2>2
<1>5. \A q \in Parties :
         /\ leader'[q] \notin members'[q]
         /\ leader'[q] # NoPlayer <=> members'[q] \cup invited'[q] # {}
  BY <1>0, <1>1 DEF Disbandable
<1>6. Agree(leader', members', invited', partyOf', invitations', own)
  BY <1>4, <1>5 DEF Agree
<1> QED BY <1>0, <1>1, <1>2, <1>3, <1>6 DEF Disbandable, Disbanded

\* The leader of q stays, or a member succeeds; only a party of one or two may end.
Heirs(q) ==
    /\ leader[q] \notin {NoPlayer, leader'[q]} => leader'[q] \in members[q] \cup {NoPlayer}
    /\ (\E x, y \in members[q] : x # y) => leader'[q] # NoPlayer

\* What a player leaves behind who was invited as in inv.
Left(p, inv, own) ==
    /\ PartyTypes(leader', members', invited', partyOf', invitations')
    /\ Agree(leader', members', invited', partyOf', invitations', own)
    /\ InTheGame(leader', members', invited', online)
    /\ \A q \in Parties : invited'[q] \subseteq inv[q]
    /\ partyOf'[p] = NoParty
    /\ \A x \in Players \ {p} :
         partyOf'[x] = IF partyOf[x] \in Parties /\ leader'[partyOf[x]] # NoPlayer
                       THEN partyOf[x] ELSE NoParty
    /\ partyChannels' \subseteq partyChannels
    /\ \A q \in Parties : leader[q] # NoPlayer =>
         (q \in partyChannels' <=> q \in partyChannels /\ leader'[q] # NoPlayer)
    /\ \A q \in Parties : Heirs(q)

\* What leaveParty expects of the parties disbanded before.
Leavable(p, earlier, inv, notes, own) ==
    /\ earlier \subseteq Parties
    /\ inv \in [Parties -> SUBSET Players]
    /\ notes \in [Players -> SUBSET Parties]
    /\ \A q \in Parties : inv[q] \subseteq invited[q]
    /\ \A x \in Players, q \in Parties :
         /\ x \in inv[q] => q \in notes[x]
         /\ x \in own \/ (q \in notes[x] => x \in inv[q] /\ partyOf[x] # q)
    /\ \A q \in earlier : members[q] = {}
    /\ \A q \in Parties \ earlier :
         leader[q] \notin {NoPlayer, p} => members[q] \cup inv[q] # {}

\* A player leaves its party, if it has one, after other parties were disbanded.
LEMMA LeavePartyAgrees ==
    ASSUME TypeOK, PartiesAgree, NEW p \in online, NEW earlier, NEW inv, NEW notes, NEW own,
           Leavable(p, earlier, inv, notes, own),
           LeaveParty(p, IF partyOf[p] \in earlier THEN NoParty ELSE partyOf[p],
                      earlier, inv, notes)
    PROVE  Left(p, inv, own)
<1> USE GroupsAssumption
<1>0. /\ p \in Players
      /\ PartyTypes(leader, members, invited, partyOf, invitations)
      /\ Agree(leader, members, invited, partyOf, invitations, selfInvited)
      /\ InTheGame(leader, members, invited, online)
      /\ partyChannels \subseteq Parties
      /\ Leavable(p, earlier, inv, notes, own)
  BY PartiesAgreeParts DEF TypeOK, PartyTypes
<1>1. CASE partyOf[p] = NoParty \/ partyOf[p] \in earlier
  <2>1. Disband(earlier, leader, members, inv, partyOf, notes) /\ partyChannels' = partyChannels \ earlier
    BY <1>1 DEF LeaveParty
  <2>2. PartyTypes(leader, members, inv, partyOf, notes)
    BY <1>0 DEF PartyTypes, Leavable
  <2>3. \A q \in Parties \ earlier :
             leader[q] # NoPlayer <=> members[q] \cup inv[q] # {}
    BY <1>0, <1>1 DEF Agree, GroupsAssumption, Leavable
  <2>4. Disbandable(earlier, leader, members, inv, partyOf, notes, own)
    BY <1>0, <2>2, <2>3 DEF Agree, Disbandable, Leavable
  <2>5. Disbanded(earlier, leader, members, inv, partyOf, own)
    BY <2>1, <2>4, DisbandAgrees
  <2>6. InTheGame(leader', members', invited', online)
    BY <1>0, <2>5 DEF InTheGame, Disbanded, Leavable
  <2>7. \A x \in Players :
         partyOf'[x] = IF partyOf[x] \in Parties /\ leader'[partyOf[x]] # NoPlayer
                       THEN partyOf[x] ELSE NoParty
    BY <1>0, <2>5 DEF Disbanded, Agree, PartyTypes, GroupsAssumption, Leavable
  <2>8. \A q \in Parties : leader[q] # NoPlayer =>
         (q \in partyChannels' <=> q \in partyChannels /\ leader'[q] # NoPlayer)
    BY <1>0, <2>1, <2>5 DEF Disbanded, Leavable
  <2>9. \A q \in Parties : Heirs(q)
    BY <1>0, <2>5 DEF Disbanded, Heirs, Agree, Leavable
  <2> QED BY <1>0, <1>1, <2>1, <2>5, <2>6, <2>7, <2>8, <2>9 DEF Disbanded, Left, GroupsAssumption
<1>2. CASE partyOf[p] # NoParty /\ partyOf[p] \notin earlier
  <2> DEFINE q0 == partyOf[p]
             mine == [partyOf EXCEPT ![p] = NoParty]
             inv2 == [inv EXCEPT ![q0] = @ \ {p}]
  <2>1. /\ q0 \in Parties
        /\ leader[q0] = p \/ p \in members[q0]
        /\ q0 \notin earlier
    BY <1>0, <1>2 DEF PartyTypes, Agree, Leavable
  <2>2. /\ inv2 \in [Parties -> SUBSET Players]
        /\ \A q \in Parties : inv2[q] = IF q = q0 THEN inv[q] \ {p} ELSE inv[q]
    BY <1>0, <2>1 DEF Leavable
  <2>3. PICK s \in Succession(p, q0, inv) :
          LET ends == s.leader = p \/ (s.members = {} /\ inv2[q0] = {})
              ended == earlier \cup (IF ends THEN {q0} ELSE {}) IN
          /\ Disband(ended, [leader EXCEPT ![q0] = s.leader],
                     [members EXCEPT ![q0] = s.members], inv2, mine, notes)
          /\ partyChannels' = partyChannels \ ended
    BY <1>2 DEF LeaveParty
  <2> DEFINE ended == earlier \cup (IF s.leader = p \/ (s.members = {} /\ inv2[q0] = {})
                                    THEN {q0} ELSE {})
             lead == [leader EXCEPT ![q0] = s.leader]
             mem == [members EXCEPT ![q0] = s.members]
  <2>4. Disband(ended, lead, mem, inv2, mine, notes) /\ partyChannels' = partyChannels \ ended
    BY <2>3
  \* The leader and the members that remain are those of before but p, unless p still leads.
  <2>5. /\ s.leader \in Players
        /\ s.members \subseteq Players
        /\ s.leader # p =>
             /\ \A x : x = s.leader \/ x \in s.members
                       <=> x # p /\ (x = leader[q0] \/ x \in members[q0])
             /\ s.leader \notin s.members
        /\ s.leader = p => s.members = members[q0] /\ leader[q0] = p
    <3>1. /\ leader[q0] \in Players /\ members[q0] \subseteq Players
          /\ leader[q0] \notin members[q0]
      BY <1>0, <2>1 DEF PartyTypes, Agree, GroupsAssumption
    <3>2. CASE leader[q0] # p
      <4>1. s = [leader |-> leader[q0], members |-> members[q0] \ {p}]
        BY <3>2 DEF Succession
      <4> QED BY <4>1, <3>1, <3>2
    <3>3. CASE leader[q0] = p
      <4>1. \/ s = [leader |-> p, members |-> members[q0]]
            \/ \E h \in members[q0] : s = [leader |-> h, members |-> members[q0] \ {h}]
        BY <3>3 DEF Succession
      <4> QED BY <4>1, <3>1, <3>3
    <3> QED BY <3>2, <3>3
  <2> HIDE DEF inv2
  <2>6. PartyTypes(lead, mem, inv2, mine, notes)
    BY <1>0, <2>1, <2>2, <2>5 DEF PartyTypes, Leavable
  <2>7. ASSUME NEW x \in Players, NEW q \in Parties
        PROVE  /\ q \notin ended =>
                    /\ mine[x] = q <=> (lead[q] = x \/ x \in mem[q])
                    /\ x \in own \/ (q \in notes[x] => mine[x] # q)
               /\ q \in ended =>
                    /\ mine[x] = q => lead[q] = x \/ x \in mem[q]
                    /\ lead[q] = x \/ x \in mem[q] => mine[x] \in {q, NoParty}
    <3>0. s.leader = p => q0 \in ended
      OBVIOUS
    <3>1. /\ lead[q] = IF q = q0 THEN s.leader ELSE leader[q]
          /\ mem[q] = IF q = q0 THEN s.members ELSE members[q]
          /\ mine[x] = IF x = p THEN NoParty ELSE partyOf[x]
      BY <1>0, <2>1 DEF PartyTypes
    <3>2. /\ partyOf[x] = q <=> (leader[q] = x \/ x \in members[q])
          /\ x \in own \/ (q \in notes[x] => partyOf[x] # q)
      BY <1>0 DEF Agree, Leavable
    <3> HIDE DEF lead, mem, mine, ended
    <3>3. CASE q # q0
      BY <3>1, <3>2, <3>3 DEF GroupsAssumption
    <3>4. CASE q = q0
      <4>1. lead[q] = s.leader /\ mem[q] = s.members
        BY <3>1, <3>4
      <4>2. CASE s.leader # p
        BY <3>1, <3>2, <3>4, <4>1, <4>2, <2>1, <2>5 DEF GroupsAssumption
      <4>3. CASE s.leader = p
        BY <3>0, <3>1, <3>2, <3>4, <4>1, <4>3, <2>1, <2>5 DEF GroupsAssumption
      <4> QED BY <4>2, <4>3
    <3> QED BY <3>3, <3>4
  <2>8. ASSUME NEW q \in Parties \ ended
        PROVE  /\ lead[q] \notin mem[q]
               /\ lead[q] # NoPlayer <=> mem[q] \cup inv2[q] # {}
    <3>1. CASE q # q0
      <4>1. /\ lead[q] = leader[q] /\ mem[q] = members[q] /\ leader[q] # p
            /\ inv2[q] = inv[q]
        BY <1>0, <2>1, <2>2, <3>1 DEF PartyTypes, Agree
      <4> QED BY <4>1, <1>0 DEF Agree, Leavable, GroupsAssumption
    <3>2. CASE q = q0
      <4>1. lead[q] = s.leader /\ mem[q] = s.members /\ s.leader # p
        BY <1>0, <2>1, <3>2 DEF PartyTypes
      <4> QED BY <4>1, <2>5, <3>2 DEF GroupsAssumption
    <3> QED BY <3>1, <3>2
  <2>9. Disbandable(ended, lead, mem, inv2, mine, notes, own)
    <3>1. ended \subseteq Parties
      BY <1>0, <2>1 DEF Leavable
    <3>2. ASSUME NEW x \in Players, NEW q \in Parties
          PROVE  /\ x \in inv2[q] => q \in notes[x]
                 /\ x \in own \/ (q \in notes[x] => x \in inv2[q])
      BY <1>0, <2>1, <2>2 DEF Leavable
    <3> HIDE DEF lead, mem, mine, ended
    <3> QED BY <2>6, <2>7, <2>8, <3>1, <3>2 DEF Disbandable
  <2>10. Disbanded(ended, lead, mem, inv2, mine, own)
    <3> HIDE DEF lead, mem, mine, ended
    <3> QED BY <2>4, <2>9, DisbandAgrees
  <2>11. /\ mine \in [Players -> Parties \cup {NoParty}]
         /\ mine[p] = NoParty /\ \A x \in Players \ {p} : mine[x] = partyOf[x]
    BY <1>0 DEF PartyTypes
  <2>12. ASSUME NEW q \in Parties
         PROVE  leader'[q] # NoPlayer => q \notin ended /\ leader'[q] = lead[q]
    BY <2>10 DEF Disbanded
  <2>13. InTheGame(leader', members', invited', online)
    BY <1>0, <2>1, <2>2, <2>5, <2>10, <2>12 DEF InTheGame, Disbanded, PartyTypes, Leavable
  <2>14. ASSUME NEW q \in Parties, leader[q] # NoPlayer
         PROVE  q \in ended <=> leader'[q] = NoPlayer
    BY <1>0, <2>1, <2>5, <2>10, <2>14 DEF Disbanded, PartyTypes, GroupsAssumption
  <2> HIDE DEF lead, mem, mine, ended
  <2>15. ASSUME NEW x \in Players \ {p}
         PROVE  partyOf'[x] = IF partyOf[x] \in Parties /\ leader'[partyOf[x]] # NoPlayer
                              THEN partyOf[x] ELSE NoParty
    <3>1. partyOf[x] \in Parties => leader[partyOf[x]] # NoPlayer
      BY <1>0 DEF Agree, PartyTypes, GroupsAssumption
    <3> QED BY <1>0, <3>1, <2>10, <2>11, <2>14 DEF Disbanded, PartyTypes, Leavable
  <2>16. ASSUME NEW q \in Parties
         PROVE  Heirs(q)
    <3>1. CASE q # q0
      <4>1. lead[q] = leader[q]
        BY <1>0, <3>1 DEF lead, PartyTypes
      <4>2. q \in ended => q \in earlier
        BY <3>1 DEF ended
      <4> QED BY <1>0, <4>1, <4>2, <2>10 DEF Disbanded, Heirs, Agree, Leavable
    <3>2. CASE q = q0
      <4>1. lead[q] = s.leader /\ leader[q] # NoPlayer
        BY <1>0, <2>1, <3>2 DEF lead, PartyTypes, Agree
      <4>2. ASSUME NEW x \in members[q], NEW y \in members[q], x # y
            PROVE  s.leader # p /\ s.members # {}
        <5>1. CASE leader[q0] # p
          <6>1. s = [leader |-> leader[q0], members |-> members[q0] \ {p}]
            BY <5>1 DEF Succession
          <6> QED BY <3>2, <4>2, <5>1, <6>1
        <5>2. CASE leader[q0] = p
          <6>1. p \notin members[q0] /\ ~(\E m \in members[q0] : members[q0] = {m})
            BY <1>0, <2>1, <3>2, <4>2, <5>2 DEF Agree
          <6>2. \E h \in members[q0] : s = [leader |-> h, members |-> members[q0] \ {h}]
            BY <3>2, <4>2, <5>2, <6>1 DEF Succession
          <6> QED BY <3>2, <4>2, <6>1, <6>2
        <5> QED BY <5>1, <5>2
      <4>3. (\E x, y \in members[q] : x # y) => q \notin ended
        BY <2>1, <3>2, <4>2 DEF ended
      <4>4. s.leader \in members[q] \cup {leader[q]}
        BY <2>1, <2>5, <3>2
      <4> QED BY <2>10, <4>1, <4>3, <4>4, <2>5 DEF Disbanded, Heirs
    <3> QED BY <3>1, <3>2
  <2>17. \A q \in Parties : invited'[q] \subseteq inv[q]
    BY <2>2, <2>10 DEF Disbanded
  <2> QED BY <1>0, <2>4, <2>10, <2>11, <2>13, <2>14, <2>15, <2>16, <2>17 DEF Disbanded, Left
<1> QED BY <1>1, <1>2

-----------------------------------------------------------------------------
(* The steps in which parties shrink. *)

LEMMA RequestToLeave ==
    ASSUME TypeOK, PartiesAgree, NEW p, playerLeaveParty(p)
    PROVE  Left(p, invited, selfInvited)
<1>1. /\ p \in online
      /\ LeaveParty(p, IF partyOf[p] \in {} THEN NoParty ELSE partyOf[p], {}, invited, invitations)
  BY DEF playerLeaveParty
<1>2. Leavable(p, {}, invited, invitations, selfInvited)
  BY DEF Leavable, TypeOK, PartiesAgree
<1> QED BY <1>1, <1>2, LeavePartyAgrees

LEMMA LeavingTheGame ==
    ASSUME TypeOK, PartiesAgree, NEW p, LeaveGame(p)
    PROVE  /\ Left(p, RemoveInvite(p, invitations[p]), selfInvited \ {p})
           /\ \A q \in Parties : p \notin invited'[q]
<1> DEFINE inv == RemoveInvite(p, invitations[p])
           earlier == {q \in invitations[p] : p \in invited[q] /\ disbandParty(q, inv)}
           notes == [invitations EXCEPT ![p] = {}]
<1>1. /\ p \in online /\ p \in Players
      /\ LeaveParty(p, IF partyOf[p] \in earlier THEN NoParty ELSE partyOf[p],
                    earlier, inv, notes)
  BY DEF LeaveGame, TypeOK
<1>2. /\ inv \in [Parties -> SUBSET Players]
      /\ \A q \in Parties : inv[q] = invited[q] \ {p}
  BY <1>1 DEF RemoveInvite, TypeOK, PartiesAgree
<1>3. /\ notes \in [Players -> SUBSET Parties]
      /\ notes[p] = {} /\ \A x \in Players \ {p} : notes[x] = invitations[x]
  BY <1>1 DEF TypeOK
<1>4. earlier \subseteq Parties
  BY <1>1 DEF TypeOK
<1>5. \A q \in earlier : members[q] = {}
  BY DEF disbandParty
<1>6. ASSUME NEW q \in Parties \ earlier, leader[q] \notin {NoPlayer, p}
      PROVE  members[q] \cup inv[q] # {}
  <2>1. members[q] \cup invited[q] # {}
    BY <1>6 DEF PartiesAgree
  <2>2. CASE p \in invited[q]
    BY <1>1, <1>6, <2>2 DEF PartiesAgree, disbandParty
  <2>3. CASE p \notin invited[q]
    BY <1>2, <2>1, <2>3
  <2> QED BY <2>2, <2>3
<1> HIDE DEF inv, earlier, notes
<1>7. \A x \in Players, q \in Parties :
         /\ x \in inv[q] => q \in notes[x]
         /\ x \in selfInvited \ {p} \/ (q \in notes[x] => x \in inv[q] /\ partyOf[x] # q)
  BY <1>1, <1>2, <1>3 DEF PartiesAgree
<1>8. Leavable(p, earlier, inv, notes, selfInvited \ {p})
  BY <1>2, <1>3, <1>4, <1>5, <1>6, <1>7 DEF Leavable
<1>9. Left(p, inv, selfInvited \ {p})
  BY <1>1, <1>8, LeavePartyAgrees
<1> QED BY <1>2, <1>9 DEF Left, inv

LEMMA Revoking ==
    ASSUME TypeOK, PartiesAgree, NEW p, NEW x, playerRevokePartyInvitation(p, x)
    PROVE  \E ended \in SUBSET Parties, inv \in [Parties -> SUBSET Players] :
             /\ Disbanded(ended, leader, members, inv, partyOf, selfInvited)
             /\ \A q \in Parties : inv[q] \subseteq invited[q]
             /\ partyChannels' = partyChannels \ ended
             /\ users' = [c \in Channels |-> IF c \in ended THEN {} ELSE users[c]]
<1> DEFINE S == {partyOf[p]}
           inv == RemoveInvite(x, S)
           ended == {q \in S : disbandParty(q, inv)}
           notes == [invitations EXCEPT ![x] = @ \ S]
<1>1. /\ Disband(ended, leader, members, inv, partyOf, notes)
      /\ partyChannels' = partyChannels \ ended
      /\ users' = [c \in Channels |-> IF c \in ended THEN {} ELSE users[c]]
      /\ Leads(p) /\ x \in Players
  BY DEF playerRevokePartyInvitation, TypeOK
<1>2. partyOf[p] \in Parties /\ partyOf[p] # NoParty /\ leader[partyOf[p]] = p /\ p \in Players
  BY <1>1 DEF Leads, TypeOK, playerRevokePartyInvitation
<1>3. /\ inv \in [Parties -> SUBSET Players]
      /\ \A q \in Parties : inv[q] = IF q = partyOf[p] THEN invited[q] \ {x} ELSE invited[q]
  BY DEF RemoveInvite, TypeOK
<1>4. /\ notes \in [Players -> SUBSET Parties]
      /\ \A y \in Players : notes[y] = IF y = x THEN invitations[y] \ S ELSE invitations[y]
  BY <1>1 DEF TypeOK
<1>5. ended \subseteq Parties
  BY <1>2
<1>6. ASSUME NEW q \in Parties \ ended
      PROVE  leader[q] # NoPlayer <=> members[q] \cup inv[q] # {}
  <2>1. CASE q = partyOf[p]
    BY <1>2, <1>6, <2>1, GroupsAssumption DEF disbandParty
  <2>2. CASE q # partyOf[p]
    BY <1>3, <2>2 DEF PartiesAgree
  <2> QED BY <2>1, <2>2
<1> HIDE DEF inv, ended, notes
<1>7. PartyTypes(leader, members, inv, partyOf, notes)
  BY <1>3, <1>4 DEF PartyTypes, TypeOK
<1>8. Disbandable(ended, leader, members, inv, partyOf, notes, selfInvited)
  <2>1. \A y \in Players, q \in Parties :
          /\ y \in inv[q] => q \in notes[y]
          /\ y \in selfInvited \/ (q \in notes[y] => y \in inv[q])
    BY <1>1, <1>2, <1>3, <1>4 DEF PartiesAgree
  <2>2. \A y \in Players, q \in Parties :
          y \in selfInvited \/ (q \in notes[y] => partyOf[y] # q)
    BY <1>1, <1>4 DEF PartiesAgree
  <2> QED BY <1>5, <1>6, <1>7, <2>1, <2>2 DEF Disbandable, PartiesAgree
<1>9. Disbanded(ended, leader, members, inv, partyOf, selfInvited)
  BY <1>1, <1>8, DisbandAgrees
<1> QED BY <1>1, <1>3, <1>5, <1>9

-----------------------------------------------------------------------------
(* The parties.                                                              *)

Same == UNCHANGED <<online, partyVars>>

\* The steps that leave parties and players alone.
LEMMA OtherSteps ==
    ASSUME NEW p, NEW x, NEW c,
           \/ playerRequestChannels(p) \/ playerCreatePrivateChannel(p) \/ Reconnect(p)
           \/ playerReportRuleViolation(p)
           \/ playerOpenChannel(p, c) \/ playerCloseChannel(p, c)
           \/ playerChannelInvite(p, x) \/ playerChannelExclude(p, x)
           \/ playerProcessRuleViolation(p, x) \/ playerCloseRuleViolation(p, x)
    PROVE  Same
BY DEF Same, playerRequestChannels, playerCreatePrivateChannel, Reconnect,
       playerReportRuleViolation, playerOpenChannel, playerCloseChannel, playerChannelInvite,
       playerChannelExclude, playerProcessRuleViolation, playerCloseRuleViolation

LEMMA PartyStep ==
    ASSUME TypeOK, PartiesAgree, [Next]_vars
    PROVE  /\ online' \subseteq Players /\ selfInvited' \subseteq Players
           /\ PartyTypes(leader', members', invited', partyOf', invitations')
           /\ PartiesAgree'
<1> USE GroupsAssumption
<1>0. /\ PartyTypes(leader, members, invited, partyOf, invitations)
      /\ online \subseteq Players /\ selfInvited \subseteq Players
  BY DEF PartyTypes, TypeOK
<1>1. ASSUME Same
      PROVE  /\ online' \subseteq Players /\ selfInvited' \subseteq Players
             /\ PartyTypes(leader', members', invited', partyOf', invitations')
             /\ PartiesAgree'
  BY <1>0, <1>1 DEF Same, partyVars, PartiesAgree
<1>2. ASSUME Agree(leader', members', invited', partyOf', invitations', selfInvited'),
             InTheGame(leader', members', invited', online')
      PROVE  PartiesAgree'
  BY <1>2, PartiesAgreeParts2
<1>3. CASE UNCHANGED vars
  BY <1>1, <1>3 DEF vars, Same
<1>4. ASSUME NEW p \in Players, Login(p)
      PROVE  /\ online' \subseteq Players /\ selfInvited' \subseteq Players
             /\ PartyTypes(leader', members', invited', partyOf', invitations')
             /\ PartiesAgree'
  BY <1>0, <1>4 DEF Login, partyVars, PartiesAgree
<1>5. ASSUME NEW p \in Players, LeaveGame(p)
      PROVE  /\ online' \subseteq Players /\ selfInvited' \subseteq Players
             /\ PartyTypes(leader', members', invited', partyOf', invitations')
             /\ PartiesAgree'
  <2>1. /\ Left(p, RemoveInvite(p, invitations[p]), selfInvited')
        /\ \A q \in Parties : p \notin invited'[q]
        /\ online' = online \ {p} /\ selfInvited' = selfInvited \ {p}
    BY <1>5, LeavingTheGame DEF LeaveGame
  <2>2. \A q \in Parties : leader'[q] # p /\ p \notin members'[q]
    BY <2>1 DEF Left, Agree
  <2>3. InTheGame(leader', members', invited', online')
    BY <2>1, <2>2 DEF Left, InTheGame
  <2> QED BY <1>0, <1>2, <2>1, <2>3 DEF Left
<1>6. ASSUME NEW p \in Players, playerLeaveParty(p)
      PROVE  /\ online' \subseteq Players /\ selfInvited' \subseteq Players
             /\ PartyTypes(leader', members', invited', partyOf', invitations')
             /\ PartiesAgree'
  <2>1. /\ Left(p, invited, selfInvited')
        /\ online' = online /\ selfInvited' = selfInvited
    BY <1>6, RequestToLeave DEF playerLeaveParty
  <2> QED BY <1>0, <1>2, <2>1 DEF Left
<1>7. ASSUME NEW p \in Players, NEW x \in Players, playerRevokePartyInvitation(p, x)
      PROVE  /\ online' \subseteq Players /\ selfInvited' \subseteq Players
             /\ PartyTypes(leader', members', invited', partyOf', invitations')
             /\ PartiesAgree'
  <2>1. PICK ended \in SUBSET Parties, inv \in [Parties -> SUBSET Players] :
          /\ Disbanded(ended, leader, members, inv, partyOf, selfInvited)
          /\ \A q \in Parties : inv[q] \subseteq invited[q]
    BY <1>7, Revoking
  <2>2. online' = online /\ selfInvited' = selfInvited
    BY <1>7 DEF playerRevokePartyInvitation
  <2>3. InTheGame(leader', members', invited', online')
    BY <2>1, <2>2 DEF Disbanded, InTheGame, PartiesAgree
  <2> QED BY <1>0, <1>2, <2>1, <2>2, <2>3 DEF Disbanded
<1>8. ASSUME NEW p \in Players, NEW x \in Players, playerInviteToParty(p, x)
      PROVE  /\ online' \subseteq Players /\ selfInvited' \subseteq Players
             /\ PartyTypes(leader', members', invited', partyOf', invitations')
             /\ PartiesAgree'
  <2>0. /\ p \in online /\ x \in online /\ partyOf[x] = NoParty /\ online' = online
        /\ selfInvited' = selfInvited \cup ({p} \cap {x})
    BY <1>8 DEF playerInviteToParty
  <2>1. CASE Found(p, x)
    <3>1. PICK q \in Parties :
            /\ leader[q] = NoPlayer
            /\ leader' = [leader EXCEPT ![q] = p]
            /\ partyOf' = [partyOf EXCEPT ![p] = q]
            /\ invited' = [invited EXCEPT ![q] = @ \cup {x}]
            /\ invitations' = [invitations EXCEPT ![x] = @ \cup {q}]
      BY <2>1 DEF Found, invitePlayer
    <3>2. members' = members /\ partyOf[p] = NoParty
      BY <2>1 DEF Found
    <3>3. PartyTypes(leader', members', invited', partyOf', invitations')
      BY <1>0, <3>1, <3>2 DEF PartyTypes
    <3>4. members[q] = {} /\ invited[q] = {}
      BY <3>1 DEF PartiesAgree
    <3>7. leader[q] = NoPlayer /\ q # NoParty /\ partyOf[x] # q
      BY <2>0, <3>1
    <3>5. Agree(leader', members', invited', partyOf', invitations', selfInvited')
      <4>1. /\ \A r \in Parties : /\ leader'[r] = IF r = q THEN p ELSE leader[r]
                                 /\ invited'[r] = IF r = q THEN {x} ELSE invited[r]
            /\ \A y \in Players :
                 /\ partyOf'[y] = IF y = p THEN q ELSE partyOf[y]
                 /\ invitations'[y] = IF y = x THEN invitations[y] \cup {q} ELSE invitations[y]
        BY <1>0, <3>1, <3>4 DEF PartyTypes
      <4>2. ASSUME NEW y \in Players, NEW r \in Parties
            PROVE  /\ partyOf'[y] = r <=> (leader'[r] = y \/ y \in members'[r])
                   /\ y \in invited'[r] => r \in invitations'[y]
        <5>1. /\ partyOf[y] = r <=> (leader[r] = y \/ y \in members[r])
              /\ y \in invited[r] => r \in invitations[y]
          BY DEF PartiesAgree
        <5>2. CASE r = q
          BY <3>2, <3>4, <3>7, <4>1, <5>1, <5>2
        <5>3. CASE r # q
          BY <3>2, <4>1, <5>1, <5>3
        <5> QED BY <5>2, <5>3
      <4>3. ASSUME NEW y \in Players \ selfInvited', NEW r \in Parties, r \in invitations'[y]
            PROVE  y \in invited'[r] /\ partyOf'[y] # r
        <5>1. /\ y \notin selfInvited /\ ~(y = p /\ y = x)
              /\ r \in invitations[y] => y \in invited[r] /\ partyOf[y] # r
          BY <2>0, <4>3 DEF PartiesAgree
        <5>2. CASE r = q
          <6>1. invited'[q] = {x} /\ y \in Players
            BY <4>1
          <6>2. y = x
            <7> SUFFICES ASSUME y # x PROVE FALSE
              OBVIOUS
            <7>1. q \in invitations[y]
              BY <4>1, <4>3, <5>2
            <7> QED BY <3>4, <5>1, <5>2, <7>1
          <6>3. partyOf'[y] = partyOf[x]
            BY <4>1, <5>1, <6>1, <6>2
          <6> QED BY <3>7, <5>2, <6>1, <6>2, <6>3
        <5>3. CASE r # q
          BY <3>2, <4>1, <4>3, <5>1, <5>3
        <5> QED BY <5>2, <5>3
      <4>4. ASSUME NEW r \in Parties
            PROVE  /\ leader'[r] \notin members'[r]
                   /\ leader'[r] # NoPlayer <=> members'[r] \cup invited'[r] # {}
        BY <3>2, <3>4, <4>1 DEF PartiesAgree
      <4> QED BY <4>2, <4>3, <4>4 DEF Agree
    <3>6. InTheGame(leader', members', invited', online')
      BY <1>0, <2>0, <3>1, <3>2, <3>4 DEF PartyTypes, PartiesAgree, InTheGame
    <3> QED BY <1>0, <1>2, <2>0, <3>3, <3>5, <3>6
  <2>2. CASE InviteMore(p, x)
    <3>1. /\ leader' = leader /\ members' = members /\ partyOf' = partyOf
          /\ invited' = [invited EXCEPT ![partyOf[p]] = @ \cup {x}]
          /\ invitations' = [invitations EXCEPT ![x] = @ \cup {partyOf[p]}]
          /\ partyOf[p] \in Parties /\ leader[partyOf[p]] = p
      BY <1>0, <2>2 DEF InviteMore, invitePlayer, Leads, PartyTypes
    <3>2. PartyTypes(leader', members', invited', partyOf', invitations')
      BY <1>0, <3>1 DEF PartyTypes
    <3>3. Agree(leader', members', invited', partyOf', invitations', selfInvited')
      BY <1>0, <2>0, <3>1 DEF PartyTypes, PartiesAgree, Agree
    <3>4. InTheGame(leader', members', invited', online')
      BY <1>0, <2>0, <3>1 DEF PartyTypes, PartiesAgree, InTheGame
    <3> QED BY <1>0, <1>2, <2>0, <3>2, <3>3, <3>4
  <2> QED BY <1>8, <2>1, <2>2 DEF playerInviteToParty
<1>9. ASSUME NEW p \in Players, NEW l \in Players, playerJoinParty(p, l)
      PROVE  /\ online' \subseteq Players /\ selfInvited' \subseteq Players
             /\ PartyTypes(leader', members', invited', partyOf', invitations')
             /\ PartiesAgree'
  <2>1. PICK q \in Parties :
          /\ leader[q] = l /\ p \in invited[q] /\ partyOf[p] = NoParty
          /\ members' = [members EXCEPT ![q] = @ \cup {p}]
          /\ partyOf' = [partyOf EXCEPT ![p] = q]
          /\ invited' = [invited EXCEPT ![q] = @ \ {p}]
          /\ invitations' = [invitations EXCEPT ![p] = @ \ {q}]
    BY <1>0, <1>9 DEF playerJoinParty, MayJoin, Leads, PartyTypes
  <2>2. /\ p \in online /\ online' = online /\ leader' = leader
        /\ selfInvited' = selfInvited
    BY <1>9 DEF playerJoinParty
  <2>3. PartyTypes(leader', members', invited', partyOf', invitations')
    BY <1>0, <2>1, <2>2 DEF PartyTypes
  <2>4. Agree(leader', members', invited', partyOf', invitations', selfInvited')
    BY <1>0, <2>1, <2>2 DEF PartyTypes, PartiesAgree, Agree
  <2>5. InTheGame(leader', members', invited', online')
    BY <1>0, <2>1, <2>2 DEF PartyTypes, PartiesAgree, InTheGame
  <2> QED BY <1>0, <1>2, <2>2, <2>3, <2>4, <2>5
<1>10. ASSUME NEW p \in Players, NEW x \in Players, playerPassPartyLeadership(p, x)
       PROVE  /\ online' \subseteq Players /\ selfInvited' \subseteq Players
              /\ PartyTypes(leader', members', invited', partyOf', invitations')
              /\ PartiesAgree'
  <2>1. PICK q \in Parties :
          /\ leader[q] = p /\ x \in members[q]
          /\ leader' = [leader EXCEPT ![q] = x]
          /\ members' = [members EXCEPT ![q] = (@ \ {x}) \cup {p}]
    BY <1>0, <1>10 DEF playerPassPartyLeadership, Leads, PartyTypes
  <2>2. UNCHANGED <<online, invited, partyOf, invitations, selfInvited>>
    BY <1>10 DEF playerPassPartyLeadership
  <2>3. PartyTypes(leader', members', invited', partyOf', invitations')
    BY <1>0, <2>1, <2>2 DEF PartyTypes
  <2>4. Agree(leader', members', invited', partyOf', invitations', selfInvited')
    BY <1>0, <2>1, <2>2 DEF PartyTypes, PartiesAgree, Agree
  <2>5. InTheGame(leader', members', invited', online')
    BY <1>0, <2>1, <2>2 DEF PartyTypes, PartiesAgree, InTheGame
  <2> QED BY <1>0, <1>2, <2>2, <2>3, <2>4, <2>5
<1>11. ASSUME NEW p \in Players, Request(p)
       PROVE  /\ online' \subseteq Players /\ selfInvited' \subseteq Players
              /\ PartyTypes(leader', members', invited', partyOf', invitations')
              /\ PartiesAgree'
  BY <1>1, <1>6, <1>7, <1>8, <1>9, <1>10, <1>11, OtherSteps DEF Request, RequestOf, RequestOn
<1> QED BY <1>3, <1>4, <1>5, <1>11 DEF Next

-----------------------------------------------------------------------------
(* Types and reports.                                                        *)

LEMMA TypeStep ==
    ASSUME TypeOK, PartiesAgree, [Next]_vars
    PROVE  TypeOK'
<1> USE GroupsAssumption
<1> DEFINE ChatTypes == /\ partyChannels' \subseteq Parties
                        /\ owner' \in [PrivateIds -> Players \cup {NoPlayer}]
                        /\ guests' \in [PrivateIds -> SUBSET Players]
                        /\ users' \in [Channels -> SUBSET Players]
                        /\ ghosts' \in [PrivateIds -> SUBSET Players]
                        /\ uninvited' \in [PrivateIds -> SUBSET Players]
           ReportType == report' \in [Players -> Gamemasters \cup {NoPlayer, NoReport}]
<1>0. /\ partyChannels \subseteq Parties
      /\ owner \in [PrivateIds -> Players \cup {NoPlayer}]
      /\ guests \in [PrivateIds -> SUBSET Players]
      /\ users \in [Channels -> SUBSET Players]
      /\ ghosts \in [PrivateIds -> SUBSET Players]
      /\ uninvited \in [PrivateIds -> SUBSET Players]
      /\ report \in [Players -> Gamemasters \cup {NoPlayer, NoReport}]
      /\ partyOf \in [Players -> Parties \cup {NoParty}]
      /\ online \subseteq Players
  BY DEF TypeOK
<1>1. ASSUME UNCHANGED chatVars, UNCHANGED report
      PROVE  ChatTypes /\ ReportType
  BY <1>0, <1>1 DEF chatVars, privateVars
<1>2. ASSUME UNCHANGED vars
      PROVE  ChatTypes /\ ReportType
  BY <1>1, <1>2 DEF vars
<1>3. ASSUME NEW gone, users' = Remaining(gone)
      PROVE  users' \in [Channels -> SUBSET Players]
  BY <1>0, <1>3 DEF Remaining
<1>4. ASSUME NEW p \in Players, NEW freed \in SUBSET Players, removeUserFromAllChannels(p, freed)
      PROVE  /\ owner' \in [PrivateIds -> Players \cup {NoPlayer}]
             /\ guests' \in [PrivateIds -> SUBSET Players]
             /\ users' \in [Channels -> SUBSET Players]
             /\ ghosts' \in [PrivateIds -> SUBSET Players]
             /\ uninvited' \in [PrivateIds -> SUBSET Players]
  BY <1>0, <1>3, <1>4 DEF removeUserFromAllChannels, DeletePrivate
<1>5. \A p \in Players : WithPartyChannel(p) \subseteq Parties
  BY <1>0 DEF WithPartyChannel
<1>6. ASSUME NEW p \in Players, LeaveGame(p)
      PROVE  ChatTypes /\ ReportType
  <2>1. partyChannels' \subseteq Parties
    BY <1>0, <1>6, LeavingTheGame DEF Left
  <2>2. removeUserFromAllChannels(p, {p}) /\ {p} \in SUBSET Players
    BY <1>6 DEF LeaveGame
  <2> QED BY <1>0, <1>4, <1>6, <2>1, <2>2 DEF LeaveGame
<1>7. ASSUME NEW p \in Players, playerLeaveParty(p)
      PROVE  ChatTypes /\ ReportType
  <2>1. partyChannels' \subseteq Parties
    BY <1>0, <1>7, RequestToLeave DEF Left
  <2> QED BY <1>0, <1>3, <1>7, <2>1 DEF playerLeaveParty, privateVars
<1>8. ASSUME NEW p \in Players, NEW x \in Players, playerRevokePartyInvitation(p, x)
      PROVE  ChatTypes /\ ReportType
  BY <1>0, <1>8, Revoking DEF playerRevokePartyInvitation, privateVars
<1>9. ASSUME NEW p \in Players, NEW x \in Players,
             \/ playerInviteToParty(p, x) \/ playerJoinParty(p, x)
             \/ playerPassPartyLeadership(p, x)
      PROVE  ChatTypes /\ ReportType
  BY <1>1, <1>9 DEF playerInviteToParty, playerJoinParty, playerPassPartyLeadership
<1>10. ASSUME NEW p \in Players, NEW x \in Players,
              \/ playerReportRuleViolation(p)
              \/ playerProcessRuleViolation(p, x) \/ playerCloseRuleViolation(p, x)
       PROVE  ChatTypes /\ ReportType
  BY <1>0, <1>10 DEF chatVars, privateVars, playerReportRuleViolation, playerProcessRuleViolation,
                     playerCloseRuleViolation
<1>11. ASSUME NEW p \in Players, NEW x \in Players,
              playerChannelInvite(p, x) \/ playerChannelExclude(p, x)
       PROVE  ChatTypes /\ ReportType
  BY <1>0, <1>11 DEF playerChannelInvite, playerChannelExclude, OwnedBy, Channels
<1>12. ASSUME NEW p \in Players,
              playerRequestChannels(p) \/ playerCreatePrivateChannel(p) \/ Reconnect(p)
       PROVE  ChatTypes /\ ReportType
  BY <1>0, <1>4, <1>5, <1>12 DEF playerRequestChannels, playerCreatePrivateChannel, Reconnect,
                                 OwnedBy, Channels, privateVars
<1>13. ASSUME NEW p \in Players, NEW c \in Channels,
              playerOpenChannel(p, c) \/ playerCloseChannel(p, c)
       PROVE  ChatTypes /\ ReportType
  <2>1. CASE playerOpenChannel(p, c)
    BY <1>0, <2>1 DEF playerOpenChannel
  <2>2. CASE playerCloseChannel(p, c)
    BY <1>0, <2>2 DEF playerCloseChannel, DeletePrivate
  <2> QED BY <1>13, <2>1, <2>2
<1>14. ASSUME NEW p \in Players, Request(p)
       PROVE  ChatTypes /\ ReportType
  <2> HIDE DEF ChatTypes, ReportType
  <2>1. CASE \E x \in Players :
               \/ playerInviteToParty(p, x) \/ playerJoinParty(p, x)
               \/ playerPassPartyLeadership(p, x) \/ playerRevokePartyInvitation(p, x)
               \/ playerChannelInvite(p, x) \/ playerChannelExclude(p, x)
               \/ playerProcessRuleViolation(p, x) \/ playerCloseRuleViolation(p, x)
    BY <1>8, <1>9, <1>10, <1>11, <2>1
  <2>2. CASE \E c \in Channels : playerOpenChannel(p, c) \/ playerCloseChannel(p, c)
    BY <1>13, <2>2
  <2>3. CASE \/ playerLeaveParty(p) \/ playerRequestChannels(p) \/ playerCreatePrivateChannel(p)
             \/ Reconnect(p) \/ playerReportRuleViolation(p)
    BY <1>7, <1>10, <1>12, <2>3
  <2> QED BY <1>14, <2>1, <2>2, <2>3 DEF Request, RequestOf, RequestOn
<1>15. ASSUME NEW p \in Players, Login(p)
       PROVE  ChatTypes /\ ReportType
  BY <1>1, <1>15 DEF Login
<1>16. ChatTypes /\ ReportType
  <2> HIDE DEF ChatTypes, ReportType
  <2> QED BY <1>2, <1>6, <1>14, <1>15 DEF Next
<1> QED BY <1>16, PartyStep DEF TypeOK, PartyTypes

LEMMA ReportStep ==
    ASSUME TypeOK, ReportsHaveBothEnds, [Next]_vars
    PROVE  ReportsHaveBothEnds'
<1> USE GroupsAssumption
<1>0. report \in [Players -> Gamemasters \cup {NoPlayer, NoReport}]
  BY DEF TypeOK
<1>1. ASSUME online \subseteq online', UNCHANGED report
      PROVE  ReportsHaveBothEnds'
  BY <1>1 DEF ReportsHaveBothEnds
<1>2. CASE UNCHANGED vars
  BY <1>1, <1>2 DEF vars
<1>3. ASSUME NEW p \in Players, Login(p)
      PROVE  ReportsHaveBothEnds'
  BY <1>1, <1>3 DEF Login
<1>4. ASSUME NEW p \in Players, LeaveGame(p)
      PROVE  ReportsHaveBothEnds'
  <2>1. /\ online' = online \ {p}
        /\ report' = [x \in Players |-> IF x \in ReportsOf(p) THEN NoReport ELSE report[x]]
    BY <1>4 DEF LeaveGame
  <2>2. ASSUME NEW x \in Players, report'[x] # NoReport
        PROVE  x \in online' /\ report'[x] \in (online' \cap Gamemasters) \cup {NoPlayer}
    <3>1. x # p /\ report'[x] = report[x] /\ ~(report[x] = p /\ p \in Gamemasters)
      BY <2>1, <2>2 DEF ReportsOf
    <3>2. x \in online /\ report[x] \in (online \cap Gamemasters) \cup {NoPlayer}
      BY <2>2, <3>1 DEF ReportsHaveBothEnds
    <3> QED BY <2>1, <3>1, <3>2
  <2> QED BY <2>2 DEF ReportsHaveBothEnds
<1>5. ASSUME NEW p \in Players, NEW x \in Players,
             \/ playerReportRuleViolation(p)
             \/ playerProcessRuleViolation(p, x) \/ playerCloseRuleViolation(p, x)
      PROVE  ReportsHaveBothEnds'
  BY <1>0, <1>5 DEF ReportsHaveBothEnds, playerReportRuleViolation,
                    playerProcessRuleViolation, playerCloseRuleViolation
<1>6. ASSUME NEW p \in Players, NEW x \in Players, NEW c \in Channels,
             \/ playerLeaveParty(p) \/ playerRequestChannels(p)
             \/ playerCreatePrivateChannel(p) \/ Reconnect(p)
             \/ playerOpenChannel(p, c) \/ playerCloseChannel(p, c)
             \/ playerInviteToParty(p, x) \/ playerJoinParty(p, x)
             \/ playerPassPartyLeadership(p, x) \/ playerRevokePartyInvitation(p, x)
             \/ playerChannelInvite(p, x) \/ playerChannelExclude(p, x)
      PROVE  ReportsHaveBothEnds'
  BY <1>1, <1>6
     DEF playerLeaveParty, playerRequestChannels, playerCreatePrivateChannel, Reconnect,
         playerOpenChannel, playerCloseChannel, playerInviteToParty, playerJoinParty,
         playerPassPartyLeadership, playerRevokePartyInvitation, playerChannelInvite,
         playerChannelExclude
<1> QED BY <1>2, <1>3, <1>4, <1>5, <1>6 DEF Next, Request, RequestOf, RequestOn, Channels

-----------------------------------------------------------------------------
(* Chat channels. *)

PartyChannelsBelong ==
    /\ \A q \in Parties : \A p \in users[q] : q \in partyChannels /\ partyOf[p] = q
    /\ \A q \in partyChannels : leader[q] # NoPlayer

PrivateChannelsBelong ==
    \A i \in PrivateIds :
         /\ owner[i] # NoPlayer => owner[i] \in users[i]
         /\ owner[i] = NoPlayer => users[i] \cup guests[i] \cup uninvited[i] = {}
         /\ \A p \in users[i] : isInvited(p, i) \/ p \in uninvited[i]
         /\ ghosts[i] \subseteq uninvited[i]
         /\ \A j \in PrivateIds : owner[i] = owner[j] => owner[i] = NoPlayer \/ i = j

UsersBelong ==
    /\ \A c \in Channels : users[c] \subseteq online
    /\ users[RuleChannel] \subseteq Gamemasters

LEMMA ChannelParts ==
    ChannelUsersBelong <=> UsersBelong /\ PartyChannelsBelong /\ PrivateChannelsBelong
BY DEF ChannelUsersBelong, UsersBelong, PartyChannelsBelong, PrivateChannelsBelong

LEMMA ChannelPartsNext ==
    ChannelUsersBelong' <=> UsersBelong' /\ PartyChannelsBelong' /\ PrivateChannelsBelong'
BY DEF ChannelUsersBelong, UsersBelong, PartyChannelsBelong, PrivateChannelsBelong, isInvited

LEMMA RemovedFromAll ==
    ASSUME TypeOK, ChannelUsersBelong, NEW p \in online, NEW freed \in SUBSET {p},
           removeUserFromAllChannels(p, freed)
    PROVE  /\ \A c \in Channels : users'[c] \subseteq users[c] \ freed
           /\ \A q \in Parties \ partyChannels' : users'[q] = {}
           /\ PrivateChannelsBelong'
<1> USE GroupsAssumption
<1>0. /\ p \in Players
      /\ owner \in [PrivateIds -> Players \cup {NoPlayer}]
      /\ PrivateChannelsBelong /\ PartyChannelsBelong
      /\ Parties \subseteq Channels /\ PrivateIds \subseteq Channels
  BY ChannelParts DEF TypeOK, Channels
<1>1. /\ owner' = [i \in PrivateIds |-> IF i \in OwnedBy(p) THEN NoPlayer ELSE owner[i]]
      /\ guests' = [i \in PrivateIds |-> IF i \in OwnedBy(p) THEN {} ELSE guests[i]]
      /\ uninvited' = [i \in PrivateIds |-> IF i \in OwnedBy(p) THEN {} ELSE uninvited[i]]
      /\ ghosts' = [i \in PrivateIds |-> IF i \in OwnedBy(p) THEN {}
                       ELSE ghosts[i] \cup ((freed \cap users[i]) \ TakenOut(p, i))]
      /\ users' = [c \in Channels |-> IF c \in Parties \ partyChannels' THEN {}
                       ELSE users[c] \ (TakenOut(p, c) \cup (IF c \in PrivateIds THEN freed ELSE {}))]
  BY DEF removeUserFromAllChannels, DeletePrivate, Remaining
<1>2. ASSUME NEW c \in Channels
      PROVE  users'[c] \subseteq users[c] \ freed
  <2>1. CASE c \in Parties \ partyChannels'
    BY <1>1, <2>1
  <2>2. CASE c \notin Parties \ partyChannels'
    <3>1. users'[c] = users[c] \ (TakenOut(p, c) \cup (IF c \in PrivateIds THEN freed ELSE {}))
      BY <1>1, <2>2
    <3>2. p \in users[c] /\ c \notin PrivateIds => p \in TakenOut(p, c)
      BY <1>0 DEF TakenOut, PartyChannelsBelong
    <3> QED BY <3>1, <3>2
  <2> QED BY <2>1, <2>2
<1>3. \A q \in Parties \ partyChannels' : users'[q] = {}
  BY <1>0, <1>1
<1>4. ASSUME NEW i \in PrivateIds, i \in OwnedBy(p)
      PROVE  /\ owner'[i] = NoPlayer /\ users'[i] = {} /\ guests'[i] = {}
             /\ ghosts'[i] = {} /\ uninvited'[i] = {}
  BY <1>0, <1>1, <1>4 DEF TakenOut
<1>5. ASSUME NEW i \in PrivateIds, i \notin OwnedBy(p)
      PROVE  /\ owner'[i] = owner[i] /\ guests'[i] = guests[i] /\ owner[i] # p
             /\ uninvited'[i] = uninvited[i]
             /\ ghosts'[i] \subseteq uninvited[i]
             /\ users'[i] \subseteq users[i] /\ users[i] \subseteq users'[i] \cup {p}
  <2>1. TakenOut(p, i) = IF isInvited(p, i) THEN {p} ELSE {}
    BY <1>0, <1>5 DEF TakenOut
  <2>2. p \in users[i] => isInvited(p, i) \/ p \in uninvited[i]
    BY <1>0 DEF PrivateChannelsBelong
  <2>3. ghosts'[i] \subseteq uninvited[i]
    BY <1>0, <1>1, <1>5, <2>1, <2>2 DEF PrivateChannelsBelong
  <2>4. i \in Channels /\ i \notin Parties /\ owner[i] # p
    BY <1>0, <1>5 DEF OwnedBy
  <2> QED BY <1>1, <1>5, <2>1, <2>3, <2>4
<1>6. ASSUME NEW i \in PrivateIds
      PROVE  /\ owner'[i] # NoPlayer => owner'[i] \in users'[i]
             /\ owner'[i] = NoPlayer => users'[i] \cup guests'[i] \cup uninvited'[i] = {}
             /\ \A x \in users'[i] : isInvited(x, i)' \/ x \in uninvited'[i]
             /\ ghosts'[i] \subseteq uninvited'[i]
             /\ \A j \in PrivateIds : owner'[i] = owner'[j] => owner'[i] = NoPlayer \/ i = j
  BY <1>0, <1>4, <1>5 DEF PrivateChannelsBelong, isInvited
<1>7. PrivateChannelsBelong'
  BY <1>6 DEF PrivateChannelsBelong
<1> QED BY <1>2, <1>3, <1>7

\* A step that only takes users out of the channels of parties, those of p when it leaves.
LEMMA LeavingChannels ==
    ASSUME TypeOK, PartiesAgree, PartyChannelsBelong, NEW p \in online, NEW inv, NEW own,
           Left(p, inv, own),
           \A q \in Parties : users'[q] \subseteq users[q] \ {p},
           \A q \in Parties \ partyChannels' : users'[q] = {}
    PROVE  PartyChannelsBelong'
<1>1. ASSUME NEW q \in Parties, NEW x \in users'[q]
      PROVE  q \in partyChannels' /\ partyOf'[x] = q
  <2>1. /\ x \in users[q] /\ x # p /\ x \in Players /\ q \in partyChannels'
        /\ partyOf[x] = q /\ q \in partyChannels
    BY <1>1 DEF PartyChannelsBelong, TypeOK, Channels
  <2>2. leader[q] # NoPlayer
    BY <2>1 DEF PartyChannelsBelong
  <2> QED BY <2>1, <2>2 DEF Left
<1>2. ASSUME NEW q \in partyChannels'
      PROVE  leader'[q] # NoPlayer
  <2>1. q \in partyChannels /\ q \in Parties /\ leader[q] # NoPlayer
    BY <1>2 DEF Left, PartyChannelsBelong, TypeOK
  <2> QED BY <1>2, <2>1 DEF Left
<1> QED BY <1>1, <1>2 DEF PartyChannelsBelong

LEMMA ChannelStep ==
    ASSUME TypeOK, PartiesAgree, ChannelUsersBelong, TypeOK', PartiesAgree', [Next]_vars
    PROVE  ChannelUsersBelong'
<1> USE GroupsAssumption
<1>0. /\ UsersBelong /\ PartyChannelsBelong /\ PrivateChannelsBelong
      /\ Parties \subseteq Channels /\ PrivateIds \subseteq Channels
      /\ RuleChannel \in Channels
      /\ RuleChannel \notin Parties /\ RuleChannel \notin PrivateIds
      /\ Parties \cap PrivateIds = {}
      /\ online \subseteq Players
      /\ partyChannels \subseteq Parties
      /\ owner \in [PrivateIds -> Players \cup {NoPlayer}]
      /\ guests \in [PrivateIds -> SUBSET Players]
      /\ users \in [Channels -> SUBSET Players]
      /\ ghosts \in [PrivateIds -> SUBSET Players]
      /\ uninvited \in [PrivateIds -> SUBSET Players]
      /\ partyOf \in [Players -> Parties \cup {NoParty}]
  BY ChannelParts DEF TypeOK, Channels
<1>1. ASSUME UNCHANGED privateVars, \A i \in PrivateIds : users'[i] = users[i]
      PROVE  PrivateChannelsBelong'
  BY <1>0, <1>1 DEF PrivateChannelsBelong, isInvited, privateVars
<1>2. ASSUME online \subseteq online', \A c \in Channels : users'[c] \subseteq users[c]
      PROVE  UsersBelong'
  BY <1>0, <1>2 DEF UsersBelong
<1>3. ASSUME UNCHANGED <<partyOf, leader, partyChannels>>,
             \A q \in Parties : users'[q] \subseteq users[q]
      PROVE  PartyChannelsBelong'
  BY <1>0, <1>3 DEF PartyChannelsBelong
<1>4. CASE UNCHANGED vars
  BY <1>0, <1>1, <1>2, <1>3, <1>4, ChannelPartsNext DEF vars, partyVars, chatVars
<1>5. ASSUME NEW p \in Players, Login(p)
      PROVE  ChannelUsersBelong'
  BY <1>0, <1>1, <1>2, <1>3, <1>5, ChannelPartsNext DEF Login, partyVars, chatVars
<1>6. ASSUME NEW p \in Players, LeaveGame(p)
      PROVE  ChannelUsersBelong'
  <2>1. /\ p \in online /\ online' = online \ {p} /\ removeUserFromAllChannels(p, {p})
        /\ Left(p, RemoveInvite(p, invitations[p]), selfInvited \ {p})
    BY <1>6, LeavingTheGame DEF LeaveGame
  <2>2. /\ \A c \in Channels : users'[c] \subseteq users[c] \ {p}
        /\ \A q \in Parties \ partyChannels' : users'[q] = {}
        /\ PrivateChannelsBelong'
    BY <2>1, RemovedFromAll
  <2>3. PartyChannelsBelong'
    BY <1>0, <2>1, <2>2, LeavingChannels
  <2>4. UsersBelong'
    BY <1>0, <2>1, <2>2 DEF UsersBelong
  <2> QED BY <2>2, <2>3, <2>4, ChannelPartsNext
<1>7. ASSUME NEW p \in Players, playerLeaveParty(p)
      PROVE  ChannelUsersBelong'
  <2>1. /\ p \in online /\ partyOf[p] \in Parties
        /\ UNCHANGED <<online, privateVars>>
        /\ users' = Remaining([c \in Channels |-> IF c = partyOf[p] THEN {p} ELSE {}])
        /\ Left(p, invited, selfInvited)
    BY <1>0, <1>7, RequestToLeave DEF playerLeaveParty
  <2>2. \A c \in Channels :
          users'[c] = IF c \in Parties \ partyChannels' THEN {}
                      ELSE IF c = partyOf[p] THEN users[c] \ {p} ELSE users[c]
    BY <2>1 DEF Remaining
  <2>3. \A q \in Parties : users'[q] \subseteq users[q] \ {p}
    <3>1. \A q \in Parties : p \in users[q] => q = partyOf[p]
      BY <1>0 DEF PartyChannelsBelong
    <3>2. ASSUME NEW q \in Parties
          PROVE  users'[q] \subseteq users[q] \ {p}
      <4>1. CASE q = partyOf[p]
        BY <1>0, <2>2, <4>1
      <4>2. CASE q # partyOf[p]
        <5>1. p \notin users[q]
          BY <3>1, <4>2
        <5>2. users'[q] \subseteq users[q]
          BY <1>0, <2>2, <4>2
        <5> QED BY <5>1, <5>2
      <4> QED BY <4>1, <4>2
    <3> QED BY <3>2
  <2>4. \A q \in Parties \ partyChannels' : users'[q] = {}
    BY <1>0, <2>2
  <2>5. PartyChannelsBelong'
    BY <1>0, <2>1, <2>3, <2>4, LeavingChannels
  <2>6. \A i \in PrivateIds : users'[i] = users[i]
    BY <1>0, <2>1, <2>2
  <2>7. PrivateChannelsBelong'
    BY <1>1, <2>1, <2>6
  <2>8. UsersBelong'
    BY <1>2, <2>1, <2>2
  <2> QED BY <2>5, <2>7, <2>8, ChannelPartsNext
<1>8. ASSUME NEW p \in Players, NEW x \in Players, playerRevokePartyInvitation(p, x)
      PROVE  ChannelUsersBelong'
  <2>1. PICK ended \in SUBSET Parties, inv \in [Parties -> SUBSET Players] :
          /\ Disbanded(ended, leader, members, inv, partyOf, selfInvited)
          /\ partyChannels' = partyChannels \ ended
          /\ users' = [c \in Channels |-> IF c \in ended THEN {} ELSE users[c]]
    BY <1>8, Revoking
  <2>2. UNCHANGED <<online, privateVars>>
    BY <1>8 DEF playerRevokePartyInvitation
  <2>3. PartyChannelsBelong'
    BY <1>0, <2>1 DEF Disbanded, PartyChannelsBelong
  <2>4. /\ \A i \in PrivateIds : users'[i] = users[i]
        /\ \A c \in Channels : users'[c] \subseteq users[c]
    BY <1>0, <2>1
  <2> QED BY <1>1, <1>2, <2>2, <2>3, <2>4, ChannelPartsNext
<1>9. ASSUME NEW p \in Players, NEW x \in Players,
             \/ playerInviteToParty(p, x) \/ playerJoinParty(p, x)
             \/ playerPassPartyLeadership(p, x)
      PROVE  ChannelUsersBelong'
  <2>1. UNCHANGED <<online, chatVars>>
    BY <1>9 DEF playerInviteToParty, playerJoinParty, playerPassPartyLeadership
  <2>2. \A y \in Players : partyOf[y] # NoParty => partyOf'[y] = partyOf[y]
    BY <1>0, <1>9 DEF playerInviteToParty, playerJoinParty, playerPassPartyLeadership, Found,
                      InviteMore, MayJoin
  <2>3. \A q \in Parties : leader[q] # NoPlayer => leader'[q] # NoPlayer
    BY <1>0, <1>9 DEF playerInviteToParty, playerJoinParty, playerPassPartyLeadership, Found,
                      InviteMore, TypeOK
  <2>4. PartyChannelsBelong'
    BY <1>0, <2>1, <2>2, <2>3 DEF PartyChannelsBelong, chatVars
  <2> QED BY <1>1, <1>2, <2>1, <2>4, ChannelPartsNext DEF chatVars
<1>10. ASSUME NEW p \in Players, NEW x \in Players,
              \/ playerReportRuleViolation(p)
              \/ playerProcessRuleViolation(p, x) \/ playerCloseRuleViolation(p, x)
       PROVE  ChannelUsersBelong'
  <2>1. UNCHANGED <<online, partyVars, chatVars>>
    BY <1>10 DEF playerReportRuleViolation, playerProcessRuleViolation, playerCloseRuleViolation
  <2> QED BY <1>1, <1>2, <1>3, <2>1, ChannelPartsNext DEF partyVars, chatVars
<1>11. ASSUME NEW p \in Players
       PROVE  \A q \in WithPartyChannel(p) : q \in partyChannels \/ leader[q] # NoPlayer
  BY <1>0 DEF WithPartyChannel, PartiesAgree, TypeOK
<1>12. ASSUME NEW p \in Players, playerRequestChannels(p)
       PROVE  ChannelUsersBelong'
  <2>1. /\ UNCHANGED <<online, partyVars, privateVars, users>>
        /\ partyChannels' = WithPartyChannel(p)
        /\ partyChannels \subseteq partyChannels'
    BY <1>12 DEF playerRequestChannels, WithPartyChannel
  <2>2. PartyChannelsBelong'
    BY <1>0, <1>11, <2>1 DEF PartyChannelsBelong, partyVars
  <2> QED BY <1>1, <1>2, <2>1, <2>2, ChannelPartsNext
<1>13. ASSUME NEW p \in Players, Reconnect(p)
       PROVE  ChannelUsersBelong'
  <2>1. /\ UNCHANGED <<online, partyVars>> /\ p \in online
        /\ partyChannels' = WithPartyChannel(p)
        /\ partyChannels \subseteq partyChannels'
        /\ removeUserFromAllChannels(p, {})
    BY <1>13 DEF Reconnect, WithPartyChannel
  <2>2. (\A c \in Channels : users'[c] \subseteq users[c]) /\ PrivateChannelsBelong'
    BY <2>1, RemovedFromAll
  <2>3. PartyChannelsBelong'
    BY <1>0, <1>11, <2>1, <2>2 DEF PartyChannelsBelong, partyVars
  <2> QED BY <1>2, <2>1, <2>2, <2>3, ChannelPartsNext
<1>14. ASSUME NEW p \in Players, NEW c \in Channels, playerOpenChannel(p, c)
       PROVE  ChannelUsersBelong'
  <2>1. /\ p \in online
        /\ users' = [users EXCEPT ![c] = @ \cup {p}]
        /\ UNCHANGED <<online, partyVars, partyChannels, owner, guests, ghosts>>
        /\ uninvited' = [i \in PrivateIds |-> IF i = c /\ ~isInvited(p, i)
                                              THEN uninvited[i] \cup {p} ELSE uninvited[i]]
        /\ MayOpen(p, c)
    BY <1>14 DEF playerOpenChannel
  <2>2. UsersBelong'
    BY <1>0, <2>1 DEF MayOpen, UsersBelong
  <2>3. PartyChannelsBelong'
    BY <1>0, <2>1 DEF MayOpen, PartyChannelsBelong, partyVars
  <2>4. c \in PrivateIds => owner[c] # NoPlayer
    BY <1>0, <2>1 DEF MayOpen
  <2>5. ASSUME NEW i \in PrivateIds
        PROVE  /\ owner'[i] # NoPlayer => owner'[i] \in users'[i]
               /\ owner'[i] = NoPlayer => users'[i] \cup guests'[i] \cup uninvited'[i] = {}
               /\ \A x \in users'[i] : isInvited(x, i)' \/ x \in uninvited'[i]
               /\ ghosts'[i] \subseteq uninvited'[i]
               /\ \A j \in PrivateIds : owner'[i] = owner'[j] => owner'[i] = NoPlayer \/ i = j
    <3>1. CASE i = c
      BY <1>0, <2>1, <2>4, <3>1 DEF PrivateChannelsBelong, isInvited
    <3>2. CASE i # c
      BY <1>0, <2>1, <3>2 DEF PrivateChannelsBelong, isInvited
    <3> QED BY <3>1, <3>2
  <2>6. PrivateChannelsBelong'
    BY <2>5 DEF PrivateChannelsBelong
  <2> QED BY <2>2, <2>3, <2>6, ChannelPartsNext
<1>15. ASSUME NEW p \in Players, NEW c \in Channels, playerCloseChannel(p, c)
       PROVE  ChannelUsersBelong'
  <2>1. /\ owner' = [i \in PrivateIds |-> IF i \in {c} \cap OwnedBy(p) THEN NoPlayer ELSE owner[i]]
        /\ guests' = [i \in PrivateIds |-> IF i \in {c} \cap OwnedBy(p) THEN {} ELSE guests[i]]
        /\ ghosts' = [i \in PrivateIds |-> IF i \in {c} \cap OwnedBy(p) THEN {} ELSE ghosts[i]]
        /\ uninvited' = [i \in PrivateIds |-> IF i \in {c} \cap OwnedBy(p) THEN {} ELSE uninvited[i]]
        /\ users' = [users EXCEPT ![c] = IF c \in OwnedBy(p) THEN {} ELSE @ \ {p}]
        /\ UNCHANGED <<online, partyVars, partyChannels>>
    BY <1>15 DEF playerCloseChannel, DeletePrivate
  <2>2. \A d \in Channels : users'[d] \subseteq users[d]
    BY <1>0, <2>1
  <2>3. ASSUME NEW i \in PrivateIds
        PROVE  \/ /\ owner'[i] = NoPlayer /\ guests'[i] = {} /\ users'[i] = {}
                  /\ ghosts'[i] = {} /\ uninvited'[i] = {}
               \/ /\ owner'[i] = owner[i] /\ guests'[i] = guests[i]
                  /\ ghosts'[i] = ghosts[i] /\ uninvited'[i] = uninvited[i]
                  /\ users'[i] \subseteq users[i]
                  /\ owner[i] # NoPlayer => owner[i] \in users'[i]
    BY <1>0, <2>1 DEF OwnedBy, PrivateChannelsBelong
  <2>4. PrivateChannelsBelong'
    <3>1. ASSUME NEW i \in PrivateIds
          PROVE  /\ owner'[i] # NoPlayer => owner'[i] \in users'[i]
                 /\ owner'[i] = NoPlayer => users'[i] \cup guests'[i] \cup uninvited'[i] = {}
                 /\ \A x \in users'[i] : isInvited(x, i)' \/ x \in uninvited'[i]
                 /\ ghosts'[i] \subseteq uninvited'[i]
                 /\ \A j \in PrivateIds : owner'[i] = owner'[j] => owner'[i] = NoPlayer \/ i = j
      BY <1>0, <2>3 DEF PrivateChannelsBelong, isInvited
    <3> QED BY <3>1 DEF PrivateChannelsBelong
  <2> QED BY <1>2, <1>3, <2>1, <2>2, <2>4, ChannelPartsNext, <1>0 DEF partyVars
<1>16. ASSUME NEW p \in Players, playerCreatePrivateChannel(p)
       PROVE  ChannelUsersBelong'
  <2>1. PICK i \in PrivateIds :
          /\ owner[i] = NoPlayer
          /\ owner' = [owner EXCEPT ![i] = p]
          /\ users' = [users EXCEPT ![i] = {p}]
          /\ UNCHANGED <<online, partyVars, partyChannels, guests, ghosts, uninvited>>
          /\ p \in online /\ OwnedBy(p) = {}
    BY <1>16 DEF playerCreatePrivateChannel, OwnedBy
  <2>2. UsersBelong'
    BY <1>0, <2>1 DEF UsersBelong
  <2>3. PrivateChannelsBelong'
    BY <1>0, <2>1 DEF PrivateChannelsBelong, isInvited, OwnedBy
  <2>4. PartyChannelsBelong'
    BY <1>0, <1>3, <2>1 DEF partyVars
  <2> QED BY <2>2, <2>3, <2>4, ChannelPartsNext
<1>17. ASSUME NEW p \in Players, NEW x \in Players,
              playerChannelInvite(p, x) \/ playerChannelExclude(p, x)
       PROVE  ChannelUsersBelong'
  <2>1. PICK i \in PrivateIds :
          /\ owner[i] = p /\ x # p /\ x \in online
          /\ \/ guests' = [guests EXCEPT ![i] = @ \cup {x}] /\ users' = users
             \/ /\ guests' = [guests EXCEPT ![i] = @ \ {x}]
                /\ users' = [users EXCEPT ![i] = @ \ {x}]
          /\ UNCHANGED <<online, partyVars, partyChannels, owner, ghosts, uninvited>>
    BY <1>17 DEF playerChannelInvite, playerChannelExclude, OwnedBy
  <2>2. \A d \in Channels : users'[d] \subseteq users[d]
    BY <1>0, <2>1
  <2>3. PrivateChannelsBelong'
    BY <1>0, <2>1 DEF PrivateChannelsBelong, isInvited
  <2> QED BY <1>0, <1>2, <1>3, <2>1, <2>2, <2>3, ChannelPartsNext DEF partyVars
<1>18. ASSUME NEW p \in Players, Request(p)
       PROVE  ChannelUsersBelong'
  BY <1>7, <1>8, <1>9, <1>10, <1>12, <1>13, <1>14, <1>15, <1>16, <1>17, <1>18 DEF Request, RequestOf, RequestOn
<1> QED BY <1>4, <1>5, <1>6, <1>18 DEF Next

-----------------------------------------------------------------------------

LEMMA Beginning == Init => TypeOK /\ PartiesAgree /\ ChannelUsersBelong /\ ReportsHaveBothEnds
<1> SUFFICES ASSUME Init PROVE TypeOK /\ PartiesAgree /\ ChannelUsersBelong /\ ReportsHaveBothEnds
  OBVIOUS
<1> USE GroupsAssumption DEF Init
<1>1. TypeOK
  BY DEF TypeOK
<1>2. PartiesAgree
  BY DEF PartiesAgree
<1>3. ChannelUsersBelong
  BY DEF ChannelUsersBelong, Channels
<1>4. ReportsHaveBothEnds
  BY DEF ReportsHaveBothEnds
<1> QED BY <1>1, <1>2, <1>3, <1>4

\* The inductive invariant of parties: the pointers of party.cpp and player.cpp agree in
\* every reachable state, and no player who left the game is in any of them.
THEOREM PartiesAlwaysAgree == Spec => [](TypeOK /\ PartiesAgree)
<1>1. Init => TypeOK /\ PartiesAgree
  BY Beginning
<1>2. TypeOK /\ PartiesAgree /\ [Next]_vars => (TypeOK /\ PartiesAgree)'
  BY PartyStep, TypeStep
<1> QED BY <1>1, <1>2, PTL DEF Spec

LEMMA HeirStep ==
    ASSUME TypeOK, PartiesAgree, [Next]_vars
    PROVE  \A q \in Parties : Heirs(q)
<1> USE GroupsAssumption
<1>1. ASSUME \A q \in Parties :
               /\ leader'[q] = leader[q] \/ leader[q] = NoPlayer \/ leader'[q] \in members[q]
               /\ members[q] # {} => leader'[q] # NoPlayer
      PROVE  \A q \in Parties : Heirs(q)
  BY <1>1 DEF Heirs
<1>2. \A q \in Parties : members[q] # {} => leader[q] # NoPlayer
  BY DEF PartiesAgree
<1>3. ASSUME leader' = leader
      PROVE  \A q \in Parties : Heirs(q)
  BY <1>1, <1>2, <1>3
<1>4. ASSUME NEW p \in Players, LeaveGame(p) \/ playerLeaveParty(p)
      PROVE  \A q \in Parties : Heirs(q)
  BY <1>4, LeavingTheGame, RequestToLeave DEF Left
<1>5. ASSUME NEW p \in Players, NEW x \in Players, playerRevokePartyInvitation(p, x)
      PROVE  \A q \in Parties : Heirs(q)
  <2> DEFINE inv == RemoveInvite(x, {partyOf[p]})
             ended == {q \in {partyOf[p]} : disbandParty(q, inv)}
  <2>1. leader' = [q \in Parties |-> IF q \in ended THEN NoPlayer ELSE leader[q]]
    BY <1>5 DEF playerRevokePartyInvitation, Disband
  <2>2. \A q \in ended : members[q] = {}
    BY DEF disbandParty
  <2> HIDE DEF ended
  <2> QED BY <1>2, <2>1, <2>2 DEF Heirs
<1>6. ASSUME NEW p \in Players, NEW x \in Players,
             playerInviteToParty(p, x) \/ playerPassPartyLeadership(p, x)
      PROVE  \A q \in Parties : Heirs(q)
  <2>1. \/ leader' = leader
        \/ \E q \in Parties : leader[q] = NoPlayer /\ leader' = [leader EXCEPT ![q] = p]
        \/ /\ partyOf[p] \in Parties /\ x \in members[partyOf[p]]
           /\ leader' = [leader EXCEPT ![partyOf[p]] = x]
    BY <1>6 DEF playerInviteToParty, Found, InviteMore, playerPassPartyLeadership, Leads, TypeOK
  <2>2. leader \in [Parties -> Players \cup {NoPlayer}]
    BY DEF TypeOK
  <2> QED BY <1>1, <1>2, <2>1, <2>2
<1>7. ASSUME NEW p \in Players, NEW x \in Players, NEW c \in Channels,
             \/ Login(p) \/ playerJoinParty(p, x)
             \/ playerRequestChannels(p) \/ playerCreatePrivateChannel(p) \/ Reconnect(p)
             \/ playerReportRuleViolation(p)
             \/ playerOpenChannel(p, c) \/ playerCloseChannel(p, c)
             \/ playerChannelInvite(p, x) \/ playerChannelExclude(p, x)
             \/ playerProcessRuleViolation(p, x) \/ playerCloseRuleViolation(p, x)
      PROVE  \A q \in Parties : Heirs(q)
  BY <1>3, <1>7, OtherSteps DEF Login, playerJoinParty, Same, partyVars
<1>8. CASE UNCHANGED vars
  BY <1>3, <1>8 DEF vars, partyVars
<1> QED BY <1>4, <1>5, <1>6, <1>7, <1>8 DEF Next, Request, RequestOf, RequestOn, Channels

\* The leader of a party is followed by one of its members, and a party of three survives
\* whatever one player does.
THEOREM LeadersAlwaysComeFromWithin == Spec => LeadersComeFromWithin
<1>1. TypeOK /\ PartiesAgree /\ [Next]_vars => \A q \in Parties : Heirs(q)
  BY HeirStep
<1>2. (\A q \in Parties : Heirs(q)) =>
        [\A q \in Parties :
         /\ leader[q] \notin {NoPlayer, leader'[q]} => leader'[q] \in members[q] \cup {NoPlayer}
         /\ (\E x, y \in members[q] : x # y) => leader'[q] # NoPlayer]_vars
  BY DEF Heirs
<1> QED BY <1>1, <1>2, PartiesAlwaysAgree, PTL DEF Spec, LeadersComeFromWithin

\* Every variable of Groups keeps its type.
THEOREM TypeCorrect == Spec => []TypeOK
BY PartiesAlwaysAgree, PTL

\* A report of a rule violation never outlives its reporter or the gamemaster who answers.
THEOREM ReportsAlwaysHaveBothEnds == Spec => []ReportsHaveBothEnds
<1>1. Init => ReportsHaveBothEnds
  BY Beginning
<1>2. TypeOK /\ ReportsHaveBothEnds /\ [Next]_vars => ReportsHaveBothEnds'
  BY ReportStep
<1> QED BY <1>1, <1>2, TypeCorrect, PTL DEF Spec

\* No channel holds a pointer to a player who left the game, the party or the channel, but a
\* private channel to players who opened it without an invitation.
THEOREM ChannelUsersAlwaysBelong == Spec => []ChannelUsersBelong
<1>1. Init => ChannelUsersBelong
  BY Beginning
<1>2. /\ TypeOK /\ PartiesAgree /\ TypeOK' /\ PartiesAgree'
      /\ ChannelUsersBelong /\ [Next]_vars
      => ChannelUsersBelong'
  BY ChannelStep
<1> QED BY <1>1, <1>2, PartiesAlwaysAgree, PTL DEF Spec
=============================================================================

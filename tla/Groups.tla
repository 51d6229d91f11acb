------------------------------- MODULE Groups -------------------------------
(* The groups that players form - parties (party.cpp), chat channels          *)
(* (chat.cpp) and the reports of rule violations (game.cpp) - and what becomes*)
(* of them when a player leaves the game. All of them hold bare pointers to   *)
(* players and to each other; every operation is one task of the dispatcher.  *)
(*                                                                            *)
(* The order of Party::memberList only decides who succeeds a leader: members *)
(* are a set here and any of them may. The guild channels behave like the     *)
(* normal ones. Not modelled: the text of messages, icons, and shared         *)
(* experience, which changes no list.                                         *)
(* An operator named X_How is X with a bug; no specification uses it.         *)
EXTENDS Naturals

CONSTANTS
    Players,
    Gamemasters,   \* those with PlayerFlag_CanAnswerRuleViolations
    Parties,       \* places in memory for Party objects, used again when free
    PrivateIds,    \* the numbers 100 .. 9999 of private channels
    NormalChannels, RuleChannel,
    Reporters,     \* bound: the players who report violations of rules
    Chatters,      \* bound: the players who use private channels
    Custom,        \* bound: the players whose client also asks for what the dialogs do not
                   \* offer: to invite oneself, to open a private channel one is not invited to
    NoPlayer, NoParty, NoReport

ASSUME GroupsAssumption ==
    /\ Gamemasters \subseteq Players
    /\ NoPlayer \notin Players /\ NoReport \notin Players /\ NoReport # NoPlayer
    /\ NoParty \notin Parties
    /\ Parties \cap PrivateIds = {}
    /\ RuleChannel \in NormalChannels
    /\ NormalChannels \cap (Parties \cup PrivateIds) = {}
    /\ Reporters \subseteq Players /\ Chatters \subseteq Players /\ Custom \subseteq Players

Channels == Parties \cup PrivateIds \cup NormalChannels

VARIABLES
    online,        \* players in the game: not removed, known by name and id
    leader,        \* Party::leader; NoPlayer where there is no party
    members,       \* Party::memberList
    invited,       \* Party::inviteList
    partyOf,       \* Player::party
    invitations,   \* Player::invitePartyList
    selfInvited,   \* history: who invited himself to a party since he came into the game
    partyChannels, \* the keys of Chat::m_partyChannels
    owner,         \* PrivateChatChannel::m_owner; NoPlayer where there is no channel
    guests,        \* PrivateChatChannel::m_invites, by guid: a guest may be offline
    users,         \* ChatChannel::m_users, the entries of players in the game
    ghosts,        \* m_users of private channels, the entries of players who left and are freed
    uninvited,     \* history: who opened the private channel without an invitation to it
    report         \* Game::ruleViolations: NoReport, or the gamemaster who answers, NoPlayer if none yet

partyVars == <<leader, members, invited, partyOf, invitations, selfInvited>>
privateVars == <<owner, guests, ghosts, uninvited>>
chatVars == <<partyChannels, privateVars, users>>
vars == <<online, partyVars, chatVars, report>>

Init ==
    /\ online = {}
    /\ leader = [q \in Parties |-> NoPlayer]
    /\ members = [q \in Parties |-> {}]
    /\ invited = [q \in Parties |-> {}]
    /\ partyOf = [p \in Players |-> NoParty]
    /\ invitations = [p \in Players |-> {}]
    /\ selfInvited = {}
    /\ partyChannels = {}
    /\ owner = [i \in PrivateIds |-> NoPlayer]
    /\ guests = [i \in PrivateIds |-> {}]
    /\ users = [c \in Channels |-> {}]
    /\ ghosts = [i \in PrivateIds |-> {}]
    /\ uninvited = [i \in PrivateIds |-> {}]
    /\ report = [p \in Players |-> NoReport]

Leads(p) == partyOf[p] # NoParty /\ leader[partyOf[p]] = p
isInvited(p, i) == owner[i] = p \/ p \in guests[i]

-----------------------------------------------------------------------------
(* Players come, and the operations that make a party grow. *)

Login(p) ==
    /\ p \notin online
    /\ online' = online \cup {p}
    /\ UNCHANGED <<partyVars, chatVars, report>>

invitePlayer(q, x) ==
    /\ invited' = [invited EXCEPT ![q] = @ \cup {x}]
    /\ invitations' = [invitations EXCEPT ![x] = @ \cup {q}]

Found(p, x) ==
    /\ partyOf[p] = NoParty
    /\ \E q \in Parties :
         /\ leader[q] = NoPlayer
         /\ leader' = [leader EXCEPT ![q] = p]
         /\ partyOf' = [partyOf EXCEPT ![p] = q]
         /\ invitePlayer(q, x)
    /\ UNCHANGED members

InviteMore(p, x) ==
    /\ Leads(p)
    /\ x \notin invited[partyOf[p]]
    /\ invitePlayer(partyOf[p], x)
    /\ UNCHANGED <<leader, members, partyOf>>

\* That x does not lead a party which invites p follows from its not being in one. Nothing
\* keeps a player without a party from founding one with himself as the only guest.
playerInviteToParty(p, x) ==
    /\ p \in online /\ x \in online
    /\ partyOf[x] = NoParty
    /\ Found(p, x) \/ InviteMore(p, x)
    /\ selfInvited' = selfInvited \cup ({p} \cap {x})
    /\ UNCHANGED <<online, chatVars, report>>

\* A bug: a player joins a second party.
MayJoin_Twice(p, l) == Leads(l) /\ p \in invited[partyOf[l]]

MayJoin(p, l) ==
    /\ Leads(l) /\ p \in invited[partyOf[l]]
    /\ partyOf[p] = NoParty

playerJoinParty(p, l) ==
    /\ p \in online /\ l \in online
    /\ MayJoin(p, l)
    /\ LET q == partyOf[l] IN
         /\ members' = [members EXCEPT ![q] = @ \cup {p}]
         /\ partyOf' = [partyOf EXCEPT ![p] = q]
         /\ invited' = [invited EXCEPT ![q] = @ \ {p}]
         /\ invitations' = [invitations EXCEPT ![p] = @ \ {q}]
    /\ UNCHANGED <<online, leader, selfInvited, chatVars, report>>

playerPassPartyLeadership(p, x) ==
    /\ p \in online /\ x \in online
    /\ Leads(p) /\ x \in members[partyOf[p]]
    /\ leader' = [leader EXCEPT ![partyOf[p]] = x]
    /\ members' = [members EXCEPT ![partyOf[p]] = (@ \ {x}) \cup {p}]
    /\ UNCHANGED <<online, invited, partyOf, invitations, selfInvited, chatVars, report>>

-----------------------------------------------------------------------------
(* A party shrinks, and may end. *)

\* disband() of the parties in ended, whose lists are as given; notes is invitePartyList.
Disband(ended, lead, mem, inv, mine, notes) ==
    LET of(x) == {q \in ended : x = lead[q] \/ x \in mem[q]} IN
    /\ leader' = [q \in Parties |-> IF q \in ended THEN NoPlayer ELSE lead[q]]
    /\ members' = [q \in Parties |-> IF q \in ended THEN {} ELSE mem[q]]
    /\ invited' = [q \in Parties |-> IF q \in ended THEN {} ELSE inv[q]]
    /\ partyOf' = [x \in Players |-> IF of(x) # {} THEN NoParty ELSE mine[x]]
    /\ invitations' = [x \in Players |-> {q \in notes[x] : ~(q \in ended /\ x \in inv[q])}]

disbandParty(q, inv) == members[q] = {} /\ inv[q] = {}

\* removeInvite(p) in the parties S.
RemoveInvite(p, S) == [q \in Parties |-> IF q \in S THEN invited[q] \ {p} ELSE invited[q]]

playerRevokePartyInvitation(p, x) ==
    /\ p \in online /\ x \in online
    /\ Leads(p) /\ x \in invited[partyOf[p]]
    /\ LET S == {partyOf[p]}
           inv == RemoveInvite(x, S)
           ended == {q \in S : disbandParty(q, inv)} IN
         /\ Disband(ended, leader, members, inv, partyOf, [invitations EXCEPT ![x] = @ \ S])
         /\ partyChannels' = partyChannels \ ended
         /\ users' = [c \in Channels |-> IF c \in ended THEN {} ELSE users[c]]
    /\ UNCHANGED <<online, selfInvited, privateVars, report>>

\* A bug: a party ends when its leader goes.
Succession_Ends(p, q, inv) ==
    IF leader[q] # p THEN {[leader |-> leader[q], members |-> members[q] \ {p}]}
    ELSE {[leader |-> p, members |-> members[q]]}

\* What leaveParty makes of the leader and the members of q when p goes. A leader who goes
\* stays in place only if the party ends (hasNoLeader). The code looks at inviteList before
\* it takes p out of it.
Succession(p, q, inv) ==
    IF leader[q] # p THEN {[leader |-> leader[q], members |-> members[q] \ {p}]}
    ELSE IF members[q] = {} \/ (inv[q] = {} /\ \E m \in members[q] : members[q] = {m})
    THEN {[leader |-> p, members |-> members[q]]}
    ELSE {[leader |-> h, members |-> members[q] \ {h}] : h \in members[q]}

\* leaveParty of p, with earlier disbanded parties and lists inv; q is NoParty or the party of
\* p. It takes p out of inviteList and not the party out of p's invitePartyList: the pointer of
\* a player who invited himself stays there, even when the party is deleted.
LeaveParty(p, q, earlier, inv, notes) ==
    IF q = NoParty
    THEN /\ Disband(earlier, leader, members, inv, partyOf, notes)
         /\ partyChannels' = partyChannels \ earlier
    ELSE \E s \in Succession(p, q, inv) :
            LET inv2 == [inv EXCEPT ![q] = @ \ {p}]
                ends == s.leader = p \/ (s.members = {} /\ inv2[q] = {})
                ended == earlier \cup (IF ends THEN {q} ELSE {}) IN
            /\ Disband(ended, [leader EXCEPT ![q] = s.leader], [members EXCEPT ![q] = s.members],
                       inv2, [partyOf EXCEPT ![p] = NoParty], notes)
            /\ partyChannels' = partyChannels \ ended

\* What remains of the users: the channels of parties that ended are closed, and from each
\* other channel the players gone[c] are removed.
Remaining(gone) ==
    [c \in Channels |-> IF c \in Parties \ partyChannels' THEN {} ELSE users[c] \ gone[c]]

playerLeaveParty(p) ==
    /\ p \in online /\ partyOf[p] # NoParty
    /\ LeaveParty(p, partyOf[p], {}, invited, invitations)
    /\ users' = Remaining([c \in Channels |-> IF c = partyOf[p] THEN {p} ELSE {}])
    /\ UNCHANGED <<online, selfInvited, privateVars, report>>

-----------------------------------------------------------------------------
(* Chat channels. *)

\* getChannelList creates the channel of the player's party.
WithPartyChannel(p) == partyChannels \cup ({partyOf[p]} \ {NoParty})

playerRequestChannels(p) ==
    /\ p \in online
    /\ partyChannels' = WithPartyChannel(p)
    /\ UNCHANGED <<online, partyVars, privateVars, users, report>>

\* getChannel(p, c). Only getChannelList, which fills the dialog of channels, looks at the
\* invitations to a private channel; a client may name the channel without one.
MayOpen(p, c) ==
    \/ c = partyOf[p] /\ c \in partyChannels
    \/ c \in NormalChannels /\ (c = RuleChannel => p \in Gamemasters)
    \/ c \in PrivateIds /\ owner[c] # NoPlayer

playerOpenChannel(p, c) ==
    /\ p \in online /\ MayOpen(p, c)
    /\ users' = [users EXCEPT ![c] = @ \cup {p}]
    /\ uninvited' = [i \in PrivateIds |-> IF i = c /\ ~isInvited(p, i)
                                          THEN uninvited[i] \cup {p} ELSE uninvited[i]]
    /\ UNCHANGED <<online, partyVars, partyChannels, owner, guests, ghosts, report>>

\* The channels I are deleted: closeChannel and delete. Of the others, freed are the entries
\* of players who are gone. (closeChannel and talk call these too, which changes nothing here.)
DeletePrivate(I, freed) ==
    /\ owner' = [i \in PrivateIds |-> IF i \in I THEN NoPlayer ELSE owner[i]]
    /\ guests' = [i \in PrivateIds |-> IF i \in I THEN {} ELSE guests[i]]
    /\ ghosts' = [i \in PrivateIds |-> IF i \in I THEN {} ELSE freed[i]]
    /\ uninvited' = [i \in PrivateIds |-> IF i \in I THEN {} ELSE uninvited[i]]

OwnedBy(p) == {i \in PrivateIds : owner[i] = p}

playerCloseChannel(p, c) ==
    /\ p \in online /\ p \in users[c]
    /\ c \in Parties => c = partyOf[p]
    /\ DeletePrivate({c} \cap OwnedBy(p), ghosts)
    /\ users' = [users EXCEPT ![c] = IF c \in OwnedBy(p) THEN {} ELSE @ \ {p}]
    /\ UNCHANGED <<online, partyVars, partyChannels, report>>

playerCreatePrivateChannel(p) ==
    /\ p \in online
    /\ OwnedBy(p) = {}
    /\ \E i \in OwnedBy(NoPlayer) :
         /\ owner' = [owner EXCEPT ![i] = p]
         /\ users' = [users EXCEPT ![i] = {p}]
    /\ UNCHANGED <<online, partyVars, partyChannels, guests, ghosts, uninvited, report>>

playerChannelInvite(p, x) ==
    /\ p \in online /\ x \in online /\ x # p
    /\ \E i \in OwnedBy(p) : guests' = [guests EXCEPT ![i] = @ \cup {x}]
    /\ UNCHANGED <<online, partyVars, partyChannels, owner, ghosts, uninvited, users, report>>

\* A bug: the excluded player keeps the channel open.
playerChannelExclude_Stays(p, x) ==
    /\ p \in online /\ x \in online /\ x # p
    /\ \E i \in OwnedBy(p) :
         /\ x \in guests[i]
         /\ guests' = [guests EXCEPT ![i] = @ \ {x}]
    /\ UNCHANGED <<online, partyVars, partyChannels, owner, ghosts, uninvited, users, report>>

playerChannelExclude(p, x) ==
    /\ p \in online /\ x \in online /\ x # p
    /\ \E i \in OwnedBy(p) :
         /\ x \in guests[i]
         /\ guests' = [guests EXCEPT ![i] = @ \ {x}]
         /\ users' = [users EXCEPT ![i] = @ \ {x}]
    /\ UNCHANGED <<online, partyVars, partyChannels, owner, ghosts, uninvited, report>>

\* Whom removeUserFromAllChannels takes out of c: it looks where p is invited, not where p is.
\* (From the channel of its party p is taken out here or by leaveParty before.)
TakenOut(p, c) ==
    IF c \in OwnedBy(p) THEN users[c]
    ELSE IF (c \in PrivateIds => isInvited(p, c)) /\ (c \in Parties => c = partyOf[p])
    THEN {p} ELSE {}

\* freed is {p} if the player is freed afterwards: its id is used by no player again, and
\* what entries it has left stay as they are.
removeUserFromAllChannels(p, freed) ==
    /\ DeletePrivate(OwnedBy(p),
                     [i \in PrivateIds |-> ghosts[i] \cup ((freed \cap users[i]) \ TakenOut(p, i))])
    /\ users' = Remaining([c \in Channels |->
                     TakenOut(p, c) \cup (IF c \in PrivateIds THEN freed ELSE {})])

\* A client takes over a player whose client is still there (ProtocolGame::login).
Reconnect(p) ==
    /\ p \in online
    /\ partyChannels' = WithPartyChannel(p)
    /\ removeUserFromAllChannels(p, {})
    /\ UNCHANGED <<online, partyVars, report>>

-----------------------------------------------------------------------------
(* Reports of rule violations. *)

playerReportRuleViolation(p) ==
    /\ p \in online
    /\ report' = [report EXCEPT ![p] = NoPlayer]
    /\ UNCHANGED <<online, partyVars, chatVars>>

\* A bug: anybody may answer a report.
playerProcessRuleViolation_Anyone(g, p) ==
    /\ g \in online /\ p \in online
    /\ report[p] = NoPlayer
    /\ report' = [report EXCEPT ![p] = g]
    /\ UNCHANGED <<online, partyVars, chatVars>>

playerProcessRuleViolation(g, p) ==
    /\ g \in online \cap Gamemasters /\ p \in online
    /\ report[p] = NoPlayer
    /\ report' = [report EXCEPT ![p] = g]
    /\ UNCHANGED <<online, partyVars, chatVars>>

\* Also playerCancelRuleViolation, by which the reporter does the same.
playerCloseRuleViolation(g, p) ==
    /\ g \in online /\ p \in online
    /\ report[p] # NoReport
    /\ report' = [report EXCEPT ![p] = NoReport]
    /\ UNCHANGED <<online, partyVars, chatVars>>

\* A bug: the reports a gamemaster was answering are left to it.
ReportsOf_Own(p) == {p}

\* The reports that end when p goes: its own, and those it answers.
ReportsOf(p) == {x \in Players : x = p \/ (report[x] = p /\ p \in Gamemasters)}

-----------------------------------------------------------------------------
(* A player leaves the game: Player::onCreatureDisappear, before removeCreature frees it. *)

\* clearPartyInvitations comes before leaveParty: it may end parties, p's own too if p is its
\* only guest. Where p's pointer leads to a party that is deleted, it finds the list of a new
\* party at that place or (what it reads there is undefined) no invitation.
LeaveGame(p) ==
    /\ p \in online
    /\ online' = online \ {p}
    /\ LET inv == RemoveInvite(p, invitations[p])
           earlier == {q \in invitations[p] : p \in invited[q] /\ disbandParty(q, inv)} IN
       LeaveParty(p, IF partyOf[p] \in earlier THEN NoParty ELSE partyOf[p], earlier, inv,
                  [invitations EXCEPT ![p] = {}])
    /\ selfInvited' = selfInvited \ {p}
    /\ report' = [x \in Players |-> IF x \in ReportsOf(p) THEN NoReport ELSE report[x]]
    /\ removeUserFromAllChannels(p, {p})

RequestOf(p, x) ==
    \/ playerInviteToParty(p, x) /\ (x = p => p \in Custom)
    \/ playerJoinParty(p, x)
    \/ playerPassPartyLeadership(p, x)
    \/ playerRevokePartyInvitation(p, x)
    \/ playerChannelInvite(p, x) /\ x \in Chatters
    \/ playerChannelExclude(p, x)
    \/ playerProcessRuleViolation(p, x)
    \/ playerCloseRuleViolation(p, x)

RequestOn(p, c) ==
    \/ playerOpenChannel(p, c)
       /\ (c \in PrivateIds => p \in Chatters /\ (isInvited(p, c) \/ p \in Custom))
    \/ playerCloseChannel(p, c)

Request(p) ==
    \/ playerLeaveParty(p)
    \/ playerRequestChannels(p)
    \/ playerCreatePrivateChannel(p) /\ p \in Chatters
    \/ Reconnect(p)
    \/ playerReportRuleViolation(p) /\ p \in Reporters
    \/ \E x \in Players : RequestOf(p, x)
    \/ \E c \in Channels : RequestOn(p, c)

Next == \E p \in Players : Login(p) \/ LeaveGame(p) \/ Request(p)

Spec == Init /\ [][Next]_vars

-----------------------------------------------------------------------------

TypeOK ==
    /\ online \subseteq Players
    /\ leader \in [Parties -> Players \cup {NoPlayer}]
    /\ members \in [Parties -> SUBSET Players]
    /\ invited \in [Parties -> SUBSET Players]
    /\ partyOf \in [Players -> Parties \cup {NoParty}]
    /\ invitations \in [Players -> SUBSET Parties]
    /\ selfInvited \subseteq Players
    /\ partyChannels \subseteq Parties
    /\ owner \in [PrivateIds -> Players \cup {NoPlayer}]
    /\ guests \in [PrivateIds -> SUBSET Players]
    /\ users \in [Channels -> SUBSET Players]
    /\ ghosts \in [PrivateIds -> SUBSET Players]
    /\ uninvited \in [PrivateIds -> SUBSET Players]
    /\ report \in [Players -> Gamemasters \cup {NoPlayer, NoReport}]

\* The pointers of players to parties and of parties to players agree: a player is in the
\* party that lists it and in no other, whom a party invited knows it, a party that nobody
\* joined or is invited to does not live on, and nobody in a party's lists has left the game.
\* Only a player who invited himself can be invited where he already is, or keep a pointer to
\* a party that does not invite him (and may be deleted) until he leaves the game.
PartiesAgree ==
    /\ \A p \in Players, q \in Parties :
         /\ partyOf[p] = q <=> (leader[q] = p \/ p \in members[q])
         /\ p \in invited[q] => q \in invitations[p]
         /\ p \in selfInvited \/ (q \in invitations[p] => p \in invited[q] /\ partyOf[p] # q)
    /\ \A q \in Parties :
         /\ leader[q] \notin members[q]
         /\ leader[q] # NoPlayer <=> members[q] \cup invited[q] # {}
         /\ members[q] \cup invited[q] \cup ({leader[q]} \ {NoPlayer}) \subseteq online

\* Leadership stays within the party, and a party of three or more survives any one step:
\* the departure of its leader passes it on and does not end it.
LeadersComeFromWithin ==
    [][\A q \in Parties :
         /\ leader[q] \notin {NoPlayer, leader'[q]} => leader'[q] \in members[q] \cup {NoPlayer}
         /\ (\E x, y \in members[q] : x # y) => leader'[q] # NoPlayer]_vars

\* Channels hold bare pointers to players: a user of a channel is in the game and belongs
\* there, a channel's own party or owner still exists, and its owner is one of its users. The
\* exception are players who opened a private channel without an invitation: they may stay on
\* its list when they leave the game, freed, and nobody else ever does.
ChannelUsersBelong ==
    /\ \A c \in Channels : users[c] \subseteq online
    /\ users[RuleChannel] \subseteq Gamemasters
    /\ \A q \in Parties : \A p \in users[q] : q \in partyChannels /\ partyOf[p] = q
    /\ \A q \in partyChannels : leader[q] # NoPlayer
    /\ \A i \in PrivateIds :
         /\ owner[i] # NoPlayer => owner[i] \in users[i]
         /\ owner[i] = NoPlayer => users[i] \cup guests[i] \cup uninvited[i] = {}
         /\ \A p \in users[i] : isInvited(p, i) \/ p \in uninvited[i]
         /\ ghosts[i] \subseteq uninvited[i]
         /\ \A j \in PrivateIds : owner[i] = owner[j] => owner[i] = NoPlayer \/ i = j

\* A report holds bare pointers to the reporter and to the gamemaster who answers it: both
\* are in the game as long as it is there.
ReportsHaveBothEnds ==
    \A p \in Players : report[p] # NoReport =>
        p \in online /\ report[p] \in (online \cap Gamemasters) \cup {NoPlayer}
=============================================================================

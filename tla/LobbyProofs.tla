---------------------------- MODULE LobbyProofs -----------------------------
(***************************************************************************)
(* The session state machine of the lobby registry, for every pool of      *)
(* connections and every set of requests.                                  *)
(***************************************************************************)
EXTENDS Lobby, IdentityProofs, SequenceTheorems

-----------------------------------------------------------------------------
(* The lobby drives the identity registry only through its own operations. *)

\* Every lobby step is a step of the identity registry or leaves it alone.
LEMMA LobbyStepIdentity == [LobbyNext]_vars => [IdentityNext]_identityVars
<1> SUFFICES ASSUME LobbyNext PROVE IdentityNext \/ UNCHANGED identityVars
  BY DEF vars
<1> USE DEF IdentityNext
<1>1. ASSUME NEW s \in Session, Accept(s) \/ SilentLogin(s) \/ removeSession(s)
      PROVE  IdentityNext
  BY <1>1 DEF Accept, SilentLogin, removeSession
<1>2. ASSUME NEW s \in Session, NEW req \in Requests,
             ResetDedicated(s, req) \/ StartMatchmaking(s, req)
      PROVE  UNCHANGED identityVars
  BY <1>2 DEF ResetDedicated, StartMatchmaking
<1>3. ASSUME NEW s \in Session, NEW msid \in 1..MaxMatches, CancelMatchmaking(s, msid)
      PROVE  UNCHANGED identityVars
  BY <1>3 DEF CancelMatchmaking
<1>4. ASSUME NEW s \in Session, NEW gid \in GameIDs, NEW pid \in PlayerIDs,
             \/ FinalizeGame(s, gid)
             \/ RemovePlayer(s, gid, pid)
             \/ \E report \in MeshReports : UpdateMesh(s, gid, report)
             \/ \E attributes \in AttrMaps : SetPlayerAttrs(s, gid, pid, attributes)
             \/ \E capacity \in Capacities : SetPlayerCapacity(s, gid, capacity)
             \/ \E attributes \in AttrMaps : SetGameAttrs(s, gid, attributes)
             \/ \E settings \in SettingBits : SetGameSettings(s, gid, settings)
             \/ \E gameState \in GameStates : AdvanceGameState(s, gid, gameState)
             \/ ReplayGame(s, gid)
      PROVE  UNCHANGED identityVars
  BY <1>4 DEF FinalizeGame, RemovePlayer, UpdateMesh, SetPlayerAttrs, SetPlayerCapacity,
              SetGameAttrs, SetGameSettings, AdvanceGameState, ReplayGame, SetField
<1>5. 0 \in PlayerIDs
  BY IdentityAssumption DEF PlayerIDs, MinInt
<1> QED BY <1>1, <1>2, <1>3, <1>4, <1>5 DEF LobbyNext

\* The identity registry inside the lobby keeps all its invariants.
LEMMA LobbyIdentity == LobbySpec => []IdentityInv
<1>1. LobbyInit => IdentityInit
  BY DEF LobbyInit
<1> QED BY <1>1, LobbyStepIdentity, IdentityInvariant, PTL DEF LobbySpec, IdentitySpec

-----------------------------------------------------------------------------
(* What the operations on a game do to its roster.                         *)

GameFields == {"host", "members", "attrs", "capacity", "topology", "state", "settings",
               "slots", "playerAttrs", "mesh", "meshReady"}

\* A game record with a sequence of distinct sessions as its roster.
IsGame(game) ==
    /\ DOMAIN game = GameFields
    /\ game.host \in Session
    /\ game.members \in Seq(Session)
    /\ IsInjective(game.members)
    /\ game.capacity \in Int

\* The roster-relevant part of a game is left alone.
SameRoster(new, game) ==
    /\ IsGame(new)
    /\ new.host = game.host
    /\ new.members = game.members

\* ensureMembershipState leaves the roster alone.
LEMMA EnsureRoster ==
    ASSUME NEW game, IsGame(game)
    PROVE  SameRoster(ensureMembershipState(game), game)
BY DEF SameRoster, IsGame, ensureMembershipState, GameFields

\* refreshMeshReadiness leaves the roster alone.
LEMMA RefreshRoster ==
    ASSUME NEW game, IsGame(game)
    PROVE  SameRoster(refreshMeshReadiness(game), game)
BY DEF SameRoster, IsGame, refreshMeshReadiness, GameFields

\* Appending a new session to a roster.
LEMMA AppendRoster ==
    ASSUME NEW m \in Seq(Session), IsInjective(m), NEW s \in Session, s \notin ToSet(m)
    PROVE  /\ Append(m, s) \in Seq(Session)
           /\ IsInjective(Append(m, s))
           /\ ToSet(Append(m, s)) = ToSet(m) \cup {s}
BY DEF IsInjective, ToSet

\* Cutting one position out of a roster.
LEMMA CutRoster ==
    ASSUME NEW m \in Seq(Session), IsInjective(m), NEW i \in DOMAIN m
    PROVE  /\ RemoveAt(m, i) \in Seq(Session)
           /\ IsInjective(RemoveAt(m, i))
           /\ ToSet(RemoveAt(m, i)) = ToSet(m) \ {m[i]}
           /\ Len(RemoveAt(m, i)) = Len(m) - 1
<1> DEFINE r == RemoveAt(m, i)
<1>1. /\ Len(m) \in Nat
      /\ DOMAIN m = 1..Len(m)
      /\ i \in 1..Len(m)
  OBVIOUS
<1>2. /\ SubSeq(m, 1, i - 1) \in Seq(Session)
      /\ Len(SubSeq(m, 1, i - 1)) = i - 1
      /\ \A j \in 1..(i - 1) : SubSeq(m, 1, i - 1)[j] = m[j]
  BY <1>1
<1>3. /\ SubSeq(m, i + 1, Len(m)) \in Seq(Session)
      /\ Len(SubSeq(m, i + 1, Len(m))) = Len(m) - i
      /\ \A j \in 1..(Len(m) - i) : SubSeq(m, i + 1, Len(m))[j] = m[i + j]
  BY <1>1
<1>4. /\ r \in Seq(Session)
      /\ Len(r) = Len(m) - 1
      /\ \A j \in 1..(Len(m) - 1) : r[j] = IF j < i THEN m[j] ELSE m[j + 1]
  <2> DEFINE a == SubSeq(m, 1, i - 1)
             b == SubSeq(m, i + 1, Len(m))
  <2>1. r = a \o b
    BY DEF RemoveAt
  <2>2. a \in Seq(Session) /\ b \in Seq(Session) /\ Len(a) = i - 1 /\ Len(b) = Len(m) - i
    BY <1>2, <1>3
  <2> HIDE DEF a, b
  <2>3. /\ a \o b \in Seq(Session)
        /\ Len(a \o b) = Len(a) + Len(b)
        /\ \A j \in 1..(Len(a) + Len(b)) :
             (a \o b)[j] = IF j <= Len(a) THEN a[j] ELSE b[j - Len(a)]
    BY <2>2, ConcatProperties
  <2>4. ASSUME NEW j \in 1..(Len(m) - 1)
        PROVE  (a \o b)[j] = IF j < i THEN m[j] ELSE m[j + 1]
    <3>1. CASE j < i
      BY <1>1, <1>2, <2>2, <2>3, <3>1 DEF a
    <3>2. CASE j >= i
      <4>1. b[j - (i - 1)] = m[i + (j - (i - 1))]
        BY <1>1, <1>3, <3>2, j - (i - 1) \in 1..(Len(m) - i) DEF b
      <4>2. i + (j - (i - 1)) = j + 1
        BY <1>1
      <4>3. (a \o b)[j] = b[j - Len(a)] /\ Len(a) = i - 1
        BY <1>1, <2>2, <2>3, <3>2
      <4>4. (a \o b)[j] = m[j + 1]
        BY <4>1, <4>2, <4>3, Zenon
      <4>5. ~ (j < i)
        BY <1>1, <3>2
      <4> QED BY <4>4, <4>5
    <3>3. j < i \/ j >= i
      BY <1>1
    <3> QED BY <3>1, <3>2, <3>3, Zenon
  <2> QED BY <1>1, <2>1, <2>2, <2>3, <2>4
<1> HIDE DEF r
<1>5. IsInjective(r)
  BY <1>1, <1>4 DEF IsInjective
<1>6. ToSet(r) \subseteq ToSet(m) \ {m[i]}
  BY <1>1, <1>4 DEF ToSet, IsInjective
<1>7. ASSUME NEW j \in 1..Len(m), m[j] # m[i]
      PROVE  m[j] \in ToSet(r)
  <2>1. CASE j < i
    BY <1>1, <1>4, <2>1 DEF ToSet
  <2>2. CASE j > i
    BY <1>1, <1>4, <2>2, r[j - 1] = m[j] DEF ToSet
  <2> QED BY <1>1, <1>7, <2>1, <2>2
<1>8. ToSet(m) \ {m[i]} \subseteq ToSet(r)
  BY <1>1, <1>7 DEF ToSet
<1> QED BY <1>4, <1>5, <1>6, <1>8 DEF r

\* addMember appends the session, or leaves the roster as it was.
LEMMA AddRoster ==
    ASSUME NEW game, IsGame(game), NEW s \in Session
    PROVE  /\ IsGame(addMember(game, s))
           /\ addMember(game, s).host = game.host
           /\ addMember(game, s).capacity = game.capacity
           /\ Roster(addMember(game, s)) =
                IF Admits(game, s) THEN Roster(game) \cup {s} ELSE Roster(game)
           /\ Len(addMember(game, s).members) =
                IF Admits(game, s) THEN Len(game.members) + 1 ELSE Len(game.members)
<1> DEFINE e == ensureMembershipState(game)
<1>1. SameRoster(e, game) /\ e.capacity = game.capacity
  BY EnsureRoster DEF ensureMembershipState, IsGame, GameFields
<1>2. CASE Admits(game, s)
  <2>1. s \notin ToSet(game.members)
    BY <1>2 DEF Admits, Roster
  <2>2. /\ Append(game.members, s) \in Seq(Session)
        /\ IsInjective(Append(game.members, s))
        /\ ToSet(Append(game.members, s)) = ToSet(game.members) \cup {s}
        /\ Len(Append(game.members, s)) = Len(game.members) + 1
    BY <2>1, AppendRoster DEF IsGame
  <2>3. /\ DOMAIN addMember(game, s) = GameFields
        /\ addMember(game, s).host = game.host
        /\ addMember(game, s).capacity = game.capacity
        /\ addMember(game, s).members = Append(game.members, s)
    BY <1>1, <1>2 DEF addMember, SameRoster, IsGame, GameFields
  <2> QED BY <1>1, <1>2, <2>2, <2>3 DEF IsGame, Roster
<1>3. CASE ~ Admits(game, s)
  BY <1>1, <1>3 DEF addMember, SameRoster, Roster
<1> QED BY <1>2, <1>3

\* A new game has its host as its one member.
LEMMA NewRoster ==
    ASSUME NEW host \in Session, NEW attrs, NEW capacity \in Int, NEW topology
    PROVE  /\ IsGame(newGame(host, attrs, capacity, topology))
           /\ newGame(host, attrs, capacity, topology).host = host
           /\ Roster(newGame(host, attrs, capacity, topology)) = {host}
           /\ newGame(host, attrs, capacity, topology).capacity = capacity
           /\ Len(newGame(host, attrs, capacity, topology).members) = 1
<1> DEFINE empty == [host |-> host, members |-> <<>>, attrs |-> attrs,
                     capacity |-> capacity, topology |-> topology, state |-> 1,
                     settings |-> 284, slots |-> <<>>, playerAttrs |-> <<>>,
                     mesh |-> {}, meshReady |-> {}]
<1>1. IsGame(empty) /\ empty.host = host
  BY DEF IsGame, GameFields, IsInjective
<1>2. Roster(empty) = {} /\ Len(empty.members) = 0 /\ empty.capacity = capacity
  BY DEF Roster, ToSet
<1>3. Admits(empty, host)
  <2>1. Len(empty.members) = 0 /\ empty.capacity = capacity
    OBVIOUS
  <2>2. ~ (empty.capacity > 0 /\ Len(empty.members) >= empty.capacity)
    BY <2>1
  <2> QED BY <1>2, <2>2, Zenon DEF Admits
<1>4. newGame(host, attrs, capacity, topology) = addMember(empty, host)
  BY DEF newGame
<1> HIDE DEF empty
<1>5. /\ IsGame(addMember(empty, host))
      /\ addMember(empty, host).host = empty.host
      /\ addMember(empty, host).capacity = empty.capacity
      /\ Roster(addMember(empty, host)) = Roster(empty) \cup {host}
      /\ Len(addMember(empty, host).members) = Len(empty.members) + 1
  BY <1>1, <1>3, AddRoster
<1> QED BY <1>1, <1>2, <1>4, <1>5

\* removeMember takes exactly the given session out of the roster.
LEMMA RemoveRoster ==
    ASSUME NEW game, IsGame(game), NEW s \in Session
    PROVE  /\ IsGame(removeMember(game, s))
           /\ removeMember(game, s).host = game.host
           /\ Roster(removeMember(game, s)) = Roster(game) \ {s}
           /\ Len(removeMember(game, s).members) <= Len(game.members)
<1>1. CASE s \notin Roster(game)
  BY <1>1 DEF removeMember, IsGame
<1>2. CASE s \in Roster(game)
  <2> DEFINE Here(j) == game.members[j] = s /\ \A k \in 1..(j - 1) : game.members[k] # s
             i == CHOOSE j \in DOMAIN game.members : Here(j)
  <2>1. \E j \in DOMAIN game.members : Here(j)
    BY <1>2 DEF Roster, ToSet, IsGame, IsInjective
  <2>2. i \in DOMAIN game.members /\ game.members[i] = s
    BY <2>1
  <2>3. /\ DOMAIN removeMember(game, s) = GameFields
        /\ removeMember(game, s).host = game.host
        /\ removeMember(game, s).capacity = game.capacity
        /\ removeMember(game, s).members = RemoveAt(game.members, i)
    BY <1>2 DEF removeMember, IsGame, GameFields
  <2> HIDE DEF i
  <2>4. /\ RemoveAt(game.members, i) \in Seq(Session)
        /\ IsInjective(RemoveAt(game.members, i))
        /\ ToSet(RemoveAt(game.members, i)) = ToSet(game.members) \ {s}
        /\ Len(RemoveAt(game.members, i)) = Len(game.members) - 1
    BY <2>2, CutRoster DEF IsGame
  <2> QED BY <2>3, <2>4 DEF IsGame, Roster
<1> QED BY <1>1, <1>2

-----------------------------------------------------------------------------
(* The inductive invariant.                                                *)

FieldsOK ==
    /\ gameID \in [Session -> GameIDs]
    /\ pending \in [Session -> GameIDs]
    /\ queuedMatchID \in [Session -> 0..MaxMatches]
    /\ matchQueue \subseteq MatchRequests
    /\ nextGameID \in 1..(MaxGames + 1)
    /\ nextMatchID \in 1..(MaxMatches + 1)
    /\ DOMAIN games \subseteq 1..(nextGameID - 1)
    /\ joined \in [Session -> Nat]

RostersOK == \A g \in DOMAIN games : IsGame(games[g])

\* A session is found by its persona in its own game, also when some members
\* have not logged in: at most one of them has persona 0.
DistinctPersonas ==
    \A g \in DOMAIN games : \A s, t \in Roster(games[g]) : persona[s] = persona[t] => s = t

LobbyInv ==
    /\ FieldsOK
    /\ RostersOK
    /\ SessionStateMachine
    /\ HostIsMember
    /\ DistinctPersonas

\* The empty lobby satisfies the invariant.
LEMMA LobbyInitInv == LobbyInit => LobbyInv
BY LobbyAssumption, IdentityAssumption
   DEF LobbyInit, IdentityInit, LobbyInv, FieldsOK, RostersOK, SessionStateMachine, HostIsMember,
       DistinctPersonas, GameIDs, Member

\* sessionForPlayerID returns members, and a member by its own persona.
LEMMA FindMember ==
    ASSUME NEW game, IsGame(game), NEW p
    PROVE  \A s \in sessionForPlayerID(game, p) : s \in Roster(game) /\ persona[s] = p
BY DEF sessionForPlayerID, Roster, ToSet

\* A member whose persona no other member has is found by its own persona.
LEMMA FindSelf ==
    ASSUME LobbyInv, NEW g \in DOMAIN games, NEW s \in Roster(games[g])
    PROVE  sessionForPlayerID(games[g], persona[s]) = {s}
<1> DEFINE m == games[g].members
<1>1. m \in Seq(Session) /\ IsInjective(m)
  BY DEF LobbyInv, RostersOK, IsGame
<1>2. PICK i \in DOMAIN m : m[i] = s
  BY DEF Roster, ToSet
<1>3. \A j \in DOMAIN m : persona[m[j]] = persona[s] <=> j = i
  BY <1>1, <1>2 DEF LobbyInv, DistinctPersonas, Roster, ToSet, IsInjective
<1>4. \A k \in 1..(i - 1) : k \in DOMAIN m /\ k # i
  BY <1>1, <1>2
<1> QED BY <1>1, <1>2, <1>3, <1>4 DEF sessionForPlayerID

\* Under the invariant, being in a game is having a GameID.
LEMMA InGameMeaning ==
    ASSUME LobbyInv, NEW s \in Session
    PROVE  InGame(s) <=> gameID[s] # 0
<1>1. ASSUME gameID[s] # 0
      PROVE  InGame(s)
  <2>1. gameID[s] \in DOMAIN games /\ s \in Roster(games[gameID[s]])
    BY <1>1 DEF LobbyInv, SessionStateMachine, Member
  <2> QED BY <2>1, FindSelf DEF InGame
<1>2. InGame(s) => gameID[s] # 0
  BY DEF InGame, LobbyInv, FieldsOK
<1> QED BY <1>1, <1>2

\* A closed connection is on no roster.
LEMMA MembersOpen ==
    ASSUME LobbyInv, NEW g \in DOMAIN games
    PROVE  Roster(games[g]) \subseteq Session /\ Roster(games[g]) \subseteq open
<1>1. Roster(games[g]) \subseteq Session
  BY DEF LobbyInv, RostersOK, IsGame, Roster, ToSet
<1>2. \A s \in Roster(games[g]) : gameID[s] = g
  BY <1>1 DEF LobbyInv, SessionStateMachine, Member
<1>3. g # 0
  BY DEF LobbyInv, FieldsOK
<1> QED BY <1>1, <1>2, <1>3 DEF LobbyInv, SessionStateMachine

\* A step that touches no roster and no queue.
LEMMA KeepRosters ==
    ASSUME LobbyInv,
           UNCHANGED <<open, persona, gameID, queuedMatchID, matchQueue, nextGameID, nextMatchID>>,
           DOMAIN games' = DOMAIN games,
           \A g \in DOMAIN games : SameRoster(games'[g], games[g]),
           pending' \in [Session -> GameIDs],
           \A s \in Session : pending'[s] \in {0, pending[s]},
           joined' \in [Session -> Nat]
    PROVE  LobbyInv'
<1>1. \A g \in DOMAIN games : Roster(games'[g]) = Roster(games[g])
  BY DEF SameRoster, Roster
<1>2. FieldsOK'
  BY DEF LobbyInv, FieldsOK
<1>3. RostersOK'
  BY DEF RostersOK, SameRoster
<1>4. SessionStateMachine'
  BY <1>1 DEF LobbyInv, SessionStateMachine, Member, SameRoster
<1>5. HostIsMember'
  BY <1>1 DEF LobbyInv, HostIsMember, Member, SameRoster
<1>6. DistinctPersonas'
  BY <1>1 DEF LobbyInv, DistinctPersonas
<1> QED BY <1>2, <1>3, <1>4, <1>5, <1>6 DEF LobbyInv

\* A member leaves its game; if it is the host, the game is closed.
LEMMA LeaveInv ==
    ASSUME LobbyInv, NEW t \in Session, NEW g \in DOMAIN games, t \in Roster(games[g]),
           Leave(t, g), persona' = persona, open' \in {open, open \ {t}}
    PROVE  LobbyInv'
<1> DEFINE left == removeMember(games[g], t)
<1>1. /\ IsGame(left)
      /\ left.host = games[g].host
      /\ Roster(left) = Roster(games[g]) \ {t}
  BY RemoveRoster DEF LobbyInv, RostersOK
<1>2. \A s \in Session : s \in Roster(games[g]) <=> gameID[s] = g
  BY DEF LobbyInv, SessionStateMachine, Member
<1>3. g # 0 /\ gameID[t] = g /\ queuedMatchID[t] = 0
  BY <1>2 DEF LobbyInv, FieldsOK, SessionStateMachine
<1>4. matchQueue' = matchQueue
  BY <1>3 DEF Leave, Dequeued, LobbyInv, SessionStateMachine, FieldsOK, MatchRequests
<1>5. Roster(games[g]) \subseteq Session
  BY DEF LobbyInv, RostersOK, IsGame, Roster, ToSet
<1> HIDE DEF left
<1>6. CASE games[g].host = t
  <2>1. /\ games' = Without(games, g)
        /\ gameID' = Assign(gameID, Roster(games[g]), 0)
        /\ pending' = Assign(pending, Roster(games[g]), 0)
        /\ queuedMatchID' = Assign(queuedMatchID, Roster(games[g]), 0)
        /\ joined' = Assign(joined, Roster(games[g]), 0)
        /\ UNCHANGED <<nextGameID, nextMatchID>>
    <3>1. Roster(left) \cup {t} = Roster(games[g])
      BY <1>1
    <3> QED BY <1>6, <3>1 DEF Leave, left
  <2>2. FieldsOK'
    BY <1>4, <2>1, LobbyAssumption DEF LobbyInv, FieldsOK, Assign, Without, GameIDs
  <2>3. RostersOK'
    BY <2>1 DEF LobbyInv, RostersOK, Without
  <2>4. SessionStateMachine'
    <3>1. \A s \in Session : gameID'[s] = IF gameID[s] = g THEN 0 ELSE gameID[s]
      BY <1>2, <2>1 DEF Assign
    <3>2. \A s \in Session : pending'[s] = IF gameID[s] = g THEN 0 ELSE pending[s]
      BY <1>2, <2>1 DEF Assign
    <3>3. \A s \in Session : queuedMatchID'[s] = queuedMatchID[s]
      BY <1>2, <1>3, <2>1 DEF Assign, LobbyInv, SessionStateMachine
    <3>4. \A s \in Session, h \in DOMAIN games' : Member(s, h)' <=> Member(s, h)
      BY <2>1 DEF Without, Member
    <3>5. DOMAIN games' = DOMAIN games \ {g} /\ \A h \in DOMAIN games' : games'[h] = games[h]
      BY <2>1 DEF Without
    <3>6. \A r \in matchQueue : r.session \in Session
      BY DEF LobbyInv, FieldsOK, MatchRequests
    <3> QED BY <1>3, <1>4, <3>1, <3>2, <3>3, <3>4, <3>5, <3>6
            DEF LobbyInv, FieldsOK, SessionStateMachine
  <2>5. HostIsMember'
    BY <2>1 DEF LobbyInv, HostIsMember, Member, Without
  <2>6. DistinctPersonas'
    BY <2>1 DEF LobbyInv, DistinctPersonas, Without
  <2> QED BY <2>2, <2>3, <2>4, <2>5, <2>6 DEF LobbyInv
<1>7. CASE games[g].host # t
  <2> DEFINE new == refreshMeshReadiness(left)
  <2>1. /\ games' = [games EXCEPT ![g] = new]
        /\ gameID' = Assign(gameID, {t}, 0)
        /\ pending' = Assign(pending, {t}, 0)
        /\ queuedMatchID' = Assign(queuedMatchID, {t}, 0)
        /\ joined' = Assign(joined, {t}, 0)
        /\ UNCHANGED <<nextGameID, nextMatchID>>
    BY <1>7 DEF Leave, left
  <2>2. /\ IsGame(new)
        /\ new.host = games[g].host
        /\ Roster(new) = Roster(games[g]) \ {t}
    BY <1>1, RefreshRoster DEF SameRoster, Roster
  <2> HIDE DEF new
  <2>3. FieldsOK'
    BY <1>4, <2>1, LobbyAssumption DEF LobbyInv, FieldsOK, Assign, GameIDs
  <2>4. RostersOK'
    BY <2>1, <2>2 DEF LobbyInv, RostersOK
  <2>5. SessionStateMachine'
    <3>1. \A s \in Session : gameID'[s] = IF s = t THEN 0 ELSE gameID[s]
      BY <2>1 DEF Assign
    <3>2. \A s \in Session : pending'[s] = IF s = t THEN 0 ELSE pending[s]
      BY <2>1 DEF Assign
    <3>3. \A s \in Session : queuedMatchID'[s] = queuedMatchID[s]
      BY <1>3, <2>1 DEF Assign
    <3>4. \A s \in Session, h \in DOMAIN games' :
            Member(s, h)' <=> Member(s, h) /\ ~ (s = t /\ h = g)
      BY <2>1, <2>2 DEF Member
    <3>5. DOMAIN games' = DOMAIN games
      BY <2>1
    <3>6. \A h \in DOMAIN games' : IsInjective(games'[h].members)
      BY <2>4 DEF RostersOK, IsGame
    <3>7. \A r \in matchQueue : r.session \in Session
      BY DEF LobbyInv, FieldsOK, MatchRequests
    <3> QED BY <1>3, <1>4, <3>1, <3>2, <3>3, <3>4, <3>5, <3>6, <3>7
            DEF LobbyInv, FieldsOK, SessionStateMachine
  <2>6. HostIsMember'
    BY <1>7, <2>1, <2>2 DEF LobbyInv, HostIsMember, Member
  <2>7. DistinctPersonas'
    BY <2>1, <2>2 DEF LobbyInv, DistinctPersonas
  <2> QED BY <2>3, <2>4, <2>5, <2>6, <2>7 DEF LobbyInv
<1> QED BY <1>6, <1>7

\* The sessions in S, none of them in a game, enter game g, which may be new,
\* and the requests of the sessions in Q are taken off the queue.
LEMMA EnterInv ==
    ASSUME LobbyInv, NEW S \in SUBSET Session, NEW Q \in SUBSET Session, NEW g \in GameIDs,
           S \subseteq Q,
           \A s \in S : gameID[s] = 0 /\ s \in open,
           DOMAIN games' = DOMAIN games \cup {g},
           DOMAIN games' \subseteq 1..(nextGameID' - 1),
           \A h \in DOMAIN games \ {g} : SameRoster(games'[h], games[h]),
           IsGame(games'[g]),
           Roster(games'[g]) = S \cup (IF g \in DOMAIN games THEN Roster(games[g]) ELSE {}),
           games'[g].host \in Roster(games'[g]),
           \A s, t \in Roster(games'[g]) : persona[s] = persona[t] => s = t,
           gameID' = Assign(gameID, S, g),
           pending' \in [Session -> GameIDs],
           \A s \in Session : pending'[s] \in {0, gameID'[s]},
           queuedMatchID' = Assign(queuedMatchID, Q, 0),
           matchQueue' = {r \in matchQueue : r.session \notin Q},
           nextGameID' \in 1..(MaxGames + 1),
           nextMatchID' \in 1..(MaxMatches + 1),
           UNCHANGED <<open, persona, joined>>
    PROVE  LobbyInv'
<1>1. g # 0
  BY DEF LobbyInv, FieldsOK
<1>2. \A h \in DOMAIN games \ {g} : Roster(games'[h]) = Roster(games[h])
  BY DEF SameRoster, Roster
<1>3. \A s \in Session : gameID'[s] = IF s \in S THEN g ELSE gameID[s]
  BY DEF Assign
<1>4. \A s \in Session : queuedMatchID'[s] = IF s \in Q THEN 0 ELSE queuedMatchID[s]
  BY DEF Assign
<1>5. \A r \in matchQueue : r.session \in Session /\ r.msid # 0
  BY DEF LobbyInv, FieldsOK, MatchRequests
<1>6. FieldsOK'
  <2>1. gameID' \in [Session -> GameIDs]
    BY DEF LobbyInv, FieldsOK, Assign
  <2>2. queuedMatchID' \in [Session -> 0..MaxMatches]
    BY LobbyAssumption DEF LobbyInv, FieldsOK, Assign
  <2> QED BY <2>1, <2>2 DEF LobbyInv, FieldsOK
<1>7. RostersOK'
  BY DEF RostersOK, SameRoster
<1>8. SessionStateMachine'
  <2>1. ASSUME NEW s \in Session, NEW h \in DOMAIN games'
        PROVE  Member(s, h)' <=> gameID'[s] = h
    <3>1. CASE h # g
      BY <1>1, <1>2, <1>3, <2>1, <3>1 DEF Member, LobbyInv, SessionStateMachine, FieldsOK
    <3>2. CASE h = g /\ g \in DOMAIN games
      BY <1>1, <1>3, <2>1, <3>2 DEF Member, LobbyInv, SessionStateMachine
    <3>3. CASE h = g /\ g \notin DOMAIN games
      BY <1>1, <1>3, <2>1, <3>3 DEF Member, LobbyInv, SessionStateMachine
    <3> QED BY <3>1, <3>2, <3>3
  <2>2. ASSUME NEW s \in Session
        PROVE  /\ gameID'[s] # 0 => gameID'[s] \in DOMAIN games'
               /\ gameID'[s] = 0 \/ queuedMatchID'[s] = 0
               /\ pending'[s] \in {0, gameID'[s]}
               /\ s \notin open' => gameID'[s] = 0 /\ queuedMatchID'[s] = 0
    BY <1>1, <1>3, <1>4, <2>2 DEF LobbyInv, SessionStateMachine
  <2>3. ASSUME NEW s \in Session, queuedMatchID'[s] # 0
        PROVE  \E r \in matchQueue' : r.session = s
    BY <1>4, <2>3 DEF LobbyInv, SessionStateMachine
  <2>4. /\ \A r \in matchQueue' : queuedMatchID'[r.session] = r.msid
        /\ \A q, r \in matchQueue' : q.session = r.session => q = r
    BY <1>4, <1>5 DEF LobbyInv, SessionStateMachine
  <2>5. \A h \in DOMAIN games' : IsInjective(games'[h].members)
    BY <1>7 DEF RostersOK, IsGame
  <2> QED BY <2>1, <2>2, <2>3, <2>4, <2>5 DEF SessionStateMachine
<1>9. HostIsMember'
  BY <1>2 DEF LobbyInv, HostIsMember, Member, SameRoster
<1>10. DistinctPersonas'
  BY <1>2 DEF LobbyInv, DistinctPersonas
<1> QED BY <1>6, <1>7, <1>8, <1>9, <1>10 DEF LobbyInv

\* Looking through the games brings slots up to date and nothing else.
LEMMA VisitedRosters ==
    ASSUME LobbyInv, NEW request, NEW g
    PROVE  /\ DOMAIN Visited(request, g) = DOMAIN games
           /\ \A h \in DOMAIN games : SameRoster(Visited(request, g)[h], games[h])
<1>1. \A h \in DOMAIN games : IsGame(games[h])
  BY DEF LobbyInv, RostersOK
<1>2. \A h \in DOMAIN games : SameRoster(ensureMembershipState(games[h]), games[h])
  BY <1>1, EnsureRoster
<1>3. \A h \in DOMAIN games : SameRoster(games[h], games[h])
  BY <1>1 DEF SameRoster
<1> QED BY <1>2, <1>3 DEF Visited

-----------------------------------------------------------------------------
(* The actions, one by one.                                                *)

\* A new connection is on no roster and not in the queue.
LEMMA AcceptInv ==
    ASSUME LobbyInv, NEW s \in Session, Accept(s)
    PROVE  LobbyInv'
<1>1. /\ s \notin open
      /\ open' = open \cup {s}
      /\ persona' = [persona EXCEPT ![s] = 0]
      /\ UNCHANGED lobbyVars
  BY DEF Accept, Connect
<1>2. \A g \in DOMAIN games : s \notin Roster(games[g])
  BY <1>1 DEF LobbyInv, SessionStateMachine, Member, FieldsOK
<1>3. FieldsOK' /\ RostersOK' /\ HostIsMember'
  BY <1>1 DEF LobbyInv, FieldsOK, RostersOK, HostIsMember, Member, lobbyVars
<1>4. SessionStateMachine'
  BY <1>1 DEF LobbyInv, SessionStateMachine, Member, lobbyVars
<1>5. DistinctPersonas'
  BY <1>1, <1>2 DEF LobbyInv, DistinctPersonas, lobbyVars
<1> QED BY <1>3, <1>4, <1>5 DEF LobbyInv

\* A login in the middle of a game keeps personas distinct, because the new
\* persona belongs to no live session.
LEMMA SilentLoginInv ==
    ASSUME LobbyInv, IdentityInv, NEW s \in Session, SilentLogin(s)
    PROVE  LobbyInv'
<1>1. CASE AuthenticateAgain(s) /\ UNCHANGED lobbyVars
  BY <1>1 DEF AuthenticateAgain, identityVars, lobbyVars, LobbyInv, FieldsOK, RostersOK,
              SessionStateMachine, HostIsMember, DistinctPersonas, Member
<1>2. ASSUME NEW pid \in RequestedPIDs, Authenticate(s, pid), UNCHANGED lobbyVars
      PROVE  LobbyInv'
  <2>1. PICK p \in MinInt..MaxInt : Assigned(pid, p) /\ persona' = [persona EXCEPT ![s] = p]
    BY <1>2 DEF Authenticate
  <2>2. open' = open /\ nextSessionID <= MaxLogins
    BY <1>2 DEF Authenticate
  <2>3. p # 0 /\ p \notin DOMAIN activePersonas
    BY <2>1, <2>2, AssignedFacts
  <2>4. \A t \in open : persona[t] # p
    BY <2>3 DEF IdentityInv, IdentityTypeOK, CanonicalIdentity, LoggedIn
  <2>5. \A g \in DOMAIN games : Roster(games[g]) \subseteq open
    BY MembersOpen
  <2>6. FieldsOK' /\ RostersOK' /\ HostIsMember' /\ SessionStateMachine'
    BY <1>2, <2>2 DEF LobbyInv, FieldsOK, RostersOK, HostIsMember, SessionStateMachine, Member,
                      lobbyVars
  <2>7. DistinctPersonas'
    <3>1. persona \in [Session -> MinInt..MaxInt] /\ open \subseteq Session
      BY DEF IdentityInv, IdentityTypeOK
    <3> QED BY <1>2, <2>1, <2>4, <2>5, <3>1 DEF LobbyInv, DistinctPersonas, lobbyVars
  <2> QED BY <2>6, <2>7 DEF LobbyInv
<1> QED BY <1>1, <1>2 DEF SilentLogin

\* The teardown of a connection leaves no trace of it.
LEMMA RemoveSessionInv ==
    ASSUME LobbyInv, NEW s \in Session, removeSession(s)
    PROVE  LobbyInv'
<1>1. open' = open \ {s} /\ persona' = persona
  BY DEF removeSession, Unregister
<1>2. ASSUME NEW g \in GamesOf(s), Leave(s, g)
      PROVE  LobbyInv'
  <2>1. g \in DOMAIN games
    BY DEF GamesOf
  <2>2. s \in Roster(games[g])
    <3>1. CASE gameID[s] \in DOMAIN games
      BY <3>1 DEF GamesOf, LobbyInv, SessionStateMachine, Member
    <3>2. CASE gameID[s] \notin DOMAIN games
      BY <2>1, <3>2, FindMember DEF GamesOf, LobbyInv, RostersOK
    <3> QED BY <3>1, <3>2
  <2> QED BY <1>1, <1>2, <2>1, <2>2, LeaveInv
<1>3. CASE /\ GamesOf(s) = {}
           /\ gameID' = [gameID EXCEPT ![s] = 0]
           /\ pending' = [pending EXCEPT ![s] = 0]
           /\ queuedMatchID' = [queuedMatchID EXCEPT ![s] = 0]
           /\ matchQueue' = Dequeued(s)
           /\ UNCHANGED <<games, nextGameID, nextMatchID, joined>>
  <2>1. gameID[s] = 0
    BY <1>3 DEF GamesOf, LobbyInv, SessionStateMachine
  <2>2. FieldsOK'
    BY <1>3, LobbyAssumption DEF LobbyInv, FieldsOK, Dequeued, GameIDs
  <2>3. RostersOK' /\ HostIsMember' /\ DistinctPersonas'
    BY <1>1, <1>3 DEF LobbyInv, RostersOK, HostIsMember, Member, DistinctPersonas
  <2>4. SessionStateMachine'
    <3>1. \A r \in matchQueue : r.session \in Session
      BY DEF LobbyInv, FieldsOK, MatchRequests
    <3>2. gameID' = gameID
      BY <1>3, <2>1 DEF LobbyInv, FieldsOK
    <3> QED BY <1>1, <1>3, <2>1, <3>1, <3>2
            DEF LobbyInv, FieldsOK, SessionStateMachine, Member, Dequeued
  <2> QED BY <2>2, <2>3, <2>4 DEF LobbyInv
<1> QED BY <1>2, <1>3 DEF removeSession

\* resetDedicatedServer: the host enters the game it opens.
LEMMA ResetDedicatedInv ==
    ASSUME LobbyInv, NEW s \in Session, NEW req \in Requests, ResetDedicated(s, req)
    PROVE  LobbyInv'
<1>1. CASE InGame(s)
  BY <1>1 DEF ResetDedicated, identityVars, lobbyVars, LobbyInv, FieldsOK, RostersOK,
              SessionStateMachine, HostIsMember, DistinctPersonas, Member
<1>2. CASE ~ InGame(s)
  <2> DEFINE new == newGame(s, Attributes(req), getMatchmakingCapacity(req),
                            getMatchmakingTopology(req))
  <2>1. /\ s \in open
        /\ nextGameID <= MaxGames
        /\ games' = Put(games, nextGameID, new)
        /\ gameID' = [gameID EXCEPT ![s] = nextGameID]
        /\ queuedMatchID' = [queuedMatchID EXCEPT ![s] = 0]
        /\ matchQueue' = Dequeued(s)
        /\ nextGameID' = nextGameID + 1
        /\ UNCHANGED <<open, persona, pending, nextMatchID, joined>>
    BY <1>2 DEF ResetDedicated, MaySend, identityVars
  <2>2. gameID[s] = 0 /\ pending[s] = 0
    BY <1>2, InGameMeaning DEF LobbyInv, SessionStateMachine
  <2>3. IsGame(new) /\ new.host = s /\ Roster(new) = {s}
    BY NewRoster, RequestAssumption
  <2> HIDE DEF new
  <2>4. nextGameID \in GameIDs /\ nextGameID \notin DOMAIN games
    BY <2>1 DEF GameIDs, LobbyInv, FieldsOK
  <2>5. /\ DOMAIN games' = DOMAIN games \cup {nextGameID}
        /\ DOMAIN games' \subseteq 1..(nextGameID' - 1)
        /\ \A h \in DOMAIN games \ {nextGameID} : SameRoster(games'[h], games[h])
        /\ games'[nextGameID] = new
    BY <2>1, <2>4 DEF Put, LobbyInv, FieldsOK, RostersOK, SameRoster
  <2>6. /\ gameID' = Assign(gameID, {s}, nextGameID)
        /\ queuedMatchID' = Assign(queuedMatchID, {s}, 0)
    BY <2>1 DEF Assign, LobbyInv, FieldsOK
  <2>7. \A t \in Session : pending'[t] \in {0, gameID'[t]}
    BY <2>1, <2>2 DEF LobbyInv, FieldsOK, SessionStateMachine
  <2>8. matchQueue' = {r \in matchQueue : r.session \notin {s}}
    BY <2>1 DEF Dequeued
  <2>9. /\ nextGameID' \in 1..(MaxGames + 1)
        /\ nextMatchID' \in 1..(MaxMatches + 1)
        /\ pending' \in [Session -> GameIDs]
    BY <2>1, LobbyAssumption DEF LobbyInv, FieldsOK
  <2>10. /\ IsGame(games'[nextGameID])
         /\ Roster(games'[nextGameID]) =
              {s} \cup (IF nextGameID \in DOMAIN games THEN Roster(games[nextGameID]) ELSE {})
         /\ games'[nextGameID].host \in Roster(games'[nextGameID])
         /\ \A x, y \in Roster(games'[nextGameID]) : persona[x] = persona[y] => x = y
    BY <2>3, <2>4, <2>5
  <2>11. {s} \in SUBSET Session /\ \A x \in {s} : gameID[x] = 0 /\ x \in open
    BY <2>1, <2>2
  <2>12. UNCHANGED <<open, persona, joined>>
    BY <2>1
  <2> QED BY <2>4, <2>5, <2>6, <2>7, <2>8, <2>9, <2>10, <2>11, <2>12, EnterInv
<1> QED BY <1>1, <1>2

\* queueMatch, when an open game takes the request.
LEMMA JoinGameInv ==
    ASSUME LobbyInv, NEW request, request.session \in Session, request.session \in open,
           ~ InGame(request.session), JoinGame(request),
           nextMatchID' \in 1..(MaxMatches + 1), UNCHANGED <<open, persona>>
    PROVE  LobbyInv'
<1> DEFINE s == request.session
<1>1. PICK g \in Joinable(request) :
        /\ games' = [Visited(request, g) EXCEPT ![g] = addMember(games[g], s)]
        /\ gameID' = [gameID EXCEPT ![s] = g]
        /\ pending' = [pending EXCEPT ![s] = g]
        /\ queuedMatchID' = [queuedMatchID EXCEPT ![s] = 0]
        /\ matchQueue' = Dequeued(s)
        /\ UNCHANGED <<nextGameID, joined>>
  BY DEF JoinGame
<1> HIDE DEF s
<1>2. g \in DOMAIN games /\ Admits(games[g], s) /\ s \in Session /\ s \in open
  BY DEF Joinable, s
<1>3. gameID[s] = 0
  BY <1>2, InGameMeaning DEF s
<1>4. /\ IsGame(addMember(games[g], s))
      /\ addMember(games[g], s).host = games[g].host
      /\ Roster(addMember(games[g], s)) = Roster(games[g]) \cup {s}
  BY <1>2, AddRoster DEF LobbyInv, RostersOK
<1>5. /\ DOMAIN games' = DOMAIN games
      /\ \A h \in DOMAIN games \ {g} : SameRoster(games'[h], games[h])
      /\ games'[g] = addMember(games[g], s)
  BY <1>1, <1>2, VisitedRosters
<1>6. /\ IsGame(games'[g])
      /\ Roster(games'[g]) = {s} \cup (IF g \in DOMAIN games THEN Roster(games[g]) ELSE {})
      /\ games'[g].host \in Roster(games'[g])
  BY <1>2, <1>4, <1>5 DEF LobbyInv, HostIsMember, Member
<1>7. \A x, y \in Roster(games'[g]) : persona[x] = persona[y] => x = y
  BY <1>2, <1>4, <1>5 DEF LobbyInv, DistinctPersonas, Admits
<1>8. g \in GameIDs
  BY <1>2, LobbyAssumption DEF LobbyInv, FieldsOK, GameIDs
<1>9. /\ gameID' = Assign(gameID, {s}, g)
      /\ queuedMatchID' = Assign(queuedMatchID, {s}, 0)
      /\ pending' \in [Session -> GameIDs]
  BY <1>1, <1>2, <1>8 DEF Assign, LobbyInv, FieldsOK
<1>10. \A x \in Session : pending'[x] \in {0, gameID'[x]}
  BY <1>1, <1>2 DEF LobbyInv, FieldsOK, SessionStateMachine
<1>11. matchQueue' = {r \in matchQueue : r.session \notin {s}}
  BY <1>1 DEF Dequeued
<1>12. /\ nextGameID' \in 1..(MaxGames + 1)
       /\ DOMAIN games' = DOMAIN games \cup {g}
       /\ DOMAIN games' \subseteq 1..(nextGameID' - 1)
       /\ UNCHANGED <<open, persona, joined>>
  BY <1>1, <1>2, <1>5 DEF LobbyInv, FieldsOK
<1>13. {s} \in SUBSET Session /\ \A x \in {s} : gameID[x] = 0 /\ x \in open
  BY <1>2, <1>3
<1> QED BY <1>5, <1>6, <1>7, <1>8, <1>9, <1>10, <1>11, <1>12, <1>13, EnterInv

\* queueMatch, when the request is paired with a waiting one.
LEMMA PairMatchInv ==
    ASSUME LobbyInv, NEW request, request.session \in Session, request.session \in open,
           ~ InGame(request.session), PairMatch(request),
           nextMatchID' \in 1..(MaxMatches + 1), UNCHANGED <<open, persona>>
    PROVE  LobbyInv'
<1> DEFINE s == request.session
           n == nextGameID
           base(r) == newGame(r.session, r.attrs, r.cap, r.topology)
<1>1. PICK r \in matchQueue :
        /\ Partner(request, r)
        /\ games' = Put(Visited(request, n), n, addMember(base(r), s))
        /\ gameID' = Assign([gameID EXCEPT ![s] = 0], Roster(addMember(base(r), s)), n)
        /\ pending' = Assign(pending, Roster(addMember(base(r), s)), n)
        /\ queuedMatchID' =
             Assign([queuedMatchID EXCEPT ![s] = 0], Roster(addMember(base(r), s)), 0)
        /\ matchQueue' = Dequeued(s) \ {r}
  BY DEF PairMatch
<1>2. n <= MaxGames /\ nextGameID' = n + 1 /\ joined' = joined
  BY DEF PairMatch
<1> DEFINE host == r.session
           new == addMember(base(r), s)
           S == Roster(new)
           Q == {s, host}
<1>3. /\ s \in Session /\ s \in open /\ gameID[s] = 0
      /\ host \in Session /\ host # s /\ r.cap \in Int
      /\ r.msid # 0 /\ queuedMatchID[host] = r.msid
  <2>1. gameID[s] = 0
    BY InGameMeaning
  <2>2. host # s
    BY <1>1 DEF Partner
  <2>3. host \in Session /\ r.msid # 0 /\ r.cap \in Int
    BY RequestAssumption DEF LobbyInv, FieldsOK, MatchRequests
  <2>4. queuedMatchID[host] = r.msid
    BY DEF LobbyInv, SessionStateMachine
  <2> QED BY <2>1, <2>2, <2>3, <2>4
<1>4. gameID[host] = 0 /\ host \in open
  BY <1>3 DEF LobbyInv, SessionStateMachine
<1>5. IsGame(base(r)) /\ base(r).host = host /\ Roster(base(r)) = {host}
  <2> SUFFICES /\ IsGame(newGame(host, r.attrs, r.cap, r.topology))
               /\ newGame(host, r.attrs, r.cap, r.topology).host = host
               /\ Roster(newGame(host, r.attrs, r.cap, r.topology)) = {host}
    OBVIOUS
  <2> HIDE DEF host
  <2> QED BY <1>3, NewRoster
<1>6. /\ IsGame(new) /\ new.host = host
      /\ S = IF Admits(base(r), s) THEN {host} \cup {s} ELSE {host}
  <2> HIDE DEF base
  <2> QED BY <1>3, <1>5, AddRoster
<1>7. \A x, y \in S : persona[x] = persona[y] => x = y
  <2>1. CASE Admits(base(r), s)
    BY <1>5, <1>6, <2>1 DEF Admits
  <2>2. CASE ~ Admits(base(r), s)
    BY <1>6, <2>2
  <2> QED BY <2>1, <2>2
<1>8. /\ n \in GameIDs /\ n \notin DOMAIN games
      /\ n \in 1..(MaxGames + 1) /\ nextGameID' \in 1..(MaxGames + 1)
  BY <1>2, LobbyAssumption DEF GameIDs, LobbyInv, FieldsOK
<1> HIDE DEF new, base
<1>9. /\ DOMAIN games' = DOMAIN games \cup {n}
      /\ \A h \in DOMAIN games \ {n} : SameRoster(games'[h], games[h])
      /\ games'[n] = new
  BY <1>1, <1>8, VisitedRosters DEF Put, new
<1>10. DOMAIN games' \subseteq 1..(nextGameID' - 1)
  BY <1>2, <1>8, <1>9 DEF LobbyInv, FieldsOK
<1>11. /\ IsGame(games'[n])
       /\ Roster(games'[n]) = S \cup (IF n \in DOMAIN games THEN Roster(games[n]) ELSE {})
       /\ games'[n].host \in Roster(games'[n])
       /\ \A x, y \in Roster(games'[n]) : persona[x] = persona[y] => x = y
  BY <1>6, <1>7, <1>8, <1>9
<1>12. S \in SUBSET Session /\ Q \in SUBSET Session /\ S \subseteq Q
  BY <1>3, <1>6
<1>13. \A x \in S : gameID[x] = 0 /\ x \in open
  BY <1>3, <1>4, <1>6
<1>14. gameID' = Assign(gameID, S, n)
  BY <1>1, <1>3 DEF Assign, LobbyInv, FieldsOK, new
<1>15. queuedMatchID' = Assign(queuedMatchID, Q, 0)
  <2>1. host \in S
    BY <1>6
  <2>2. queuedMatchID' = Assign([queuedMatchID EXCEPT ![s] = 0], S, 0)
    BY <1>1 DEF new
  <2> QED BY <1>3, <1>12, <2>1, <2>2 DEF Assign, LobbyInv, FieldsOK
<1>16. pending' \in [Session -> GameIDs] /\ \A x \in Session : pending'[x] \in {0, gameID'[x]}
  <2>1. pending' = Assign(pending, S, n)
    BY <1>1 DEF new
  <2> QED BY <1>8, <1>14, <2>1 DEF Assign, LobbyInv, FieldsOK, SessionStateMachine
<1>17. matchQueue' = {q \in matchQueue : q.session \notin Q}
  BY <1>1 DEF Dequeued, LobbyInv, SessionStateMachine
<1>18. UNCHANGED <<open, persona, joined>>
  BY <1>2
<1> HIDE DEF s, n, S, Q
<1> QED BY <1>8, <1>9, <1>10, <1>11, <1>12, <1>13, <1>14, <1>15, <1>16, <1>17, <1>18, EnterInv DEF n

\* queueMatch, when the request has to wait.
LEMMA EnqueueMatchInv ==
    ASSUME LobbyInv, NEW request, request \in MatchRequests, request.session \in open,
           ~ InGame(request.session), EnqueueMatch(request),
           nextMatchID' \in 1..(MaxMatches + 1), UNCHANGED <<open, persona>>
    PROVE  LobbyInv'
<1> DEFINE s == request.session
<1>1. /\ games' = Visited(request, nextGameID)
      /\ gameID' = [gameID EXCEPT ![s] = 0]
      /\ queuedMatchID' = [queuedMatchID EXCEPT ![s] = request.msid]
      /\ matchQueue' = Dequeued(s) \cup {request}
      /\ UNCHANGED <<pending, nextGameID, joined>>
  BY DEF EnqueueMatch
<1>2. s \in Session /\ request.msid \in 1..MaxMatches
  BY DEF MatchRequests
<1>3. gameID[s] = 0
  BY <1>2, InGameMeaning
<1>4. gameID' = gameID
  BY <1>1, <1>2, <1>3 DEF LobbyInv, FieldsOK
<1>5. /\ DOMAIN games' = DOMAIN games
      /\ \A h \in DOMAIN games : SameRoster(games'[h], games[h])
  BY <1>1, VisitedRosters
<1>6. \A h \in DOMAIN games : Roster(games'[h]) = Roster(games[h])
  BY <1>5 DEF SameRoster, Roster
<1>7. FieldsOK'
  BY <1>1, <1>2, <1>4, <1>5, LobbyAssumption DEF LobbyInv, FieldsOK, Dequeued
<1>8. RostersOK'
  BY <1>5 DEF RostersOK, SameRoster
<1>9. SessionStateMachine'
  <2>1. \A h \in DOMAIN games', x \in Session : Member(x, h)' <=> Member(x, h)
    BY <1>5, <1>6 DEF Member
  <2>2. \A h \in DOMAIN games' : IsInjective(games'[h].members)
    BY <1>8 DEF RostersOK, IsGame
  <2>3. \A r \in matchQueue : r.session \in Session
    BY DEF LobbyInv, FieldsOK, MatchRequests
  <2> QED BY <1>1, <1>2, <1>3, <1>4, <1>5, <2>1, <2>2, <2>3
          DEF LobbyInv, FieldsOK, SessionStateMachine, Dequeued
<1>10. HostIsMember' /\ DistinctPersonas'
  BY <1>5, <1>6 DEF LobbyInv, HostIsMember, DistinctPersonas, Member, SameRoster
<1> QED BY <1>7, <1>8, <1>9, <1>10 DEF LobbyInv

\* startMatchmaking, in all its outcomes.
LEMMA StartMatchmakingInv ==
    ASSUME LobbyInv, NEW s \in Session, NEW req \in Requests, StartMatchmaking(s, req)
    PROVE  LobbyInv'
<1> DEFINE request == MatchRequest(s, req, nextMatchID)
<1>1. /\ s \in open
      /\ UNCHANGED <<open, persona>>
      /\ nextMatchID <= MaxMatches
      /\ nextMatchID' \in 1..(MaxMatches + 1)
  BY LobbyAssumption DEF StartMatchmaking, MaySend, identityVars, LobbyInv, FieldsOK
<1>2. request \in MatchRequests /\ request.session = s
  BY <1>1 DEF MatchRequest, MatchRequests, LobbyInv, FieldsOK
<1>3. CASE IgnoreMatch(s)
  BY <1>1, <1>3 DEF IgnoreMatch, LobbyInv, FieldsOK, RostersOK, SessionStateMachine,
                    HostIsMember, DistinctPersonas, Member
<1> HIDE DEF request
<1>4. CASE ~ InGame(s) /\ JoinGame(request)
  BY <1>1, <1>2, <1>4, JoinGameInv
<1>5. CASE ~ InGame(s) /\ PairMatch(request)
  BY <1>1, <1>2, <1>5, PairMatchInv
<1>6. CASE ~ InGame(s) /\ EnqueueMatch(request)
  BY <1>1, <1>2, <1>6, EnqueueMatchInv
<1> QED BY <1>3, <1>4, <1>5, <1>6 DEF StartMatchmaking, request

\* cancelMatchmaking returns the session to idle.
LEMMA CancelMatchmakingInv ==
    ASSUME LobbyInv, NEW s \in Session, NEW msid, CancelMatchmaking(s, msid)
    PROVE  LobbyInv'
<1>1. PICK r \in matchQueue : r.session = s /\ matchQueue' = matchQueue \ {r}
  BY DEF CancelMatchmaking
<1>2. /\ queuedMatchID' = [queuedMatchID EXCEPT ![s] = 0]
      /\ UNCHANGED <<open, persona, gameID, pending, games, nextGameID, nextMatchID, joined>>
  BY DEF CancelMatchmaking, identityVars
<1>3. \A q \in matchQueue : q.session \in Session
  BY DEF LobbyInv, FieldsOK, MatchRequests
<1>4. FieldsOK'
  BY <1>1, <1>2, LobbyAssumption DEF LobbyInv, FieldsOK
<1>5. RostersOK' /\ HostIsMember' /\ DistinctPersonas'
  BY <1>2 DEF LobbyInv, RostersOK, HostIsMember, DistinctPersonas, Member
<1>6. SessionStateMachine'
  BY <1>1, <1>2, <1>3 DEF LobbyInv, FieldsOK, SessionStateMachine, Member
<1> QED BY <1>4, <1>5, <1>6 DEF LobbyInv

\* removePlayer takes a member out, and closes the game of a host.
LEMMA RemovePlayerInv ==
    ASSUME LobbyInv, NEW s \in Session, NEW gid, NEW pid, RemovePlayer(s, gid, pid)
    PROVE  LobbyInv'
<1>1. PICK t \in sessionForPlayerID(games[gid], pid) : Leave(t, gid)
  BY DEF RemovePlayer, RemovalTarget
<1>2. gid \in DOMAIN games /\ open' = open /\ persona' = persona
  BY DEF RemovePlayer, identityVars
<1>3. t \in Roster(games[gid])
  BY <1>2, FindMember DEF LobbyInv, RostersOK
<1>4. t \in Session
  BY <1>2, <1>3, MembersOpen
<1> QED BY <1>1, <1>2, <1>3, <1>4, LeaveInv

\* finalizeGameCreation clears the pending game and nothing else.
LEMMA FinalizeGameInv ==
    ASSUME LobbyInv, NEW s \in Session, NEW gid, FinalizeGame(s, gid)
    PROVE  LobbyInv'
<1>1. /\ UNCHANGED <<open, persona, gameID, queuedMatchID, matchQueue, nextGameID,
                      nextMatchID, games, joined>>
      /\ pending' = pending \/ pending' = [pending EXCEPT ![s] = 0]
  BY DEF FinalizeGame, identityVars
<1>2. /\ pending' \in [Session -> GameIDs]
      /\ \A x \in Session : pending'[x] \in {0, pending[x]}
  BY <1>1, LobbyAssumption DEF LobbyInv, FieldsOK, GameIDs
<1>3. DOMAIN games' = DOMAIN games /\ \A g \in DOMAIN games : SameRoster(games'[g], games[g])
  BY <1>1 DEF LobbyInv, RostersOK, SameRoster
<1>4. joined' \in [Session -> Nat]
  BY <1>1 DEF LobbyInv, FieldsOK
<1>5. UNCHANGED <<open, persona, gameID, queuedMatchID, matchQueue, nextGameID, nextMatchID>>
  BY <1>1
<1> QED BY <1>2, <1>3, <1>4, <1>5, KeepRosters

\* One game is replaced by one with the same roster.
LEMMA ReplaceGame ==
    ASSUME LobbyInv, NEW gid \in DOMAIN games, NEW new, SameRoster(new, games[gid]),
           games' = [games EXCEPT ![gid] = new],
           UNCHANGED <<open, persona, gameID, queuedMatchID, matchQueue, nextGameID, nextMatchID>>,
           pending' \in [Session -> GameIDs],
           \A s \in Session : pending'[s] \in {0, pending[s]},
           joined' \in [Session -> Nat]
    PROVE  LobbyInv'
<1>1. DOMAIN games' = DOMAIN games /\ \A g \in DOMAIN games : SameRoster(games'[g], games[g])
  BY DEF LobbyInv, RostersOK, SameRoster
<1> QED BY <1>1, KeepRosters

\* updateMeshConnection changes no roster.
LEMMA UpdateMeshInv ==
    ASSUME LobbyInv, NEW s \in Session, NEW gid, NEW report, UpdateMesh(s, gid, report)
    PROVE  LobbyInv'
<1> DEFINE game == ensureMembershipState(games[gid])
           known == {p \in DOMAIN report : sessionForPlayerID(game, p) \notin {{}, {s}}}
           up == {p \in known : report[p] = 2}
           linked == [game EXCEPT !.mesh =
                        {e \in @ : ~ (e[1] = persona[s] /\ e[2] \in known)}
                        \cup ({persona[s]} \X up)]
           completed == {t \in Roster(game) :
                            pending[t] = gid /\ meshReadyForPlayer(linked, t)}
<1>1. /\ gid \in DOMAIN games
      /\ UNCHANGED <<open, persona, gameID, queuedMatchID, matchQueue, nextGameID, nextMatchID>>
  BY DEF UpdateMesh, identityVars
<1>2. IsGame(games[gid])
  BY <1>1 DEF LobbyInv, RostersOK
<1>3. SameRoster(game, games[gid])
  BY <1>2, EnsureRoster
<1>4. CASE known = {}
  <2>1. games' = [games EXCEPT ![gid] = game] /\ UNCHANGED <<pending, joined>>
    BY <1>4 DEF UpdateMesh
  <2>2. /\ pending' \in [Session -> GameIDs]
        /\ \A x \in Session : pending'[x] \in {0, pending[x]}
        /\ joined' \in [Session -> Nat]
    BY <2>1 DEF LobbyInv, FieldsOK
  <2> HIDE DEF game
  <2> QED BY <1>1, <1>3, <2>1, <2>2, ReplaceGame
<1>5. CASE known # {}
  <2>1. /\ games' = [games EXCEPT ![gid] = refreshMeshReadiness(linked)]
        /\ pending' = Assign(pending, completed, 0)
        /\ joined' = Published(completed)
    BY <1>5 DEF UpdateMesh, NotPending
  <2>2. SameRoster(linked, games[gid])
    <3> HIDE DEF game, known, up
    <3> QED BY <1>3 DEF SameRoster, IsGame, GameFields
  <2>3. completed \subseteq Session
    <3>1. Roster(game) \subseteq Session
      BY <1>3 DEF SameRoster, IsGame, Roster, ToSet
    <3> QED BY <3>1
  <2> HIDE DEF linked, completed
  <2>4. SameRoster(refreshMeshReadiness(linked), games[gid])
    BY <2>2, RefreshRoster DEF SameRoster
  <2>5. /\ pending' \in [Session -> GameIDs]
        /\ \A x \in Session : pending'[x] \in {0, pending[x]}
        /\ joined' \in [Session -> Nat]
    BY <2>1, <2>3, LobbyAssumption DEF LobbyInv, FieldsOK, Assign, Published, GameIDs
  <2> QED BY <1>1, <2>1, <2>4, <2>5, ReplaceGame
<1> QED BY <1>4, <1>5

\* A handler that changes fields of a game other than host and members.
LEMMA SetGameInv ==
    ASSUME LobbyInv, NEW gid \in DOMAIN games, NEW new, SameRoster(new, games[gid]),
           games' = [games EXCEPT ![gid] = new],
           UNCHANGED <<identityVars, gameID, pending, queuedMatchID, matchQueue,
                       nextGameID, nextMatchID, joined>>
    PROVE  LobbyInv'
<1>1. /\ pending' \in [Session -> GameIDs]
      /\ \A s \in Session : pending'[s] \in {0, pending[s]}
      /\ joined' \in [Session -> Nat]
  BY DEF LobbyInv, FieldsOK
<1>2. UNCHANGED <<open, persona, gameID, queuedMatchID, matchQueue, nextGameID, nextMatchID>>
  BY DEF identityVars
<1> QED BY <1>1, <1>2, ReplaceGame

\* setPlayerAttributes changes no roster.
LEMMA SetPlayerAttrsInv ==
    ASSUME LobbyInv, NEW s \in Session, NEW gid, NEW pid, NEW attributes,
           SetPlayerAttrs(s, gid, pid, attributes)
    PROVE  LobbyInv'
<1> DEFINE game == ensureMembershipState(games[gid])
           old == IF pid \in DOMAIN game.playerAttrs THEN game.playerAttrs[pid] ELSE <<>>
           new == [game EXCEPT !.playerAttrs = Put(@, pid, attributes @@ old)]
<1>1. /\ gid \in DOMAIN games
      /\ games' = [games EXCEPT ![gid] = new]
      /\ UNCHANGED <<identityVars, gameID, pending, queuedMatchID, matchQueue,
                      nextGameID, nextMatchID, joined>>
  BY DEF SetPlayerAttrs
<1>2. SameRoster(game, games[gid])
  BY <1>1, EnsureRoster DEF LobbyInv, RostersOK
<1>3. SameRoster(new, games[gid])
  <2> HIDE DEF game, old
  <2> QED BY <1>2 DEF SameRoster, IsGame, GameFields
<1> HIDE DEF new
<1> QED BY <1>1, <1>3, SetGameInv

\* The setters of a game's fields change no roster.
LEMMA SetFieldInv ==
    ASSUME LobbyInv, NEW s \in Session, NEW gid, NEW settings, NEW attributes,
           NEW capacity \in Int, NEW gameState,
           \/ SetPlayerCapacity(s, gid, capacity)
           \/ SetGameAttrs(s, gid, attributes)
           \/ SetGameSettings(s, gid, settings)
           \/ AdvanceGameState(s, gid, gameState)
           \/ ReplayGame(s, gid)
    PROVE  LobbyInv'
<1> DEFINE game == games[gid]
<1>1. /\ gid \in DOMAIN games
      /\ UNCHANGED <<identityVars, gameID, pending, queuedMatchID, matchQueue,
                      nextGameID, nextMatchID, joined>>
  BY DEF SetPlayerCapacity, SetGameAttrs, SetGameSettings, AdvanceGameState, ReplayGame, SetField
<1>2. PICK new : /\ games' = [games EXCEPT ![gid] = new]
                 /\ \/ new = [game EXCEPT !.capacity = capacity]
                    \/ new = [game EXCEPT !.attrs = attributes]
                    \/ new = [game EXCEPT !.settings = settings]
                    \/ new = [game EXCEPT !.state = gameState]
                    \/ new = [game EXCEPT !.state = 130]
  BY DEF SetPlayerCapacity, SetGameAttrs, SetGameSettings, AdvanceGameState, ReplayGame, SetField
<1>3. IsGame(game)
  BY <1>1 DEF LobbyInv, RostersOK
<1>4. SameRoster(new, game)
  BY <1>2, <1>3 DEF SameRoster, IsGame, GameFields
<1> QED BY <1>1, <1>2, <1>4, SetGameInv

-----------------------------------------------------------------------------
\* Every step of the lobby preserves the inductive invariant.
LEMMA LobbyNextInv == LobbyInv /\ IdentityInv /\ [LobbyNext]_vars => LobbyInv'
<1> SUFFICES ASSUME LobbyInv, IdentityInv, [LobbyNext]_vars
             PROVE  LobbyInv'
  OBVIOUS
<1>1. ASSUME NEW s \in Session, Accept(s) \/ SilentLogin(s) \/ removeSession(s)
      PROVE  LobbyInv'
  BY <1>1, AcceptInv, SilentLoginInv, RemoveSessionInv
<1>2. ASSUME NEW s \in Session, NEW req \in Requests,
             ResetDedicated(s, req) \/ StartMatchmaking(s, req)
      PROVE  LobbyInv'
  BY <1>2, ResetDedicatedInv, StartMatchmakingInv
<1>3. ASSUME NEW s \in Session, NEW msid \in 1..MaxMatches, CancelMatchmaking(s, msid)
      PROVE  LobbyInv'
  BY <1>3, CancelMatchmakingInv
<1>4. ASSUME NEW s \in Session, NEW gid \in GameIDs,
             \/ FinalizeGame(s, gid)
             \/ \E pid \in PlayerIDs : RemovePlayer(s, gid, pid)
             \/ \E report \in MeshReports : UpdateMesh(s, gid, report)
             \/ \E pid \in PlayerIDs, attributes \in AttrMaps :
                    SetPlayerAttrs(s, gid, pid, attributes)
      PROVE  LobbyInv'
  BY <1>4, FinalizeGameInv, RemovePlayerInv, UpdateMeshInv, SetPlayerAttrsInv
<1>5. ASSUME NEW s \in Session, NEW gid \in GameIDs,
             \/ \E capacity \in Capacities : SetPlayerCapacity(s, gid, capacity)
             \/ \E attributes \in AttrMaps : SetGameAttrs(s, gid, attributes)
             \/ \E settings \in SettingBits : SetGameSettings(s, gid, settings)
             \/ \E gameState \in GameStates : AdvanceGameState(s, gid, gameState)
             \/ ReplayGame(s, gid)
      PROVE  LobbyInv'
  <2>1. \A capacity \in Capacities : capacity \in Int
    BY LobbyAssumption
  <2>2. 0 \in Int
    OBVIOUS
  <2> QED BY <1>5, <2>1, <2>2, SetFieldInv
<1>6. CASE UNCHANGED vars
  BY <1>6 DEF vars, identityVars, lobbyVars, LobbyInv, FieldsOK, RostersOK, SessionStateMachine,
              HostIsMember, DistinctPersonas, Member
<1> QED BY <1>1, <1>2, <1>3, <1>4, <1>5, <1>6 DEF LobbyNext

\* The inductive invariant holds throughout.
THEOREM LobbyInvariant == LobbySpec => []LobbyInv
BY LobbyInitInv, LobbyNextInv, LobbyIdentity, PTL DEF LobbySpec

\* Type correctness of the lobby registry.
THEOREM LobbyTypeCorrect == LobbySpec => []LobbyTypeOK
<1>1. LobbyInv /\ IdentityInv => LobbyTypeOK
  BY DEF LobbyInv, IdentityInv, LobbyTypeOK, FieldsOK, RostersOK, IsGame
<1> QED BY <1>1, LobbyInvariant, LobbyIdentity, PTL

\* A connection is idle, queued or in one game, and its Session agrees with the
\* registry, whatever requests arrive in whatever order, before or after login.
THEOREM LobbySessionStates == LobbySpec => []SessionStateMachine
BY LobbyInvariant, PTL DEF LobbyInv

\* Every game has its host among its members.
THEOREM LobbyHosts == LobbySpec => []HostIsMember
BY LobbyInvariant, PTL DEF LobbyInv

\* The identities in the lobby's registry are canonical too.
THEOREM LobbyCanonical == LobbySpec => []CanonicalIdentity
BY LobbyIdentity, PTL DEF IdentityInv

-----------------------------------------------------------------------------
(* The queue holds no two requests that fit.  Compatibility is symmetric   *)
(* and transitive, so at most one waiting request fits a new one: which    *)
(* end of the queue the search starts at makes no difference.              *)

\* Compatibility of requests does not depend on who came first.
LEMMA CompatibleSymmetric ==
    ASSUME NEW a, NEW b, isCompatibleMatch(a, b)
    PROVE  isCompatibleMatch(b, a)
BY DEF isCompatibleMatch

\* Two requests compatible with a third are compatible with each other.
LEMMA CompatibleTransitive ==
    ASSUME NEW a, NEW b, NEW c, isCompatibleMatch(a, b), isCompatibleMatch(b, c)
    PROVE  isCompatibleMatch(a, c)
BY DEF isCompatibleMatch

\* Only an unanswered matchmaking request makes the queue grow.
LEMMA QueueGrowth ==
    ASSUME LobbyNext
    PROVE  matchQueue' \subseteq matchQueue \/ \E request : EnqueueMatch(request)
<1>1. ASSUME NEW s \in Session, Accept(s) \/ SilentLogin(s) \/ removeSession(s)
      PROVE  matchQueue' \subseteq matchQueue
  BY <1>1 DEF Accept, SilentLogin, removeSession, Leave, Dequeued, lobbyVars
<1>2. ASSUME NEW s \in Session, NEW req \in Requests, ResetDedicated(s, req)
      PROVE  matchQueue' \subseteq matchQueue
  BY <1>2 DEF ResetDedicated, Dequeued, lobbyVars
<1>3. ASSUME NEW s \in Session, NEW req \in Requests, StartMatchmaking(s, req)
      PROVE  matchQueue' \subseteq matchQueue \/ \E request : EnqueueMatch(request)
  <2> DEFINE request == MatchRequest(s, req, nextMatchID)
  <2>1. IgnoreMatch(s) \/ JoinGame(request) \/ PairMatch(request) \/ EnqueueMatch(request)
    BY <1>3 DEF StartMatchmaking
  <2> HIDE DEF request
  <2>2. CASE IgnoreMatch(s) \/ JoinGame(request) \/ PairMatch(request)
    BY <2>2 DEF IgnoreMatch, JoinGame, PairMatch, Dequeued
  <2> QED BY <2>1, <2>2
<1>4. ASSUME NEW s \in Session, NEW msid \in 1..MaxMatches, CancelMatchmaking(s, msid)
      PROVE  matchQueue' \subseteq matchQueue
  BY <1>4 DEF CancelMatchmaking
<1>5. ASSUME NEW s \in Session, NEW gid \in GameIDs, NEW pid \in PlayerIDs,
             RemovePlayer(s, gid, pid)
      PROVE  matchQueue' \subseteq matchQueue
  BY <1>5 DEF RemovePlayer, Leave, Dequeued
<1>6. ASSUME NEW s \in Session, NEW gid \in GameIDs,
             \/ FinalizeGame(s, gid)
             \/ \E report \in MeshReports : UpdateMesh(s, gid, report)
             \/ \E pid \in PlayerIDs, attributes \in AttrMaps :
                    SetPlayerAttrs(s, gid, pid, attributes)
             \/ \E capacity \in Capacities : SetPlayerCapacity(s, gid, capacity)
             \/ \E attributes \in AttrMaps : SetGameAttrs(s, gid, attributes)
             \/ \E settings \in SettingBits : SetGameSettings(s, gid, settings)
             \/ \E gameState \in GameStates : AdvanceGameState(s, gid, gameState)
             \/ ReplayGame(s, gid)
      PROVE  matchQueue' \subseteq matchQueue
  BY <1>6 DEF FinalizeGame, UpdateMesh, SetPlayerAttrs, SetPlayerCapacity, SetGameAttrs,
              SetGameSettings, AdvanceGameState, ReplayGame, SetField
<1> QED BY <1>1, <1>2, <1>3, <1>4, <1>5, <1>6 DEF LobbyNext

\* No step leaves two compatible requests in the queue.
LEMMA NoMissedMatchNext ==
    LobbyInv /\ NoMissedMatch /\ [LobbyNext]_vars => NoMissedMatch'
<1> SUFFICES ASSUME LobbyInv, NoMissedMatch, [LobbyNext]_vars
             PROVE  NoMissedMatch'
  OBVIOUS
<1>1. CASE matchQueue' \subseteq matchQueue
  BY <1>1 DEF NoMissedMatch
<1>2. ASSUME NEW request, EnqueueMatch(request)
      PROVE  NoMissedMatch'
  <2>1. /\ matchQueue' = Dequeued(request.session) \cup {request}
        /\ \A r \in matchQueue : ~ Partner(request, r)
    BY <1>2 DEF EnqueueMatch
  <2>2. ASSUME NEW q \in matchQueue, q.session # request.session, isCompatibleMatch(q, request)
        PROVE  FALSE
    <3>1. ASSUME NEW r \in matchQueue, isCompatibleMatch(r, request)
          PROVE  r = q
      <4>1. isCompatibleMatch(r, q)
        BY <2>2, <3>1, CompatibleSymmetric, CompatibleTransitive
      <4>2. r.session = q.session
        BY <4>1 DEF NoMissedMatch
      <4> QED BY <4>2 DEF LobbyInv, SessionStateMachine
    <3>2. q.msid <= q.msid
      BY DEF LobbyInv, FieldsOK, MatchRequests
    <3>3. Partner(request, q)
      BY <2>2, <3>1, <3>2 DEF Partner
    <3> QED BY <2>1, <3>3
  <2>3. \A q \in Dequeued(request.session) :
            ~ isCompatibleMatch(q, request) /\ ~ isCompatibleMatch(request, q)
    BY <2>2, CompatibleSymmetric DEF Dequeued
  <2> QED BY <2>1, <2>3 DEF NoMissedMatch, Dequeued
<1>3. CASE UNCHANGED vars
  BY <1>3 DEF NoMissedMatch, vars, lobbyVars
<1> QED BY <1>1, <1>2, <1>3, QueueGrowth

\* No two requests that could be paired ever wait side by side (queueMatch).
THEOREM LobbyNoMissedMatch == LobbySpec => []NoMissedMatch
<1>1. LobbyInit => NoMissedMatch
  BY DEF LobbyInit, NoMissedMatch
<1> QED BY <1>1, NoMissedMatchNext, LobbyInvariant, PTL DEF LobbySpec
=============================================================================

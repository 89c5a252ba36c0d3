---------------------------- MODULE PhasesProofs ----------------------------
(***************************************************************************)
(* The lobby registry implements SessionPhases, for every pool of          *)
(* connections and every set of requests.                                  *)
(***************************************************************************)
EXTENDS LobbyPhases, LobbyProofs

-----------------------------------------------------------------------------
(* The phase of a connection, which is defined by the rosters and the      *)
(* queue, can be read off the fields of its Session.                       *)

Phase == [s \in Session |-> PhaseOf(s)]
Hosts == [g \in DOMAIN games |-> games[g].host]

\* The phase the fields of a Session say.
FieldPhase(isOpen, game, msid) ==
    IF ~ isOpen THEN <<"offline", 0>>
    ELSE IF game # 0 THEN <<"game", game>>
    ELSE IF msid # 0 THEN <<"queued", 0>>
    ELSE <<"idle", 0>>

\* The fields agree with the rosters and the queue.
LEMMA PhaseMeaning ==
    LobbyInv => \A s \in Session : Phase[s] = FieldPhase(s \in open, gameID[s], queuedMatchID[s])
<1> SUFFICES ASSUME LobbyInv, NEW s \in Session
             PROVE  PhaseOf(s) = FieldPhase(s \in open, gameID[s], queuedMatchID[s])
  BY DEF Phase
<1>1. CASE gameID[s] # 0
  <2>1. gameID[s] \in DOMAIN games /\ \A g \in DOMAIN games : Member(s, g) <=> g = gameID[s]
    BY <1>1 DEF LobbyInv, SessionStateMachine
  <2>2. (CHOOSE g \in DOMAIN games : Member(s, g)) = gameID[s]
    BY <2>1
  <2> QED BY <1>1, <2>1, <2>2 DEF PhaseOf, FieldPhase
<1>2. CASE gameID[s] = 0
  <2>1. \A g \in DOMAIN games : ~ Member(s, g)
    BY <1>2 DEF LobbyInv, SessionStateMachine, FieldsOK
  <2>2. (\E r \in matchQueue : r.session = s) <=> queuedMatchID[s] # 0
    BY DEF LobbyInv, SessionStateMachine, FieldsOK, MatchRequests
  <2> QED BY <1>2, <2>1, <2>2 DEF PhaseOf, FieldPhase
<1> QED BY <1>1, <1>2

\* The same after a step.
LEMMA PhaseMeaningNext ==
    LobbyInv' => \A s \in Session :
        Phase'[s] = FieldPhase(s \in open', gameID'[s], queuedMatchID'[s])
<1>1. (LobbyInv => \A s \in Session :
        Phase[s] = FieldPhase(s \in open, gameID[s], queuedMatchID[s]))'
  BY PhaseMeaning, PTL
<1> QED BY <1>1

\* No step of a phase: the fields and the hosts stay.
LEMMA PhaseStutter ==
    ASSUME LobbyInv, LobbyInv', UNCHANGED <<open, gameID, queuedMatchID, nextGameID>>,
           DOMAIN games' = DOMAIN games, \A g \in DOMAIN games : games'[g].host = games[g].host
    PROVE  UNCHANGED Phases!phaseVars
<1>1. \A s \in Session : Phase'[s] = Phase[s]
  BY PhaseMeaning, PhaseMeaningNext
<1>2. Phase' = Phase
  BY <1>1 DEF Phase
<1>3. Hosts' = Hosts
  BY DEF Hosts
<1> QED BY <1>2, <1>3 DEF Phases!phaseVars, Phase, Hosts

-----------------------------------------------------------------------------
(* The steps of SessionPhases, in terms of Phase and Hosts.                *)

SameHosts == Hosts' = Hosts /\ nextGameID' = nextGameID

\* One connection changes its phase.
MovesTo(s, phase) == Phase' = [Phase EXCEPT ![s] = phase]

\* One connection has new fields and the others keep theirs.
LEMMA MoveOne ==
    ASSUME LobbyInv, LobbyInv', NEW s \in Session,
           \A x \in Session \ {s} : /\ x \in open' <=> x \in open
                                    /\ gameID'[x] = gameID[x]
                                    /\ queuedMatchID'[x] = queuedMatchID[x]
    PROVE  MovesTo(s, FieldPhase(s \in open', gameID'[s], queuedMatchID'[s]))
<1> DEFINE v == FieldPhase(s \in open', gameID'[s], queuedMatchID'[s])
<1>1. ASSUME NEW x \in Session \ {s} PROVE Phase'[x] = Phase[x]
  <2>1. FieldPhase(x \in open', gameID'[x], queuedMatchID'[x])
          = FieldPhase(x \in open, gameID[x], queuedMatchID[x])
    BY <1>1 DEF FieldPhase
  <2> QED BY <2>1, PhaseMeaning, PhaseMeaningNext
<1>2. Phase'[s] = v
  BY PhaseMeaningNext
<1> HIDE DEF v
<1>3. Phase' = [Phase EXCEPT ![s] = v]
  BY <1>1, <1>2 DEF Phase
<1> QED BY <1>3 DEF MovesTo, v

\* The hosts are the same when every game is there with its host.
LEMMA KeepHosts ==
    ASSUME DOMAIN games' = DOMAIN games, nextGameID' = nextGameID,
           \A g \in DOMAIN games : games'[g].host = games[g].host
    PROVE  SameHosts
BY DEF SameHosts, Hosts

\* A session that is in no game hosts none, and a member at most its own.
LEMMA HostsOwnGame ==
    ASSUME LobbyInv, NEW s \in Session, NEW g \in DOMAIN games, games[g].host = s
    PROVE  gameID[s] = g
BY DEF LobbyInv, HostIsMember, SessionStateMachine, Member

\* GoOnline.
LEMMA AcceptPhase ==
    ASSUME LobbyInv, LobbyInv', NEW s \in Session, Accept(s)
    PROVE  Phases!GoOnline(s)
<1>1. /\ s \notin open
      /\ open' = open \cup {s}
      /\ UNCHANGED lobbyVars
  BY DEF Accept, Connect
<1>2. gameID[s] = 0 /\ queuedMatchID[s] = 0
  BY <1>1 DEF LobbyInv, SessionStateMachine
<1>3. Phase[s] = <<"offline", 0>>
  BY <1>1, PhaseMeaning DEF FieldPhase
<1>4. MovesTo(s, <<"idle", 0>>)
  <2>1. FieldPhase(s \in open', gameID'[s], queuedMatchID'[s]) = <<"idle", 0>>
    BY <1>1, <1>2 DEF FieldPhase, lobbyVars
  <2> QED BY <1>1, <2>1, MoveOne DEF lobbyVars
<1>5. SameHosts
  BY <1>1, KeepHosts DEF lobbyVars
<1> QED BY <1>3, <1>4, <1>5
        DEF Phases!GoOnline, Phases!Offline, Phases!Idle, MovesTo, SameHosts, Phase, Hosts

\* Leave: the host closes its game, any other member gives up its place; the
\* connection is idle then, or gone.
LEMMA LeavePhase ==
    ASSUME LobbyInv, LobbyInv', NEW t \in Session, NEW g \in DOMAIN games, t \in Roster(games[g]),
           Leave(t, g), open' \in {open, open \ {t}}
    PROVE  Phases!GiveUp(t) \/ Phases!CloseGame(g)
<1> DEFINE left == removeMember(games[g], t)
<1>1. IsGame(left) /\ left.host = games[g].host /\ Roster(left) = Roster(games[g]) \ {t}
  BY RemoveRoster DEF LobbyInv, RostersOK
<1>2. \A s \in Session : s \in Roster(games[g]) <=> gameID[s] = g
  BY DEF LobbyInv, SessionStateMachine, Member
<1>3. /\ g # 0 /\ gameID[t] = g
      /\ \A s \in Roster(games[g]) : queuedMatchID[s] = 0 /\ s \in open /\ s \in Session
  <2>1. g # 0 /\ gameID[t] = g
    BY <1>2 DEF LobbyInv, FieldsOK
  <2> QED BY <1>2, <2>1, MembersOpen DEF LobbyInv, SessionStateMachine
<1>4. nextGameID' = nextGameID
  BY DEF Leave
<1>5. PICK end \in {<<"idle", 0>>, <<"offline", 0>>} : FieldPhase(t \in open', 0, 0) = end
  BY DEF FieldPhase
<1>6. Phase[t] = <<"game", g>> /\ Phase[t] # <<"offline", 0>>
  <2>1. Phase[t] = FieldPhase(t \in open, gameID[t], queuedMatchID[t])
    BY PhaseMeaning
  <2>2. Phase[t] = <<"game", g>>
    BY <1>3, <2>1 DEF FieldPhase
  <2>3. <<"game", g>> # <<"offline", 0>>
    OBVIOUS
  <2> QED BY <2>2, <2>3
<1> HIDE DEF left
<1>7. CASE games[g].host # t
  <2>1. /\ games' = [games EXCEPT ![g] = refreshMeshReadiness(left)]
        /\ gameID' = Assign(gameID, {t}, 0)
        /\ queuedMatchID' = Assign(queuedMatchID, {t}, 0)
    BY <1>7 DEF Leave, left
  <2>2. refreshMeshReadiness(left).host = games[g].host
    BY <1>1, RefreshRoster DEF SameRoster
  <2>3. SameHosts
    BY <1>4, <2>1, <2>2, KeepHosts
  <2>4. gameID'[t] = 0 /\ queuedMatchID'[t] = 0
    BY <2>1 DEF Assign
  <2>5. MovesTo(t, end)
    <3>1. \A x \in Session \ {t} : /\ x \in open' <=> x \in open
                                  /\ gameID'[x] = gameID[x]
                                  /\ queuedMatchID'[x] = queuedMatchID[x]
      BY <2>1 DEF Assign
    <3>2. FieldPhase(t \in open', gameID'[t], queuedMatchID'[t]) = end
      BY <1>5, <2>4
    <3> QED BY <3>1, <3>2, MoveOne
  <2>6. \A h \in DOMAIN games : games[h].host # t
    BY <1>3, <1>7, HostsOwnGame
  <2>7. \A h \in DOMAIN Hosts : Hosts[h] # t
    BY <2>6 DEF Hosts
  <2>8. Phases!GiveUp(t)
    BY <1>6, <2>3, <2>5, <2>7
       DEF Phases!GiveUp, Phases!Offline, Phases!Idle, MovesTo, SameHosts, Phase, Hosts
  <2> QED BY <2>8
<1>8. CASE games[g].host = t
  <2>1. /\ games' = Without(games, g)
        /\ gameID' = Assign(gameID, Roster(games[g]), 0)
        /\ queuedMatchID' = Assign(queuedMatchID, Roster(games[g]), 0)
    <3>1. Roster(left) \cup {t} = Roster(games[g])
      BY <1>1
    <3> QED BY <1>8, <3>1 DEF Leave, left
  <2>2. ASSUME NEW x \in Session
        PROVE  Phase'[x] = IF x = t THEN end
                           ELSE IF Phase[x] = <<"game", g>> THEN <<"idle", 0>> ELSE Phase[x]
    <3>1. /\ Phase[x] = FieldPhase(x \in open, gameID[x], queuedMatchID[x])
          /\ Phase'[x] = FieldPhase(x \in open', gameID'[x], queuedMatchID'[x])
      BY PhaseMeaning, PhaseMeaningNext
    <3>2. CASE x = t
      BY <1>5, <2>1, <3>1, <3>2 DEF Assign
    <3>3. CASE x # t /\ gameID[x] = g
      <4>1. Phase[x] = <<"game", g>>
        BY <1>2, <1>3, <3>1, <3>3 DEF FieldPhase
      <4>2. Phase'[x] = <<"idle", 0>>
        BY <1>2, <1>3, <2>1, <3>1, <3>3 DEF FieldPhase, Assign
      <4> QED BY <3>3, <4>1, <4>2
    <3>4. CASE x # t /\ gameID[x] # g
      <4>1. Phase'[x] = Phase[x]
        BY <1>2, <2>1, <3>1, <3>4 DEF FieldPhase, Assign
      <4>2. Phase[x] # <<"game", g>>
        BY <3>1, <3>4 DEF FieldPhase
      <4> QED BY <3>4, <4>1, <4>2
    <3> QED BY <3>2, <3>3, <3>4
  <2>3. Phase' = [x \in Session |->
                    IF x = t THEN end
                    ELSE IF Phase[x] = <<"game", g>> THEN <<"idle", 0>> ELSE Phase[x]]
    BY <2>2 DEF Phase
  <2>4. g \in DOMAIN Hosts /\ Hosts[g] = t /\ Hosts' = [h \in DOMAIN Hosts \ {g} |-> Hosts[h]]
    BY <1>8, <2>1 DEF Hosts, Without
  <2>5. Phases!CloseGame(g)
    BY <1>4, <2>3, <2>4
       DEF Phases!CloseGame, Phases!Offline, Phases!Idle, Phases!Playing, Phase, Hosts
  <2> QED BY <2>5
<1> QED BY <1>7, <1>8

\* removeSession: the connection leaves its game, the queue, or nothing.
LEMMA RemoveSessionPhase ==
    ASSUME LobbyInv, LobbyInv', NEW s \in Session, removeSession(s)
    PROVE  Phases!GiveUp(s) \/ \E g \in DOMAIN games : Phases!CloseGame(g)
<1>1. open' = open \ {s} /\ s \in open
  BY DEF removeSession, Unregister
<1>2. ASSUME NEW g \in GamesOf(s), Leave(s, g)
      PROVE  Phases!GiveUp(s) \/ \E h \in DOMAIN games : Phases!CloseGame(h)
  <2>1. g \in DOMAIN games
    BY DEF GamesOf
  <2>2. s \in Roster(games[g])
    <3>1. CASE gameID[s] \in DOMAIN games
      BY <3>1 DEF GamesOf, LobbyInv, SessionStateMachine, Member
    <3>2. CASE gameID[s] \notin DOMAIN games
      BY <2>1, <3>2, FindMember DEF GamesOf, LobbyInv, RostersOK
    <3> QED BY <3>1, <3>2
  <2> QED BY <1>1, <1>2, <2>1, <2>2, LeavePhase
<1>3. CASE /\ GamesOf(s) = {}
           /\ gameID' = [gameID EXCEPT ![s] = 0]
           /\ queuedMatchID' = [queuedMatchID EXCEPT ![s] = 0]
           /\ UNCHANGED <<games, nextGameID>>
  <2>1. gameID[s] = 0
    BY <1>3 DEF GamesOf, LobbyInv, SessionStateMachine
  <2>2. \A h \in DOMAIN games : games[h].host # s
    BY <2>1, HostsOwnGame DEF LobbyInv, FieldsOK
  <2>3. \A h \in DOMAIN Hosts : Hosts[h] # s
    BY <2>2 DEF Hosts
  <2>4. Phase[s] # <<"offline", 0>>
    <3>1. Phase[s] = FieldPhase(s \in open, gameID[s], queuedMatchID[s])
      BY PhaseMeaning
    <3> QED BY <1>1, <2>1, <3>1 DEF FieldPhase
  <2>5. MovesTo(s, <<"offline", 0>>)
    <3>1. FieldPhase(s \in open', gameID'[s], queuedMatchID'[s]) = <<"offline", 0>>
      BY <1>1 DEF FieldPhase
    <3>2. \A x \in Session \ {s} : /\ x \in open' <=> x \in open
                                  /\ gameID'[x] = gameID[x]
                                  /\ queuedMatchID'[x] = queuedMatchID[x]
      BY <1>1, <1>3 DEF LobbyInv, FieldsOK
    <3> QED BY <3>1, <3>2, MoveOne
  <2>6. SameHosts
    BY <1>3, KeepHosts
  <2>7. Phases!GiveUp(s)
    BY <2>3, <2>4, <2>5, <2>6
       DEF Phases!GiveUp, Phases!Offline, Phases!Idle, MovesTo, SameHosts, Phase, Hosts
  <2> QED BY <2>7
<1> QED BY <1>2, <1>3 DEF removeSession

\* A connection that may be given a place: open and in no game.
LEMMA AvailablePhase ==
    ASSUME LobbyInv, NEW s \in Session, s \in open, gameID[s] = 0
    PROVE  Phases!Available(s)
<1>1. Phase[s] = FieldPhase(s \in open, gameID[s], queuedMatchID[s])
  BY PhaseMeaning
<1>2. Phase[s] \in {<<"idle", 0>>, <<"queued", 0>>}
  BY <1>1 DEF FieldPhase
<1> QED BY <1>2 DEF Phases!Available, Phases!Idle, Phases!Queued, Phase

\* The members of S, and maybe other guests, enter the new game.
LEMMA OpenPhase ==
    ASSUME LobbyInv, LobbyInv', NEW s \in Session, NEW t \in Session,
           s \in open, gameID[s] = 0, t \in open, gameID[t] = 0,
           NEW S, S \in {{s}, {s} \cup ({t} \ {s})},
           open' = open,
           nextGameID' = nextGameID + 1, nextGameID \notin DOMAIN games, nextGameID \in Nat \ {0},
           \A x \in Session : gameID'[x] = IF x \in S THEN nextGameID ELSE gameID[x],
           \A x \in Session :
               queuedMatchID'[x] = IF x \in {s, t} THEN 0 ELSE queuedMatchID[x],
           DOMAIN games' = DOMAIN games \cup {nextGameID},
           \A g \in DOMAIN games : games'[g].host = games[g].host,
           games'[nextGameID].host = s
    PROVE  Phases!OpenGame(s, {t} \ {s})
<1> DEFINE n == nextGameID
           guests == {t} \ {s}
<1>1. ASSUME NEW x \in Session
      PROVE  Phase'[x] = IF x \in S THEN <<"game", n>>
                         ELSE IF x \in guests THEN <<"idle", 0>> ELSE Phase[x]
  <2>1. /\ Phase[x] = FieldPhase(x \in open, gameID[x], queuedMatchID[x])
        /\ Phase'[x] = FieldPhase(x \in open', gameID'[x], queuedMatchID'[x])
    BY PhaseMeaning, PhaseMeaningNext
  <2>2. CASE x \in S
    <3>1. x \in open' /\ gameID'[x] = n /\ n # 0
      BY <2>2
    <3> QED BY <2>1, <2>2, <3>1 DEF FieldPhase
  <2>3. CASE x \notin S /\ x \in guests
    <3>1. x \in open' /\ gameID'[x] = 0 /\ queuedMatchID'[x] = 0
      BY <2>3
    <3> QED BY <2>1, <2>3, <3>1 DEF FieldPhase
  <2>4. CASE x \notin S /\ x \notin guests
    <3>1. x \notin {s, t}
      BY <2>4
    <3>2. gameID'[x] = gameID[x] /\ queuedMatchID'[x] = queuedMatchID[x]
      BY <2>4, <3>1
    <3> QED BY <2>1, <2>4, <3>2
  <2> QED BY <2>2, <2>3, <2>4
<1>2. Phase' = [x \in Session |-> IF x \in S THEN <<"game", n>>
                                 ELSE IF x \in guests THEN <<"idle", 0>> ELSE Phase[x]]
  BY <1>1 DEF Phase
<1>3. Hosts' = [g \in DOMAIN Hosts \cup {n} |-> IF g = n THEN s ELSE Hosts[g]]
  BY DEF Hosts
<1>4. Phases!Available(s) /\ \A x \in guests : Phases!Available(x)
  BY AvailablePhase
<1>5. nextGameID - 1 + 1 = n /\ nextGameID' - 1 = n
  OBVIOUS
<1> QED BY <1>2, <1>3, <1>4, <1>5 DEF Phases!OpenGame, Phases!Playing, Phases!Idle, Phase, Hosts

\* resetDedicatedServer opens a game, or changes nothing.
LEMMA ResetPhase ==
    ASSUME LobbyInv, LobbyInv', NEW s \in Session, NEW req \in Requests, ResetDedicated(s, req)
    PROVE  UNCHANGED Phases!phaseVars \/ Phases!OpenGame(s, {s} \ {s})
<1>1. CASE InGame(s)
  BY <1>1, PhaseStutter DEF ResetDedicated, identityVars, lobbyVars
<1>2. CASE ~ InGame(s)
  <2> DEFINE new == newGame(s, Attributes(req), getMatchmakingCapacity(req),
                            getMatchmakingTopology(req))
  <2>1. /\ s \in open /\ open' = open
        /\ games' = Put(games, nextGameID, new)
        /\ gameID' = [gameID EXCEPT ![s] = nextGameID]
        /\ queuedMatchID' = [queuedMatchID EXCEPT ![s] = 0]
        /\ nextGameID' = nextGameID + 1
    BY <1>2 DEF ResetDedicated, MaySend, identityVars
  <2>2. gameID[s] = 0
    BY <1>2, InGameMeaning
  <2>3. new.host = s
    BY NewRoster, RequestAssumption
  <2> HIDE DEF new
  <2>4. nextGameID \notin DOMAIN games /\ nextGameID \in Nat \ {0}
    BY DEF LobbyInv, FieldsOK
  <2>5. /\ DOMAIN games' = DOMAIN games \cup {nextGameID}
        /\ \A g \in DOMAIN games : games'[g].host = games[g].host
        /\ games'[nextGameID].host = s
    BY <2>1, <2>3, <2>4 DEF Put
  <2>6. PICK S : S = {s}
    OBVIOUS
  <2>7. PICK t : t = s
    OBVIOUS
  <2>8. /\ \A x \in Session : gameID'[x] = IF x \in S THEN nextGameID ELSE gameID[x]
        /\ \A x \in Session :
             queuedMatchID'[x] = IF x \in {s, t} THEN 0 ELSE queuedMatchID[x]
    BY <2>1, <2>6, <2>7 DEF LobbyInv, FieldsOK
  <2>9. S \in {{s}, {s} \cup ({t} \ {s})}
    BY <2>6
  <2>10. t \in Session /\ t \in open /\ gameID[t] = 0
    BY <2>1, <2>2, <2>7
  <2>11. s \in open /\ open' = open /\ nextGameID' = nextGameID + 1
    BY <2>1
  <2>12. Phases!OpenGame(s, {t} \ {s})
    BY <2>2, <2>4, <2>5, <2>8, <2>9, <2>10, <2>11, OpenPhase
  <2> QED BY <2>7, <2>12
<1> QED BY <1>1, <1>2

\* queueMatch, when an open game takes the request.
LEMMA JoinPhase ==
    ASSUME LobbyInv, LobbyInv', NEW request, request.session \in Session,
           request.session \in open, ~ InGame(request.session), JoinGame(request), open' = open
    PROVE  \E g \in DOMAIN games : Phases!Join(request.session, g)
<1> DEFINE s == request.session
<1>1. PICK g \in Joinable(request) :
        /\ games' = [Visited(request, g) EXCEPT ![g] = addMember(games[g], s)]
        /\ gameID' = [gameID EXCEPT ![s] = g]
        /\ queuedMatchID' = [queuedMatchID EXCEPT ![s] = 0]
        /\ nextGameID' = nextGameID
  BY DEF JoinGame
<1>2. g \in DOMAIN games /\ g # 0
  BY DEF Joinable, LobbyInv, FieldsOK
<1>3. gameID[s] = 0
  BY InGameMeaning
<1> HIDE DEF s
<1>4. s \in Session /\ s \in open
  BY DEF s
<1>5. addMember(games[g], s).host = games[g].host
  BY <1>2, <1>4, AddRoster DEF LobbyInv, RostersOK
<1>6. SameHosts
  <2>1. /\ DOMAIN Visited(request, g) = DOMAIN games
        /\ \A h \in DOMAIN games : Visited(request, g)[h].host = games[h].host
    BY VisitedRosters DEF SameRoster
  <2>2. DOMAIN games' = DOMAIN games /\ \A h \in DOMAIN games : games'[h].host = games[h].host
    BY <1>1, <1>2, <1>5, <2>1
  <2> QED BY <1>1, <2>2, KeepHosts
<1>7. MovesTo(s, <<"game", g>>)
  <2>1. \A x \in Session \ {s} : /\ x \in open' <=> x \in open
                                /\ gameID'[x] = gameID[x]
                                /\ queuedMatchID'[x] = queuedMatchID[x]
    BY <1>1 DEF LobbyInv, FieldsOK
  <2>2. s \in open' /\ gameID'[s] = g
    BY <1>1, <1>4 DEF LobbyInv, FieldsOK
  <2>3. FieldPhase(s \in open', gameID'[s], queuedMatchID'[s]) = <<"game", g>>
    BY <1>2, <2>2 DEF FieldPhase
  <2> QED BY <1>4, <2>1, <2>3, MoveOne
<1>8. Phases!Available(s)
  BY <1>3, <1>4, AvailablePhase
<1>9. g \in DOMAIN Hosts
  BY <1>2 DEF Hosts
<1>10. Phases!Join(s, g)
  BY <1>6, <1>7, <1>8, <1>9 DEF Phases!Join, Phases!Playing, MovesTo, SameHosts, Phase, Hosts
<1> QED BY <1>2, <1>10 DEF s

\* queueMatch, when the request is paired with a waiting one.
LEMMA PairPhase ==
    ASSUME LobbyInv, LobbyInv', NEW request, request.session \in Session,
           request.session \in open, ~ InGame(request.session), PairMatch(request), open' = open
    PROVE  \E host \in Session : Phases!OpenGame(host, {request.session} \ {host})
<1> DEFINE s == request.session
           n == nextGameID
           base(r) == newGame(r.session, r.attrs, r.cap, r.topology)
<1>1. PICK r \in matchQueue :
        /\ games' = Put(Visited(request, n), n, addMember(base(r), s))
        /\ gameID' = Assign([gameID EXCEPT ![s] = 0], Roster(addMember(base(r), s)), n)
        /\ queuedMatchID' =
             Assign([queuedMatchID EXCEPT ![s] = 0], Roster(addMember(base(r), s)), 0)
  BY DEF PairMatch
<1>2. nextGameID' = n + 1
  BY DEF PairMatch
<1> DEFINE host == r.session
           b == base(r)
           new == addMember(b, s)
           S == Roster(new)
<1>3. /\ s \in Session /\ s \in open /\ gameID[s] = 0
      /\ host \in Session /\ host \in open /\ gameID[host] = 0
      /\ r.cap \in Int
  <2>1. gameID[s] = 0
    BY InGameMeaning
  <2>2. host \in Session /\ r.msid # 0 /\ r.cap \in Int
    BY RequestAssumption DEF LobbyInv, FieldsOK, MatchRequests
  <2>3. queuedMatchID[host] = r.msid
    BY DEF LobbyInv, SessionStateMachine
  <2>4. gameID[host] = 0 /\ host \in open
    BY <2>2, <2>3 DEF LobbyInv, SessionStateMachine
  <2> QED BY <2>1, <2>2, <2>4
<1>4. IsGame(b) /\ b.host = host /\ Roster(b) = {host}
  <2> SUFFICES /\ IsGame(newGame(host, r.attrs, r.cap, r.topology))
               /\ newGame(host, r.attrs, r.cap, r.topology).host = host
               /\ Roster(newGame(host, r.attrs, r.cap, r.topology)) = {host}
    OBVIOUS
  <2> HIDE DEF host
  <2> QED BY <1>3, NewRoster
<1> HIDE DEF base, b
<1>5. new.host = host /\ S \in {{host}, {host} \cup ({s} \ {host})}
  BY <1>3, <1>4, AddRoster
<1>6. /\ games' = Put(Visited(request, n), n, new)
      /\ gameID' = Assign([gameID EXCEPT ![s] = 0], S, n)
      /\ queuedMatchID' = Assign([queuedMatchID EXCEPT ![s] = 0], S, 0)
  BY <1>1 DEF b
<1> HIDE DEF new
<1>7. n \notin DOMAIN games /\ n \in Nat \ {0}
  BY DEF LobbyInv, FieldsOK
<1>8. /\ DOMAIN games' = DOMAIN games \cup {n}
      /\ \A g \in DOMAIN games : games'[g].host = games[g].host
      /\ games'[n].host = host
  <2>1. /\ DOMAIN Visited(request, n) = DOMAIN games
        /\ \A h \in DOMAIN games : Visited(request, n)[h].host = games[h].host
    BY VisitedRosters DEF SameRoster
  <2> QED BY <1>5, <1>6, <1>7, <2>1 DEF Put
<1> HIDE DEF S
<1>9. \A x \in Session : gameID'[x] = IF x \in S THEN n ELSE gameID[x]
  BY <1>3, <1>6 DEF Assign, LobbyInv, FieldsOK
<1>10. \A x \in Session : queuedMatchID'[x] = IF x \in {host, s} THEN 0 ELSE queuedMatchID[x]
  BY <1>3, <1>5, <1>6 DEF Assign, LobbyInv, FieldsOK
<1> HIDE DEF s, host
<1>11. Phases!OpenGame(host, {s} \ {host})
  BY <1>2, <1>3, <1>5, <1>7, <1>8, <1>9, <1>10, OpenPhase
<1> QED BY <1>3, <1>11 DEF s

\* queueMatch, when the request has to wait.
LEMMA EnqueuePhase ==
    ASSUME LobbyInv, LobbyInv', NEW request, request \in MatchRequests,
           request.session \in open, ~ InGame(request.session), EnqueueMatch(request), open' = open
    PROVE  Phases!Wait(request.session)
<1> DEFINE s == request.session
<1>1. /\ games' = Visited(request, nextGameID)
      /\ gameID' = [gameID EXCEPT ![s] = 0]
      /\ queuedMatchID' = [queuedMatchID EXCEPT ![s] = request.msid]
      /\ nextGameID' = nextGameID
  BY DEF EnqueueMatch
<1>2. s \in Session /\ request.msid # 0
  BY DEF MatchRequests
<1>3. gameID[s] = 0
  BY <1>2, InGameMeaning
<1>4. SameHosts
  BY <1>1, VisitedRosters, KeepHosts DEF SameRoster
<1>5. MovesTo(s, <<"queued", 0>>)
  <2>1. \A x \in Session \ {s} : /\ x \in open' <=> x \in open
                                /\ gameID'[x] = gameID[x]
                                /\ queuedMatchID'[x] = queuedMatchID[x]
    BY <1>1 DEF LobbyInv, FieldsOK
  <2>2. s \in open' /\ gameID'[s] = 0 /\ queuedMatchID'[s] # 0
    BY <1>1, <1>2 DEF LobbyInv, FieldsOK
  <2>3. FieldPhase(s \in open', gameID'[s], queuedMatchID'[s]) = <<"queued", 0>>
    BY <2>2 DEF FieldPhase
  <2> QED BY <1>2, <2>1, <2>3, MoveOne
<1>6. Phases!Available(s)
  BY <1>2, <1>3, AvailablePhase
<1> QED BY <1>4, <1>5, <1>6 DEF Phases!Wait, Phases!Queued, MovesTo, SameHosts, Phase, Hosts

\* startMatchmaking, in all its outcomes.
LEMMA StartPhase ==
    ASSUME LobbyInv, LobbyInv', NEW s \in Session, NEW req \in Requests, StartMatchmaking(s, req)
    PROVE  \/ UNCHANGED Phases!phaseVars
           \/ Phases!Wait(s)
           \/ \E g \in DOMAIN games : Phases!Join(s, g)
           \/ \E host \in Session : Phases!OpenGame(host, {s} \ {host})
<1> DEFINE request == MatchRequest(s, req, nextMatchID)
<1>1. s \in open /\ open' = open /\ nextMatchID <= MaxMatches
  BY DEF StartMatchmaking, MaySend, identityVars
<1>2. request \in MatchRequests /\ request.session = s
  BY <1>1, LobbyAssumption DEF MatchRequest, MatchRequests, LobbyInv, FieldsOK
<1>3. CASE IgnoreMatch(s)
  BY <1>1, <1>3, PhaseStutter DEF IgnoreMatch
<1> HIDE DEF request
<1>4. CASE ~ InGame(s) /\ JoinGame(request)
  BY <1>1, <1>2, <1>4, JoinPhase
<1>5. CASE ~ InGame(s) /\ PairMatch(request)
  BY <1>1, <1>2, <1>5, PairPhase
<1>6. CASE ~ InGame(s) /\ EnqueueMatch(request)
  BY <1>1, <1>2, <1>6, EnqueuePhase
<1> QED BY <1>3, <1>4, <1>5, <1>6 DEF StartMatchmaking, request

\* cancelMatchmaking: a waiting connection gives up.
LEMMA CancelPhase ==
    ASSUME LobbyInv, LobbyInv', NEW s \in Session, NEW msid, CancelMatchmaking(s, msid)
    PROVE  Phases!GiveUp(s)
<1>1. /\ s \in open /\ open' = open
      /\ queuedMatchID' = [queuedMatchID EXCEPT ![s] = 0]
      /\ UNCHANGED <<gameID, games, nextGameID>>
  BY DEF CancelMatchmaking, MaySend, identityVars
<1>2. PICK r \in matchQueue : r.session = s
  BY DEF CancelMatchmaking
<1>3. queuedMatchID[s] # 0
  BY <1>2 DEF LobbyInv, SessionStateMachine, FieldsOK, MatchRequests
<1>4. gameID[s] = 0
  BY <1>3 DEF LobbyInv, SessionStateMachine
<1>5. \A h \in DOMAIN games : games[h].host # s
  BY <1>4, HostsOwnGame DEF LobbyInv, FieldsOK
<1>6. \A h \in DOMAIN Hosts : Hosts[h] # s
  BY <1>5 DEF Hosts
<1>7. Phase[s] # <<"offline", 0>>
  <2>1. Phase[s] = FieldPhase(s \in open, gameID[s], queuedMatchID[s])
    BY PhaseMeaning
  <2> QED BY <1>1, <1>4, <2>1 DEF FieldPhase
<1>8. MovesTo(s, <<"idle", 0>>)
  <2>1. s \in open' /\ gameID'[s] = 0 /\ queuedMatchID'[s] = 0
    BY <1>1, <1>4 DEF LobbyInv, FieldsOK
  <2>2. FieldPhase(s \in open', gameID'[s], queuedMatchID'[s]) = <<"idle", 0>>
    BY <2>1 DEF FieldPhase
  <2>3. \A x \in Session \ {s} : /\ x \in open' <=> x \in open
                                /\ gameID'[x] = gameID[x]
                                /\ queuedMatchID'[x] = queuedMatchID[x]
    BY <1>1 DEF LobbyInv, FieldsOK
  <2> QED BY <2>2, <2>3, MoveOne
<1>9. SameHosts
  BY <1>1, KeepHosts
<1> QED BY <1>6, <1>7, <1>8, <1>9
        DEF Phases!GiveUp, Phases!Offline, Phases!Idle, MovesTo, SameHosts, Phase, Hosts

\* removePlayer: the removed member leaves and stays connected.
LEMMA RemovePlayerPhase ==
    ASSUME LobbyInv, LobbyInv', NEW s \in Session, NEW gid, NEW pid, RemovePlayer(s, gid, pid)
    PROVE  \/ \E t \in Session : Phases!GiveUp(t)
           \/ \E g \in DOMAIN games : Phases!CloseGame(g)
<1>1. PICK t \in sessionForPlayerID(games[gid], pid) : Leave(t, gid)
  BY DEF RemovePlayer, RemovalTarget
<1>2. gid \in DOMAIN games /\ open' = open
  BY DEF RemovePlayer, identityVars
<1>3. t \in Roster(games[gid])
  BY <1>2, FindMember DEF LobbyInv, RostersOK
<1>4. t \in Session
  BY <1>2, <1>3, MembersOpen
<1> QED BY <1>1, <1>2, <1>3, <1>4, LeavePhase

\* The requests that replace the record of a game keep its host.
LEMMA RequestPhase ==
    ASSUME LobbyInv, LobbyInv', NEW s \in Session, NEW gid, NEW pid, NEW report, NEW settings,
           NEW attributes, NEW capacity, NEW gameState,
           \/ UpdateMesh(s, gid, report)
           \/ SetPlayerAttrs(s, gid, pid, attributes)
           \/ SetPlayerCapacity(s, gid, capacity)
           \/ SetGameAttrs(s, gid, attributes)
           \/ SetGameSettings(s, gid, settings)
           \/ AdvanceGameState(s, gid, gameState)
           \/ ReplayGame(s, gid)
    PROVE  UNCHANGED Phases!phaseVars
<1> DEFINE game == games[gid]
           e == ensureMembershipState(game)
<1>1. gid \in DOMAIN games /\ UNCHANGED <<open, gameID, queuedMatchID, nextGameID>>
  BY DEF UpdateMesh, SetPlayerAttrs, SetPlayerCapacity, SetGameAttrs, SetGameSettings,
         AdvanceGameState, ReplayGame, SetField, identityVars
<1>2. DOMAIN game = GameFields /\ DOMAIN e = GameFields /\ e.host = game.host
  BY <1>1, EnsureRoster DEF LobbyInv, RostersOK, SameRoster, IsGame
<1>3. ASSUME NEW new, new.host = game.host, games' = [games EXCEPT ![gid] = new]
      PROVE  UNCHANGED Phases!phaseVars
  BY <1>1, <1>3, PhaseStutter
<1>4. CASE UpdateMesh(s, gid, report)
  <2> DEFINE known == {p \in DOMAIN report : sessionForPlayerID(e, p) \notin {{}, {s}}}
             up == {p \in known : report[p] = 2}
             linked == [e EXCEPT !.mesh =
                          {l \in @ : ~ (l[1] = persona[s] /\ l[2] \in known)}
                          \cup ({persona[s]} \X up)]
  <2>1. games' \in {[games EXCEPT ![gid] = e],
                    [games EXCEPT ![gid] = refreshMeshReadiness(linked)]}
    BY <1>4 DEF UpdateMesh
  <2>2. DOMAIN linked = GameFields /\ linked.host = game.host
    <3> HIDE DEF e, known, up
    <3> QED BY <1>2 DEF GameFields
  <2> HIDE DEF linked, e
  <2>3. refreshMeshReadiness(linked).host = game.host
    BY <2>2 DEF refreshMeshReadiness, GameFields
  <2> QED BY <1>2, <1>3, <2>1, <2>3
<1>5. CASE SetPlayerAttrs(s, gid, pid, attributes)
  <2> DEFINE old == IF pid \in DOMAIN e.playerAttrs THEN e.playerAttrs[pid] ELSE <<>>
             new == [e EXCEPT !.playerAttrs = Put(@, pid, attributes @@ old)]
  <2>1. games' = [games EXCEPT ![gid] = new]
    BY <1>5 DEF SetPlayerAttrs
  <2>2. new.host = game.host
    <3> HIDE DEF e, old
    <3> QED BY <1>2 DEF GameFields
  <2> HIDE DEF new
  <2> QED BY <1>3, <2>1, <2>2
<1>6. CASE \/ SetPlayerCapacity(s, gid, capacity)
           \/ SetGameAttrs(s, gid, attributes)
           \/ SetGameSettings(s, gid, settings)
           \/ AdvanceGameState(s, gid, gameState)
           \/ ReplayGame(s, gid)
  <2>1. PICK new : /\ games' = [games EXCEPT ![gid] = new]
                   /\ \/ new = [game EXCEPT !.capacity = capacity]
                      \/ new = [game EXCEPT !.attrs = attributes]
                      \/ new = [game EXCEPT !.settings = settings]
                      \/ new = [game EXCEPT !.state = gameState]
                      \/ new = [game EXCEPT !.state = 130]
    BY <1>6 DEF SetPlayerCapacity, SetGameAttrs, SetGameSettings, AdvanceGameState, ReplayGame,
                SetField
  <2>2. new.host = game.host
    BY <1>2, <2>1 DEF GameFields
  <2> QED BY <1>3, <2>1, <2>2
<1> QED BY <1>4, <1>5, <1>6

-----------------------------------------------------------------------------
\* Every step of the lobby is a step of the phases, or none.
LEMMA PhasesStep ==
    ASSUME LobbyInv, LobbyInv', [LobbyNext]_vars
    PROVE  [Phases!PhasesNext]_(Phases!phaseVars)
<1> DEFINE Goal == Phases!PhasesNext \/ UNCHANGED Phases!phaseVars
<1>1. DOMAIN [g \in DOMAIN games |-> games[g].host] = DOMAIN games
  OBVIOUS
<1>2. ASSUME NEW s \in Session, Accept(s) \/ removeSession(s)
      PROVE  Phases!PhasesNext
  BY <1>1, <1>2, AcceptPhase, RemoveSessionPhase DEF Phases!PhasesNext
<1>3. ASSUME NEW s \in Session, SilentLogin(s)
      PROVE  UNCHANGED Phases!phaseVars
  <2>1. open' = open /\ UNCHANGED lobbyVars
    BY <1>3 DEF SilentLogin, Authenticate, AuthenticateAgain, identityVars
  <2> QED BY <2>1, PhaseStutter DEF lobbyVars
<1>4. ASSUME NEW s \in Session, NEW req \in Requests, ResetDedicated(s, req)
      PROVE  Goal
  BY <1>4, ResetPhase DEF Phases!PhasesNext
<1>5. ASSUME NEW s \in Session, NEW req \in Requests, StartMatchmaking(s, req)
      PROVE  Goal
  BY <1>1, <1>5, StartPhase DEF Phases!PhasesNext
<1>6. ASSUME NEW s \in Session, NEW msid \in 1..MaxMatches, CancelMatchmaking(s, msid)
      PROVE  Phases!PhasesNext
  BY <1>6, CancelPhase DEF Phases!PhasesNext
<1>7. ASSUME NEW s \in Session, NEW gid \in GameIDs, NEW pid \in PlayerIDs,
             RemovePlayer(s, gid, pid)
      PROVE  Phases!PhasesNext
  BY <1>1, <1>7, RemovePlayerPhase DEF Phases!PhasesNext
<1>8. ASSUME NEW s \in Session, NEW gid \in GameIDs, FinalizeGame(s, gid)
      PROVE  UNCHANGED Phases!phaseVars
  BY <1>8, PhaseStutter DEF FinalizeGame, identityVars
<1>9. ASSUME NEW s \in Session, NEW gid \in GameIDs,
             \/ \E report \in MeshReports : UpdateMesh(s, gid, report)
             \/ \E pid \in PlayerIDs, attributes \in AttrMaps :
                    SetPlayerAttrs(s, gid, pid, attributes)
             \/ \E capacity \in Capacities : SetPlayerCapacity(s, gid, capacity)
             \/ \E attributes \in AttrMaps : SetGameAttrs(s, gid, attributes)
             \/ \E settings \in SettingBits : SetGameSettings(s, gid, settings)
             \/ \E gameState \in GameStates : AdvanceGameState(s, gid, gameState)
             \/ ReplayGame(s, gid)
      PROVE  UNCHANGED Phases!phaseVars
  BY <1>9, RequestPhase
<1>10. CASE UNCHANGED vars
  BY <1>10, PhaseStutter DEF vars, identityVars, lobbyVars
<1>11. Goal
  <2> HIDE DEF Goal
  <2>1. Phases!PhasesNext => Goal
    BY DEF Goal
  <2>2. (UNCHANGED Phases!phaseVars) => Goal
    BY DEF Goal
  <2> QED BY <1>2, <1>3, <1>4, <1>5, <1>6, <1>7, <1>8, <1>9, <1>10, <2>1, <2>2 DEF LobbyNext
<1> QED BY <1>11

\* The lobby implements SessionPhases: a connection moves only along the state
\* machine of server.go:203, a game ends for all its players in the step in
\* which its host leaves, and no game number is used twice.
THEOREM LobbyImplementsPhases == LobbySpec => ImplementsPhases
<1>1. LobbyInit => Phases!PhasesInit
  BY DEF LobbyInit, IdentityInit, Phases!PhasesInit, Phases!Offline, PhaseOf
<1>2. LobbyInv /\ LobbyInv' /\ [LobbyNext]_vars => [Phases!PhasesNext]_(Phases!phaseVars)
  BY PhasesStep
<1> QED BY <1>1, <1>2, LobbyInvariant, PTL DEF LobbySpec, ImplementsPhases, Phases!PhasesSpec
=============================================================================

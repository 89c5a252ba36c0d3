--------------------------- MODULE DeliveryProofs ---------------------------
(***************************************************************************)
(* What the clients are told: every member learns of every other one, of   *)
(* the state of its game and of its end, however the goroutines that put   *)
(* the frames on the channels overlap with joins, removals and disconnects. *)
(***************************************************************************)
EXTENDS ServerProofs

-----------------------------------------------------------------------------
(* The lists of frames the handlers make.                                  *)

LEMMA MappedIsSeq ==
    ASSUME NEW members, IsSeq(members), NEW f, f = [i \in DOMAIN members |-> f[i]]
    PROVE  IsSeq(f) /\ DOMAIN f = DOMAIN members /\ ToSet(f) = {f[i] : i \in DOMAIN members}
<1>1. DOMAIN members = 1..Len(members) /\ Len(members) \in Nat
  BY IsSeqFacts
<1>2. DOMAIN f = 1..Len(members)
  BY <1>1
<1>3. ToSet(f) = {f[i] : i \in DOMAIN members}
  BY <1>1, <1>2 DEF ToSet
<1>4. \A i \in 1..Len(members) : f[i] \in ToSet(f)
  BY <1>1, <1>3
<1>5. f \in Seq(ToSet(f))
  BY <1>1, <1>2, <1>4
<1> QED BY <1>1, <1>2, <1>3, <1>5 DEF IsSeq

\* The frames made for each member of a roster, one list after the other.
LEMMA FlattenedMap ==
    ASSUME NEW members, IsSeq(members), NEW f, f = [i \in DOMAIN members |-> f[i]],
           \A i \in DOMAIN members : IsSeq(f[i])
    PROVE  /\ IsSeq(FlattenSeq(f))
           /\ \A x : x \in ToSet(FlattenSeq(f)) <=> \E i \in DOMAIN members : x \in ToSet(f[i])
<1>1. IsSeq(f) /\ DOMAIN f = DOMAIN members
  BY MappedIsSeq
<1>2. /\ IsSeq(FlattenSeq(f))
      /\ ToSet(FlattenSeq(f)) = UNION {ToSet(f[i]) : i \in DOMAIN f}
  BY <1>1, Flattened
<1> QED BY <1>1, <1>2

LEMMA OthersSet ==
    ASSUME NEW members, IsSeq(members), NEW s
    PROVE  IsSeq(Others(members, s)) /\ ToSet(Others(members, s)) = ToSet(members) \ {s}
<1>1. PICK f : f = [i \in DOMAIN members |-> IF members[i] = s THEN <<>> ELSE <<members[i]>>]
  OBVIOUS
<1>2. Others(members, s) = FlattenSeq(f)
  BY <1>1 DEF Others, ForEach
<1>3. f = [i \in DOMAIN members |-> f[i]]
  BY <1>1
<1>4. \A i \in DOMAIN members :
        IsSeq(f[i]) /\ ToSet(f[i]) = {members[i]} \ {s}
  BY <1>1, EmptyIsSeq, SingleIsSeq
<1>5. /\ IsSeq(FlattenSeq(f))
      /\ \A x : x \in ToSet(FlattenSeq(f)) <=> \E i \in DOMAIN members : x \in ToSet(f[i])
  BY <1>3, <1>4, FlattenedMap
<1>6. ToSet(members) = {members[i] : i \in DOMAIN members}
  BY DEF ToSet
<1> QED BY <1>2, <1>4, <1>5, <1>6

LEMMA FarewellSet ==
    ASSUME NEW recipients, IsSeq(recipients), NEW g, NEW t
    PROVE  /\ IsSeq(Farewell(recipients, g, t))
           /\ \A x : x \in ToSet(Farewell(recipients, g, t)) <=>
                \E m \in ToSet(recipients) :
                    \/ x = To(m, playerRemovedNotification(g, persona[t]))
                    \/ games[g].host = t /\ m # t /\ x = To(m, gameRemovedNotification(g))
<1> DEFINE first(m) == <<To(m, playerRemovedNotification(g, persona[t]))>>
           second(m) == IF games[g].host = t /\ m # t
                        THEN <<To(m, gameRemovedNotification(g))>> ELSE <<>>
<1>1. PICK f : f = [i \in DOMAIN recipients |-> first(recipients[i]) \o second(recipients[i])]
  OBVIOUS
<1>2. Farewell(recipients, g, t) = FlattenSeq(f)
  BY <1>1 DEF Farewell, ForEach
<1>3. f = [i \in DOMAIN recipients |-> f[i]]
  BY <1>1
<1>4. ASSUME NEW i \in DOMAIN recipients
      PROVE  IsSeq(f[i]) /\ ToSet(f[i]) = ToSet(first(recipients[i])) \cup ToSet(second(recipients[i]))
  <2>1. IsSeq(first(recipients[i])) /\ IsSeq(second(recipients[i]))
    BY EmptyIsSeq, SingleIsSeq
  <2>2. f[i] = first(recipients[i]) \o second(recipients[i])
    BY <1>1
  <2> HIDE DEF first, second
  <2> QED BY <2>1, <2>2, ConcatSet
<1>5. /\ IsSeq(FlattenSeq(f))
      /\ \A x : x \in ToSet(FlattenSeq(f)) <=> \E i \in DOMAIN recipients : x \in ToSet(f[i])
  BY <1>3, <1>4, FlattenedMap
<1>6. ASSUME NEW m
      PROVE  /\ ToSet(first(m)) = {To(m, playerRemovedNotification(g, persona[t]))}
             /\ ToSet(second(m)) = IF games[g].host = t /\ m # t
                                   THEN {To(m, gameRemovedNotification(g))} ELSE {}
  BY EmptyIsSeq, SingleIsSeq
<1>7. ToSet(recipients) = {recipients[i] : i \in DOMAIN recipients}
  BY DEF ToSet
<1> HIDE DEF first, second
<1>8. ASSUME NEW x
      PROVE  (\E i \in DOMAIN recipients : x \in ToSet(f[i])) <=>
             \E m \in ToSet(recipients) : x \in ToSet(first(m)) \cup ToSet(second(m))
  BY <1>4, <1>7
<1> QED BY <1>2, <1>5, <1>6, <1>8

\* What a handler that has returned leaves its goroutine to put.
LEMMA AnswerSet ==
    ASSUME DOMAIN work = Session, NEW s \in Session, NEW notifications, NEW reply, NEW deferred,
           IsSeq(notifications), IsSeq(deferred), Answer(s, notifications, reply, deferred)
    PROVE  /\ IsSeq(work'[s])
           /\ ToSet(work'[s]) = ToSet(notifications) \cup {To(s, reply)}
                                \cup {To(s, frame) : frame \in ToSet(deferred)}
           /\ \A t \in Session \ {s} : work'[t] = work[t]
<1> DEFINE later == [i \in DOMAIN deferred |-> To(s, deferred[i])]
           now == notifications \o <<To(s, reply)>>
<1>1. work' = [work EXCEPT ![s] = now \o later]
  BY DEF Answer
<1>2. IsSeq(later) /\ ToSet(later) = {To(s, frame) : frame \in ToSet(deferred)}
  <2>1. PICK f : f = later
    OBVIOUS
  <2>2. f = [i \in DOMAIN deferred |-> f[i]] /\ \A i \in DOMAIN deferred : f[i] = To(s, deferred[i])
    BY <2>1
  <2>3. IsSeq(f) /\ ToSet(f) = {f[i] : i \in DOMAIN deferred}
    BY <2>2, MappedIsSeq
  <2>4. ToSet(deferred) = {deferred[i] : i \in DOMAIN deferred}
    BY DEF ToSet
  <2> HIDE DEF later
  <2> QED BY <2>1, <2>2, <2>3, <2>4
<1>3. IsSeq(now) /\ ToSet(now) = ToSet(notifications) \cup {To(s, reply)}
  BY SingleIsSeq, ConcatSet
<1> HIDE DEF later, now
<1>4. IsSeq(now \o later) /\ ToSet(now \o later) = ToSet(now) \cup ToSet(later)
  BY <1>2, <1>3, ConcatSet
<1> QED BY <1>1, <1>2, <1>3, <1>4

-----------------------------------------------------------------------------
(* What the requests do to rosters and states.                             *)

\* Members and state of a game are left alone.
Same(new, game) == new.members = game.members /\ new.state = game.state

\* The step touches no roster and no state.
Calm == DOMAIN games' = DOMAIN games /\ \A g \in DOMAIN games : Same(games'[g], games[g])

LEMMA VisitedSame ==
    ASSUME LobbyInv, NEW request, NEW g
    PROVE  /\ DOMAIN Visited(request, g) = DOMAIN games
           /\ \A h \in DOMAIN games : Same(Visited(request, g)[h], games[h])
<1>1. \A h \in DOMAIN games : Same(ensureMembershipState(games[h]), games[h])
  BY DEF Same, ensureMembershipState, LobbyInv, RostersOK, IsGame, GameFields
<1> QED BY <1>1 DEF Visited, Same

LEMMA AddState ==
    ASSUME NEW game, IsGame(game), NEW s
    PROVE  addMember(game, s).state = game.state
BY DEF addMember, ensureMembershipState, IsGame, GameFields

\* updateMeshConnection and setPlayerAttributes.
LEMMA RequestsCalm ==
    ASSUME LobbyInv, NEW s \in Session, NEW gid, NEW pid, NEW report, NEW settings,
           NEW attributes, NEW capacity \in Int,
           \/ UpdateMesh(s, gid, report)
           \/ SetPlayerAttrs(s, gid, pid, attributes)
           \/ SetPlayerCapacity(s, gid, capacity)
           \/ SetGameAttrs(s, gid, attributes)
           \/ SetGameSettings(s, gid, settings)
    PROVE  Calm
<1> DEFINE game == games[gid]
           e == ensureMembershipState(game)
<1>1. gid \in DOMAIN games
  BY DEF UpdateMesh, SetPlayerAttrs, SetPlayerCapacity, SetGameAttrs, SetGameSettings, SetField
<1>2. IsGame(game) /\ IsGame(e) /\ Same(e, game)
  BY <1>1, EnsureRoster
     DEF LobbyInv, RostersOK, SameRoster, Same, ensureMembershipState, IsGame, GameFields
<1>3. ASSUME NEW new, Same(new, game), games' = [games EXCEPT ![gid] = new]
      PROVE  Calm
  BY <1>1, <1>3 DEF Same, Calm
<1>4. CASE UpdateMesh(s, gid, report)
  <2> DEFINE known == {p \in DOMAIN report : sessionForPlayerID(e, p) \notin {{}, {s}}}
             up == {p \in known : report[p] = 2}
             linked == [e EXCEPT !.mesh =
                          {l \in @ : ~ (l[1] = persona[s] /\ l[2] \in known)}
                          \cup ({persona[s]} \X up)]
  <2>1. games' \in {[games EXCEPT ![gid] = e],
                    [games EXCEPT ![gid] = refreshMeshReadiness(linked)]}
    BY <1>4 DEF UpdateMesh
  <2>2. Same(linked, game) /\ DOMAIN linked = GameFields
    <3> HIDE DEF e, known, up
    <3> QED BY <1>2 DEF Same, IsGame, GameFields
  <2> HIDE DEF linked, e
  <2>3. Same(refreshMeshReadiness(linked), game)
    BY <2>2 DEF Same, refreshMeshReadiness, GameFields
  <2> QED BY <1>2, <1>3, <2>1, <2>3
<1>5. CASE SetPlayerAttrs(s, gid, pid, attributes)
  <2> DEFINE old == IF pid \in DOMAIN e.playerAttrs THEN e.playerAttrs[pid] ELSE <<>>
             new == [e EXCEPT !.playerAttrs = Put(@, pid, attributes @@ old)]
  <2>1. games' = [games EXCEPT ![gid] = new]
    BY <1>5 DEF SetPlayerAttrs
  <2>2. Same(new, game)
    <3> HIDE DEF e, old
    <3> QED BY <1>2 DEF Same, IsGame, GameFields
  <2> HIDE DEF new
  <2> QED BY <1>3, <2>1, <2>2
<1>6. CASE \/ SetPlayerCapacity(s, gid, capacity)
           \/ SetGameAttrs(s, gid, attributes)
           \/ SetGameSettings(s, gid, settings)
  <2>1. PICK new : /\ games' = [games EXCEPT ![gid] = new]
                   /\ \/ new = [game EXCEPT !.capacity = capacity]
                      \/ new = [game EXCEPT !.attrs = attributes]
                      \/ new = [game EXCEPT !.settings = settings]
    BY <1>6 DEF SetPlayerCapacity, SetGameAttrs, SetGameSettings, SetField
  <2>2. Same(new, game)
    BY <1>2, <2>1 DEF Same, IsGame, GameFields
  <2> QED BY <1>3, <2>1, <2>2
<1> QED BY <1>4, <1>5, <1>6

\* advanceGameState and replayGame.
SetsState(s, gid, state) == SetField(s, gid, LAMBDA game : [game EXCEPT !.state = state])

LEMMA StateChanges ==
    ASSUME LobbyInv, NEW s, NEW gid, NEW state,
           SetsState(s, gid, state)
    PROVE  /\ gid \in DOMAIN games /\ DOMAIN games' = DOMAIN games
           /\ \A g \in DOMAIN games : games'[g].members = games[g].members
           /\ games'[gid].state = state
           /\ \A g \in DOMAIN games \ {gid} : games'[g].state = games[g].state
<1>1. gid \in DOMAIN games /\ games' = [games EXCEPT ![gid] = [games[gid] EXCEPT !.state = state]]
  BY DEF SetsState, SetField
<1>2. DOMAIN games[gid] = GameFields
  BY <1>1 DEF LobbyInv, RostersOK, IsGame
<1> QED BY <1>1, <1>2 DEF GameFields

\* A member leaves; with the host, everyone does.
LEMMA LeaveSame ==
    ASSUME LobbyInv, NEW t \in Session, NEW g \in DOMAIN games, Leave(t, g)
    PROVE  /\ DOMAIN games' = IF games[g].host = t THEN DOMAIN games \ {g} ELSE DOMAIN games
           /\ \A h \in DOMAIN games \ {g} : games'[h] = games[h]
           /\ games[g].host # t => /\ games'[g].state = games[g].state
                                   /\ Roster(games'[g]) = Roster(games[g]) \ {t}
<1> DEFINE left == removeMember(games[g], t)
<1>1. CASE games[g].host = t
  BY <1>1 DEF Leave, Without
<1>2. CASE games[g].host # t
  <2>1. games' = [games EXCEPT ![g] = refreshMeshReadiness(left)]
    BY <1>2 DEF Leave
  <2>2. IsGame(games[g])
    BY DEF LobbyInv, RostersOK
  <2>3. IsGame(left) /\ Roster(left) = Roster(games[g]) \ {t}
    BY <2>2, RemoveRoster
  <2>4. left.state = games[g].state
    BY <2>2 DEF removeMember, IsGame, GameFields
  <2> HIDE DEF left
  <2>5. SameRoster(refreshMeshReadiness(left), left) /\ refreshMeshReadiness(left).state = left.state
    BY <2>3, RefreshRoster DEF refreshMeshReadiness, IsGame, GameFields
  <2> QED BY <1>2, <2>1, <2>3, <2>4, <2>5 DEF SameRoster, Roster
<1> QED BY <1>1, <1>2

-----------------------------------------------------------------------------
(* The outcomes of startMatchmaking.                                       *)

Waits(s) ==
    /\ nextGameID' = nextGameID
    /\ gameID'[s] \in {gameID[s], 0}
    /\ Calm

Joins(s, g) ==
    /\ nextGameID' = nextGameID
    /\ gameID[s] = 0 /\ gameID'[s] = g /\ g # 0
    /\ g \in DOMAIN games /\ DOMAIN games' = DOMAIN games
    /\ IsGame(games'[g])
    /\ games'[g].state = games[g].state
    /\ s \notin Roster(games[g])
    /\ Roster(games'[g]) = Roster(games[g]) \cup {s}
    /\ \A h \in DOMAIN games \ {g} : Same(games'[h], games[h])

Pairs(s, n, host) ==
    /\ n = nextGameID /\ nextGameID' = n + 1 /\ n \in Nat
    /\ n \notin DOMAIN games /\ DOMAIN games' = DOMAIN games \cup {n}
    /\ IsGame(games'[n])
    /\ host # s
    /\ host \in Roster(games'[n]) /\ Roster(games'[n]) \subseteq {host, s}
    /\ LoginFirst => s \in Roster(games'[n])
    /\ \A h \in DOMAIN games : Same(games'[h], games[h])

LEMMA JoinOutcome ==
    ASSUME LobbyInv, NEW request, request.session \in Session, ~ InGame(request.session),
           JoinGame(request)
    PROVE  \E g : Joins(request.session, g)
<1> DEFINE s == request.session
<1>1. PICK g \in Joinable(request) :
        /\ games' = [Visited(request, g) EXCEPT ![g] = addMember(games[g], s)]
        /\ gameID' = [gameID EXCEPT ![s] = g]
        /\ nextGameID' = nextGameID
  BY DEF JoinGame
<1>2. g \in DOMAIN games /\ Admits(games[g], s) /\ s \notin Roster(games[g])
  BY DEF Joinable, Admits
<1>3. gameID[s] = 0 /\ gameID'[s] = g /\ g # 0
  BY <1>1, <1>2, InGameMeaning DEF LobbyInv, FieldsOK
<1> HIDE DEF s
<1>4. /\ IsGame(addMember(games[g], s))
      /\ Roster(addMember(games[g], s)) = Roster(games[g]) \cup {s}
      /\ addMember(games[g], s).state = games[g].state
  BY <1>2, AddRoster, AddState DEF LobbyInv, RostersOK, s
<1>5. /\ DOMAIN games' = DOMAIN games
      /\ \A h \in DOMAIN games \ {g} : Same(games'[h], games[h])
      /\ games'[g] = addMember(games[g], s)
  BY <1>1, <1>2, VisitedSame
<1>6. Joins(s, g)
  BY <1>1, <1>2, <1>3, <1>4, <1>5 DEF Joins
<1> QED BY <1>6 DEF s

\* Two live connections that have logged in have different personas.
LEMMA TwoPersonas ==
    ASSUME IdentityInv, NEW s \in open, NEW t \in open, persona[s] # 0, persona[s] = persona[t]
    PROVE  s = t
BY DEF IdentityInv, IdentityTypeOK, CanonicalIdentity, LoggedIn

LEMMA PairOutcome ==
    ASSUME LobbyInv, IdentityInv, LoginFirst => PlayersLoggedIn, NEW request,
           request.session \in Session, MaySend(request.session), PairMatch(request)
    PROVE  \E host : Pairs(request.session, nextGameID, host)
<1> DEFINE s == request.session
           n == nextGameID
           base(r) == newGame(r.session, r.attrs, r.cap, r.topology)
<1>1. PICK r \in matchQueue :
        /\ Partner(request, r)
        /\ games' = Put(Visited(request, n), n, addMember(base(r), s))
  BY DEF PairMatch
<1>2. nextGameID' = n + 1 /\ n \in Nat /\ n \notin DOMAIN games
  BY DEF PairMatch, LobbyInv, FieldsOK
<1> DEFINE host == r.session
           b == base(r)
           new == addMember(b, s)
<1>3. host \in Session /\ host # s /\ r.cap \in Int /\ r.cap >= 2 /\ queuedMatchID[host] # 0
  BY <1>1, RequestAssumption DEF Partner, isCompatibleMatch, LobbyInv, FieldsOK, MatchRequests,
                                 SessionStateMachine
<1>4. IsGame(b) /\ Roster(b) = {host} /\ b.capacity = r.cap /\ Len(b.members) = 1
  BY <1>3, NewRoster
<1> HIDE DEF base, b
<1>5. IsGame(new) /\ Roster(new) = IF Admits(b, s) THEN {host} \cup {s} ELSE {host}
  BY <1>4, AddRoster
<1>6. ASSUME LoginFirst PROVE Admits(b, s)
  <2>1. host \in open /\ persona[host] # 0
    BY <1>3, <1>6 DEF PlayersLoggedIn, Busy, LobbyInv, SessionStateMachine
  <2>2. s \in open /\ persona[host] # persona[s]
    BY <1>3, <2>1, TwoPersonas DEF MaySend
  <2>3. ~ (b.capacity > 0 /\ Len(b.members) >= b.capacity)
    BY <1>3, <1>4
  <2> QED BY <1>3, <1>4, <2>2, <2>3 DEF Admits
<1>7. games' = Put(Visited(request, n), n, new)
  BY <1>1 DEF b
<1> HIDE DEF new
<1>8. /\ DOMAIN games' = DOMAIN games \cup {n}
      /\ \A h \in DOMAIN games : Same(games'[h], games[h])
      /\ games'[n] = new
  BY <1>2, <1>7, VisitedSame DEF Put
<1>9. Pairs(s, n, host)
  BY <1>2, <1>3, <1>5, <1>6, <1>8 DEF Pairs
<1> QED BY <1>9

LEMMA MatchOutcome ==
    ASSUME LobbyInv, IdentityInv, LoginFirst => PlayersLoggedIn, NEW s \in Session,
           NEW req \in Requests, StartMatchmaking(s, req)
    PROVE  \/ Waits(s)
           \/ \E g : Joins(s, g)
           \/ \E host : Pairs(s, nextGameID, host)
<1> DEFINE request == MatchRequest(s, req, nextMatchID)
<1>1. \/ IgnoreMatch(s)
      \/ ~ InGame(s) /\ (JoinGame(request) \/ PairMatch(request) \/ EnqueueMatch(request))
  BY DEF StartMatchmaking
<1>2. request.session = s /\ MaySend(s)
  BY DEF MatchRequest, StartMatchmaking
<1> HIDE DEF request
<1>3. CASE IgnoreMatch(s)
  BY <1>3 DEF IgnoreMatch, Waits, Calm, Same
<1>4. CASE EnqueueMatch(request)
  BY <1>2, <1>4, VisitedSame DEF EnqueueMatch, Waits, Calm, LobbyInv, FieldsOK
<1> QED BY <1>1, <1>2, <1>3, <1>4, JoinOutcome, PairOutcome

-----------------------------------------------------------------------------
(* What the handlers leave to put.                                         *)

GameNews == {"GameCapacity", "GameSettings", "GameState", "GameAttrs"}

JoinNote(gid, p) == playerJoinCompletedNotification(gid, persona[p])

\* Member p of gid is not alone, and all links from and to it are reported.
FullyLinked(gid, p) ==
    /\ Roster(games[gid]) # {p}
    /\ \A t \in Roster(games[gid]) \ {p} :
         {<<persona[p], persona[t]>>, <<persona[t], persona[p]>>} \subseteq games'[gid].mesh

\* Broadcasts are news about a game, a setup shows the game as the handler left
\* it, to one of its members when everyone has logged in, and the members are
\* told that a player has joined when its links have been reported.
Proper(x) ==
    /\ x.all => x.frame.kind \in GameNews
    /\ x.frame.kind = "GameSetup" =>
         \E g \in DOMAIN games' :
            /\ \E msid : x.frame = gameSetup(g, games'[g], msid)
            /\ LoginFirst => x.to \in Roster(games'[g])
    /\ x.frame.kind = "PlayerJoined" =>
         \E g \in DOMAIN games \cap DOMAIN games' : \E p \in Roster(games[g]) :
            /\ Roster(games'[g]) = Roster(games[g])
            /\ x.to \in Roster(games[g])
            /\ x.frame = JoinNote(g, p)
            /\ FullyLinked(g, p)

\* Who is told what by the goroutine of s about what its handler has done.
Informs(s) ==
    LET items == ToSet(work'[s]) IN
    /\ IsSeq(work'[s])
    /\ \A x \in items : Proper(x)
    /\ \A g \in DOMAIN games \cap DOMAIN games' :
         games'[g].state # games[g].state =>
            ToMembers(s, GameChange("GameState", g, games'[g].state)) \in items
    /\ \A g \in DOMAIN games' : \A m \in Roster(games'[g]) :
         ~ Member(m, g) =>
            /\ \E msid : To(m, gameSetup(g, games'[g], msid)) \in items
            /\ \A t \in Roster(games'[g]) :
                 Member(t, g) => To(t, PlayerJoining(g, persona[m])) \in items
    /\ \A g \in DOMAIN games : \A m \in Roster(games[g]) \ done :
         ~ (g \in DOMAIN games' /\ m \in Roster(games'[g])) =>
            \/ To(m, playerRemovedNotification(g, persona[m])) \in items
            \/ To(m, gameRemovedNotification(g)) \in items

\* A handler that touches no roster and no state owes nobody anything.
LEMMA CalmInforms ==
    ASSUME NEW s \in Session, DOMAIN work = Session, Calm,
           NEW notifications, NEW reply, NEW deferred,
           IsSeq(notifications), IsSeq(deferred), Answer(s, notifications, reply, deferred),
           reply.kind = "Reply",
           \A x \in ToSet(notifications) : Proper(x),
           \A frame \in ToSet(deferred) : Proper(To(s, frame))
    PROVE  Informs(s)
<1>1. /\ IsSeq(work'[s])
      /\ ToSet(work'[s]) = ToSet(notifications) \cup {To(s, reply)}
                           \cup {To(s, frame) : frame \in ToSet(deferred)}
  BY AnswerSet
<1>2. ASSUME NEW x \in ToSet(work'[s]) PROVE Proper(x)
  <2>1. CASE x = To(s, reply)
    BY <2>1 DEF To, Proper
  <2> QED BY <1>1, <2>1
<1>3. /\ DOMAIN games' = DOMAIN games
      /\ \A g \in DOMAIN games :
            games'[g].state = games[g].state /\ Roster(games'[g]) = Roster(games[g])
  BY DEF Calm, Same, Roster
<1> QED BY <1>1, <1>2, <1>3 DEF Informs, Member

LEMMA ReplyKind ==
    ASSUME NEW g, NEW p, NEW msid
    PROVE  Reply(g, p, msid).kind = "Reply"
BY DEF Reply, Frame

\* Requests that change the caller's session only.
LEMMA QuietInforms ==
    ASSUME LobbyInv, NEW s \in Session, DOMAIN work = Session,
           ServeOther(s) \/ ServeLogin(s) \/ ServeCancel(s) \/ ServeFinalize(s)
    PROVE  Informs(s)
<1>1. UNCHANGED games
  BY DEF ServeOther, ServeLogin, ServeCancel, ServeFinalize, SilentLogin, CancelMatchmaking,
         FinalizeGame, vars, lobbyVars
<1>2. Calm
  BY <1>1 DEF Calm, Same
<1>3. CASE ServeOther(s) \/ ServeCancel(s)
  <2>1. PICK g, p, msid : Answer(s, <<>>, Reply(g, p, msid), <<>>)
    BY <1>3 DEF ServeOther, ServeCancel
  <2> QED BY <1>2, <2>1, EmptyIsSeq, ReplyKind, CalmInforms
<1>5. CASE ServeLogin(s)
  <2>1. PICK p, user, data :
          /\ user = UserAdded(persona'[s]) /\ data = ExtendedData(sessionID'[s])
          /\ Answer(s, <<>>, Reply(0, p, 0), <<user, data>>)
    BY <1>5 DEF ServeLogin
  <2>2. user.kind = "UserAdded" /\ data.kind = "ExtendedData"
    BY <2>1 DEF UserAdded, ExtendedData, Frame
  <2>3. IsSeq(<<user, data>>) /\ ToSet(<<user, data>>) = {user, data}
    BY PairIsSeq
  <2>4. \A frame \in {user, data} : Proper(To(s, frame))
    BY <2>2 DEF Proper, To
  <2> QED BY <1>2, <2>1, <2>3, <2>4, EmptyIsSeq, ReplyKind, CalmInforms
<1>4. CASE ServeFinalize(s)
  <2>1. PICK gid : Answer(s, <<>>, Reply(0, 0, 0),
                          IF FinalizedGame(s, gid) = 0 THEN <<>>
                          ELSE <<PlatformHost(FinalizedGame(s, gid))>>)
    BY <1>4 DEF ServeFinalize
  <2>2. PICK deferred : deferred = IF FinalizedGame(s, gid) = 0 THEN <<>>
                                   ELSE <<PlatformHost(FinalizedGame(s, gid))>>
    OBVIOUS
  <2>3. IsSeq(deferred) /\ \A frame \in ToSet(deferred) : frame.kind = "PlatformHost"
    BY <2>2, EmptyIsSeq, SingleIsSeq DEF PlatformHost, Frame
  <2>4. Answer(s, <<>>, Reply(0, 0, 0), deferred)
    BY <2>1, <2>2
  <2>5. \A frame \in ToSet(deferred) : Proper(To(s, frame))
    BY <2>3 DEF Proper, To
  <2> QED BY <1>2, <2>3, <2>4, <2>5, EmptyIsSeq, ReplyKind, CalmInforms
<1> QED BY <1>3, <1>4, <1>5

\* resetDedicatedServer.
LEMMA ResetInforms ==
    ASSUME LobbyInv, NEW s \in Session, DOMAIN work = Session, ServeResetDedicated(s)
    PROVE  Informs(s)
<1>1. PICK req \in Requests : ResetDedicated(s, req)
  BY DEF ServeResetDedicated
<1> DEFINE n == nextGameID
           new == newGame(s, Attributes(req), getMatchmakingCapacity(req),
                          getMatchmakingTopology(req))
           deferred == IF gameID'[s] = gameID[s] THEN <<>>
                       ELSE <<gameSetup(gameID'[s], games'[gameID'[s]], 0)>>
<1>2. Answer(s, <<>>, Reply(gameID'[s], 0, 0), deferred)
  BY DEF ServeResetDedicated
<1>3. CASE UNCHANGED lobbyVars
  <2>1. Calm /\ deferred = <<>>
    BY <1>3 DEF Calm, Same, lobbyVars
  <2> HIDE DEF deferred
  <2>2. IsSeq(deferred) /\ \A frame \in ToSet(deferred) : Proper(To(s, frame))
    BY <2>1, EmptyIsSeq
  <2> QED BY <1>2, <2>1, <2>2, EmptyIsSeq, ReplyKind, CalmInforms
<1>4. CASE ~ UNCHANGED lobbyVars
  <2>1. ~ InGame(s) /\ games' = Put(games, n, new) /\ gameID' = [gameID EXCEPT ![s] = n]
    BY <1>1, <1>4 DEF ResetDedicated
  <2>2. gameID[s] = 0 /\ n # 0 /\ n \notin DOMAIN games
    BY <2>1, InGameMeaning DEF LobbyInv, FieldsOK
  <2>3. gameID'[s] = n
    BY <2>1 DEF LobbyInv, FieldsOK
  <2>4. Roster(new) = {s}
    BY NewRoster, RequestAssumption
  <2> HIDE DEF new
  <2>5. DOMAIN games' = DOMAIN games \cup {n} /\ games'[n] = new
        /\ \A g \in DOMAIN games : games'[g] = games[g]
    BY <2>1, <2>2 DEF Put
  <2>6. IsSeq(deferred) /\ ToSet(deferred) = {gameSetup(n, games'[n], 0)}
    BY <2>2, <2>3, SingleIsSeq
  <2> HIDE DEF deferred
  <2>7. /\ IsSeq(work'[s])
        /\ ToSet(work'[s]) = ToSet(<<>>) \cup {To(s, Reply(gameID'[s], 0, 0))}
                             \cup {To(s, frame) : frame \in ToSet(deferred)}
    BY <1>2, <2>6, EmptyIsSeq, AnswerSet
  <2>8. ToSet(work'[s]) = {To(s, Reply(gameID'[s], 0, 0)), To(s, gameSetup(n, games'[n], 0))}
    BY <2>6, <2>7, EmptyIsSeq
  <2>9. Proper(To(s, Reply(gameID'[s], 0, 0)))
    BY DEF Proper, To, Reply, Frame
  <2>10. Proper(To(s, gameSetup(n, games'[n], 0)))
    BY <2>4, <2>5 DEF Proper, To, gameSetup
  <2> QED BY <2>2, <2>4, <2>5, <2>7, <2>8, <2>9, <2>10 DEF Informs, Member
<1> QED BY <1>3, <1>4

\* The stages about mutexes tell nobody anything.
LEMMA PeeksSet ==
    ASSUME NEW players, IsSeq(players), NEW s
    PROVE  /\ IsSeq(Peeks(players)) /\ IsSeq(Introduced(s, players))
           /\ \A x \in ToSet(Peeks(players)) \cup ToSet(Introduced(s, players)) :
                Proper(x) /\ x.frame.kind \in Mutexes
<1> DEFINE good(q) == IsSeq(q) /\ \A x \in ToSet(q) : Proper(x) /\ x.frame.kind \in Mutexes
<1>1. ASSUME NEW stage \in Mutexes, NEW t
      PROVE  Proper(Mutex(stage, t)) /\ Mutex(stage, t).frame.kind \in Mutexes
  BY DEF Proper, Mutex, To, Frame, Mutexes
<1>2. good(<<>>)
  BY EmptyIsSeq
<1>3. \A q, r : good(q) /\ good(r) => good(q \o r)
  BY ConcatSet
<1>4. \A stage \in Mutexes : \A t : good(<<Mutex(stage, t)>>)
  BY <1>1, SingleIsSeq
<1>5. good(Peeks(players))
  <2>1. CASE ~ Locking
    BY <1>2, <2>1 DEF Peeks
  <2>2. CASE Locking
    <3>1. PICK f : f = [i \in DOMAIN players |-> Mutex("peek", players[i])]
      OBVIOUS
    <3>2. f = [i \in DOMAIN players |-> f[i]] /\ \A i \in DOMAIN players : f[i] = Mutex("peek", players[i])
      BY <3>1
    <3>3. IsSeq(f) /\ ToSet(f) = {f[i] : i \in DOMAIN players}
      BY <3>2, MappedIsSeq
    <3>4. Peeks(players) = f
      BY <2>2, <3>1 DEF Peeks
    <3>5. "peek" \in Mutexes
      BY DEF Mutexes
    <3> QED BY <1>1, <3>2, <3>3, <3>4, <3>5
  <2> QED BY <2>1, <2>2
<1>6. good(Introduced(s, players))
  <2>1. CASE ~ Locking
    BY <1>2, <2>1 DEF Introduced
  <2>2. CASE Locking
    <3>1. good(<<Mutex("lock", s)>>) /\ good(<<Mutex("unlock", s)>>)
      BY <1>4 DEF Mutexes
    <3>2. Introduced(s, players) = (<<Mutex("lock", s)>> \o Peeks(players)) \o <<Mutex("unlock", s)>>
      BY <2>2 DEF Introduced
    <3> HIDE DEF good
    <3> QED BY <1>3, <1>5, <3>1, <3>2
  <2> QED BY <2>1, <2>2
<1> QED BY <1>5, <1>6

\* One frame for every member of a list.
LEMMA TellFrame ==
    ASSUME NEW members, IsSeq(members), NEW frame
    PROVE  /\ IsSeq(ForEach(members, LAMBDA m : <<To(m, frame)>>))
           /\ ToSet(ForEach(members, LAMBDA m : <<To(m, frame)>>))
                = {To(m, frame) : m \in ToSet(members)}
<1>1. PICK f : f = [i \in DOMAIN members |-> <<To(members[i], frame)>>]
  OBVIOUS
<1>2. f = [i \in DOMAIN members |-> f[i]] /\ \A i \in DOMAIN members : f[i] = <<To(members[i], frame)>>
  BY <1>1
<1>3. \A i \in DOMAIN members : IsSeq(f[i]) /\ ToSet(f[i]) = {To(members[i], frame)}
  BY <1>2, SingleIsSeq
<1>4. /\ IsSeq(FlattenSeq(f))
      /\ \A x : x \in ToSet(FlattenSeq(f)) <=> \E i \in DOMAIN members : x \in ToSet(f[i])
  BY <1>2, <1>3, FlattenedMap
<1>5. ToSet(members) = {members[i] : i \in DOMAIN members}
  BY DEF ToSet
<1>6. ToSet(FlattenSeq(f)) = {To(m, frame) : m \in ToSet(members)}
  BY <1>3, <1>4, <1>5
<1> QED BY <1>1, <1>4, <1>6 DEF ForEach

\* startMatchmaking: the joiner is set up, and whoever was there learns of it.
LEMMA MatchInforms ==
    ASSUME LobbyInv, IdentityInv, LoginFirst => PlayersLoggedIn, NEW s \in Session,
           DOMAIN work = Session, ServeMatchmaking(s)
    PROVE  Informs(s)
<1> DEFINE msid == nextMatchID
           paired == nextGameID' # nextGameID
           entered == gameID'[s] # gameID[s] /\ gameID'[s] # 0
           g == IF paired THEN nextGameID ELSE gameID'[s]
           others == Others(games'[g].members, s)
           request == CHOOSE r \in matchQueue : r.session = games'[g].host
           frame == IF paired THEN gameSetup(g, games'[g], request.msid)
                    ELSE PlayerJoining(g, persona[s])
           first == IF paired THEN <<>> ELSE Peeks(others)
           second == ForEach(others, LAMBDA m : <<To(m, frame)>>)
           third == Introduced(s, others)
           setup == gameSetup(g, games'[g], msid)
<1>1. PICK req \in Requests : StartMatchmaking(s, req)
  BY DEF ServeMatchmaking
<1>2. \/ (paired \/ entered) /\ Answer(s, first \o second \o third, Reply(0, 0, msid), <<setup>>)
      \/ ~ (paired \/ entered) /\ Answer(s, <<>>, Reply(0, 0, msid), <<>>)
  BY DEF ServeMatchmaking
<1>3. CASE Waits(s)
  <2>1. ~ (paired \/ entered)
    BY <1>3 DEF Waits
  <2>2. Answer(s, <<>>, Reply(0, 0, msid), <<>>)
    BY <1>2, <2>1
  <2>3. Calm
    BY <1>3 DEF Waits
  <2> QED BY <2>2, <2>3, EmptyIsSeq, ReplyKind, CalmInforms
<1>4. ASSUME paired \/ entered, IsGame(games'[g])
      PROVE  /\ IsSeq(work'[s])
             /\ \A m \in Roster(games'[g]) \ {s} : To(m, frame) \in ToSet(work'[s])
             /\ To(s, setup) \in ToSet(work'[s])
             /\ \A x \in ToSet(work'[s]) :
                  \/ Proper(x)
                  \/ x = To(s, setup)
                  \/ \E m \in Roster(games'[g]) \ {s} : x = To(m, frame)
  <2>1. IsSeq(games'[g].members)
    BY <1>4, SeqIsSeq DEF IsGame
  <2>2. IsSeq(others) /\ ToSet(others) = Roster(games'[g]) \ {s}
    BY <2>1, OthersSet DEF Roster
  <2>3. Answer(s, first \o second \o third, Reply(0, 0, msid), <<setup>>)
    BY <1>2, <1>4
  <2> HIDE DEF g, others, frame, setup, paired
  <2>4. /\ IsSeq(second)
        /\ ToSet(second) = {To(m, frame) : m \in Roster(games'[g]) \ {s}}
    BY <2>2, TellFrame DEF ForEach
  <2>5. /\ IsSeq(first) /\ IsSeq(third)
        /\ \A x \in ToSet(first) \cup ToSet(third) : Proper(x)
    BY <2>2, PeeksSet, EmptyIsSeq
  <2> HIDE DEF first, second, third
  <2>6. /\ IsSeq(first \o second \o third)
        /\ ToSet(first \o second \o third) = ToSet(first) \cup ToSet(second) \cup ToSet(third)
    <3>1. IsSeq(first \o second) /\ ToSet(first \o second) = ToSet(first) \cup ToSet(second)
      BY <2>4, <2>5, ConcatSet
    <3> QED BY <2>5, <3>1, ConcatSet
  <2>7. IsSeq(<<setup>>) /\ ToSet(<<setup>>) = {setup}
    BY SingleIsSeq
  <2>8. /\ IsSeq(work'[s])
        /\ ToSet(work'[s]) = ToSet(first \o second \o third) \cup {To(s, Reply(0, 0, msid))}
                             \cup {To(s, f) : f \in ToSet(<<setup>>)}
    BY <2>3, <2>6, <2>7, AnswerSet
  <2>9. Proper(To(s, Reply(0, 0, msid)))
    BY DEF Proper, To, Reply, Frame
  <2> QED BY <2>4, <2>5, <2>6, <2>7, <2>8, <2>9
<1>5. ASSUME NEW h, Joins(s, h) PROVE Informs(s)
  <2>1. ~ paired /\ entered /\ g = h /\ IsGame(games'[g])
    BY <1>5 DEF Joins
  <2>2. frame = PlayerJoining(h, persona[s]) /\ setup = gameSetup(h, games'[h], msid)
    BY <2>1
  <2>3. Proper(To(s, setup)) /\ \A m : Proper(To(m, frame))
    <3>1. s \in Roster(games'[h]) /\ h \in DOMAIN games'
      BY <1>5 DEF Joins
    <3>2. Proper(To(s, gameSetup(h, games'[h], msid)))
      BY <3>1 DEF Proper, To, gameSetup
    <3>3. \A m : Proper(To(m, PlayerJoining(h, persona[s])))
      BY DEF Proper, To, PlayerJoining, Frame
    <3> QED BY <2>2, <3>2, <3>3
  <2> HIDE DEF g, frame, setup, paired, entered
  <2>4. \A k \in DOMAIN games \ {h} :
            games'[k].state = games[k].state /\ Roster(games'[k]) = Roster(games[k])
    BY <1>5 DEF Joins, Same, Roster
  <2>5. /\ IsSeq(work'[s])
        /\ \A x \in ToSet(work'[s]) : Proper(x)
        /\ \A m \in Roster(games[h]) : To(m, PlayerJoining(h, persona[s])) \in ToSet(work'[s])
        /\ To(s, gameSetup(h, games'[h], msid)) \in ToSet(work'[s])
    BY <1>4, <1>5, <2>1, <2>2, <2>3 DEF Joins
  <2> HIDE DEF msid
  <2> QED BY <1>5, <2>4, <2>5 DEF Informs, Joins, Member
<1>6. ASSUME NEW host, Pairs(s, nextGameID, host) PROVE Informs(s)
  <2> DEFINE n == nextGameID
  <2>1. paired /\ g = n /\ IsGame(games'[g])
    BY <1>6 DEF Pairs
  <2>2. frame = gameSetup(n, games'[n], request.msid) /\ setup = gameSetup(n, games'[n], msid)
    BY <2>1
  <2>3. /\ Proper(To(s, setup))
        /\ \A m \in Roster(games'[n]) : Proper(To(m, frame))
    <3>1. n \in DOMAIN games' /\ (LoginFirst => s \in Roster(games'[n]))
      BY <1>6 DEF Pairs
    <3>2. \A k : Proper(To(s, gameSetup(n, games'[n], k)))
      BY <3>1 DEF Proper, To, gameSetup
    <3>3. \A m \in Roster(games'[n]) : \A k : Proper(To(m, gameSetup(n, games'[n], k)))
      BY <3>1 DEF Proper, To, gameSetup
    <3> QED BY <2>2, <3>2, <3>3
  <2> HIDE DEF g, frame, setup, paired, entered
  <2>4. \A k \in DOMAIN games :
            games'[k].state = games[k].state /\ Roster(games'[k]) = Roster(games[k])
    BY <1>6 DEF Pairs, Same, Roster
  <2>5. /\ IsSeq(work'[s])
        /\ \A x \in ToSet(work'[s]) : Proper(x)
        /\ \A m \in Roster(games'[n]) \ {s} :
              To(m, gameSetup(n, games'[n], request.msid)) \in ToSet(work'[s])
        /\ To(s, gameSetup(n, games'[n], msid)) \in ToSet(work'[s])
    BY <1>4, <2>1, <2>2, <2>3
  <2> HIDE DEF msid, request
  <2> QED BY <1>6, <2>4, <2>5 DEF Informs, Pairs, Member
<1> QED BY <1>1, <1>3, <1>5, <1>6, MatchOutcome

\* A member is taken out of its game: whoever is no longer in it is told.
LEMMA FarewellInforms ==
    ASSUME LobbyInv, NEW s, NEW g \in DOMAIN games, NEW t \in Roster(games[g]), Leave(t, g),
           NEW recipients, IsSeq(recipients), Roster(games[g]) \ done \subseteq ToSet(recipients),
           IsSeq(work'[s]),
           ToSet(Farewell(recipients, g, t)) \subseteq ToSet(work'[s]),
           \A x \in ToSet(work'[s]) \ ToSet(Farewell(recipients, g, t)) : Proper(x)
    PROVE  Informs(s)
<1> DEFINE items == ToSet(work'[s])
<1>1. \A x : x \in ToSet(Farewell(recipients, g, t)) <=>
                \E m \in ToSet(recipients) :
                    \/ x = To(m, playerRemovedNotification(g, persona[t]))
                    \/ games[g].host = t /\ m # t /\ x = To(m, gameRemovedNotification(g))
  BY FarewellSet
<1>2. t \in Session
  BY MembersOpen
<1>3. /\ DOMAIN games' = IF games[g].host = t THEN DOMAIN games \ {g} ELSE DOMAIN games
      /\ \A h \in DOMAIN games \ {g} : games'[h] = games[h]
      /\ games[g].host # t => /\ games'[g].state = games[g].state
                              /\ Roster(games'[g]) = Roster(games[g]) \ {t}
  BY <1>2, LeaveSame
<1>4. ASSUME NEW x \in ToSet(Farewell(recipients, g, t)) PROVE Proper(x)
  <2>1. PICK m : \/ x = To(m, playerRemovedNotification(g, persona[t]))
                 \/ x = To(m, gameRemovedNotification(g))
    BY <1>1
  <2> QED BY <2>1 DEF Proper, To, playerRemovedNotification, gameRemovedNotification, Frame
<1>5. \A x \in items : Proper(x)
  BY <1>4
<1>6. ASSUME NEW h \in DOMAIN games, NEW m \in Roster(games[h]) \ done,
             ~ (h \in DOMAIN games' /\ m \in Roster(games'[h]))
      PROVE  \/ To(m, playerRemovedNotification(h, persona[m])) \in items
             \/ To(m, gameRemovedNotification(h)) \in items
  <2>1. h = g /\ m \in ToSet(recipients)
    BY <1>3, <1>6
  <2>2. m = t \/ (games[g].host = t /\ m # t)
    BY <1>3, <1>6, <2>1
  <2> QED BY <1>1, <2>1, <2>2
<1>7. \A h \in DOMAIN games' : h \in DOMAIN games /\ Roster(games'[h]) \subseteq Roster(games[h])
                               /\ games'[h].state = games[h].state
  BY <1>3
<1> QED BY <1>5, <1>6, <1>7 DEF Informs, Member

\* removePlayer.
LEMMA RemoveInforms ==
    ASSUME LobbyInv, NEW s \in Session, DOMAIN work = Session, ServeRemovePlayer(s)
    PROVE  Informs(s)
<1>1. PICK gid \in NamedGames(s) : \E pid \in NamedPlayers(s, gid) :
        \/ /\ RemovePlayer(s, gid, pid)
           /\ \E t \in RemovalTarget(s, gid, pid) :
                Answer(s, Farewell(games[gid].members, gid, t), Reply(0, 0, 0), <<>>)
        \/ /\ UNCHANGED vars
           /\ Answer(s, <<To(s, playerRemovedNotification(gid, pid))>>, Reply(0, 0, 0), <<>>)
  BY DEF ServeRemovePlayer
<1>2. PICK pid \in NamedPlayers(s, gid) :
        \/ /\ RemovePlayer(s, gid, pid)
           /\ \E t \in RemovalTarget(s, gid, pid) :
                Answer(s, Farewell(games[gid].members, gid, t), Reply(0, 0, 0), <<>>)
        \/ /\ UNCHANGED vars
           /\ Answer(s, <<To(s, playerRemovedNotification(gid, pid))>>, Reply(0, 0, 0), <<>>)
  BY <1>1
<1>3. CASE /\ UNCHANGED vars
           /\ Answer(s, <<To(s, playerRemovedNotification(gid, pid))>>, Reply(0, 0, 0), <<>>)
  <2>1. Calm
    BY <1>3 DEF Calm, Same, vars, lobbyVars
  <2>2. Proper(To(s, playerRemovedNotification(gid, pid)))
    BY DEF Proper, To, playerRemovedNotification, Frame
  <2>3. PICK told : told = <<To(s, playerRemovedNotification(gid, pid))>>
    OBVIOUS
  <2>4. IsSeq(told) /\ \A x \in ToSet(told) : Proper(x)
    BY <2>2, <2>3, SingleIsSeq
  <2>5. Answer(s, told, Reply(0, 0, 0), <<>>)
    BY <1>3, <2>3
  <2> QED BY <2>1, <2>4, <2>5, EmptyIsSeq, ReplyKind, CalmInforms
<1>4. CASE /\ RemovePlayer(s, gid, pid)
           /\ \E t \in RemovalTarget(s, gid, pid) :
                Answer(s, Farewell(games[gid].members, gid, t), Reply(0, 0, 0), <<>>)
  <2>1. PICK t \in RemovalTarget(s, gid, pid) :
            Answer(s, Farewell(games[gid].members, gid, t), Reply(0, 0, 0), <<>>)
    BY <1>4
  <2>2. PICK u \in RemovalTarget(s, gid, pid) : gid \in DOMAIN games /\ Leave(u, gid)
    BY <1>4 DEF RemovePlayer
  <2>3. IsGame(games[gid])
    BY <2>2 DEF LobbyInv, RostersOK
  <2>4. t \in Roster(games[gid]) /\ u \in Roster(games[gid]) /\ persona[t] = persona[u]
    BY <2>3, FindMember DEF RemovalTarget
  <2>5. t = u
    BY <2>2, <2>4 DEF LobbyInv, DistinctPersonas
  <2>6. PICK members : members = games[gid].members
    OBVIOUS
  <2>7. IsSeq(members) /\ ToSet(members) = Roster(games[gid])
    BY <2>3, <2>6, SeqIsSeq DEF IsGame, Roster
  <2>8. IsSeq(Farewell(members, gid, t))
    BY <2>7, FarewellSet
  <2>9. /\ IsSeq(work'[s])
        /\ ToSet(work'[s]) = ToSet(Farewell(members, gid, t)) \cup {To(s, Reply(0, 0, 0))}
                             \cup {To(s, frame) : frame \in ToSet(<<>>)}
    BY <2>1, <2>6, <2>8, EmptyIsSeq, AnswerSet
  <2>10. ToSet(work'[s]) = ToSet(Farewell(members, gid, t)) \cup {To(s, Reply(0, 0, 0))}
    BY <2>9, EmptyIsSeq
  <2>11. Proper(To(s, Reply(0, 0, 0)))
    BY DEF Proper, To, Reply, Frame
  <2>12. \A x \in ToSet(work'[s]) \ ToSet(Farewell(members, gid, t)) : Proper(x)
    BY <2>10, <2>11
  <2>13. Leave(t, gid)
    BY <2>2, <2>5
  <2> QED BY <2>2, <2>4, <2>7, <2>9, <2>10, <2>12, <2>13, FarewellInforms
<1> QED BY <1>2, <1>3, <1>4

\* The end of a connection.
LEMMA TeardownInforms ==
    ASSUME LobbyInv, NEW s \in Session, DOMAIN work = Session, Teardown(s)
    PROVE  Informs(s)
<1>1. s \in done /\ removeSession(s)
  BY DEF Teardown
<1>2. work'[s] = IF GamesOf(s) = {} THEN <<>>
                 ELSE Farewell(Others(games[CHOOSE x \in GamesOf(s) : TRUE].members, s),
                               CHOOSE x \in GamesOf(s) : TRUE, s)
  BY DEF Teardown
<1>3. CASE GamesOf(s) = {}
  <2>1. UNCHANGED games /\ work'[s] = <<>>
    BY <1>1, <1>2, <1>3 DEF removeSession
  <2> QED BY <2>1, EmptyIsSeq DEF Informs, Member
<1>4. CASE GamesOf(s) # {}
  <2>1. PICK g \in GamesOf(s) : Leave(s, g)
    BY <1>1, <1>4 DEF removeSession
  <2>2. gameID[s] \in DOMAIN games
    <3>1. ASSUME NEW h \in DOMAIN games, sessionForPlayerID(games[h], persona[s]) = {s}
          PROVE  gameID[s] \in DOMAIN games
      <4>1. s \in Roster(games[h])
        BY <3>1, FindMember DEF LobbyInv, RostersOK
      <4> QED BY <4>1 DEF LobbyInv, SessionStateMachine, Member
    <3> QED BY <1>4, <3>1 DEF GamesOf
  <2>3. GamesOf(s) = {g} /\ g = gameID[s] /\ g \in DOMAIN games /\ s \in Roster(games[g])
    BY <2>2 DEF GamesOf, LobbyInv, SessionStateMachine, Member
  <2>4. PICK recipients : recipients = Others(games[g].members, s)
    OBVIOUS
  <2>5. IsSeq(games[g].members) /\ ToSet(games[g].members) = Roster(games[g])
    BY <2>3, SeqIsSeq DEF LobbyInv, RostersOK, IsGame, Roster
  <2>6. IsSeq(recipients) /\ Roster(games[g]) \ done \subseteq ToSet(recipients)
    BY <1>1, <2>4, <2>5, OthersSet
  <2>7. (CHOOSE x \in GamesOf(s) : TRUE) = g
    BY <2>3
  <2>8. work'[s] = Farewell(recipients, g, s)
    BY <1>2, <1>4, <2>4, <2>7, Zenon
  <2>9. IsSeq(work'[s])
    BY <2>6, <2>8, FarewellSet
  <2> QED BY <2>1, <2>3, <2>6, <2>8, <2>9, FarewellInforms
<1> QED BY <1>3, <1>4

\* The members whose join a mesh report has completed, and what is sent for them.
Completed(gid) == {p \in Roster(games[gid]) : pending[p] # pending'[p]}

MeshAnswers(s, gid) ==
    LET members == games[gid].members
        completed == ForEach(members, LAMBDA m :
            IF pending[m] = pending'[m] THEN <<>> ELSE <<m>>)
        note(p) == playerJoinCompletedNotification(gid, persona[p])
    IN Answer(s,
         ForEach(completed, LAMBDA p :
             ForEach(Others(members, s), LAMBDA m : <<To(m, note(p))>>)),
         Reply(0, 0, 0),
         ForEach(completed, LAMBDA p : <<note(p)>>))

LEMMA MeshAnswer ==
    ASSUME LobbyInv, NEW s \in Session, NEW gid \in DOMAIN games, DOMAIN work = Session,
           MeshAnswers(s, gid)
    PROVE  \E notifications, deferred :
             /\ IsSeq(notifications) /\ IsSeq(deferred)
             /\ Answer(s, notifications, Reply(0, 0, 0), deferred)
             /\ \A x : x \in ToSet(notifications) <=>
                  \E p \in Completed(gid) : \E m \in Roster(games[gid]) \ {s} :
                    x = To(m, JoinNote(gid, p))
             /\ ToSet(deferred) = {JoinNote(gid, p) : p \in Completed(gid)}
<1> DEFINE note(p) == playerJoinCompletedNotification(gid, persona[p])
<1>1. PICK members : members = games[gid].members
  OBVIOUS
<1>2. IsSeq(members) /\ ToSet(members) = Roster(games[gid])
  BY <1>1, SeqIsSeq DEF LobbyInv, RostersOK, IsGame, Roster
<1>3. PICK f : f = [i \in DOMAIN members |->
                      IF pending[members[i]] = pending'[members[i]] THEN <<>> ELSE <<members[i]>>]
  OBVIOUS
<1>4. PICK completed : completed = FlattenSeq(f)
  OBVIOUS
<1>5. IsSeq(completed) /\ ToSet(completed) = Completed(gid)
  <2>1. f = [i \in DOMAIN members |-> f[i]]
    BY <1>3
  <2>2. \A i \in DOMAIN members :
          IsSeq(f[i]) /\ ToSet(f[i]) = {p \in {members[i]} : pending[p] # pending'[p]}
    BY <1>3, EmptyIsSeq, SingleIsSeq
  <2>3. /\ IsSeq(FlattenSeq(f))
        /\ \A x : x \in ToSet(FlattenSeq(f)) <=> \E i \in DOMAIN members : x \in ToSet(f[i])
    BY <1>2, <2>1, <2>2, FlattenedMap
  <2>4. ToSet(members) = {members[i] : i \in DOMAIN members}
    BY DEF ToSet
  <2> QED BY <1>2, <1>4, <2>2, <2>3, <2>4 DEF Completed
<1>6. PICK others : others = Others(members, s)
  OBVIOUS
<1>7. IsSeq(others) /\ ToSet(others) = Roster(games[gid]) \ {s}
  BY <1>2, <1>6, OthersSet
<1>8. PICK d : d = [i \in DOMAIN completed |-> <<note(completed[i])>>]
  OBVIOUS
<1>9. PICK n : n = [i \in DOMAIN completed |->
                      FlattenSeq([j \in DOMAIN others |-> <<To(others[j], note(completed[i]))>>])]
  OBVIOUS
<1>10. Answer(s, FlattenSeq(n), Reply(0, 0, 0), FlattenSeq(d))
  BY <1>1, <1>3, <1>4, <1>6, <1>8, <1>9 DEF MeshAnswers, ForEach
<1>11. ToSet(completed) = {completed[i] : i \in DOMAIN completed}
  BY DEF ToSet
<1>12. IsSeq(FlattenSeq(d)) /\ ToSet(FlattenSeq(d)) = {JoinNote(gid, p) : p \in Completed(gid)}
  <2>1. d = [i \in DOMAIN completed |-> d[i]]
    BY <1>8
  <2>2. \A i \in DOMAIN completed : IsSeq(d[i]) /\ ToSet(d[i]) = {note(completed[i])}
    BY <1>8, SingleIsSeq
  <2>3. /\ IsSeq(FlattenSeq(d))
        /\ \A x : x \in ToSet(FlattenSeq(d)) <=> \E i \in DOMAIN completed : x \in ToSet(d[i])
    BY <1>5, <2>1, <2>2, FlattenedMap
  <2> QED BY <1>5, <1>11, <2>2, <2>3 DEF JoinNote
<1>13. /\ IsSeq(FlattenSeq(n))
       /\ \A x : x \in ToSet(FlattenSeq(n)) <=>
                  \E p \in Completed(gid) : \E m \in Roster(games[gid]) \ {s} :
                    x = To(m, JoinNote(gid, p))
  <2>1. n = [i \in DOMAIN completed |-> n[i]]
    BY <1>9
  <2>2. ASSUME NEW i \in DOMAIN completed
        PROVE  /\ IsSeq(n[i])
               /\ ToSet(n[i]) = {To(m, note(completed[i])) : m \in ToSet(others)}
    <3>1. PICK frame : frame = note(completed[i])
      OBVIOUS
    <3>2. n[i] = FlattenSeq([j \in DOMAIN others |-> <<To(others[j], frame)>>])
      BY <1>9, <3>1
    <3> QED BY <1>7, <3>1, <3>2, TellFrame DEF ForEach
  <2>3. /\ IsSeq(FlattenSeq(n))
        /\ \A x : x \in ToSet(FlattenSeq(n)) <=> \E i \in DOMAIN completed : x \in ToSet(n[i])
    BY <1>5, <2>1, <2>2, FlattenedMap
  <2>4. ASSUME NEW x
        PROVE  (\E i \in DOMAIN completed : x \in ToSet(n[i])) <=>
               \E p \in Completed(gid) : \E m \in Roster(games[gid]) \ {s} :
                    x = To(m, JoinNote(gid, p))
    <3>1. ASSUME NEW i \in DOMAIN completed, x \in ToSet(n[i])
          PROVE  \E p \in Completed(gid) : \E m \in Roster(games[gid]) \ {s} :
                    x = To(m, JoinNote(gid, p))
      <4>1. completed[i] \in Completed(gid)
        BY <1>5, <1>11
      <4>2. PICK m \in ToSet(others) : x = To(m, note(completed[i]))
        BY <2>2, <3>1
      <4> QED BY <1>7, <4>1, <4>2 DEF JoinNote
    <3>2. ASSUME NEW p \in Completed(gid), NEW m \in Roster(games[gid]) \ {s},
                 x = To(m, JoinNote(gid, p))
          PROVE  \E i \in DOMAIN completed : x \in ToSet(n[i])
      <4>1. PICK i \in DOMAIN completed : completed[i] = p
        BY <1>5, <1>11
      <4>2. m \in ToSet(others) /\ x = To(m, note(completed[i]))
        BY <1>7, <3>2, <4>1 DEF JoinNote
      <4> QED BY <2>2, <4>2
    <3> QED BY <3>1, <3>2
  <2> QED BY <2>3, <2>4
<1> QED BY <1>10, <1>12, <1>13

\* updateMeshConnection: the sender's links to the players it names, and the joins
\* that completes.
LEMMA MeshOutcome ==
    ASSUME LobbyInv, NEW s \in Session, NEW gid, NEW report, UpdateMesh(s, gid, report)
    PROVE  /\ gid \in DOMAIN games /\ s \in Roster(games[gid])
           /\ \A h \in DOMAIN games \ {gid} : games'[h] = games[h]
           /\ \A l \in games'[gid].mesh :
                l \in games[gid].mesh \/ (l[1] = persona[s] /\ l[2] \in DOMAIN report)
           /\ \A p \in Roster(games[gid]) : pending[p] # pending'[p] => FullyLinked(gid, p)
<1> DEFINE game == ensureMembershipState(games[gid])
           known == {p \in DOMAIN report : sessionForPlayerID(game, p) \notin {{}, {s}}}
           up == {p \in known : report[p] = 2}
           linked == [game EXCEPT !.mesh =
                        {e \in @ : ~ (e[1] = persona[s] /\ e[2] \in known)}
                        \cup ({persona[s]} \X up)]
           completed == {t \in Roster(game) :
                            pending[t] = gid /\ meshReadyForPlayer(linked, t)}
<1>1. gid \in DOMAIN games /\ sessionForPlayerID(games[gid], persona[s]) = {s}
  BY DEF UpdateMesh
<1>2. IsGame(games[gid]) /\ SameRoster(game, games[gid]) /\ game.mesh = games[gid].mesh
  BY <1>1, EnsureRoster DEF LobbyInv, RostersOK, ensureMembershipState, IsGame, GameFields
<1>3. s \in Roster(games[gid])
  BY <1>1, <1>2, FindMember
<1>4. \/ games' = [games EXCEPT ![gid] = game] /\ pending' = pending
      \/ /\ known # {}
         /\ games' = [games EXCEPT ![gid] = refreshMeshReadiness(linked)]
         /\ pending' = Assign(pending, completed, 0)
  BY DEF UpdateMesh, NotPending
<1>5. ASSUME known # {} PROVE \A p : Roster(games[gid]) # {p}
  <2>1. PICK p \in known : TRUE
    BY <1>5
  <2>2. \A q : sessionForPlayerID(game, q) = sessionForPlayerID(games[gid], q)
    BY <1>2 DEF sessionForPlayerID, SameRoster
  <2>3. PICK t : t \in sessionForPlayerID(games[gid], p)
    BY <2>1, <2>2
  <2>4. t \in Roster(games[gid]) /\ persona[t] = p
    BY <1>2, <2>3, FindMember
  <2>5. p # persona[s]
    BY <1>1, <2>1, <2>2
  <2> QED BY <1>3, <2>4, <2>5
<1> HIDE DEF game, known
<1>6. SameRoster(linked, games[gid])
  <2> HIDE DEF up
  <2> QED BY <1>2 DEF SameRoster, IsGame, GameFields
<1>7. linked.mesh = {e \in games[gid].mesh : ~ (e[1] = persona[s] /\ e[2] \in known)}
                    \cup ({persona[s]} \X up)
  <2> HIDE DEF up
  <2> QED BY <1>2 DEF SameRoster, IsGame, GameFields
<1>8. up \subseteq DOMAIN report
  BY DEF known
<1> HIDE DEF linked, up
<1>9. refreshMeshReadiness(linked).mesh = linked.mesh
  BY <1>6 DEF refreshMeshReadiness, SameRoster, IsGame, GameFields
<1>10. \A l \in linked.mesh :
         l \in games[gid].mesh \/ (l[1] = persona[s] /\ l[2] \in DOMAIN report)
  BY <1>7, <1>8
<1>11. ASSUME NEW p \in Roster(games[gid]), pending[p] # pending'[p]
       PROVE  FullyLinked(gid, p)
  <2>1. known # {} /\ games'[gid].mesh = linked.mesh /\ p \in completed
    <3>1. p \in Session
      BY <1>1, MembersOpen
    <3> HIDE DEF completed
    <3> QED BY <1>1, <1>4, <1>9, <1>11, <3>1 DEF LobbyInv, FieldsOK, Assign
  <2>2. meshReadyForPlayer(linked, p)
    BY <2>1
  <2>3. Roster(linked) = Roster(games[gid])
    BY <1>6 DEF SameRoster, Roster
  <2> QED BY <1>5, <2>1, <2>2, <2>3 DEF FullyLinked, meshReadyForPlayer
<1> QED BY <1>1, <1>2, <1>3, <1>4, <1>9, <1>10, <1>11

\* updateMeshConnection.
LEMMA MeshInforms ==
    ASSUME LobbyInv, NEW s \in Session, DOMAIN work = Session, ServeUpdateMesh(s)
    PROVE  Informs(s)
<1>1. PICK gid \in NamedGames(s), report \in MeshReports :
        /\ UpdateMesh(s, gid, report)
        /\ MeshAnswers(s, gid)
  BY DEF ServeUpdateMesh, MeshAnswers
<1>2. gid \in DOMAIN games
  BY <1>1 DEF UpdateMesh
<1>3. Calm
  <2>1. 0 \in Int
    OBVIOUS
  <2> QED BY <1>1, <2>1, RequestsCalm
<1>4. PICK notifications, deferred :
             /\ IsSeq(notifications) /\ IsSeq(deferred)
             /\ Answer(s, notifications, Reply(0, 0, 0), deferred)
             /\ \A x : x \in ToSet(notifications) <=>
                  \E p \in Completed(gid) : \E m \in Roster(games[gid]) \ {s} :
                    x = To(m, JoinNote(gid, p))
             /\ ToSet(deferred) = {JoinNote(gid, p) : p \in Completed(gid)}
  BY <1>1, <1>2, MeshAnswer
<1>5. ASSUME NEW p \in Completed(gid), NEW m \in Roster(games[gid])
      PROVE  Proper(To(m, JoinNote(gid, p)))
  <2>1. p \in Roster(games[gid]) /\ FullyLinked(gid, p)
    BY <1>1, MeshOutcome DEF Completed
  <2>2. gid \in DOMAIN games \cap DOMAIN games' /\ Roster(games'[gid]) = Roster(games[gid])
    BY <1>2, <1>3 DEF Calm, Same, Roster
  <2>3. JoinNote(gid, p).kind = "PlayerJoined"
    BY DEF JoinNote, playerJoinCompletedNotification, Frame
  <2> QED BY <2>1, <2>2, <2>3 DEF Proper, To
<1>6. /\ \A x \in ToSet(notifications) : Proper(x)
      /\ \A frame \in ToSet(deferred) : Proper(To(s, frame))
  <2>1. s \in Roster(games[gid])
    BY <1>1, MeshOutcome
  <2> QED BY <1>4, <1>5, <2>1
<1> QED BY <1>3, <1>4, <1>6, ReplyKind, CalmInforms

\* setPlayerAttributes.
LEMMA AttrsInforms ==
    ASSUME LobbyInv, NEW s \in Session, DOMAIN work = Session, ServePlayerAttrs(s)
    PROVE  Informs(s)
<1> DEFINE Sent(gid, pid) ==
             \/ /\ gid \in DOMAIN games
                /\ Answer(s, ForEach(games[gid].members, LAMBDA m : <<To(m, PlayerAttrs(gid, pid))>>),
                          Reply(0, 0, 0), <<>>)
             \/ Answer(s, <<To(s, PlayerAttrs(gid, pid))>>, Reply(0, 0, 0), <<>>)
<1>1. PICK gid \in NamedGames(s), attributes \in AttrMaps : \E pid \in NamedPlayers(s, gid) :
        /\ SetPlayerAttrs(s, gid, pid, attributes) \/ UNCHANGED vars
        /\ Sent(gid, pid)
  BY DEF ServePlayerAttrs, SetPlayerAttrs
<1>2. PICK pid \in NamedPlayers(s, gid) :
        /\ SetPlayerAttrs(s, gid, pid, attributes) \/ UNCHANGED vars
        /\ Sent(gid, pid)
  BY <1>1
<1> HIDE DEF Sent
<1>3. Calm
  <2>1. CASE UNCHANGED vars
    BY <2>1 DEF Calm, Same, vars, lobbyVars
  <2>2. CASE SetPlayerAttrs(s, gid, pid, attributes)
    <3>1. 0 \in Int
      OBVIOUS
    <3> QED BY <2>2, <3>1, RequestsCalm
  <2> QED BY <1>2, <2>1, <2>2
<1>4. PICK frame : frame = PlayerAttrs(gid, pid)
  OBVIOUS
<1>5. \A m : Proper(To(m, frame))
  BY <1>4 DEF Proper, To, PlayerAttrs, Frame
<1>6. PICK notifications : /\ IsSeq(notifications)
                           /\ \A x \in ToSet(notifications) : Proper(x)
                           /\ Answer(s, notifications, Reply(0, 0, 0), <<>>)
  <2>1. CASE /\ gid \in DOMAIN games
             /\ Answer(s, ForEach(games[gid].members, LAMBDA m : <<To(m, frame)>>),
                       Reply(0, 0, 0), <<>>)
    <3>1. IsSeq(games[gid].members)
      BY <2>1, SeqIsSeq DEF LobbyInv, RostersOK, IsGame
    <3>2. PICK q : q = ForEach(games[gid].members, LAMBDA m : <<To(m, frame)>>)
      BY DEF ForEach
    <3>3. IsSeq(q) /\ ToSet(q) = {To(m, frame) : m \in ToSet(games[gid].members)}
      BY <3>1, <3>2, TellFrame DEF ForEach
    <3>4. Answer(s, q, Reply(0, 0, 0), <<>>)
      BY <2>1, <3>2 DEF ForEach
    <3>5. \A x \in ToSet(q) : Proper(x)
      BY <1>5, <3>3
    <3> QED BY <3>3, <3>4, <3>5
  <2>2. CASE Answer(s, <<To(s, frame)>>, Reply(0, 0, 0), <<>>)
    <3>1. IsSeq(<<To(s, frame)>>) /\ \A x \in ToSet(<<To(s, frame)>>) : Proper(x)
      BY <1>5, SingleIsSeq
    <3> QED BY <2>2, <3>1
  <2> QED BY <1>2, <1>4, <2>1, <2>2 DEF Sent, ForEach
<1> QED BY <1>3, <1>6, EmptyIsSeq, ReplyKind, CalmInforms

\* A setter's broadcast.
LEMMA NewsInform ==
    ASSUME NEW s \in Session, DOMAIN work = Session, NEW frame, frame.kind \in GameNews,
           Answer(s, <<ToMembers(s, frame)>>, Reply(0, 0, 0), <<>>)
    PROVE  /\ IsSeq(work'[s])
           /\ ToMembers(s, frame) \in ToSet(work'[s])
           /\ \A x \in ToSet(work'[s]) : Proper(x)
           /\ Calm => Informs(s)
<1>1. PICK q : q = <<ToMembers(s, frame)>>
  OBVIOUS
<1>2. IsSeq(q) /\ ToSet(q) = {ToMembers(s, frame)} /\ Answer(s, q, Reply(0, 0, 0), <<>>)
  BY <1>1, SingleIsSeq
<1>3. Proper(ToMembers(s, frame)) /\ Proper(To(s, Reply(0, 0, 0)))
  BY DEF Proper, ToMembers, To, Reply, Frame, GameNews
<1>4. /\ IsSeq(work'[s])
      /\ ToSet(work'[s]) = ToSet(q) \cup {To(s, Reply(0, 0, 0))}
                           \cup {To(s, f) : f \in ToSet(<<>>)}
  BY <1>2, EmptyIsSeq, AnswerSet
<1>5. ToSet(work'[s]) = {ToMembers(s, frame), To(s, Reply(0, 0, 0))}
  BY <1>2, <1>4, EmptyIsSeq
<1>6. \A x \in ToSet(q) : Proper(x)
  BY <1>2, <1>3
<1>7. Calm => Informs(s)
  BY <1>2, <1>6, EmptyIsSeq, ReplyKind, CalmInforms
<1> QED BY <1>3, <1>4, <1>5, <1>7

LEMMA NewStateInforms ==
    ASSUME LobbyInv, NEW s \in Session, DOMAIN work = Session, NEW gid, NEW state,
           SetsState(s, gid, state),
           Answer(s, <<ToMembers(s, GameChange("GameState", gid, state))>>, Reply(0, 0, 0), <<>>)
    PROVE  Informs(s)
<1>1. /\ gid \in DOMAIN games /\ DOMAIN games' = DOMAIN games
      /\ \A g \in DOMAIN games : games'[g].members = games[g].members
      /\ games'[gid].state = state
      /\ \A g \in DOMAIN games \ {gid} : games'[g].state = games[g].state
  BY StateChanges
<1>2. PICK frame : frame = GameChange("GameState", gid, state)
  OBVIOUS
<1>3. frame.kind \in GameNews
  BY <1>2 DEF GameChange, Frame, GameNews
<1>4. Answer(s, <<ToMembers(s, frame)>>, Reply(0, 0, 0), <<>>)
  BY <1>2
<1>5. /\ IsSeq(work'[s])
      /\ ToMembers(s, frame) \in ToSet(work'[s])
      /\ \A x \in ToSet(work'[s]) : Proper(x)
  BY <1>3, <1>4, NewsInform
<1>6. \A g \in DOMAIN games : Roster(games'[g]) = Roster(games[g])
  BY <1>1 DEF Roster
<1> QED BY <1>1, <1>2, <1>5, <1>6 DEF Informs, Member

\* The setters and replayGame.
LEMMA SettersInform ==
    ASSUME LobbyInv, NEW s \in Session, DOMAIN work = Session, ServeSetters(s) \/ ServeReplay(s)
    PROVE  Informs(s)
<1>1. ASSUME UNCHANGED vars PROVE Calm
  BY <1>1 DEF Calm, Same, vars, lobbyVars
<1>2. \A kind, gid, value : GameChange(kind, gid, value).kind = kind
  BY DEF GameChange, Frame
<1>3. ASSUME NEW gid, NEW capacity \in Int,
             SetPlayerCapacity(s, gid, capacity) \/ UNCHANGED vars,
             Answer(s, <<ToMembers(s, GameChange("GameCapacity", gid, capacity))>>, Reply(0, 0, 0), <<>>)
      PROVE  Informs(s)
  <2>1. Calm
    BY <1>1, <1>3, RequestsCalm
  <2> QED BY <1>2, <1>3, <2>1, NewsInform DEF GameNews
<1>4. ASSUME NEW gid, NEW settings,
             SetGameSettings(s, gid, settings) \/ UNCHANGED vars,
             Answer(s, <<ToMembers(s, GameChange("GameSettings", gid, settings))>>, Reply(0, 0, 0), <<>>)
      PROVE  Informs(s)
  <2>1. 0 \in Int
    OBVIOUS
  <2>2. Calm
    BY <1>1, <1>4, <2>1, RequestsCalm
  <2> QED BY <1>2, <1>4, <2>2, NewsInform DEF GameNews
<1>5. ASSUME NEW gid, NEW attributes,
             SetGameAttrs(s, gid, attributes) \/ UNCHANGED vars,
             Answer(s, <<ToMembers(s, GameChange("GameAttrs", gid, 0))>>, Reply(0, 0, 0), <<>>)
      PROVE  Informs(s)
  <2>1. 0 \in Int
    OBVIOUS
  <2>2. Calm
    BY <1>1, <1>5, <2>1, RequestsCalm
  <2> QED BY <1>2, <1>5, <2>2, NewsInform DEF GameNews
<1>6. ASSUME NEW gid, NEW gameState,
             AdvanceGameState(s, gid, gameState) \/ UNCHANGED vars,
             Answer(s, <<ToMembers(s, GameChange("GameState", gid, gameState))>>, Reply(0, 0, 0), <<>>)
      PROVE  Informs(s)
  <2>1. CASE UNCHANGED vars
    BY <1>1, <1>2, <1>6, <2>1, NewsInform DEF GameNews
  <2>2. CASE AdvanceGameState(s, gid, gameState)
    BY <1>6, <2>2, NewStateInforms DEF AdvanceGameState, SetsState, SetField
  <2> QED BY <1>6, <2>1, <2>2
<1>7. CASE ServeSetters(s)
  <2>1. PICK gid \in NamedGames(s) :
        \/ \E capacity \in Capacities :
            /\ SetPlayerCapacity(s, gid, capacity) \/ UNCHANGED vars
            /\ Answer(s, <<ToMembers(s, GameChange("GameCapacity", gid, capacity))>>, Reply(0, 0, 0), <<>>)
        \/ /\ UNCHANGED vars
           /\ Answer(s, <<ToMembers(s, GameChange("GameCapacity", gid, 0))>>, Reply(0, 0, 0), <<>>)
        \/ \E settings \in SettingBits :
            /\ SetGameSettings(s, gid, settings) \/ UNCHANGED vars
            /\ Answer(s, <<ToMembers(s, GameChange("GameSettings", gid, settings))>>, Reply(0, 0, 0), <<>>)
        \/ \E gameState \in GameStates :
            /\ AdvanceGameState(s, gid, gameState) \/ UNCHANGED vars
            /\ Answer(s, <<ToMembers(s, GameChange("GameState", gid, gameState))>>, Reply(0, 0, 0), <<>>)
        \/ \E attributes \in AttrMaps :
            /\ SetGameAttrs(s, gid, attributes) \/ UNCHANGED vars
            /\ Answer(s, <<ToMembers(s, GameChange("GameAttrs", gid, 0))>>, Reply(0, 0, 0), <<>>)
    BY <1>7 DEF ServeSetters, Publish
  <2>2. Capacities \subseteq Int /\ 0 \in Int
    BY LobbyAssumption
  <2> QED BY <1>3, <1>4, <1>5, <1>6, <2>1, <2>2
<1>8. CASE ServeReplay(s)
  BY <1>8, NewStateInforms DEF ServeReplay, ReplayGame, SetsState, SetField
<1> QED BY <1>7, <1>8

\* Every handler, and the end of a connection.
LEMMA ServeInforms ==
    ASSUME LobbyInv, IdentityInv, LoginFirst => PlayersLoggedIn, NEW s \in Session,
           DOMAIN work = Session, Serve(s)
    PROVE  Informs(s)
BY QuietInforms, ResetInforms, MatchInforms, RemoveInforms, MeshInforms, AttrsInforms,
   SettersInform DEF Serve

-----------------------------------------------------------------------------
(* Delivery: what is to be put is put, or its recipient has gone.          *)

\* A goroutine that has returned from its loop has nothing to put until the
\* deferred removeSession gives it something.
Queued ==
    /\ DOMAIN work = Session
    /\ DOMAIN wire = Session
    /\ \A s \in Session : IsSeq(work[s]) /\ IsSeq(wire[s])
    /\ \A s \in Session : s \in done /\ s \in open => work[s] = <<>>

\* Steps of the goroutines other than those of the handlers.
Delivers(s) ==
    \/ Enqueue(s) \/ TakeMutex(s) \/ Broadcast(s) \/ Write(s) \/ WriteFails(s) \/ Return(s)

LEMMA ServerSteps ==
    ASSUME ServerNext
    PROVE  \E s \in Session : ServeConn(s) \/ Serve(s) \/ Delivers(s) \/ Teardown(s)
BY DEF ServerNext, Delivers

\* The recipients of a broadcast.
Recipients(s, frame) ==
    LET members == IF frame.game \in DOMAIN games THEN games[frame.game].members ELSE <<>>
    IN IF members = <<>> THEN <<s>> ELSE members

LEMMA BroadcastSet ==
    ASSUME LobbyInv, Queued, NEW s \in Session, Broadcast(s)
    PROVE  LET frame == Head(work[s]).frame IN
           /\ Head(work[s]).all
           /\ IsSeq(work'[s])
           /\ ToSet(work'[s]) = {To(m, frame) : m \in ToSet(Recipients(s, frame))}
                                \cup ToSet(Tail(work[s]))
           /\ \A g \in DOMAIN games :
                frame.game = g /\ Roster(games[g]) # {} =>
                    ToSet(Recipients(s, frame)) = Roster(games[g])
<1>1. PICK frame : frame = Head(work[s]).frame
  OBVIOUS
<1>2. PICK recipients : recipients = Recipients(s, frame)
  OBVIOUS
<1>3. work[s] # <<>> /\ Head(work[s]).all
      /\ work'[s] = [i \in DOMAIN recipients |-> To(recipients[i], frame)] \o Tail(work[s])
  BY <1>1, <1>2 DEF Broadcast, Recipients, Queued
<1>4. \A g \in DOMAIN games : IsSeq(games[g].members)
  BY SeqIsSeq DEF LobbyInv, RostersOK, IsGame
<1>5. IsSeq(recipients)
  BY <1>2, <1>4, SingleIsSeq DEF Recipients
<1>6. PICK f : f = [i \in DOMAIN recipients |-> To(recipients[i], frame)]
  OBVIOUS
<1>7. f = [i \in DOMAIN recipients |-> f[i]]
      /\ \A i \in DOMAIN recipients : f[i] = To(recipients[i], frame)
  BY <1>6
<1>8. IsSeq(f) /\ ToSet(f) = {f[i] : i \in DOMAIN recipients}
  BY <1>5, <1>7, MappedIsSeq
<1>9. ToSet(recipients) = {recipients[i] : i \in DOMAIN recipients}
  BY DEF ToSet
<1>10. ToSet(f) = {To(m, frame) : m \in ToSet(recipients)}
  BY <1>7, <1>8, <1>9
<1>11. IsSeq(Tail(work[s]))
  BY <1>3, HeadTailSet DEF Queued
<1>12. work'[s] = f \o Tail(work[s])
  BY <1>3, <1>6
<1>13. IsSeq(work'[s]) /\ ToSet(work'[s]) = ToSet(f) \cup ToSet(Tail(work[s]))
  BY <1>8, <1>11, <1>12, ConcatSet
<1>14. ASSUME NEW g \in DOMAIN games, frame.game = g, Roster(games[g]) # {}
       PROVE  ToSet(recipients) = Roster(games[g])
  <2>1. games[g].members # <<>>
    BY <1>14, EmptyIsSeq DEF Roster
  <2> QED BY <1>2, <1>14, <2>1 DEF Recipients, Roster
<1> QED BY <1>1, <1>2, <1>3, <1>10, <1>13, <1>14

\* The queues are sequences, and empty after the last request.
LEMMA QueuedStep ==
    ASSUME LobbyInv, IdentityInv, LoginFirst => PlayersLoggedIn, Queued, [ServerNext]_serverVars
    PROVE  Queued'
<1>1. CASE UNCHANGED serverVars
  BY <1>1 DEF serverVars, deliveryVars, vars, identityVars, Queued
<1>2. ASSUME NEW s \in Session, ServeConn(s) PROVE Queued'
  BY <1>2, EmptyIsSeq DEF ServeConn, Accept, Connect, Queued
<1>3. ASSUME NEW s \in Session, Serve(s) PROVE Queued'
  <2>1. IsSeq(work'[s])
    BY <1>3, ServeInforms DEF Queued, Informs
  <2> QED BY <1>3, <2>1, ServeAnswers DEF Queued
<1>4. ASSUME NEW s \in Session, Teardown(s) PROVE Queued'
  <2>1. IsSeq(work'[s])
    BY <1>4, TeardownInforms DEF Queued, Informs
  <2>2. s \notin open' /\ open' \subseteq open /\ UNCHANGED <<done, wire>>
        /\ \E items : work' = [work EXCEPT ![s] = items]
    BY <1>4 DEF Teardown, removeSession, Unregister
  <2> QED BY <2>1, <2>2 DEF Queued
<1>5. ASSUME NEW s \in Session, Enqueue(s) \/ TakeMutex(s) PROVE Queued'
  <2>1. work[s] # <<>> /\ work' = [work EXCEPT ![s] = Tail(work[s])] /\ UNCHANGED <<done, open>>
    BY <1>5 DEF Enqueue, TakeMutex, vars, identityVars
  <2>2. IsSeq(Tail(work[s]))
    BY <2>1, HeadTailSet DEF Queued
  <2>3. \/ wire' = wire
        \/ \E t, frame : wire' = [wire EXCEPT ![t] = Append(wire[t], frame)]
    BY <1>5 DEF Enqueue, TakeMutex
  <2>4. ASSUME NEW u \in Session PROVE IsSeq(wire'[u])
    <3>1. IsSeq(wire[u])
      BY DEF Queued
    <3>2. wire'[u] = wire[u] \/ \E frame : wire'[u] = Append(wire[u], frame)
      BY <2>3 DEF Queued
    <3>3. PICK q : q = wire[u]
      OBVIOUS
    <3>4. \A frame : IsSeq(Append(q, frame))
      BY <3>1, <3>3, AppendSet
    <3> QED BY <3>1, <3>2, <3>3, <3>4
  <2>5. DOMAIN wire' = Session
    BY <2>3 DEF Queued
  <2> QED BY <2>1, <2>2, <2>4, <2>5 DEF Queued
<1>6. ASSUME NEW s \in Session, Broadcast(s) PROVE Queued'
  <2>1. IsSeq(work'[s])
    BY <1>6, BroadcastSet
  <2>2. work[s] # <<>> /\ UNCHANGED <<done, open, wire>>
        /\ \E items : work' = [work EXCEPT ![s] = items]
    BY <1>6 DEF Broadcast, vars, identityVars
  <2> QED BY <2>1, <2>2 DEF Queued
<1>7. ASSUME NEW s \in Session, Write(s) \/ WriteFails(s) \/ Return(s) PROVE Queued'
  BY <1>7, EmptyIsSeq DEF Write, WriteFails, Return, vars, identityVars, Queued
<1> QED BY <1>1, <1>2, <1>3, <1>4, <1>5, <1>6, <1>7 DEF ServerNext

\* What becomes of an item: it stays, or it is put, or it is copied to the
\* members of the game.
LEMMA ItemStep ==
    ASSUME LobbyInv, Queued, NEW u \in Session,
           ServeConn(u) \/ Serve(u) \/ Delivers(u) \/ Teardown(u),
           NEW t \in Session, NEW x \in ToSet(work[t])
    PROVE  \/ x \in ToSet(work'[t])
           \/ x.frame.kind \in Mutexes
           \/ /\ ~ x.all
              /\ x.frame.kind # "Reply" /\ x.to \in Session \ done => x.frame \in ToSet(wire'[x.to])
           \/ /\ x.all
              /\ \A g \in DOMAIN games : x.frame.game = g =>
                    \A m \in Roster(games[g]) : To(m, x.frame) \in ToSet(work'[t])
<1>1. CASE t # u
  <2>1. \/ work' = work
        \/ \E items : work' = [work EXCEPT ![u] = items]
    <3>1. CASE ServeConn(u)
      BY <3>1 DEF ServeConn
    <3>2. CASE Serve(u)
      BY <3>2, ServeAnswers
    <3>3. CASE Teardown(u)
      BY <3>3 DEF Teardown
    <3>4. CASE Delivers(u)
      BY <3>4 DEF Delivers, Enqueue, TakeMutex, Broadcast, Write, WriteFails, Return
    <3> QED BY <3>1, <3>2, <3>3, <3>4
  <2>2. work'[t] = work[t]
    BY <1>1, <2>1 DEF Queued
  <2> QED BY <2>2
<1>2. CASE t = u
  <2>1. work[u] # <<>> /\ IsSeq(work[u]) /\ IsSeq(Tail(work[u]))
        /\ ToSet(work[u]) = {Head(work[u])} \cup ToSet(Tail(work[u]))
    BY <1>2, EmptyIsSeq, HeadTailSet DEF Queued
  <2>2. CASE ServeConn(u) \/ Write(u) \/ WriteFails(u) \/ Return(u)
    BY <1>2, <2>2 DEF ServeConn, Write, WriteFails, Return
  <2>3. ~ Serve(u)
    BY <2>1, ServeAnswers
  <2>4. ~ Teardown(u)
    BY <2>1 DEF Teardown, removeSession, Unregister, Queued
  <2>5. CASE TakeMutex(u)
    <3>1. Head(work[u]).frame.kind \in Mutexes
      BY <2>5 DEF TakeMutex, Mutexes
    <3>2. work'[u] = Tail(work[u])
      BY <2>5 DEF TakeMutex, Queued
    <3> QED BY <1>2, <2>1, <3>1, <3>2
  <2>6. CASE Broadcast(u)
    <3>1. CASE x = Head(work[u])
      <4>1. /\ x.all
            /\ ToSet(work'[u]) = {To(m, x.frame) : m \in ToSet(Recipients(u, x.frame))}
                                 \cup ToSet(Tail(work[u]))
            /\ \A g \in DOMAIN games :
                  x.frame.game = g /\ Roster(games[g]) # {} =>
                    ToSet(Recipients(u, x.frame)) = Roster(games[g])
        BY <2>6, <3>1, BroadcastSet
      <4> QED BY <1>2, <4>1
    <3>2. CASE x \in ToSet(Tail(work[u]))
      BY <1>2, <2>6, <3>2, BroadcastSet
    <3> QED BY <1>2, <2>1, <3>1, <3>2
  <2>7. CASE Enqueue(u)
    <3>1. work'[u] = Tail(work[u]) /\ ~ Head(work[u]).all
      BY <2>7 DEF Enqueue, Queued
    <3>2. CASE x = Head(work[u])
      <4> SUFFICES ASSUME x.frame.kind # "Reply", x.to \in Session \ done
                   PROVE  x.frame \in ToSet(wire'[x.to])
        BY <3>1, <3>2
      <4>1. wire' = [wire EXCEPT ![x.to] = Append(wire[x.to], x.frame)]
        BY <2>7, <3>2 DEF Enqueue
      <4>2. wire'[x.to] = Append(wire[x.to], x.frame) /\ IsSeq(wire[x.to])
        BY <4>1 DEF Queued
      <4> QED BY <4>2, AppendSet
    <3> QED BY <1>2, <2>1, <3>1, <3>2
  <2> QED BY <2>2, <2>3, <2>4, <2>5, <2>6, <2>7 DEF Delivers
<1> QED BY <1>1, <1>2

\* What becomes of a history: it stays, or grows by an item that was put, or
\* starts anew with the connection.
LEMMA WireStep ==
    ASSUME Queued, NEW u \in Session,
           ServeConn(u) \/ Serve(u) \/ Delivers(u) \/ Teardown(u),
           NEW s \in Session
    PROVE  \/ wire'[s] = wire[s]
           \/ wire'[s] = <<>> /\ (s \in done' \/ (s \notin open /\ u = s /\ ServeConn(u)))
           \/ /\ s \notin done
              /\ \E x \in ToSet(work[u]) :
                    /\ x.to = s /\ ~ x.all
                    /\ x.frame.kind \notin Mutexes \cup {"Reply"}
                    /\ wire'[s] = Append(wire[s], x.frame)
<1>1. CASE ServeConn(u)
  BY <1>1 DEF ServeConn, Accept, Connect, Queued
<1>2. CASE Serve(u) \/ Teardown(u)
  BY <1>2, ServeAnswers DEF Teardown
<1>3. CASE TakeMutex(u) \/ Broadcast(u) \/ Write(u) \/ WriteFails(u)
  BY <1>3 DEF TakeMutex, Broadcast, Write, WriteFails
<1>4. CASE Return(u)
  BY <1>4 DEF Return, Queued
<1>5. CASE Enqueue(u)
  <2>1. PICK x : x = Head(work[u])
    OBVIOUS
  <2>2. x \in ToSet(work[u]) /\ ~ x.all /\ x.frame.kind \notin Mutexes
    BY <1>5, <2>1, HeadTailSet DEF Enqueue, Queued
  <2>3. \/ wire' = wire
        \/ /\ x.to \notin done
           /\ x.frame.kind # "Reply"
           /\ wire' = [wire EXCEPT ![x.to] = Append(wire[x.to], x.frame)]
    BY <1>5, <2>1 DEF Enqueue
  <2> QED BY <2>2, <2>3 DEF Queued
<1> QED BY <1>1, <1>2, <1>3, <1>4, <1>5 DEF Delivers

-----------------------------------------------------------------------------
(* What a connection has been or is about to be sent stays so.             *)

LEMMA ComingMeaning ==
    ASSUME NEW s, NEW frame
    PROVE  /\ frame \in Coming(s) <=>
                \/ frame \in ToSet(wire[s])
                \/ \E t \in Session : \E x \in ToSet(work[t]) :
                      x.to = s /\ ~ x.all /\ x.frame = frame
           /\ frame \in Coming(s)' <=>
                \/ frame \in ToSet(wire'[s])
                \/ \E t \in Session : \E x \in ToSet(work'[t]) :
                      x.to = s /\ ~ x.all /\ x.frame = frame
BY DEF Coming

\* The end of a connection comes after its last frame, and its Session is not
\* used again before the deferred removeSession.
LEMMA OpenStep ==
    ASSUME NEW u \in Session, ServeConn(u) \/ Serve(u) \/ Delivers(u) \/ Teardown(u),
           NEW s, s \notin done'
    PROVE  s \notin done \/ (s \notin open /\ u = s /\ ServeConn(u))
<1>1. CASE ServeConn(u)
  BY <1>1 DEF ServeConn, Accept, Connect
<1>2. CASE Serve(u) \/ Teardown(u)
  BY <1>2, ServeAnswers DEF Teardown
<1>3. CASE Delivers(u)
  BY <1>3 DEF Delivers, Enqueue, TakeMutex, Broadcast, Write, WriteFails, Return
<1> QED BY <1>1, <1>2, <1>3

LEMMA Persists ==
    ASSUME LobbyInv, Queued, NEW u \in Session,
           ServeConn(u) \/ Serve(u) \/ Delivers(u) \/ Teardown(u),
           NEW s \in Session, s \in open, s \notin done',
           NEW frame \in Coming(s), frame.kind \notin Mutexes, frame.kind # "Reply"
    PROVE  frame \in Coming(s)'
<1>1. s \notin done
  BY OpenStep
<1>2. CASE frame \in ToSet(wire[s])
  <2>1. \/ wire'[s] = wire[s]
        \/ \E x : wire'[s] = Append(wire[s], x.frame)
    BY WireStep
  <2>2. PICK q : q = wire[s]
    OBVIOUS
  <2>3. \A e : ToSet(Append(q, e)) = ToSet(q) \cup {e}
    BY <2>2, AppendSet DEF Queued
  <2>4. frame \in ToSet(wire'[s])
    BY <1>2, <2>1, <2>2, <2>3
  <2> QED BY <2>4, ComingMeaning
<1>3. ASSUME NEW t \in Session, NEW x \in ToSet(work[t]), x.to = s, ~ x.all, x.frame = frame
      PROVE  frame \in Coming(s)'
  <2>1. x \in ToSet(work'[t]) \/ x.frame \in ToSet(wire'[x.to])
    BY <1>1, <1>3, ItemStep
  <2> QED BY <1>3, <2>1, ComingMeaning
<1> QED BY <1>2, <1>3, ComingMeaning

-----------------------------------------------------------------------------
(* The invariants of the delivery.                                         *)

LEMMA ServerLoggedIn == ServerSpec => [](LoginFirst => RosterInv)
<1>1. ServerInit => RosterInv
  BY DEF ServerInit, LobbyInit, IdentityInit, RosterInv, Tabled, PlayersLoggedIn, Busy
<1>2. LobbyInv /\ IdentityInv /\ (LoginFirst => RosterInv) /\ LobbyInv' /\ [ServerNext]_serverVars
        => (LoginFirst => RosterInv)'
  BY ServerStepLobby, RosterNextInv
<1> QED BY <1>1, <1>2, ServerLobbyInv, PTL DEF ServerSpec

DeliveryInv == LobbyInv /\ IdentityInv /\ (LoginFirst => RosterInv) /\ Queued

LEMMA ServerDeliveryInv == ServerSpec => []DeliveryInv
<1>1. ServerInit => Queued
  BY EmptyIsSeq DEF ServerInit, Queued
<1>2. LobbyInv /\ IdentityInv /\ (LoginFirst => RosterInv) /\ Queued /\ [ServerNext]_serverVars
        => Queued'
  BY QueuedStep DEF RosterInv
<1> QED BY <1>1, <1>2, ServerLobbyInv, ServerLoggedIn, PTL DEF ServerSpec, DeliveryInv

\* A step is one of a handler, which tells what it did, or leaves the games alone.
LEMMA StepInforms ==
    ASSUME DeliveryInv, NEW u \in Session,
           ServeConn(u) \/ Serve(u) \/ Delivers(u) \/ Teardown(u)
    PROVE  /\ Serve(u) \/ Teardown(u) => Informs(u)
           /\ ServeConn(u) \/ Delivers(u) => UNCHANGED games
<1>1. ASSUME Serve(u) PROVE Informs(u)
  BY <1>1, ServeInforms DEF DeliveryInv, RosterInv, Queued
<1>2. ASSUME Teardown(u) PROVE Informs(u)
  BY <1>2, TeardownInforms DEF DeliveryInv, Queued
<1>3. ASSUME ServeConn(u) PROVE UNCHANGED games
  BY <1>3 DEF ServeConn, Accept, lobbyVars
<1>4. ASSUME Delivers(u) PROVE UNCHANGED games
  BY <1>4 DEF Delivers, Enqueue, TakeMutex, Broadcast, Write, WriteFails, Return, vars, lobbyVars
<1> QED BY <1>1, <1>2, <1>3, <1>4

-----------------------------------------------------------------------------
(* The state of a game.                                                    *)

LEMMA StateToldStep ==
    ASSUME DeliveryInv, StateTold, LobbyInv', NEW u \in Session,
           ServeConn(u) \/ Serve(u) \/ Delivers(u) \/ Teardown(u)
    PROVE  StateTold'
<1> SUFFICES ASSUME NEW g \in DOMAIN games', NEW s \in Roster(games'[g]), s \notin done'
             PROVE  LET news == GameChange("GameState", g, games'[g].state)
                    IN \/ news \in Coming(s)'
                       \/ \E t \in Session : \E x \in ToSet(work'[t]) : x.all /\ x.frame = news
                       \/ \E frame \in Coming(s)' :
                            frame.kind = "GameSetup" /\ frame.game = g
                            /\ frame.state = games'[g].state
  BY DEF StateTold, ToSet
<1>1. PICK news : news = GameChange("GameState", g, games'[g].state)
  OBVIOUS
<1>2. CASE ~ Member(s, g)
  <2>1. Informs(u)
    BY <1>2, StepInforms DEF Member
  <2>2. PICK msid : To(s, gameSetup(g, games'[g], msid)) \in ToSet(work'[u])
    BY <1>2, <2>1 DEF Informs
  <2>3. gameSetup(g, games'[g], msid) \in Coming(s)'
    BY <2>2, ComingMeaning DEF To
  <2> QED BY <2>3 DEF gameSetup
<1>3. CASE Member(s, g) /\ games'[g].state # games[g].state
  <2>1. Informs(u)
    BY <1>3, StepInforms
  <2>2. ToMembers(u, news) \in ToSet(work'[u])
    BY <1>1, <1>3, <2>1 DEF Informs, Member
  <2> QED BY <1>1, <2>2 DEF ToMembers
<1>4. CASE Member(s, g) /\ games'[g].state = games[g].state
  <2>1. g \in DOMAIN games /\ s \in Roster(games[g]) /\ s \in Session /\ s \in open
    BY <1>4, MembersOpen DEF Member, DeliveryInv
  <2>2. s \notin done
    BY <2>1, OpenStep
  <2>3. news.kind = "GameState" /\ news.game = g /\ news = GameChange("GameState", g, games[g].state)
    BY <1>1, <1>4 DEF GameChange, Frame
  <2>4. \/ news \in Coming(s)
        \/ \E t \in Session : \E x \in ToSet(work[t]) : x.all /\ x.frame = news
        \/ \E frame \in Coming(s) :
             frame.kind = "GameSetup" /\ frame.game = g /\ frame.state = games[g].state
    BY <2>1, <2>2, <2>3 DEF StateTold, ToSet
  <2>5. CASE news \in Coming(s)
    BY <1>1, <2>1, <2>3, <2>5, Persists DEF DeliveryInv, Mutexes
  <2>6. ASSUME NEW t \in Session, NEW x \in ToSet(work[t]), x.all, x.frame = news
        PROVE  \/ news \in Coming(s)'
               \/ \E v \in Session : \E y \in ToSet(work'[v]) : y.all /\ y.frame = news
    <3>1. \/ x \in ToSet(work'[t])
          \/ To(s, news) \in ToSet(work'[t])
      BY <2>1, <2>3, <2>6, ItemStep DEF DeliveryInv, Mutexes
    <3> QED BY <2>6, <3>1, ComingMeaning DEF To
  <2>7. ASSUME NEW frame \in Coming(s), frame.kind = "GameSetup"
        PROVE  frame \in Coming(s)'
    BY <2>1, <2>7, Persists DEF DeliveryInv, Mutexes
  <2> QED BY <1>1, <1>4, <2>4, <2>5, <2>6, <2>7
<1> QED BY <1>2, <1>3, <1>4

\* Every member of a game has been told, or will be, of the state the game is
\* in, for any number of connections and games, although the setters store the
\* state in one critical section and copy the roster in another, between which
\* players join and leave (handlers.go:315-331, server.go:220-242).  It rests on
\* every handler leaving its goroutine what Informs says, and on what is left
\* being put unless the recipient has gone.
THEOREM ServerStateTold == ServerSpec => []StateTold
<1>1. ServerInit => StateTold
  BY DEF ServerInit, LobbyInit, StateTold
<1>2. DeliveryInv /\ LobbyInv' /\ StateTold /\ [ServerNext]_serverVars => StateTold'
  <2>1. ASSUME StateTold, UNCHANGED serverVars PROVE StateTold'
    BY <2>1 DEF StateTold, Coming, serverVars, deliveryVars, vars, lobbyVars, Roster
  <2> QED BY <2>1, StateToldStep, ServerSteps
<1>3. DeliveryInv => LobbyInv
  BY DEF DeliveryInv
<1> QED BY <1>1, <1>2, <1>3, ServerDeliveryInv, PTL DEF ServerSpec

-----------------------------------------------------------------------------
(* Who is in a game.                                                       *)

\* Members have logged in, and keep their personas while they are members.
LEMMA RosterPersonas ==
    ASSUME LoginFirst, DeliveryInv, ServerNext, LobbyInv', NEW g \in DOMAIN games',
           NEW s \in Roster(games'[g])
    PROVE  s \in Session /\ persona'[s] = persona[s]
<1>1. [LobbyNext]_vars
  BY ServerStepLobby DEF DeliveryInv
<1>2. CASE LobbyNext
  BY <1>2, MembersKeepPersonas DEF DeliveryInv, RosterInv
<1>3. CASE UNCHANGED vars
  <2>1. games' = games /\ persona' = persona
    BY <1>3 DEF vars, lobbyVars, identityVars
  <2> QED BY <2>1, MembersOpen DEF DeliveryInv
<1> QED BY <1>1, <1>2, <1>3

LEMMA AnnouncedStep ==
    ASSUME LoginFirst, DeliveryInv, Announced, LobbyInv', ServerNext
    PROVE  Announced'
<1>1. PICK u \in Session : ServeConn(u) \/ Serve(u) \/ Delivers(u) \/ Teardown(u)
  BY ServerSteps
<1> SUFFICES ASSUME NEW g \in DOMAIN games', NEW s \in Roster(games'[g]),
                    NEW t \in Roster(games'[g]), s # t, s \notin done'
             PROVE  \E frame \in Coming(s)' : Announces(frame, g, persona'[t])
  BY DEF Announced, Announces
<1>2. persona'[t] = persona[t]
  BY RosterPersonas
<1>3. CASE ~ Member(s, g)
  <2>1. Informs(u)
    BY <1>1, <1>3, StepInforms DEF Member
  <2>2. PICK msid : To(s, gameSetup(g, games'[g], msid)) \in ToSet(work'[u])
    BY <1>3, <2>1 DEF Informs
  <2>3. gameSetup(g, games'[g], msid) \in Coming(s)'
    BY <2>2, ComingMeaning DEF To
  <2>4. Announces(gameSetup(g, games'[g], msid), g, persona[t])
    BY DEF gameSetup, Announces, Personas
  <2> QED BY <1>2, <2>3, <2>4
<1>4. CASE Member(s, g) /\ ~ Member(t, g)
  <2>1. Informs(u)
    BY <1>1, <1>4, StepInforms DEF Member
  <2>2. To(s, PlayerJoining(g, persona[t])) \in ToSet(work'[u])
    BY <1>4, <2>1 DEF Informs
  <2>3. PlayerJoining(g, persona[t]) \in Coming(s)'
    BY <2>2, ComingMeaning DEF To
  <2> QED BY <1>2, <2>3 DEF Announces
<1>5. CASE Member(s, g) /\ Member(t, g)
  <2>1. s \in Session /\ s \in open
    BY <1>5, MembersOpen DEF Member, DeliveryInv
  <2>2. s \notin done
    BY <1>1, <2>1, OpenStep
  <2>3. PICK frame \in Coming(s) : Announces(frame, g, persona[t])
    BY <1>5, <2>2 DEF Announced, Member
  <2>4. frame.kind \in {"GameSetup", "PlayerJoining"}
    BY <2>3 DEF Announces, PlayerJoining, Frame
  <2>5. frame \in Coming(s)'
    BY <1>1, <2>1, <2>4, Persists DEF DeliveryInv, Mutexes
  <2> QED BY <1>2, <2>3, <2>5
<1> QED BY <1>3, <1>4, <1>5

\* Every member of a game has been told, or is being told, of every other one,
\* for any number of connections and games and however joins, removals and
\* disconnects overlap, when clients log in first (server.go:331-358, 454-502).
THEOREM ServerAnnounced ==
    ASSUME LoginFirst
    PROVE  ServerSpec => []Announced
<1>1. ServerInit => Announced
  BY DEF ServerInit, LobbyInit, Announced
<1>2. DeliveryInv /\ LobbyInv' /\ Announced /\ [ServerNext]_serverVars => Announced'
  <2>1. ASSUME Announced, UNCHANGED serverVars PROVE Announced'
    BY <2>1 DEF Announced, Announces, Coming, serverVars, deliveryVars, vars, lobbyVars,
                identityVars, Roster
  <2> QED BY <2>1, AnnouncedStep
<1>3. DeliveryInv => LobbyInv
  BY DEF DeliveryInv
<1> QED BY <1>1, <1>2, <1>3, ServerDeliveryInv, PTL DEF ServerSpec

-----------------------------------------------------------------------------
(* The end of a membership.                                                *)

\* Only news about a game is broadcast.
NewsOnly == \A t \in Session : \A x \in ToSet(work[t]) : x.all => x.frame.kind \in GameNews

\* Clients that were set up in a game have logged in.
SetupsLoggedIn ==
    \A s \in open \ done : \A frame \in Coming(s) : frame.kind = "GameSetup" => persona[s] # 0

\* Where an item comes from: it was there, or a handler left it, or it is the
\* copy of a broadcast.
LEMMA NewItems ==
    ASSUME DeliveryInv, NEW u \in Session,
           ServeConn(u) \/ Serve(u) \/ Delivers(u) \/ Teardown(u),
           NEW t \in Session, NEW x \in ToSet(work'[t])
    PROVE  \/ x \in ToSet(work[t])
           \/ t = u /\ (Serve(u) \/ Teardown(u)) /\ Informs(u)
           \/ ~ x.all /\ \E y \in ToSet(work[t]) : y.all /\ y.frame = x.frame
<1>1. CASE Serve(u) \/ Teardown(u)
  <2>1. CASE t = u
    BY <1>1, <2>1, StepInforms
  <2>2. CASE t # u
    <3>1. \E items : work' = [work EXCEPT ![u] = items]
      BY <1>1, ServeAnswers DEF Teardown
    <3> QED BY <2>2, <3>1 DEF DeliveryInv, Queued
  <2> QED BY <2>1, <2>2
<1>2. CASE ServeConn(u) \/ Write(u) \/ WriteFails(u) \/ Return(u)
  BY <1>2 DEF ServeConn, Write, WriteFails, Return
<1>3. CASE Enqueue(u) \/ TakeMutex(u)
  <2>1. work[u] # <<>> /\ work' = [work EXCEPT ![u] = Tail(work[u])]
    BY <1>3 DEF Enqueue, TakeMutex
  <2>2. ToSet(Tail(work[u])) \subseteq ToSet(work[u])
    BY <2>1, HeadTailSet DEF DeliveryInv, Queued
  <2> QED BY <2>1, <2>2 DEF DeliveryInv, Queued
<1>4. CASE Broadcast(u)
  <2>1. CASE t # u
    BY <1>4, <2>1 DEF Broadcast, DeliveryInv, Queued
  <2>2. CASE t = u
    <3>1. PICK y : y = Head(work[u])
      OBVIOUS
    <3>2. /\ y.all
          /\ ToSet(work'[u]) = {To(m, y.frame) : m \in ToSet(Recipients(u, y.frame))}
                               \cup ToSet(Tail(work[u]))
      BY <1>4, <3>1, BroadcastSet DEF DeliveryInv
    <3>3. ToSet(work[u]) = {y} \cup ToSet(Tail(work[u]))
      BY <1>4, <3>1, HeadTailSet DEF Broadcast, DeliveryInv, Queued
    <3> QED BY <2>2, <3>2, <3>3 DEF To
  <2> QED BY <2>1, <2>2
<1> QED BY <1>1, <1>2, <1>3, <1>4 DEF Delivers

LEMMA NewsOnlyStep ==
    ASSUME DeliveryInv, NewsOnly, NEW u \in Session,
           ServeConn(u) \/ Serve(u) \/ Delivers(u) \/ Teardown(u)
    PROVE  NewsOnly'
BY NewItems DEF NewsOnly, Informs, Proper

\* A client that stays connected and is sent a setup has been sent it before, or
\* has just become a member.
LEMMA NewSetups ==
    ASSUME LoginFirst, DeliveryInv, NewsOnly, NEW u \in Session,
           ServeConn(u) \/ Serve(u) \/ Delivers(u) \/ Teardown(u),
           NEW s \in open', s \notin done', NEW frame \in Coming(s)', frame.kind = "GameSetup"
    PROVE  \/ s \in open \ done /\ frame \in Coming(s)
           \/ Member(s, frame.game)' /\ persona[s] \in frame.roster
<1>1. CASE s \notin open
  <2>1. ServeConn(u) /\ u = s
    <3>1. CASE Serve(u)
      BY <1>1, <3>1, ServeAnswers
    <3>2. CASE Teardown(u)
      BY <1>1, <3>2 DEF Teardown, removeSession, Unregister
    <3>3. CASE Delivers(u)
      BY <1>1, <3>3 DEF Delivers, Enqueue, TakeMutex, Broadcast, Write, WriteFails, Return, vars,
                        identityVars
    <3>4. CASE ServeConn(u)
      BY <1>1, <3>4 DEF ServeConn, Accept, Connect
    <3> QED BY <3>1, <3>2, <3>3, <3>4
  <2>2. ToSet(wire'[s]) = {} /\ work' = work
    BY <2>1, EmptyIsSeq DEF ServeConn, DeliveryInv, Queued
  <2>3. \A t \in Session : \A x \in ToSet(work[t]) : x.to # s
    BY <2>1 DEF ServeConn, ToSet
  <2> QED BY <2>2, <2>3, ComingMeaning
<1>2. CASE s \in open
  <2>1. s \notin done /\ s \in Session
    BY <1>2, OpenStep DEF DeliveryInv, IdentityInv, IdentityTypeOK
  <2>2. CASE frame \in ToSet(wire'[s])
    <3>1. CASE wire'[s] = wire[s]
      BY <1>2, <2>1, <2>2, <3>1, ComingMeaning
    <3>2. CASE wire'[s] = <<>>
      BY <2>2, <3>2, EmptyIsSeq
    <3>3. ASSUME NEW x \in ToSet(work[u]), x.to = s, ~ x.all, wire'[s] = Append(wire[s], x.frame)
          PROVE  frame \in Coming(s)
      <4>1. ToSet(wire'[s]) = ToSet(wire[s]) \cup {x.frame}
        BY <2>1, <3>3, AppendSet DEF DeliveryInv, Queued
      <4> QED BY <2>2, <3>3, <4>1, ComingMeaning
    <3> QED BY <1>2, <2>1, <3>1, <3>2, <3>3, WireStep DEF DeliveryInv
  <2>3. ASSUME NEW t \in Session, NEW x \in ToSet(work'[t]), x.to = s, ~ x.all, x.frame = frame
        PROVE  frame \in Coming(s) \/ (Member(s, frame.game)' /\ persona[s] \in frame.roster)
    <3>1. CASE x \in ToSet(work[t])
      BY <2>3, <3>1, ComingMeaning
    <3>2. CASE t = u /\ Informs(u)
      <4>1. Proper(x)
        BY <2>3, <3>2 DEF Informs
      <4>2. PICK g \in DOMAIN games' :
              (\E msid : x.frame = gameSetup(g, games'[g], msid)) /\ s \in Roster(games'[g])
        BY <2>3, <4>1 DEF Proper
      <4> QED BY <2>3, <4>2 DEF Member, gameSetup, Personas
    <3>3. ~ \E y \in ToSet(work[t]) : y.all /\ y.frame = x.frame
      BY <2>3 DEF NewsOnly, GameNews
    <3> QED BY <3>1, <3>2, <3>3, NewItems
  <2> QED BY <1>2, <2>1, <2>2, <2>3, ComingMeaning
<1> QED BY <1>1, <1>2

\* A login is kept until the connection ends.
LEMMA PersonaKept ==
    ASSUME DeliveryInv, ServerNext, NEW s \in open, persona[s] # 0
    PROVE  persona'[s] = persona[s]
<1>1. [IdentityNext]_identityVars
  BY ServerStepLobby, LobbyStepIdentity DEF DeliveryInv
<1>2. s \in Session /\ DOMAIN persona = Session
  BY DEF DeliveryInv, IdentityInv, IdentityTypeOK
<1> QED BY <1>1, <1>2 DEF IdentityNext, Connect, Authenticate, AuthenticateAgain, Unregister,
                          identityVars

LEMMA SetupsLoggedInStep ==
    ASSUME LoginFirst, DeliveryInv, DeliveryInv', NewsOnly, SetupsLoggedIn, ServerNext
    PROVE  SetupsLoggedIn'
<1> SUFFICES ASSUME NEW s \in open', s \notin done', NEW frame \in Coming(s)',
                    frame.kind = "GameSetup"
             PROVE  persona'[s] # 0
  BY DEF SetupsLoggedIn
<1>1. CASE s \in open \ done /\ frame \in Coming(s)
  BY <1>1, PersonaKept DEF SetupsLoggedIn
<1>2. CASE Member(s, frame.game)'
  <2>1. s \in Session /\ gameID'[s] # 0
    <3>1. s \in Session
      BY DEF DeliveryInv, IdentityInv, IdentityTypeOK
    <3> QED BY <1>2, <3>1 DEF Member, DeliveryInv, LobbyInv, SessionStateMachine, FieldsOK
  <2> QED BY <2>1 DEF DeliveryInv, RosterInv, PlayersLoggedIn, Busy
<1> QED BY <1>1, <1>2, NewSetups, ServerSteps

LEMMA EndToldStep ==
    ASSUME LoginFirst, DeliveryInv, NewsOnly, SetupsLoggedIn, EndTold, ServerNext
    PROVE  EndTold'
<1>1. PICK u \in Session : ServeConn(u) \/ Serve(u) \/ Delivers(u) \/ Teardown(u)
  BY ServerSteps
<1> SUFFICES ASSUME NEW s \in open', s \notin done', NEW g \in 1..MaxGames,
                    NEW frame \in Coming(s)', frame.kind = "GameSetup", frame.game = g,
                    ~ Member(s, g)'
             PROVE  \/ gameRemovedNotification(g) \in Coming(s)'
                    \/ playerRemovedNotification(g, persona'[s]) \in Coming(s)'
  BY DEF EndTold, playerRemovedNotification
<1>2. s \in open /\ s \notin done /\ frame \in Coming(s)
  BY <1>1, NewSetups
<1>3. persona'[s] = persona[s] /\ s \in Session
  BY <1>2, PersonaKept DEF SetupsLoggedIn, DeliveryInv, IdentityInv, IdentityTypeOK
<1>4. CASE Member(s, g)
  <2>1. Informs(u)
    BY <1>1, <1>4, StepInforms DEF Member
  <2>2. \/ To(s, playerRemovedNotification(g, persona[s])) \in ToSet(work'[u])
        \/ To(s, gameRemovedNotification(g)) \in ToSet(work'[u])
    BY <1>2, <1>4, <2>1 DEF Informs, Member
  <2> QED BY <1>3, <2>2, ComingMeaning DEF To
<1>5. CASE ~ Member(s, g)
  <2>1. \/ gameRemovedNotification(g) \in Coming(s)
        \/ playerRemovedNotification(g, persona[s]) \in Coming(s)
    BY <1>2, <1>5 DEF EndTold
  <2>2. ASSUME NEW note \in Coming(s), note.kind \in {"GameRemoved", "PlayerRemoved"}
        PROVE  note \in Coming(s)'
    BY <1>1, <1>2, <1>3, <2>2, Persists DEF DeliveryInv, Mutexes
  <2>3. /\ gameRemovedNotification(g).kind = "GameRemoved"
        /\ playerRemovedNotification(g, persona[s]).kind = "PlayerRemoved"
    BY DEF gameRemovedNotification, playerRemovedNotification, Frame
  <2> QED BY <1>3, <2>1, <2>2, <2>3
<1> QED BY <1>4, <1>5

\* A client that was set up in a game it is no longer in has been told, or is
\* being told, that the game or its own membership ended, for any number of
\* connections and games, when clients log in first (server.go:190-199,
\* handlers.go:445-459).
THEOREM ServerEndTold ==
    ASSUME LoginFirst
    PROVE  ServerSpec => []EndTold
<1> DEFINE EndInv == NewsOnly /\ SetupsLoggedIn /\ EndTold
<1>1. ServerInit => EndInv
  BY DEF ServerInit, LobbyInit, IdentityInit, NewsOnly, SetupsLoggedIn, EndTold, ToSet
<1>2. DeliveryInv /\ DeliveryInv' /\ EndInv /\ [ServerNext]_serverVars => EndInv'
  <2>1. ASSUME EndInv, UNCHANGED serverVars PROVE EndInv'
    BY <2>1 DEF NewsOnly, SetupsLoggedIn, EndTold, Coming, serverVars, deliveryVars, vars,
                lobbyVars, identityVars, Roster, Member, playerRemovedNotification
  <2>2. ASSUME DeliveryInv, DeliveryInv', EndInv, ServerNext PROVE EndInv'
    BY <2>2, ServerSteps, NewsOnlyStep, SetupsLoggedInStep, EndToldStep
  <2> QED BY <2>1, <2>2
<1>3. EndInv => EndTold
  OBVIOUS
<1> HIDE DEF EndInv
<1> QED BY <1>1, <1>2, <1>3, ServerDeliveryInv, PTL DEF ServerSpec

-----------------------------------------------------------------------------
(* NotifyPlayerJoined follows the introduction.  A client that names only  *)
(* players it was told of reports its links to no others, and the members  *)
(* are told of a join when all of them have reported theirs.               *)

\* The frame that introduces p in game g has been put for s.
Told(s, g, p) == \E frame \in ToSet(wire[s]) : Announces(frame, g, p)

\* A setup has its recipient in its roster.
SetupsShowSelf ==
    \A s \in open \ done : \A frame \in Coming(s) :
        frame.kind = "GameSetup" => persona[s] \in frame.roster

\* Members have reported links only to players they were told of, after they
\* were told of themselves.
MeshTold ==
    \A g \in DOMAIN games : \A m \in Roster(games[g]) \ done : \A l \in games[g].mesh :
        l[1] = persona[m] => Told(m, g, l[2]) /\ Told(m, g, persona[m])

\* A player is introduced before NotifyPlayerJoined about it is even to be put.
NotesTold ==
    \A s \in Session \ done : \A t \in Session : \A x \in ToSet(work[t]) :
        x.to = s /\ x.frame.kind = "PlayerJoined" => Told(s, x.frame.game, x.frame.player)

\* The step records no link.
NoNewLinks ==
    \A g \in DOMAIN games' : \A l \in games'[g].mesh : g \in DOMAIN games /\ l \in games[g].mesh

LEMMA EnsureMesh ==
    ASSUME NEW game, IsGame(game)
    PROVE  ensureMembershipState(game).mesh = game.mesh
BY DEF ensureMembershipState, IsGame, GameFields

LEMMA AddMesh ==
    ASSUME NEW game, IsGame(game), NEW s
    PROVE  addMember(game, s).mesh = game.mesh
<1> DEFINE e == ensureMembershipState(game)
<1>1. e.mesh = game.mesh /\ DOMAIN e = GameFields
  BY EnsureMesh, EnsureRoster DEF SameRoster, IsGame
<1>2. \/ addMember(game, s) = e
      \/ \E slot : addMember(game, s) = [e EXCEPT !.members = Append(@, s),
                                                  !.slots = Put(@, persona[s], slot),
                                                  !.playerAttrs = Put(@, persona[s], <<>>)]
  BY DEF addMember
<1> HIDE DEF e
<1> QED BY <1>1, <1>2 DEF GameFields

LEMMA NewMesh ==
    ASSUME NEW host \in Session, NEW attrs, NEW capacity \in Int, NEW topology
    PROVE  newGame(host, attrs, capacity, topology).mesh = {}
<1> DEFINE empty == [host |-> host, members |-> <<>>, attrs |-> attrs,
                     capacity |-> capacity, topology |-> topology, state |-> 1,
                     settings |-> 284, slots |-> <<>>, playerAttrs |-> <<>>,
                     mesh |-> {}, meshReady |-> {}]
<1>1. IsGame(empty) /\ empty.mesh = {}
  BY DEF IsGame, GameFields, IsInjective
<1>2. newGame(host, attrs, capacity, topology) = addMember(empty, host)
  BY DEF newGame
<1> HIDE DEF empty
<1> QED BY <1>1, <1>2, AddMesh

LEMMA VisitedMesh ==
    ASSUME LobbyInv, NEW request, NEW g
    PROVE  /\ DOMAIN Visited(request, g) = DOMAIN games
           /\ \A h \in DOMAIN games : Visited(request, g)[h].mesh = games[h].mesh
<1>1. \A h \in DOMAIN games : ensureMembershipState(games[h]).mesh = games[h].mesh
  BY EnsureMesh DEF LobbyInv, RostersOK
<1> QED BY <1>1 DEF Visited

LEMMA LeaveLinks ==
    ASSUME LobbyInv, NEW t, NEW g \in DOMAIN games, Leave(t, g)
    PROVE  NoNewLinks
<1> DEFINE left == removeMember(games[g], t)
<1>1. games' \in {Without(games, g), [games EXCEPT ![g] = refreshMeshReadiness(left)]}
  BY DEF Leave
<1>2. DOMAIN left = GameFields /\ left.mesh \subseteq games[g].mesh
  <2>1. IsGame(games[g])
    BY DEF LobbyInv, RostersOK
  <2> QED BY <2>1 DEF removeMember, IsGame, GameFields
<1> HIDE DEF left
<1>3. refreshMeshReadiness(left).mesh = left.mesh
  BY <1>2 DEF refreshMeshReadiness, GameFields
<1> QED BY <1>1, <1>2, <1>3 DEF NoNewLinks, Without

LEMMA StartLinks ==
    ASSUME LobbyInv, NEW s \in Session, NEW req \in Requests,
           StartMatchmaking(s, req) \/ ResetDedicated(s, req)
    PROVE  NoNewLinks
<1>1. \/ games' = games
      \/ \E request : JoinGame(request) \/ PairMatch(request) \/ EnqueueMatch(request)
      \/ games' = Put(games, nextGameID, newGame(s, Attributes(req), getMatchmakingCapacity(req),
                                                 getMatchmakingTopology(req)))
  BY DEF StartMatchmaking, ResetDedicated, IgnoreMatch, lobbyVars
<1>2. CASE games' = games
  BY <1>2 DEF NoNewLinks
<1>3. ASSUME NEW request, EnqueueMatch(request) PROVE NoNewLinks
  BY <1>3, VisitedMesh DEF EnqueueMatch, NoNewLinks
<1>4. ASSUME NEW request, JoinGame(request) PROVE NoNewLinks
  <2>1. PICK g \in Joinable(request) :
          games' = [Visited(request, g) EXCEPT ![g] = addMember(games[g], request.session)]
    BY <1>4 DEF JoinGame
  <2>2. g \in DOMAIN games /\ addMember(games[g], request.session).mesh = games[g].mesh
    BY AddMesh DEF Joinable, LobbyInv, RostersOK
  <2> QED BY <2>1, <2>2, VisitedMesh DEF NoNewLinks
<1>5. ASSUME NEW request, PairMatch(request) PROVE NoNewLinks
  <2> DEFINE base(r) == newGame(r.session, r.attrs, r.cap, r.topology)
  <2>1. PICK r \in matchQueue :
          games' = Put(Visited(request, nextGameID), nextGameID,
                       addMember(base(r), request.session))
    BY <1>5 DEF PairMatch
  <2>2. r.session \in Session /\ r.cap \in Int
    BY RequestAssumption DEF LobbyInv, FieldsOK, MatchRequests
  <2>3. IsGame(base(r)) /\ base(r).mesh = {}
    BY <2>2, NewRoster, NewMesh
  <2> HIDE DEF base
  <2>4. addMember(base(r), request.session).mesh = {}
    BY <2>3, AddMesh
  <2> QED BY <2>1, <2>4, VisitedMesh DEF NoNewLinks, Put
<1>6. CASE games' = Put(games, nextGameID,
                        newGame(s, Attributes(req), getMatchmakingCapacity(req),
                                getMatchmakingTopology(req)))
  BY <1>6, NewMesh, RequestAssumption DEF NoNewLinks, Put
<1> QED BY <1>1, <1>2, <1>3, <1>4, <1>5, <1>6

LEMMA FieldLinks ==
    ASSUME LobbyInv, NEW s \in Session, NEW gid, NEW pid, NEW settings, NEW attributes,
           NEW capacity, NEW gameState,
           \/ SetPlayerAttrs(s, gid, pid, attributes)
           \/ SetPlayerCapacity(s, gid, capacity)
           \/ SetGameAttrs(s, gid, attributes)
           \/ SetGameSettings(s, gid, settings)
           \/ AdvanceGameState(s, gid, gameState)
           \/ ReplayGame(s, gid)
    PROVE  NoNewLinks
<1>1. gid \in DOMAIN games
  BY DEF SetPlayerAttrs, SetPlayerCapacity, SetGameAttrs, SetGameSettings, AdvanceGameState,
         ReplayGame, SetField
<1>2. PICK e : e = ensureMembershipState(games[gid])
  OBVIOUS
<1>3. DOMAIN games[gid] = GameFields /\ DOMAIN e = GameFields /\ e.mesh = games[gid].mesh
  BY <1>1, <1>2, EnsureMesh, EnsureRoster DEF LobbyInv, RostersOK, SameRoster, IsGame
<1>4. PICK new : /\ games' = [games EXCEPT ![gid] = new]
                 /\ \/ new = [games[gid] EXCEPT !.capacity = capacity]
                    \/ new = [games[gid] EXCEPT !.attrs = attributes]
                    \/ new = [games[gid] EXCEPT !.settings = settings]
                    \/ new = [games[gid] EXCEPT !.state = gameState]
                    \/ new = [games[gid] EXCEPT !.state = 130]
                    \/ \E attrs : new = [e EXCEPT !.playerAttrs = attrs]
  BY <1>2 DEF SetPlayerAttrs, SetPlayerCapacity, SetGameAttrs, SetGameSettings, AdvanceGameState,
              ReplayGame, SetField
<1>5. new.mesh = games[gid].mesh
  BY <1>3, <1>4 DEF GameFields
<1> QED BY <1>1, <1>4, <1>5 DEF NoNewLinks

\* Links are recorded by updateMeshConnection only.
LEMMA ServerLinks ==
    ASSUME DeliveryInv, NEW u \in Session,
           ServeConn(u) \/ Serve(u) \/ Delivers(u) \/ Teardown(u)
    PROVE  ServeUpdateMesh(u) \/ NoNewLinks
<1>1. LobbyInv
  BY DEF DeliveryInv
<1>2. ASSUME games' = games PROVE NoNewLinks
  BY <1>2 DEF NoNewLinks
<1>3. CASE ServeConn(u) \/ Delivers(u)
  BY <1>2, <1>3, StepInforms
<1>4. CASE Teardown(u)
  <2>1. ASSUME NEW g \in GamesOf(u), Leave(u, g) PROVE NoNewLinks
    BY <1>1, <2>1, LeaveLinks DEF GamesOf
  <2> QED BY <1>2, <1>4, <2>1 DEF Teardown, removeSession
<1>5. CASE ServeOther(u) \/ ServeLogin(u) \/ ServeCancel(u) \/ ServeFinalize(u)
  BY <1>2, <1>5 DEF ServeOther, ServeLogin, ServeCancel, ServeFinalize, SilentLogin,
                    CancelMatchmaking, FinalizeGame, vars, lobbyVars
<1>6. CASE ServeResetDedicated(u) \/ ServeMatchmaking(u)
  BY <1>1, <1>6, StartLinks DEF ServeResetDedicated, ServeMatchmaking
<1>7. CASE ServeRemovePlayer(u)
  <2>1. ASSUME NEW gid, NEW pid, RemovePlayer(u, gid, pid) PROVE NoNewLinks
    BY <1>1, <2>1, LeaveLinks DEF RemovePlayer
  <2> QED BY <1>2, <1>7, <2>1 DEF ServeRemovePlayer, vars, lobbyVars
<1>8. CASE ServePlayerAttrs(u) \/ ServeReplay(u)
  BY <1>1, <1>2, <1>8, FieldLinks DEF ServePlayerAttrs, ServeReplay, vars, lobbyVars
<1>9. CASE ServeSetters(u)
  <2>1. \E gid :
          \/ \E capacity \in Capacities : SetPlayerCapacity(u, gid, capacity)
          \/ \E settings \in SettingBits : SetGameSettings(u, gid, settings)
          \/ \E gameState \in GameStates : AdvanceGameState(u, gid, gameState)
          \/ \E attributes \in AttrMaps : SetGameAttrs(u, gid, attributes)
          \/ UNCHANGED vars
    BY <1>9 DEF ServeSetters, Publish
  <2>2. CASE UNCHANGED vars
    BY <1>2, <2>2 DEF vars, lobbyVars
  <2> QED BY <1>1, <2>1, <2>2, FieldLinks
<1> QED BY <1>3, <1>4, <1>5, <1>6, <1>7, <1>8, <1>9 DEF Serve

LEMMA ShowSelfStep ==
    ASSUME LoginFirst, DeliveryInv, LobbyInv', NewsOnly, SetupsLoggedIn, SetupsShowSelf, ServerNext
    PROVE  SetupsShowSelf'
<1> SUFFICES ASSUME NEW s \in open', s \notin done', NEW frame \in Coming(s)',
                    frame.kind = "GameSetup"
             PROVE  persona'[s] \in frame.roster
  BY DEF SetupsShowSelf
<1>1. CASE s \in open \ done /\ frame \in Coming(s)
  <2>1. persona[s] # 0
    BY <1>1 DEF SetupsLoggedIn
  <2> QED BY <1>1, <2>1, PersonaKept DEF SetupsShowSelf
<1>2. CASE Member(s, frame.game)' /\ persona[s] \in frame.roster
  BY <1>2, RosterPersonas DEF Member
<1> QED BY <1>1, <1>2, NewSetups, ServerSteps

\* What was put stays put while the connection is served.
LEMMA WireStays ==
    ASSUME DeliveryInv, NEW u \in Session,
           ServeConn(u) \/ Serve(u) \/ Delivers(u) \/ Teardown(u),
           NEW s \in Session, s \notin done', ~ (u = s /\ ServeConn(u))
    PROVE  s \notin done /\ ToSet(wire[s]) \subseteq ToSet(wire'[s])
<1>1. s \notin done
  BY OpenStep
<1>2. PICK q : q = wire[s]
  OBVIOUS
<1>3. \A e : ToSet(Append(q, e)) = ToSet(q) \cup {e}
  BY <1>2, AppendSet DEF DeliveryInv, Queued
<1>4. wire'[s] = wire[s] \/ \E x : wire'[s] = Append(wire[s], x.frame)
  BY WireStep DEF DeliveryInv
<1> QED BY <1>1, <1>2, <1>3, <1>4

LEMMA MeshToldStep ==
    ASSUME LoginFirst, Honest, DeliveryInv, LobbyInv', SetupsShowSelf, MeshTold, ServerNext
    PROVE  MeshTold'
<1>1. PICK u \in Session : ServeConn(u) \/ Serve(u) \/ Delivers(u) \/ Teardown(u)
  BY ServerSteps
<1> DEFINE Said(m, g, p) == \E frame \in ToSet(wire'[m]) : Announces(frame, g, p)
<1> SUFFICES ASSUME NEW g \in DOMAIN games', NEW m \in Roster(games'[g]), m \notin done',
                    NEW l \in games'[g].mesh, l[1] = persona'[m]
             PROVE  Said(m, g, l[2]) /\ Said(m, g, persona'[m])
  BY DEF MeshTold, Told, Announces
<1>2. m \in Session /\ persona'[m] = persona[m]
  BY RosterPersonas
<1>3. \A x \in Session : gameID[x] # 0 => x \in open /\ persona[x] # 0
  BY DEF DeliveryInv, RosterInv, PlayersLoggedIn, Busy, LobbyInv, SessionStateMachine
<1>4. \A h \in DOMAIN games : \A x \in Roster(games[h]) :
        x \in Session /\ x \in open /\ persona[x] # 0
  <2>1. ASSUME NEW h \in DOMAIN games, NEW x \in Roster(games[h])
        PROVE  x \in Session /\ gameID[x] = h /\ h # 0
    BY MembersOpen DEF DeliveryInv, LobbyInv, SessionStateMachine, Member, FieldsOK
  <2> QED BY <1>3, <2>1
<1>5. CASE Member(m, g)
  <2>1. g \in DOMAIN games /\ m \in open /\ persona[m] # 0 /\ m \in Roster(games[g])
    BY <1>4, <1>5 DEF Member
  <2>2. ~ (u = m /\ ServeConn(u))
    BY <2>1 DEF ServeConn, Accept, Connect
  <2>3. m \notin done /\ ToSet(wire[m]) \subseteq ToSet(wire'[m])
    BY <1>1, <1>2, <2>2, WireStays
  <2>4. CASE l \in games[g].mesh
    BY <1>2, <2>1, <2>3, <2>4 DEF MeshTold, Told
  <2>5. CASE l \notin games[g].mesh
    <3>1. ServeUpdateMesh(u)
      BY <1>1, <2>1, <2>5, ServerLinks DEF NoNewLinks
    <3>2. PICK gid \in NamedGames(u), report \in MeshReports :
            DOMAIN report \subseteq NamedPlayers(u, gid) /\ UpdateMesh(u, gid, report)
      BY <3>1 DEF ServeUpdateMesh
    <3>3. gid = g /\ l[1] = persona[u] /\ l[2] \in DOMAIN report /\ u \in Roster(games[g])
      BY <2>1, <2>5, <3>2, MeshOutcome DEF DeliveryInv
    <3>4. m = u
      BY <1>2, <1>4, <2>1, <3>3, TwoPersonas DEF DeliveryInv
    <3>5. PICK i \in DOMAIN wire[u] : wire[u][i].kind = "GameSetup" /\ wire[u][i].game = g
      BY <3>2, <3>3 DEF NamedGames
    <3>6. wire[u][i] \in ToSet(wire[u])
      BY <3>5 DEF ToSet
    <3>7. persona[u] \in wire[u][i].roster
      BY <2>1, <2>3, <3>4, <3>5, <3>6, ComingMeaning DEF SetupsShowSelf
    <3>8. Said(m, g, persona'[m])
      BY <1>2, <2>3, <3>4, <3>5, <3>6, <3>7 DEF Announces
    <3>9. PICK j \in DOMAIN wire[u] : Announces(wire[u][j], g, l[2])
      BY <3>2, <3>3 DEF NamedPlayers
    <3>10. wire[u][j] \in ToSet(wire[u])
      BY <3>9 DEF ToSet
    <3> QED BY <2>3, <3>4, <3>8, <3>9, <3>10
  <2> QED BY <2>4, <2>5
<1>6. CASE ~ Member(m, g)
  <2>1. Serve(u) \/ Teardown(u)
    BY <1>1, <1>6, StepInforms DEF Member
  <2>2. m \in open
    <3>1. gameID'[m] = g /\ g # 0
      BY <1>2 DEF LobbyInv, SessionStateMachine, Member, FieldsOK
    <3>2. m \in open'
      BY <1>2, <3>1 DEF LobbyInv, SessionStateMachine
    <3>3. open' \subseteq open
      BY <2>1, ServeAnswers DEF Teardown, removeSession, Unregister
    <3> QED BY <3>2, <3>3
  <2>3. ~ ServeUpdateMesh(u)
    <3>1. ASSUME NEW gid, NEW report, UpdateMesh(u, gid, report)
          PROVE  Calm
      <4>1. 0 \in Int
        OBVIOUS
      <4> QED BY <3>1, <4>1, RequestsCalm DEF DeliveryInv
    <3>2. ~ Calm
      BY <1>6 DEF Calm, Same, Member, Roster
    <3> QED BY <3>1, <3>2 DEF ServeUpdateMesh
  <2>4. g \in DOMAIN games /\ l \in games[g].mesh
    BY <1>1, <2>3, ServerLinks DEF NoNewLinks
  <2>5. PICK t \in Roster(games[g]) : persona[t] = l[1]
    BY <2>4 DEF DeliveryInv, RosterInv, Tabled, TablesFor, PersonasIn
  <2>6. t = m
    BY <1>2, <1>4, <2>2, <2>4, <2>5, TwoPersonas DEF DeliveryInv
  <2> QED BY <1>6, <2>4, <2>5, <2>6 DEF Member
<1> QED BY <1>5, <1>6

LEMMA NotesToldStep ==
    ASSUME LoginFirst, DeliveryInv, LobbyInv', NewsOnly, NotesTold, MeshTold', ServerNext
    PROVE  NotesTold'
<1>1. PICK u \in Session : ServeConn(u) \/ Serve(u) \/ Delivers(u) \/ Teardown(u)
  BY ServerSteps
<1> DEFINE Said(m, g, p) == \E frame \in ToSet(wire'[m]) : Announces(frame, g, p)
<1> SUFFICES ASSUME NEW s \in Session, s \notin done', NEW t \in Session,
                    NEW x \in ToSet(work'[t]), x.to = s, x.frame.kind = "PlayerJoined"
             PROVE  Said(s, x.frame.game, x.frame.player)
  BY DEF NotesTold, Told
<1>2. CASE u = s /\ ServeConn(u)
  BY <1>2 DEF ServeConn, ToSet
<1>3. CASE ~ (u = s /\ ServeConn(u))
  <2>1. s \notin done /\ ToSet(wire[s]) \subseteq ToSet(wire'[s])
    BY <1>1, <1>3, WireStays
  <2>2. CASE x \in ToSet(work[t])
    BY <2>1, <2>2 DEF NotesTold, Told
  <2>3. CASE t = u /\ Informs(u)
    <3>1. PICK g \in DOMAIN games \cap DOMAIN games' : \E p \in Roster(games[g]) :
            /\ Roster(games'[g]) = Roster(games[g])
            /\ s \in Roster(games[g])
            /\ x.frame = JoinNote(g, p)
            /\ FullyLinked(g, p)
      BY <2>3 DEF Informs, Proper
    <3>2. PICK p \in Roster(games[g]) :
            /\ Roster(games'[g]) = Roster(games[g])
            /\ s \in Roster(games[g])
            /\ x.frame = JoinNote(g, p)
            /\ FullyLinked(g, p)
      BY <3>1
    <3>3. x.frame.game = g /\ x.frame.player = persona[p]
      BY <3>2 DEF JoinNote, playerJoinCompletedNotification, Frame
    <3>4. \A r \in Roster(games[g]) : persona'[r] = persona[r]
      BY <3>2, RosterPersonas
    <3>5. \A l \in games'[g].mesh :
            l[1] = persona'[s] => Said(s, g, l[2]) /\ Said(s, g, persona'[s])
      BY <3>2 DEF MeshTold, Told
    <3>6. CASE s # p
      <4>1. <<persona[s], persona[p]>> \in games'[g].mesh
        BY <3>2, <3>6 DEF FullyLinked
      <4> QED BY <3>2, <3>3, <3>4, <3>5, <4>1
    <3>7. CASE s = p
      <4>1. PICK r \in Roster(games[g]) : r # p
        BY <3>2 DEF FullyLinked
      <4>2. <<persona[s], persona[r]>> \in games'[g].mesh
        BY <3>2, <3>7, <4>1 DEF FullyLinked
      <4> QED BY <3>2, <3>3, <3>4, <3>5, <3>7, <4>2
    <3> QED BY <3>6, <3>7
  <2>4. ~ \E y \in ToSet(work[t]) : y.all /\ y.frame = x.frame
    BY DEF NewsOnly, GameNews
  <2> QED BY <1>1, <2>2, <2>3, <2>4, NewItems
<1> QED BY <1>2, <1>3

LEMMA JoinedStep ==
    ASSUME DeliveryInv, NotesTold, JoinedAfterAnnounced, ServerNext
    PROVE  JoinedAfterAnnounced'
<1>1. PICK u \in Session : ServeConn(u) \/ Serve(u) \/ Delivers(u) \/ Teardown(u)
  BY ServerSteps
<1> SUFFICES ASSUME NEW s \in Session, NEW i \in DOMAIN wire'[s],
                    wire'[s][i].kind = "PlayerJoined"
             PROVE  \E j \in 1..(i - 1) :
                      Announces(wire'[s][j], wire'[s][i].game, wire'[s][i].player)
  BY DEF JoinedAfterAnnounced, Earlier
<1>2. \A k \in DOMAIN wire[s] : wire[s][k].kind = "PlayerJoined" =>
        \E j \in 1..(k - 1) : Announces(wire[s][j], wire[s][k].game, wire[s][k].player)
  BY DEF JoinedAfterAnnounced, Earlier
<1>3. PICK q : q = wire[s]
  OBVIOUS
<1>4. IsSeq(q) /\ DOMAIN q = 1..Len(q) /\ Len(q) \in Nat
  BY <1>3, IsSeqFacts DEF DeliveryInv, Queued
<1>5. CASE wire'[s] = wire[s]
  BY <1>2, <1>5
<1>6. CASE wire'[s] = <<>>
  BY <1>6
<1>7. ASSUME NEW x \in ToSet(work[u]), x.to = s, s \notin done,
             wire'[s] = Append(wire[s], x.frame)
      PROVE  \E j \in 1..(i - 1) :
                Announces(wire'[s][j], wire'[s][i].game, wire'[s][i].player)
  <2>1. /\ IsSeq(Append(q, x.frame))
        /\ Len(Append(q, x.frame)) = Len(q) + 1
        /\ \A k \in 1..Len(q) : Append(q, x.frame)[k] = q[k]
        /\ Append(q, x.frame)[Len(q) + 1] = x.frame
    BY <1>4, AppendSet
  <2>2. DOMAIN Append(q, x.frame) = 1..(Len(q) + 1)
    BY <2>1, IsSeqFacts
  <2>3. i \in 1..(Len(q) + 1)
    BY <1>3, <1>7, <2>2
  <2>4. CASE i \in 1..Len(q)
    <3>1. wire'[s][i] = q[i]
      BY <1>3, <1>7, <2>1, <2>4
    <3>2. PICK j \in 1..(i - 1) : Announces(q[j], q[i].game, q[i].player)
      BY <1>2, <1>3, <1>4, <2>4, <3>1
    <3>3. j \in 1..Len(q)
      BY <1>4, <2>4
    <3> QED BY <1>3, <1>7, <2>1, <3>1, <3>2, <3>3
  <2>5. CASE i = Len(q) + 1
    <3>1. wire'[s][i] = x.frame
      BY <1>3, <1>7, <2>1, <2>5
    <3>2. Told(s, x.frame.game, x.frame.player)
      BY <1>1, <1>7, <3>1 DEF NotesTold
    <3>3. PICK j \in DOMAIN q : Announces(q[j], x.frame.game, x.frame.player)
      BY <1>3, <3>2 DEF Told, ToSet
    <3>4. j \in 1..(i - 1) /\ wire'[s][j] = q[j]
      BY <1>3, <1>4, <1>7, <2>1, <2>5
    <3> QED BY <3>1, <3>3, <3>4
  <2> QED BY <1>4, <2>3, <2>4, <2>5
<1> QED BY <1>1, <1>5, <1>6, <1>7, WireStep DEF DeliveryInv

\* NotifyPlayerJoined for a player never overtakes the frame that introduces the
\* player to the recipient, for any number of connections and games, when the
\* clients log in first and name only the games and players they were told of:
\* the goroutines of different connections are ordered by the reports of the
\* recipients themselves (server.go:563-605).
THEOREM ServerJoinedAfterAnnounced ==
    ASSUME LoginFirst, Honest
    PROVE  ServerSpec => []JoinedAfterAnnounced
<1> DEFINE JoinInv == /\ NewsOnly /\ SetupsLoggedIn /\ SetupsShowSelf
                      /\ MeshTold /\ NotesTold /\ JoinedAfterAnnounced
<1>1. ServerInit => JoinInv
  BY DEF ServerInit, LobbyInit, IdentityInit, NewsOnly, SetupsLoggedIn, SetupsShowSelf, MeshTold,
         NotesTold, JoinedAfterAnnounced, ToSet
<1>2. DeliveryInv /\ DeliveryInv' /\ JoinInv /\ [ServerNext]_serverVars => JoinInv'
  <2>1. ASSUME JoinInv, UNCHANGED serverVars PROVE JoinInv'
    BY <2>1 DEF NewsOnly, SetupsLoggedIn, SetupsShowSelf, MeshTold, NotesTold, Told, Coming,
                JoinedAfterAnnounced, Earlier, Announces, serverVars, deliveryVars, vars,
                lobbyVars, identityVars, Roster
  <2>2. ASSUME DeliveryInv, DeliveryInv', JoinInv, ServerNext PROVE JoinInv'
    <3>1. LobbyInv'
      BY <2>2 DEF DeliveryInv
    <3> QED BY <2>2, <3>1, ServerSteps, NewsOnlyStep, SetupsLoggedInStep, ShowSelfStep,
               MeshToldStep, NotesToldStep, JoinedStep
  <2> QED BY <2>1, <2>2
<1>3. JoinInv => JoinedAfterAnnounced
  OBVIOUS
<1> HIDE DEF JoinInv
<1> QED BY <1>1, <1>2, <1>3, ServerDeliveryInv, PTL DEF ServerSpec
=============================================================================

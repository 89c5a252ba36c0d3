------------------------------- MODULE Lobby --------------------------------
(***************************************************************************)
(* The lobby registry of the Blaze server: games, their rosters and mesh,  *)
(* and the matchmaking queue (hpserver/server.go, game.go, handlers.go),   *)
(* on top of the identity registry.                                        *)
(*                                                                         *)
(* An action is the critical section under Server.mu of one request        *)
(* handler, or of the teardown of a connection.  The notifications a       *)
(* handler sends after it has released the lock are not part of this       *)
(* module, except that joined counts NotifyPlayerJoined.                   *)
(*                                                                         *)
(* Any connection may name any game: GID and PID come from the wire.       *)
(***************************************************************************)
EXTENDS Identity, SequencesExt

CONSTANTS
    LoginFirst,    \* TRUE: clients send no lobby request before silentLogin
    Requests,      \* bodies of startMatchmaking and resetDedicatedServer
    MeshReports,   \* TARG lists of updateMeshConnection: player ID -> status
    Capacities,    \* first entries of PCAP in setPlayerCapacity
    AttrMaps,      \* ATTR maps of setGameAttributes and setPlayerAttributes
    GameStates,    \* values of GSTA in advanceGameState
    SettingBits,   \* values of GSET in setGameSettings
    MaxGames,      \* bound: how many games a behaviour creates
    MaxMatches     \* bound: how many matchmaking requests a behaviour makes

ASSUME LobbyAssumption ==
    /\ LoginFirst \in BOOLEAN
    /\ Capacities \subseteq Int
    /\ GameStates \subseteq Int
    /\ SettingBits \subseteq Int
    /\ MaxGames \in Nat
    /\ MaxMatches \in Nat

VARIABLES
    gameID,        \* Session.GameID
    pending,       \* Session.PendingMatchmakingGame
    queuedMatchID, \* Session.QueuedMatchID
    matchQueue,    \* Server.matchQueue, its order being that of msid
    games,         \* Server.games
    nextGameID,    \* Server.nextGameID
    nextMatchID,   \* Server.nextMatchID
    joined         \* history: how often NotifyPlayerJoined was published for the
                   \* session since it became a member of its game

lobbyVars == <<gameID, pending, queuedMatchID, matchQueue, games, nextGameID,
               nextMatchID, joined>>
vars == <<identityVars, lobbyVars>>

-----------------------------------------------------------------------------
(* Matchmaking requests.  A request is the decoded body: a record that has *)
(* the fields the client sent.                                             *)

MatchKeys == {"playlist", "cartier", "event", "visibility"}

getMatchmakingCapacity(req) ==
    CASE "PCAP" \in DOMAIN req /\ req.PCAP # <<>> -> req.PCAP[1]
      [] ~ ("PCAP" \in DOMAIN req /\ req.PCAP # <<>>)
           /\ "PMAX" \in DOMAIN req /\ req.PMAX > 0 -> req.PMAX
      [] OTHER -> IF "MCAP" \in DOMAIN req THEN req.MCAP ELSE 8

ASSUME RequestAssumption == \A req \in Requests : getMatchmakingCapacity(req) \in Int

\* Topology 132 (DirtyCast failover) is served as the direct mesh, 130.
getMatchmakingTopology(req) ==
    IF "NTOP" \notin DOMAIN req THEN 0
    ELSE IF req.NTOP = 132 THEN 130 ELSE req.NTOP

Attributes(req) == IF "ATTR" \in DOMAIN req THEN req.ATTR ELSE <<>>

MatchRequest(s, req, msid) ==
    [session |-> s, attrs |-> Attributes(req), cap |-> getMatchmakingCapacity(req),
     topology |-> getMatchmakingTopology(req), msid |-> msid]

isCompatibleMatch(a, b) ==
    /\ a.cap >= 2
    /\ b.cap >= 2
    /\ a.cap = b.cap
    /\ a.topology = b.topology
    /\ \A k \in MatchKeys :
         /\ k \in DOMAIN a.attrs <=> k \in DOMAIN b.attrs
         /\ k \in DOMAIN a.attrs => a.attrs[k] = b.attrs[k]

-----------------------------------------------------------------------------
(* Games.  JoinedAt and PlayerStates, a time stamp and a constant, are left *)
(* out; mesh holds the pairs of personas whose reported status is 2.        *)

Roster(game) == ToSet(game.members)
Personas(game) == {persona[s] : s \in Roster(game)}

\* The first member with that persona, as a set; the empty set is nil.
sessionForPlayerID(game, playerID) ==
    {game.members[i] : i \in {j \in DOMAIN game.members :
        /\ persona[game.members[j]] = playerID
        /\ \A k \in 1..(j - 1) : persona[game.members[k]] # playerID}}

\* A member without a slot takes the one of its position in the roster.
ensureMembershipState(game) ==
    [game EXCEPT !.slots =
        [p \in DOMAIN game.slots \cup Personas(game) |->
            IF p \in DOMAIN game.slots THEN game.slots[p]
            ELSE (CHOOSE i \in DOMAIN game.members :
                    /\ persona[game.members[i]] = p
                    /\ \A k \in 1..(i - 1) : persona[game.members[k]] # p) - 1]]

\* addMember adds s: no member is s or has its persona, and there is room. A
\* capacity of zero or less does not limit the roster here.
Admits(game, s) ==
    /\ \A t \in Roster(game) : t # s /\ persona[t] # persona[s]
    /\ ~ (game.capacity > 0 /\ Len(game.members) >= game.capacity)

\* Mutant: the new member takes the slot after the last position.
SlotByCount(used) == Cardinality(used)

FirstFree(used) ==
    CHOOSE n \in 0..Cardinality(used) : n \notin used /\ \A m \in 0..(n - 1) : m \in used

addMember(game, s) ==
    LET ensured == ensureMembershipState(game)
        used == {ensured.slots[p] : p \in DOMAIN ensured.slots}
    IN IF Admits(game, s)
       THEN [ensured EXCEPT
               !.members = Append(@, s),
               !.slots = Put(@, persona[s], FirstFree(used)),
               !.playerAttrs = Put(@, persona[s], <<>>)]
       ELSE ensured

\* newGame with the host as its only member; a second one is added after it.
newGame(host, attrs, capacity, topology) ==
    addMember([host |-> host, members |-> <<>>, attrs |-> attrs,
               capacity |-> capacity, topology |-> topology, state |-> 1,
               settings |-> 284, slots |-> <<>>, playerAttrs |-> <<>>,
               mesh |-> {}, meshReady |-> {}],
              host)

\* Mutants: links to the leaver survive; its attributes survive; the remaining
\* members move up to close the gap.
removeMemberOwnLinks(game, s) ==
    IF s \notin Roster(game) THEN game
    ELSE [game EXCEPT
            !.members = SelectSeq(@, LAMBDA t : t # s),
            !.slots = Without(@, persona[s]),
            !.playerAttrs = Without(@, persona[s]),
            !.mesh = {e \in @ : e[1] # persona[s]},
            !.meshReady = @ \ {persona[s]}]

removeMemberKeepAttrs(game, s) ==
    IF s \notin Roster(game) THEN game
    ELSE [game EXCEPT
            !.members = SelectSeq(@, LAMBDA t : t # s),
            !.slots = Without(@, persona[s]),
            !.mesh = {e \in @ : e[1] # persona[s] /\ e[2] # persona[s]},
            !.meshReady = @ \ {persona[s]}]

removeMemberCompact(game, s) ==
    IF s \notin Roster(game) THEN game
    ELSE ensureMembershipState([game EXCEPT
            !.members = SelectSeq(@, LAMBDA t : t # s),
            !.slots = <<>>,
            !.playerAttrs = Without(@, persona[s]),
            !.mesh = {e \in @ : e[1] # persona[s] /\ e[2] # persona[s]},
            !.meshReady = @ \ {persona[s]}])

\* The game without its member s and without any trace of s's persona.
removeMember(game, s) ==
    IF s \notin Roster(game) THEN game
    ELSE LET i == CHOOSE j \in DOMAIN game.members :
                    game.members[j] = s /\ \A k \in 1..(j - 1) : game.members[k] # s
         IN [game EXCEPT
               !.members = RemoveAt(@, i),
               !.slots = Without(@, persona[s]),
               !.playerAttrs = Without(@, persona[s]),
               !.mesh = {e \in @ : e[1] # persona[s] /\ e[2] # persona[s]},
               !.meshReady = @ \ {persona[s]}]

\* Mutant: the room is left to addMember, for which capacity <= 0 is no limit.
isCompatibleGameAnyRoom(game, request) ==
    /\ game.host # request.session
    /\ ~ (request.cap > 0 /\ game.capacity > request.cap)
    /\ game.topology = request.topology
    /\ \A k \in MatchKeys \cap DOMAIN request.attrs :
         k \in DOMAIN game.attrs /\ request.attrs[k] = game.attrs[k]

isCompatibleGame(game, request) ==
    /\ game.host # request.session
    /\ Len(game.members) < game.capacity
    /\ ~ (request.cap > 0 /\ game.capacity > request.cap)
    /\ game.topology = request.topology
    /\ \A k \in MatchKeys \cap DOMAIN request.attrs :
         k \in DOMAIN game.attrs /\ request.attrs[k] = game.attrs[k]

\* Mutant: the player's own reports are enough.
meshReportedByPlayer(game, player) ==
    \A t \in Roster(game) \ {player} : <<persona[player], persona[t]>> \in game.mesh

\* Every other member has reported a connection with the player, and the
\* player with it.
meshReadyForPlayer(game, player) ==
    \A t \in Roster(game) \ {player} :
        /\ <<persona[player], persona[t]>> \in game.mesh
        /\ <<persona[t], persona[player]>> \in game.mesh

refreshMeshReadiness(game) ==
    [game EXCEPT !.meshReady =
        (@ \ Personas(game)) \cup
        {persona[t] : t \in {u \in Roster(game) : meshReadyForPlayer(game, u)}}]

-----------------------------------------------------------------------------
LobbyInit ==
    /\ IdentityInit
    /\ gameID = [s \in Session |-> 0]
    /\ pending = [s \in Session |-> 0]
    /\ queuedMatchID = [s \in Session |-> 0]
    /\ matchQueue = {}
    /\ games = [g \in {} |-> 0]
    /\ nextGameID = 1
    /\ nextMatchID = 1
    /\ joined = [s \in Session |-> 0]

GameIDs == 0..MaxGames
PlayerIDs == MinInt..MaxInt

\* No handler asks whether the caller is logged in; LoginFirst is what the
\* retail client does.
MaySend(s) == s \in open /\ (LoginFirst => persona[s] # 0)

\* Mutant: the check for a game the session is already in is missing.
NeverInGame(s) == FALSE

\* The session's GameID names a game it is a member of.
InGame(s) ==
    /\ gameID[s] \in DOMAIN games
    /\ sessionForPlayerID(games[gameID[s]], persona[s]) = {s}

\* The fields of the sessions in S set to v.
Assign(f, S, v) == [s \in Session |-> IF s \in S THEN v ELSE f[s]]

\* Mutant: a session that gets a game stays in the queue.
StillQueued(s) == matchQueue

\* removeQueuedSessionLocked: the queue without the session's entries.
Dequeued(s) == {r \in matchQueue : r.session # s}

\* newSession gives the new connection a Session with zero fields.
Accept(s) ==
    /\ Connect(s)
    /\ UNCHANGED lobbyVars

SilentLogin(s) ==
    /\ \/ \E pid \in RequestedPIDs : Authenticate(s, pid)
       \/ AuthenticateAgain(s)
    /\ UNCHANGED lobbyVars

\* Mutant: the game outlives its host.
LeaveBehind(t, g) ==
    /\ games' = [games EXCEPT ![g] = refreshMeshReadiness(removeMember(@, t))]
    /\ gameID' = Assign(gameID, {t}, 0)
    /\ pending' = Assign(pending, {t}, 0)
    /\ queuedMatchID' = Assign(queuedMatchID, {t}, 0)
    /\ matchQueue' = Dequeued(t)
    /\ joined' = Assign(joined, {t}, 0)
    /\ UNCHANGED <<nextGameID, nextMatchID>>

\* Take t out of game g.  The host takes the game with it and leaves every
\* other member idle.
Leave(t, g) ==
    LET left == removeMember(games[g], t)
        hostLeft == games[g].host = t
        idled == IF hostLeft THEN Roster(left) \cup {t} ELSE {t}
    IN /\ games' = IF hostLeft THEN Without(games, g)
                   ELSE [games EXCEPT ![g] = refreshMeshReadiness(left)]
       /\ gameID' = Assign(gameID, idled, 0)
       /\ pending' = Assign(pending, idled, 0)
       /\ queuedMatchID' = Assign(queuedMatchID, idled, 0)
       /\ matchQueue' = Dequeued(t)
       /\ joined' = Assign(joined, idled, 0)
       /\ UNCHANGED <<nextGameID, nextMatchID>>

\* The game removeSession takes s out of: the one GameID names, else any game
\* s is registered in.
GamesOf(s) ==
    IF gameID[s] \in DOMAIN games THEN {gameID[s]}
    ELSE {g \in DOMAIN games : sessionForPlayerID(games[g], persona[s]) = {s}}

removeSession(s) ==
    /\ Unregister(s)
    /\ \/ \E g \in GamesOf(s) : Leave(s, g)
       \/ /\ GamesOf(s) = {}
          /\ gameID' = [gameID EXCEPT ![s] = 0]
          /\ pending' = [pending EXCEPT ![s] = 0]
          /\ queuedMatchID' = [queuedMatchID EXCEPT ![s] = 0]
          /\ matchQueue' = Dequeued(s)
          /\ UNCHANGED <<games, nextGameID, nextMatchID, joined>>

\* Mutant: the game ID is not used up.
ResetDedicatedSameID(s, req) ==
    /\ MaySend(s)
    /\ ~ InGame(s)
    /\ nextGameID <= MaxGames
    /\ games' = Put(games, nextGameID,
                    newGame(s, Attributes(req), getMatchmakingCapacity(req),
                            getMatchmakingTopology(req)))
    /\ gameID' = [gameID EXCEPT ![s] = nextGameID]
    /\ queuedMatchID' = [queuedMatchID EXCEPT ![s] = 0]
    /\ matchQueue' = Dequeued(s)
    /\ UNCHANGED <<identityVars, pending, nextGameID, nextMatchID, joined>>

\* resetDedicatedServer: host a new game, unless already in one.
ResetDedicated(s, req) ==
    /\ MaySend(s)
    /\ \/ /\ InGame(s)
          /\ UNCHANGED lobbyVars
       \/ /\ ~ InGame(s)
          /\ nextGameID <= MaxGames
          /\ games' = Put(games, nextGameID,
                          newGame(s, Attributes(req), getMatchmakingCapacity(req),
                                  getMatchmakingTopology(req)))
          /\ gameID' = [gameID EXCEPT ![s] = nextGameID]
          /\ queuedMatchID' = [queuedMatchID EXCEPT ![s] = 0]
          /\ matchQueue' = Dequeued(s)
          /\ nextGameID' = nextGameID + 1
          /\ UNCHANGED <<pending, nextMatchID, joined>>
    /\ UNCHANGED identityVars

\* finalizeGameCreation: with a GID from any source it ends the pending state.
FinalizeGame(s, gid) ==
    /\ MaySend(s)
    /\ pending' = IF gid = 0 /\ pending[s] = 0 /\ gameID[s] = 0 THEN pending
                  ELSE [pending EXCEPT ![s] = 0]
    /\ UNCHANGED <<identityVars, gameID, queuedMatchID, matchQueue, games,
                   nextGameID, nextMatchID, joined>>

-----------------------------------------------------------------------------
(* queueMatch, in its four outcomes.                                       *)

\* The open games that take the request, and the first of them by ID.
Joinable(request) ==
    {g \in DOMAIN games : /\ isCompatibleGame(games[g], request)
                          /\ Admits(games[g], request.session)}

\* addMember has brought the slots of every compatible game below g up to date
\* before it was refused there.
Visited(request, g) ==
    [h \in DOMAIN games |->
        IF h < g /\ isCompatibleGame(games[h], request)
        THEN ensureMembershipState(games[h]) ELSE games[h]]

\* Mutant: only the head of the queue is looked at.
PartnerAtHead(request, r) ==
    /\ r \in matchQueue
    /\ \A q \in matchQueue : r.msid <= q.msid
    /\ r.session # request.session
    /\ isCompatibleMatch(r, request)

\* The oldest request of another session that fits.
Partner(request, r) ==
    LET fits == {q \in matchQueue : q.session # request.session
                                    /\ isCompatibleMatch(q, request)}
    IN r \in fits /\ \A q \in fits : r.msid <= q.msid

IgnoreMatch(s) ==
    /\ InGame(s)
    /\ UNCHANGED <<gameID, pending, queuedMatchID, matchQueue, games, nextGameID, joined>>

JoinGame(request) ==
    LET s == request.session IN
    \E g \in Joinable(request) :
        /\ \A h \in Joinable(request) : g <= h
        /\ games' = [Visited(request, g) EXCEPT ![g] = addMember(games[g], s)]
        /\ gameID' = [gameID EXCEPT ![s] = g]
        /\ pending' = [pending EXCEPT ![s] = g]
        /\ queuedMatchID' = [queuedMatchID EXCEPT ![s] = 0]
        /\ matchQueue' = Dequeued(s)
        /\ UNCHANGED <<nextGameID, joined>>

PairMatch(request) ==
    LET s == request.session IN
    /\ Joinable(request) = {}
    /\ nextGameID <= MaxGames
    /\ \E r \in matchQueue :
        LET game == addMember(newGame(r.session, r.attrs, r.cap, r.topology), s)
        IN /\ Partner(request, r)
           /\ games' = Put(Visited(request, nextGameID), nextGameID, game)
           /\ gameID' = Assign([gameID EXCEPT ![s] = 0], Roster(game), nextGameID)
           /\ pending' = Assign(pending, Roster(game), nextGameID)
           /\ queuedMatchID' = Assign([queuedMatchID EXCEPT ![s] = 0], Roster(game), 0)
           /\ matchQueue' = Dequeued(s) \ {r}
    /\ nextGameID' = nextGameID + 1
    /\ UNCHANGED joined

EnqueueMatch(request) ==
    LET s == request.session IN
    /\ Joinable(request) = {}
    /\ \A r \in matchQueue : ~ Partner(request, r)
    /\ games' = Visited(request, nextGameID)
    /\ gameID' = [gameID EXCEPT ![s] = 0]
    /\ queuedMatchID' = [queuedMatchID EXCEPT ![s] = request.msid]
    /\ matchQueue' = Dequeued(s) \cup {request}
    /\ UNCHANGED <<pending, nextGameID, joined>>

\* startMatchmaking.  The match ID is used up even when the request is ignored.
StartMatchmaking(s, req) ==
    LET request == MatchRequest(s, req, nextMatchID) IN
    /\ MaySend(s)
    /\ nextMatchID <= MaxMatches
    /\ nextMatchID' = nextMatchID + 1
    /\ \/ IgnoreMatch(s)
       \/ /\ ~ InGame(s)
          /\ JoinGame(request) \/ PairMatch(request) \/ EnqueueMatch(request)
    /\ UNCHANGED identityVars

\* cancelMatchmaking, for a request of the caller that is still queued.
CancelMatchmaking(s, msid) ==
    /\ MaySend(s)
    /\ msid > 0
    /\ queuedMatchID[s] = msid
    /\ \E r \in matchQueue :
        /\ r.session = s
        /\ r.msid = msid
        /\ matchQueue' = matchQueue \ {r}
    /\ queuedMatchID' = [queuedMatchID EXCEPT ![s] = 0]
    /\ UNCHANGED <<identityVars, gameID, pending, games, nextGameID, nextMatchID, joined>>

-----------------------------------------------------------------------------
(* Requests about an existing game.                                        *)

\* The member a removePlayer request takes out: a member may remove itself, the
\* host any member.
RemovalTarget(s, gid, pid) ==
    {t \in sessionForPlayerID(games[gid], pid) :
        /\ sessionForPlayerID(games[gid], persona[s]) # {}
        /\ t = s \/ s = games[gid].host}

\* removePlayer, when it is accepted.
RemovePlayer(s, gid, pid) ==
    /\ MaySend(s)
    /\ gid \in DOMAIN games
    /\ \E t \in RemovalTarget(s, gid, pid) : Leave(t, gid)
    /\ UNCHANGED identityVars

\* NotifyPlayerJoined goes out for every session in S.
Published(S) == [s \in Session |-> IF s \in S THEN joined[s] + 1 ELSE joined[s]]

\* Mutant: a join that completes is still pending.
StillPending(S) == pending

\* The joins of the sessions in S are no longer pending.
NotPending(S) == Assign(pending, S, 0)

\* updateMeshConnection: store the reported status of the caller's links and
\* complete the join of every pending member whose mesh is now full.
UpdateMesh(s, gid, report) ==
    /\ MaySend(s)
    /\ gid \in DOMAIN games
    /\ sessionForPlayerID(games[gid], persona[s]) = {s}
    /\ LET game == ensureMembershipState(games[gid])
           known == {p \in DOMAIN report : sessionForPlayerID(game, p) \notin {{}, {s}}}
           up == {p \in known : report[p] = 2}
           linked == [game EXCEPT !.mesh =
                        {e \in @ : ~ (e[1] = persona[s] /\ e[2] \in known)}
                        \cup ({persona[s]} \X up)]
           completed == {t \in Roster(game) :
                            pending[t] = gid /\ meshReadyForPlayer(linked, t)}
       IN IF known = {}
          THEN games' = [games EXCEPT ![gid] = game] /\ UNCHANGED <<pending, joined>>
          ELSE /\ games' = [games EXCEPT ![gid] = refreshMeshReadiness(linked)]
               /\ pending' = NotPending(completed)
               /\ joined' = Published(completed)
    /\ UNCHANGED <<identityVars, gameID, queuedMatchID, matchQueue, nextGameID, nextMatchID>>

\* setPlayerAttributes: a member for itself, the host for any member.
SetPlayerAttrs(s, gid, pid, attributes) ==
    /\ MaySend(s)
    /\ gid \in DOMAIN games
    /\ sessionForPlayerID(games[gid], persona[s]) # {}
    /\ \E player \in sessionForPlayerID(games[gid], pid) :
        LET game == ensureMembershipState(games[gid])
            old == IF pid \in DOMAIN game.playerAttrs THEN game.playerAttrs[pid] ELSE <<>>
        IN /\ player = s \/ games[gid].host = s
           /\ games' = [games EXCEPT ![gid] =
                 [game EXCEPT !.playerAttrs = Put(@, pid, attributes @@ old)]]
    /\ UNCHANGED <<identityVars, gameID, pending, queuedMatchID, matchQueue,
                   nextGameID, nextMatchID, joined>>

\* A handler that overwrites one field of the game the request names.
SetField(s, gid, update(_)) ==
    /\ MaySend(s)
    /\ gid \in DOMAIN games
    /\ games' = [games EXCEPT ![gid] = update(@)]
    /\ UNCHANGED <<identityVars, gameID, pending, queuedMatchID, matchQueue,
                   nextGameID, nextMatchID, joined>>

\* Any connection may do the next four, whatever its game.
SetPlayerCapacity(s, gid, capacity) ==
    SetField(s, gid, LAMBDA game : [game EXCEPT !.capacity = capacity])

SetGameAttrs(s, gid, attributes) ==
    SetField(s, gid, LAMBDA game : [game EXCEPT !.attrs = attributes])

SetGameSettings(s, gid, settings) ==
    SetField(s, gid, LAMBDA game : [game EXCEPT !.settings = settings])

AdvanceGameState(s, gid, gameState) ==
    SetField(s, gid, LAMBDA game : [game EXCEPT !.state = gameState])

\* replayGame: only the host, back to PRE_GAME.
ReplayGame(s, gid) ==
    /\ gid \in DOMAIN games
    /\ sessionForPlayerID(games[gid], persona[s]) = {s}
    /\ games[gid].host = s
    /\ SetField(s, gid, LAMBDA game : [game EXCEPT !.state = 130])

-----------------------------------------------------------------------------
LobbyNext ==
    \E s \in Session :
        \/ Accept(s)
        \/ SilentLogin(s)
        \/ removeSession(s)
        \/ \E req \in Requests : ResetDedicated(s, req) \/ StartMatchmaking(s, req)
        \/ \E msid \in 1..MaxMatches : CancelMatchmaking(s, msid)
        \/ \E gid \in GameIDs :
            \/ FinalizeGame(s, gid)
            \/ \E pid \in PlayerIDs : RemovePlayer(s, gid, pid)
            \/ \E report \in MeshReports : UpdateMesh(s, gid, report)
            \/ \E pid \in PlayerIDs, attributes \in AttrMaps :
                    SetPlayerAttrs(s, gid, pid, attributes)
            \/ \E capacity \in Capacities : SetPlayerCapacity(s, gid, capacity)
            \/ \E attributes \in AttrMaps : SetGameAttrs(s, gid, attributes)
            \/ \E settings \in SettingBits : SetGameSettings(s, gid, settings)
            \/ \E gameState \in GameStates : AdvanceGameState(s, gid, gameState)
            \/ ReplayGame(s, gid)

LobbySpec == LobbyInit /\ [][LobbyNext]_vars

-----------------------------------------------------------------------------
Member(s, g) == g \in DOMAIN games /\ s \in Roster(games[g])

MatchRequests ==
    [session : Session, attrs : {Attributes(req) : req \in Requests},
     cap : {getMatchmakingCapacity(req) : req \in Requests},
     topology : {getMatchmakingTopology(req) : req \in Requests},
     msid : 1..MaxMatches]

\* Types of the lobby's state.
LobbyTypeOK ==
    /\ IdentityTypeOK
    /\ gameID \in [Session -> GameIDs]
    /\ pending \in [Session -> GameIDs]
    /\ queuedMatchID \in [Session -> 0..MaxMatches]
    /\ matchQueue \subseteq MatchRequests
    /\ nextGameID \in 1..(MaxGames + 1)
    /\ nextMatchID \in 1..(MaxMatches + 1)
    /\ DOMAIN games \subseteq 1..(nextGameID - 1)
    /\ \A g \in DOMAIN games :
         /\ games[g].host \in Session
         /\ games[g].members \in Seq(Session)
         /\ games[g].capacity \in Int
    /\ joined \in [Session -> Nat]

\* "A connection can be idle, queued, or in one game, never present in more
\* than one state" (server.go:203), and what its Session says agrees with the
\* registry: GameID names the one game whose roster holds it, once, and
\* QueuedMatchID its one entry in the queue; a closed connection is nowhere.
SessionStateMachine ==
    /\ \A s \in Session :
         /\ \A g \in DOMAIN games : Member(s, g) <=> gameID[s] = g
         /\ gameID[s] # 0 => gameID[s] \in DOMAIN games
         /\ queuedMatchID[s] # 0 => \E r \in matchQueue : r.session = s
         /\ gameID[s] = 0 \/ queuedMatchID[s] = 0
         /\ pending[s] \in {0, gameID[s]}
         /\ s \notin open => gameID[s] = 0 /\ queuedMatchID[s] = 0
    /\ \A g \in DOMAIN games : IsInjective(games[g].members)
    /\ \A r \in matchQueue : queuedMatchID[r.session] = r.msid
    /\ \A q, r \in matchQueue : q.session = r.session => q = r

\* A game lives exactly as long as its host is in it (server.go:174-181,
\* handlers.go:431-438): no game is left without its host or empty.
HostIsMember == \A g \in DOMAIN games : Member(games[g].host, g)

\* Two requests that could be paired never wait side by side in the queue
\* (server.go:364-379), whatever was cancelled, replaced or removed between.
NoMissedMatch ==
    \A q, r \in matchQueue : q.session # r.session => ~ isCompatibleMatch(q, r)

\* A roster grows only up to the lobby's capacity: no join, and no pairing,
\* leaves more members than the capacity the game has then, although any
\* connection may change that capacity at any time.
NoOverfill ==
    [][\A g \in DOMAIN games' :
        (IF g \in DOMAIN games THEN Len(games[g].members) ELSE 1) < Len(games'[g].members)
            => Len(games'[g].members) <= games'[g].capacity]_vars

\* The tables of a game that are keyed by persona speak of its current members
\* only, so a player who leaves and comes back, or another one who is given
\* the same persona, inherits no slot, attribute or mesh link (game.go:103).
RosterTables ==
    \A g \in DOMAIN games : LET game == games[g] IN
        /\ DOMAIN game.slots = Personas(game)
        /\ DOMAIN game.playerAttrs = Personas(game)
        /\ \A e \in game.mesh : e[1] # e[2] /\ {e[1], e[2]} \subseteq Personas(game)
        /\ game.meshReady \subseteq Personas(game)

\* Any two members with a slot have different ones (readme.md:17-19).
DistinctSlots ==
    \A g \in DOMAIN games : LET game == games[g] IN
        \A s, t \in Roster(game) :
            s # t /\ {persona[s], persona[t]} \subseteq DOMAIN game.slots
                => game.slots[persona[s]] # game.slots[persona[t]]

\* A member keeps its slot for as long as it stays, whoever joins or leaves,
\* and the host has slot 0, the one gameSetup announces (game.go:208).
StableSlots ==
    [][\A g \in DOMAIN games \cap DOMAIN games' :
        /\ games'[g].slots[persona[games[g].host]] = 0
        /\ \A s \in Roster(games[g]) \cap Roster(games'[g]) :
             games'[g].slots[persona[s]] = games[g].slots[persona[s]]]_vars

\* NotifyPlayerJoined is published at most once per membership, however often
\* links are reported down and up again: whenever it is, it is the first time since
\* the session became a member.  It is published only for a player that
\* matchmaking put into the game, and only when the player and every other member
\* have each reported the other connected since both are members
\* (server.go:565-608, game.go:165-187).
JoinCompletion ==
    [][\A s \in Session : joined'[s] > joined[s] =>
        /\ joined'[s] = 1
        /\ pending[s] # 0
        /\ Member(s, pending[s])
        /\ \A t \in Roster(games[pending[s]]) \ {s} :
             {<<persona[s], persona[t]>>, <<persona[t], persona[s]>>}
                \subseteq games'[pending[s]].mesh]_vars
=============================================================================

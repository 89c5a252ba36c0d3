---------------------------- MODULE RosterProofs ----------------------------
(***************************************************************************)
(* The tables of a game: slots, attributes, mesh links and readiness, for  *)
(* every pool of connections, when clients log in before they play.        *)
(***************************************************************************)
EXTENDS LobbyProofs, SequenceFacts, FiniteSetTheorems

-----------------------------------------------------------------------------
(* The first free slot.                                                    *)

\* FirstFree finds a number that is not in use, and 0 when none is.
LEMMA FirstFreeSlot ==
    ASSUME NEW used, used \subseteq Nat, IsFiniteSet(used)
    PROVE  /\ FirstFree(used) \in Nat
           /\ FirstFree(used) \notin used
           /\ used = {} => FirstFree(used) = 0
<1> DEFINE c == Cardinality(used)
           free == {n \in Nat : n \notin used}
<1>1. c \in Nat
  BY FS_CardinalityType
<1>2. \E n \in 0..c : n \notin used
  <2>1. IsFiniteSet(0..c) /\ Cardinality(0..c) = c + 1
    BY <1>1, FS_Interval
  <2>2. ~ (0..c \subseteq used)
    BY <1>1, <2>1, FS_Subset
  <2> QED BY <2>2
<1>3. PICK n \in free : \A m \in free : n <= m
  <2>1. free # {}
    BY <1>1, <1>2
  <2> HIDE DEF free
  <2>2. free \subseteq Nat
    BY DEF free
  <2> QED BY <2>1, <2>2, LeastNumber
<1>4. n \in 0..c /\ n \notin used /\ \A m \in 0..(n - 1) : m \in used
  BY <1>1, <1>2, <1>3
<1>5. FirstFree(used) \in 0..c /\ FirstFree(used) \notin used
  BY <1>4 DEF FirstFree
<1>6. used = {} => c = 0
  BY FS_EmptySet
<1> QED BY <1>1, <1>5, <1>6

-----------------------------------------------------------------------------
(* The tables of one game, for the personas P of the sessions.             *)

PersonasIn(game, P) == {P[s] : s \in Roster(game)}

\* Every table is keyed by the personas of the members and nothing else, and
\* no two members have the same slot.
TablesFor(game, P) ==
    /\ game.slots \in [PersonasIn(game, P) -> Nat]
    /\ IsInjective(game.slots)
    /\ DOMAIN game.playerAttrs = PersonasIn(game, P)
    /\ \A e \in game.mesh : e[1] # e[2] /\ {e[1], e[2]} \subseteq PersonasIn(game, P)
    /\ game.meshReady \subseteq PersonasIn(game, P)

\* A game after a step: its tables fit its roster, and nobody has moved.
Kept(new, game, P) ==
    /\ IsGame(new)
    /\ TablesFor(new, P)
    /\ new.host = game.host
    /\ \A s \in Roster(new) \cap Roster(game) : new.slots[P[s]] = game.slots[P[s]]

\* ensureMembershipState finds nothing to do in a game whose slots are complete.
LEMMA EnsureTables ==
    ASSUME NEW game, IsGame(game), TablesFor(game, persona)
    PROVE  LET e == ensureMembershipState(game) IN
           /\ e.slots = game.slots
           /\ e.playerAttrs = game.playerAttrs
           /\ e.mesh = game.mesh
           /\ e.meshReady = game.meshReady
           /\ e.members = game.members
           /\ e.host = game.host
           /\ e.capacity = game.capacity
<1> DEFINE D == DOMAIN game.slots \cup Personas(game)
           Late(p) == (CHOOSE i \in DOMAIN game.members :
                         /\ persona[game.members[i]] = p
                         /\ \A k \in 1..(i - 1) : persona[game.members[k]] # p) - 1
           full == [p \in D |-> IF p \in DOMAIN game.slots THEN game.slots[p] ELSE Late(p)]
<1>1. DOMAIN game.slots = Personas(game)
  BY DEF TablesFor, PersonasIn, Personas
<1>2. D = DOMAIN game.slots
  BY <1>1
<1> HIDE DEF D, Late
<1>3. full = game.slots
  BY <1>2 DEF TablesFor
<1>4. ensureMembershipState(game) = [game EXCEPT !.slots = full]
  BY DEF ensureMembershipState, D, Late
<1> HIDE DEF full
<1> QED BY <1>3, <1>4 DEF IsGame, GameFields

\* The personas of a roster are finite in number.
LEMMA FinitePersonas ==
    ASSUME NEW game, IsGame(game), NEW P
    PROVE  IsFiniteSet(PersonasIn(game, P))
<1> DEFINE m == game.members
           f == [i \in 1..Len(m) |-> P[m[i]]]
<1>1. m \in Seq(Session) /\ Len(m) \in Nat /\ DOMAIN m = 1..Len(m)
  BY DEF IsGame
<1>2. IsFiniteSet(1..Len(m))
  BY <1>1, FS_Interval
<1>3. f \in Surjection(1..Len(m), PersonasIn(game, P))
  BY <1>1 DEF Surjection, PersonasIn, Roster, ToSet
<1> HIDE DEF f, m
<1> QED BY <1>2, <1>3, FS_Surjection

\* The slots in use are finite in number.
LEMMA FiniteSlots ==
    ASSUME NEW S, IsFiniteSet(S), NEW f \in [S -> Nat]
    PROVE  /\ IsFiniteSet({f[x] : x \in S})
           /\ {f[x] : x \in S} \subseteq Nat
<1>1. f \in Surjection(S, {f[x] : x \in S})
  BY DEF Surjection
<1> QED BY <1>1, FS_Surjection

\* addMember gives the new member a slot of its own, and nothing else changes;
\* the first member has slot 0.
LEMMA AddTables ==
    ASSUME NEW game, IsGame(game), TablesFor(game, persona), NEW s \in Session, Admits(game, s)
    PROVE  /\ Kept(addMember(game, s), game, persona)
           /\ Roster(game) = {} => addMember(game, s).slots[persona[s]] = 0
<1> DEFINE e == ensureMembershipState(game)
           used == {e.slots[p] : p \in DOMAIN e.slots}
           new == addMember(game, s)
           In == PersonasIn(game, persona)
           n == FirstFree(used)
<1>1. /\ e.slots = game.slots /\ e.playerAttrs = game.playerAttrs
      /\ e.mesh = game.mesh /\ e.meshReady = game.meshReady
  BY EnsureTables
<1>2. /\ game.slots \in [In -> Nat]
      /\ IsInjective(game.slots)
      /\ DOMAIN game.playerAttrs = In
      /\ \A l \in game.mesh : l[1] # l[2] /\ {l[1], l[2]} \subseteq In
      /\ game.meshReady \subseteq In
  BY DEF TablesFor
<1>3. used = {game.slots[p] : p \in In}
  BY <1>1, <1>2
<1>4. IsFiniteSet(used) /\ used \subseteq Nat
  <2>1. IsFiniteSet(In)
    BY FinitePersonas
  <2> HIDE DEF In, used
  <2> QED BY <1>2, <1>3, <2>1, FiniteSlots
<1>5. /\ n \in Nat
      /\ n \notin used
      /\ used = {} => n = 0
  <2> HIDE DEF used
  <2> QED BY <1>4, FirstFreeSlot
<1>6. DOMAIN e = GameFields
  BY EnsureRoster DEF SameRoster, IsGame
<1>7. /\ new.slots = Put(game.slots, persona[s], n)
      /\ new.playerAttrs = Put(game.playerAttrs, persona[s], <<>>)
      /\ new.mesh = game.mesh
      /\ new.meshReady = game.meshReady
  <2>1. new = [e EXCEPT !.members = Append(@, s),
                        !.slots = Put(@, persona[s], n),
                        !.playerAttrs = Put(@, persona[s], <<>>)]
    BY DEF addMember
  <2> HIDE DEF e, n
  <2> QED BY <1>1, <1>6, <2>1 DEF GameFields
<1>8. IsGame(new) /\ new.host = game.host /\ Roster(new) = Roster(game) \cup {s}
  BY AddRoster
<1> HIDE DEF new, n, used, e
<1>9. PersonasIn(new, persona) = In \cup {persona[s]}
  BY <1>8 DEF PersonasIn
<1>10. persona[s] \notin In
  BY DEF Admits, PersonasIn
<1> HIDE DEF In
<1>11. TablesFor(new, persona)
  <2>1. new.slots \in [In \cup {persona[s]} -> Nat]
    BY <1>2, <1>5, <1>7 DEF Put
  <2>2. IsInjective(new.slots)
    BY <1>2, <1>3, <1>5, <1>7, <1>10 DEF IsInjective, Put
  <2>3. DOMAIN new.playerAttrs = In \cup {persona[s]}
    BY <1>2, <1>7 DEF Put
  <2> QED BY <1>2, <1>7, <1>9, <2>1, <2>2, <2>3 DEF TablesFor
<1>12. \A x \in Roster(new) \cap Roster(game) : new.slots[persona[x]] = game.slots[persona[x]]
  BY <1>2, <1>7, <1>10 DEF Put, PersonasIn, In
<1>13. ASSUME Roster(game) = {} PROVE new.slots[persona[s]] = 0
  BY <1>2, <1>3, <1>5, <1>7, <1>13 DEF Put, PersonasIn, In
<1> QED BY <1>8, <1>11, <1>12, <1>13 DEF Kept, new

\* A new game has slot 0 for its host and empty tables otherwise.
LEMMA NewTables ==
    ASSUME NEW host \in Session, NEW attrs, NEW capacity \in Int, NEW topology
    PROVE  LET game == newGame(host, attrs, capacity, topology) IN
           /\ IsGame(game)
           /\ TablesFor(game, persona)
           /\ game.host = host
           /\ game.capacity = capacity
           /\ Roster(game) = {host}
           /\ game.slots[persona[host]] = 0
<1> DEFINE empty == [host |-> host, members |-> <<>>, attrs |-> attrs,
                     capacity |-> capacity, topology |-> topology, state |-> 1,
                     settings |-> 284, slots |-> <<>>, playerAttrs |-> <<>>,
                     mesh |-> {}, meshReady |-> {}]
<1>1. IsGame(empty) /\ empty.capacity = capacity
  BY DEF IsGame, GameFields, IsInjective
<1>2. Roster(empty) = {}
  BY DEF Roster, ToSet
<1>3. Admits(empty, host)
  <2>1. Len(empty.members) = 0 /\ empty.capacity = capacity
    OBVIOUS
  <2>2. ~ (empty.capacity > 0 /\ Len(empty.members) >= empty.capacity)
    BY <2>1
  <2> QED BY <1>2, <2>2, Zenon DEF Admits
<1>4. newGame(host, attrs, capacity, topology) = addMember(empty, host)
  BY DEF newGame
<1>5. TablesFor(empty, persona)
  <2>1. PersonasIn(empty, persona) = {}
    BY <1>2 DEF PersonasIn
  <2>2. /\ DOMAIN empty.slots = {} /\ DOMAIN empty.playerAttrs = {}
        /\ empty.slots = << >> /\ empty.mesh = {} /\ empty.meshReady = {}
    OBVIOUS
  <2>3. empty.slots \in [{} -> Nat] /\ IsInjective(empty.slots)
    BY <2>2 DEF IsInjective
  <2> HIDE DEF empty
  <2> QED BY <2>1, <2>2, <2>3 DEF TablesFor
<1> HIDE DEF empty
<1>6. /\ Kept(addMember(empty, host), empty, persona)
      /\ addMember(empty, host).slots[persona[host]] = 0
  BY <1>1, <1>2, <1>3, <1>5, AddTables
<1>7. addMember(empty, host).capacity = capacity
  BY <1>1, AddRoster
<1> QED BY <1>4, <1>6, <1>7, NewRoster DEF Kept

\* refreshMeshReadiness marks members only.
LEMMA RefreshTables ==
    ASSUME NEW game, IsGame(game), TablesFor(game, persona)
    PROVE  Kept(refreshMeshReadiness(game), game, persona)
<1> DEFINE new == refreshMeshReadiness(game)
           ready == {persona[t] : t \in {u \in Roster(game) : meshReadyForPlayer(game, u)}}
<1>1. IsGame(new) /\ new.host = game.host /\ new.members = game.members
  BY RefreshRoster DEF SameRoster
<1>2. /\ new.slots = game.slots
      /\ new.playerAttrs = game.playerAttrs
      /\ new.mesh = game.mesh
      /\ new.meshReady = (game.meshReady \ Personas(game)) \cup ready
  <2> HIDE DEF ready
  <2> QED BY DEF refreshMeshReadiness, IsGame, GameFields, ready
<1>3. Roster(new) = Roster(game)
  BY <1>1 DEF Roster
<1>4. ready \subseteq PersonasIn(game, persona)
  BY DEF PersonasIn
<1> HIDE DEF ready, new
<1>5. PersonasIn(new, persona) = PersonasIn(game, persona)
  BY <1>3 DEF PersonasIn
<1>6. TablesFor(new, persona)
  BY <1>2, <1>4, <1>5 DEF TablesFor
<1> QED BY <1>1, <1>2, <1>3, <1>6 DEF Kept, new

\* removeMember wipes the leaver's persona from every table, and only that one.
LEMMA RemoveTables ==
    ASSUME NEW game, IsGame(game), TablesFor(game, persona), NEW t \in Roster(game),
           \A x, y \in Roster(game) : persona[x] = persona[y] => x = y
    PROVE  Kept(removeMember(game, t), game, persona)
<1> DEFINE new == removeMember(game, t)
           i == CHOOSE j \in DOMAIN game.members :
                    game.members[j] = t /\ \A k \in 1..(j - 1) : game.members[k] # t
           In == PersonasIn(game, persona)
<1>1. t \in Session
  BY DEF IsGame, Roster, ToSet
<1>2. IsGame(new) /\ new.host = game.host /\ Roster(new) = Roster(game) \ {t}
  BY <1>1, RemoveRoster
<1>3. /\ new.slots = Without(game.slots, persona[t])
      /\ new.playerAttrs = Without(game.playerAttrs, persona[t])
      /\ new.mesh = {e \in game.mesh : e[1] # persona[t] /\ e[2] # persona[t]}
      /\ new.meshReady = game.meshReady \ {persona[t]}
  <2>1. new = [game EXCEPT
               !.members = RemoveAt(@, i),
               !.slots = Without(@, persona[t]),
               !.playerAttrs = Without(@, persona[t]),
               !.mesh = {e \in @ : e[1] # persona[t] /\ e[2] # persona[t]},
               !.meshReady = @ \ {persona[t]}]
    BY DEF removeMember
  <2> HIDE DEF i, new
  <2> QED BY <2>1 DEF IsGame, GameFields
<1> HIDE DEF new, i
<1>4. PersonasIn(new, persona) = In \ {persona[t]}
  BY <1>2 DEF PersonasIn
<1>5. TablesFor(new, persona)
  <2>1. new.slots \in [In \ {persona[t]} -> Nat]
    BY <1>3 DEF TablesFor, Without
  <2>2. IsInjective(new.slots)
    BY <1>3 DEF TablesFor, IsInjective, Without
  <2>3. DOMAIN new.playerAttrs = In \ {persona[t]}
    BY <1>3 DEF TablesFor, Without
  <2>4. \A e \in new.mesh : e[1] # e[2] /\ {e[1], e[2]} \subseteq In \ {persona[t]}
    BY <1>3 DEF TablesFor
  <2>5. new.meshReady \subseteq In \ {persona[t]}
    BY <1>3 DEF TablesFor
  <2> QED BY <1>4, <2>1, <2>2, <2>3, <2>4, <2>5 DEF TablesFor
<1>6. ASSUME NEW x \in Roster(new) \cap Roster(game)
      PROVE  new.slots[persona[x]] = game.slots[persona[x]]
  <2>1. persona[x] # persona[t] /\ persona[x] \in In
    BY <1>2 DEF PersonasIn
  <2> QED BY <1>3, <2>1 DEF TablesFor, Without
<1> QED BY <1>2, <1>5, <1>6 DEF Kept, new

\* Replacing fields that are not tables, or the attributes of a persona of the
\* game, or the links between its personas.
LEMMA SameSlots ==
    ASSUME NEW game, IsGame(game), TablesFor(game, persona), NEW new, SameRoster(new, game),
           new.slots = game.slots,
           DOMAIN new.playerAttrs = DOMAIN game.playerAttrs,
           \A e \in new.mesh : \/ e \in game.mesh
                               \/ e[1] # e[2] /\ {e[1], e[2]} \subseteq PersonasIn(game, persona),
           new.meshReady = game.meshReady
    PROVE  Kept(new, game, persona)
<1>1. Roster(new) = Roster(game) /\ PersonasIn(new, persona) = PersonasIn(game, persona)
  BY DEF SameRoster, Roster, PersonasIn
<1>2. TablesFor(new, persona)
  BY <1>1 DEF TablesFor
<1> QED BY <1>2 DEF Kept, SameRoster

\* Two changes one after the other.
LEMMA KeptTwice ==
    ASSUME NEW game, NEW mid, NEW new, Kept(mid, game, persona), Kept(new, mid, persona),
           Roster(new) \cap Roster(game) \subseteq Roster(mid)
    PROVE  Kept(new, game, persona)
BY DEF Kept

\* ensureMembershipState keeps a game whose tables fit.
LEMMA EnsureKept ==
    ASSUME NEW game, IsGame(game), TablesFor(game, persona)
    PROVE  Kept(ensureMembershipState(game), game, persona)
<1> DEFINE e == ensureMembershipState(game)
<1>1. SameRoster(e, game)
  BY EnsureRoster
<1>2. /\ e.slots = game.slots
      /\ e.playerAttrs = game.playerAttrs
      /\ e.mesh = game.mesh
      /\ e.meshReady = game.meshReady
  BY EnsureTables
<1> HIDE DEF e
<1> QED BY <1>1, <1>2, SameSlots DEF e

-----------------------------------------------------------------------------
(* The tables of all games.                                                *)

HostFirst(game, P) == game.slots[P[game.host]] = 0

Tabled ==
    \A g \in DOMAIN games : TablesFor(games[g], persona) /\ HostFirst(games[g], persona)

\* A step after which the tables fit the rosters, read with the personas the
\* members had before it.
Steady ==
    /\ \A g \in DOMAIN games' \cap DOMAIN games : Kept(games'[g], games[g], persona)
    /\ \A g \in DOMAIN games' \ DOMAIN games :
         TablesFor(games'[g], persona) /\ HostFirst(games'[g], persona)

\* Every game is kept when nothing happens to it.
LEMMA KeptSelf ==
    ASSUME LobbyInv, Tabled, NEW g \in DOMAIN games
    PROVE  IsGame(games[g]) /\ TablesFor(games[g], persona) /\ Kept(games[g], games[g], persona)
BY DEF LobbyInv, RostersOK, Tabled, Kept

\* One game is changed.
LEMMA ReplaceSteady ==
    ASSUME LobbyInv, Tabled, NEW gid \in DOMAIN games, NEW new,
           Kept(new, games[gid], persona), games' = [games EXCEPT ![gid] = new]
    PROVE  Steady
BY KeptSelf DEF Steady

\* Looking through the games for one that takes a request keeps them all.
LEMMA VisitedKept ==
    ASSUME LobbyInv, Tabled, NEW request, NEW g, NEW h \in DOMAIN games
    PROVE  Kept(Visited(request, g)[h], games[h], persona)
<1>1. Kept(ensureMembershipState(games[h]), games[h], persona)
  BY KeptSelf, EnsureKept
<1> QED BY <1>1, KeptSelf DEF Visited

\* A member leaves, or the host and with it the game.
LEMMA LeaveSteady ==
    ASSUME LobbyInv, Tabled, NEW g \in DOMAIN games, NEW t \in Roster(games[g]), Leave(t, g)
    PROVE  Steady
<1> DEFINE left == removeMember(games[g], t)
<1>1. CASE games[g].host = t
  <2>1. games' = Without(games, g)
    BY <1>1 DEF Leave
  <2> QED BY <2>1, KeptSelf DEF Steady, Without
<1>2. CASE games[g].host # t
  <2>1. games' = [games EXCEPT ![g] = refreshMeshReadiness(left)]
    BY <1>2 DEF Leave
  <2>2. Kept(left, games[g], persona)
    BY KeptSelf, RemoveTables DEF LobbyInv, DistinctPersonas
  <2> HIDE DEF left
  <2>3. Kept(refreshMeshReadiness(left), left, persona)
    BY <2>2, RefreshTables DEF Kept
  <2>4. Roster(refreshMeshReadiness(left)) = Roster(left)
    BY <2>2, RefreshRoster DEF Kept, SameRoster, Roster
  <2>5. Kept(refreshMeshReadiness(left), games[g], persona)
    BY <2>2, <2>3, <2>4, KeptTwice
  <2> QED BY <2>1, <2>5, ReplaceSteady
<1> QED BY <1>1, <1>2

\* resetDedicatedServer.
LEMMA ResetSteady ==
    ASSUME LobbyInv, Tabled, NEW s \in Session, NEW req \in Requests, ResetDedicated(s, req)
    PROVE  Steady
<1> DEFINE new == newGame(s, Attributes(req), getMatchmakingCapacity(req),
                          getMatchmakingTopology(req))
<1>1. games' = games \/ games' = Put(games, nextGameID, new)
  BY DEF ResetDedicated, lobbyVars
<1>2. TablesFor(new, persona) /\ HostFirst(new, persona)
  BY NewTables, RequestAssumption DEF HostFirst
<1> HIDE DEF new
<1>3. nextGameID \notin DOMAIN games
  BY DEF LobbyInv, FieldsOK
<1> QED BY <1>1, <1>2, <1>3, KeptSelf DEF Steady, Put

\* queueMatch, when an open game takes the request.
LEMMA JoinSteady ==
    ASSUME LobbyInv, Tabled, NEW request, request.session \in Session, JoinGame(request)
    PROVE  Steady
<1> DEFINE s == request.session
<1>1. PICK g \in Joinable(request) :
        games' = [Visited(request, g) EXCEPT ![g] = addMember(games[g], s)]
  BY DEF JoinGame
<1>2. g \in DOMAIN games /\ Admits(games[g], s)
  BY DEF Joinable
<1>3. Kept(addMember(games[g], s), games[g], persona)
  BY <1>2, KeptSelf, AddTables
<1>4. DOMAIN Visited(request, g) = DOMAIN games
  BY DEF Visited
<1> QED BY <1>1, <1>3, <1>4, VisitedKept DEF Steady

\* queueMatch, when the request is paired with a waiting one.
LEMMA PairSteady ==
    ASSUME LobbyInv, Tabled, NEW request, request.session \in Session, PairMatch(request)
    PROVE  Steady
<1> DEFINE s == request.session
           base(r) == newGame(r.session, r.attrs, r.cap, r.topology)
<1>1. PICK r \in matchQueue :
        games' = Put(Visited(request, nextGameID), nextGameID, addMember(base(r), s))
  BY DEF PairMatch
<1> DEFINE b == base(r)
           new == addMember(b, s)
<1>2. r.session \in Session /\ r.cap \in Int
  BY RequestAssumption DEF LobbyInv, FieldsOK, MatchRequests
<1>3. IsGame(b) /\ TablesFor(b, persona) /\ HostFirst(b, persona) /\ b.host \in Roster(b)
  BY <1>2, NewTables DEF HostFirst
<1> HIDE DEF base, b
<1>4. Kept(new, b, persona) /\ b.host \in Roster(new)
  <2>1. CASE Admits(b, s)
    BY <1>3, <2>1, AddTables, AddRoster
  <2>2. CASE ~ Admits(b, s)
    <3>1. new = ensureMembershipState(b)
      BY <2>2 DEF addMember
    <3> QED BY <1>3, <2>2, <3>1, EnsureKept, AddRoster
  <2> QED BY <2>1, <2>2
<1>5. TablesFor(new, persona) /\ HostFirst(new, persona)
  BY <1>3, <1>4 DEF Kept, HostFirst
<1>6. nextGameID \notin DOMAIN games
  BY DEF LobbyInv, FieldsOK
<1>7. DOMAIN Visited(request, nextGameID) = DOMAIN games
  BY DEF Visited
<1>8. games' = Put(Visited(request, nextGameID), nextGameID, new)
  BY <1>1 DEF b
<1> HIDE DEF new
<1> QED BY <1>5, <1>6, <1>7, <1>8, VisitedKept DEF Steady, Put

\* startMatchmaking, in all its outcomes.
LEMMA StartSteady ==
    ASSUME LobbyInv, Tabled, NEW s \in Session, NEW req \in Requests, StartMatchmaking(s, req)
    PROVE  Steady
<1> DEFINE request == MatchRequest(s, req, nextMatchID)
<1>1. IgnoreMatch(s) \/ JoinGame(request) \/ PairMatch(request) \/ EnqueueMatch(request)
  BY DEF StartMatchmaking
<1>2. request.session = s
  BY DEF MatchRequest
<1> HIDE DEF request
<1>3. CASE IgnoreMatch(s)
  BY <1>3, KeptSelf DEF IgnoreMatch, Steady
<1>4. CASE EnqueueMatch(request)
  <2>1. games' = Visited(request, nextGameID) /\ DOMAIN games' = DOMAIN games
    BY <1>4 DEF EnqueueMatch, Visited
  <2> QED BY <2>1, VisitedKept DEF Steady
<1> QED BY <1>1, <1>2, <1>3, <1>4, JoinSteady, PairSteady

\* updateMeshConnection records links between two different members only.
LEMMA MeshSteady ==
    ASSUME LobbyInv, Tabled, NEW s \in Session, NEW gid, NEW report, UpdateMesh(s, gid, report)
    PROVE  Steady
<1> DEFINE game == ensureMembershipState(games[gid])
           known == {p \in DOMAIN report : sessionForPlayerID(game, p) \notin {{}, {s}}}
           up == {p \in known : report[p] = 2}
           linked == [game EXCEPT !.mesh =
                        {e \in @ : ~ (e[1] = persona[s] /\ e[2] \in known)}
                        \cup ({persona[s]} \X up)]
<1>1. /\ gid \in DOMAIN games
      /\ sessionForPlayerID(games[gid], persona[s]) = {s}
  BY DEF UpdateMesh
<1>2. IsGame(games[gid]) /\ TablesFor(games[gid], persona)
  BY <1>1, KeptSelf
<1>3. Kept(game, games[gid], persona) /\ game.members = games[gid].members
  BY <1>2, EnsureKept, EnsureRoster DEF SameRoster
<1>4. IsGame(game) /\ TablesFor(game, persona)
  BY <1>3 DEF Kept
<1>5. \A p : sessionForPlayerID(game, p) = sessionForPlayerID(games[gid], p)
  BY <1>3 DEF sessionForPlayerID
<1>6. persona[s] \in PersonasIn(game, persona)
  BY <1>1, <1>4, <1>5, FindMember DEF PersonasIn
<1>7. ASSUME NEW p \in known
      PROVE  p # persona[s] /\ p \in PersonasIn(game, persona)
  <2>1. PICK t : t \in sessionForPlayerID(game, p)
    OBVIOUS
  <2>2. t \in Roster(game) /\ persona[t] = p
    BY <1>4, <2>1, FindMember
  <2>3. p # persona[s]
    BY <1>1, <1>5
  <2> QED BY <2>2, <2>3 DEF PersonasIn
<1>8. games' \in {[games EXCEPT ![gid] = game],
                  [games EXCEPT ![gid] = refreshMeshReadiness(linked)]}
  BY DEF UpdateMesh
<1> HIDE DEF game, known
<1>9. /\ SameRoster(linked, game)
      /\ linked.slots = game.slots
      /\ linked.playerAttrs = game.playerAttrs
      /\ linked.meshReady = game.meshReady
      /\ linked.mesh = {e \in game.mesh : ~ (e[1] = persona[s] /\ e[2] \in known)}
                       \cup ({persona[s]} \X up)
  <2> HIDE DEF up
  <2> QED BY <1>4 DEF IsGame, GameFields, SameRoster
<1> HIDE DEF linked
<1>10. \A e \in linked.mesh : \/ e \in game.mesh
                              \/ e[1] # e[2] /\ {e[1], e[2]} \subseteq PersonasIn(game, persona)
  BY <1>6, <1>7, <1>9
<1>11. Kept(linked, game, persona)
  BY <1>4, <1>9, <1>10, SameSlots
<1>12. Kept(refreshMeshReadiness(linked), linked, persona)
  BY <1>11, RefreshTables DEF Kept
<1>13. Roster(linked) = Roster(game) /\ Roster(game) = Roster(games[gid])
  BY <1>3, <1>9 DEF SameRoster, Roster
<1>14. Roster(refreshMeshReadiness(linked)) = Roster(linked)
  BY <1>11, RefreshRoster DEF Kept, SameRoster, Roster
<1>15. Kept(refreshMeshReadiness(linked), games[gid], persona)
  BY <1>3, <1>11, <1>12, <1>13, <1>14, KeptTwice
<1> QED BY <1>1, <1>3, <1>8, <1>15, ReplaceSteady

\* setPlayerAttributes writes under the persona of a member.
LEMMA AttrsSteady ==
    ASSUME LobbyInv, Tabled, NEW s \in Session, NEW gid, NEW pid, NEW attributes,
           SetPlayerAttrs(s, gid, pid, attributes)
    PROVE  Steady
<1> DEFINE game == ensureMembershipState(games[gid])
           old == IF pid \in DOMAIN game.playerAttrs THEN game.playerAttrs[pid] ELSE <<>>
           new == [game EXCEPT !.playerAttrs = Put(@, pid, attributes @@ old)]
<1>1. /\ gid \in DOMAIN games
      /\ games' = [games EXCEPT ![gid] = new]
      /\ sessionForPlayerID(games[gid], pid) # {}
  BY DEF SetPlayerAttrs
<1>2. Kept(game, games[gid], persona) /\ game.members = games[gid].members
  BY <1>1, KeptSelf, EnsureKept, EnsureRoster DEF SameRoster
<1>3. IsGame(game) /\ TablesFor(game, persona)
  BY <1>2 DEF Kept
<1>4. pid \in PersonasIn(game, persona)
  <2>1. PICK t : t \in sessionForPlayerID(games[gid], pid)
    BY <1>1
  <2>2. t \in Roster(games[gid]) /\ persona[t] = pid
    BY <1>1, <2>1, KeptSelf, FindMember
  <2> QED BY <1>2, <2>2 DEF PersonasIn, Roster
<1> HIDE DEF game
<1>5. /\ SameRoster(new, game)
      /\ new.slots = game.slots
      /\ new.playerAttrs = Put(game.playerAttrs, pid, attributes @@ old)
      /\ new.mesh = game.mesh
      /\ new.meshReady = game.meshReady
  <2> HIDE DEF old
  <2> QED BY <1>3 DEF IsGame, GameFields, SameRoster
<1> HIDE DEF new
<1>6. DOMAIN new.playerAttrs = DOMAIN game.playerAttrs
  BY <1>3, <1>4, <1>5 DEF Put, TablesFor
<1>7. Kept(new, game, persona)
  BY <1>3, <1>5, <1>6, SameSlots
<1>8. Roster(new) \cap Roster(games[gid]) \subseteq Roster(game)
  BY <1>2 DEF Roster
<1>9. Kept(new, games[gid], persona)
  BY <1>2, <1>7, <1>8, KeptTwice
<1> QED BY <1>1, <1>9, ReplaceSteady

\* The setters leave the tables alone.
LEMMA FieldSteady ==
    ASSUME LobbyInv, Tabled, NEW s \in Session, NEW gid, NEW settings, NEW attributes,
           NEW capacity \in Int, NEW gameState,
           \/ SetPlayerCapacity(s, gid, capacity)
           \/ SetGameAttrs(s, gid, attributes)
           \/ SetGameSettings(s, gid, settings)
           \/ AdvanceGameState(s, gid, gameState)
           \/ ReplayGame(s, gid)
    PROVE  Steady
<1> DEFINE game == games[gid]
<1>1. gid \in DOMAIN games
  BY DEF SetPlayerCapacity, SetGameAttrs, SetGameSettings, AdvanceGameState, ReplayGame, SetField
<1>2. PICK new : /\ games' = [games EXCEPT ![gid] = new]
                 /\ \/ new = [game EXCEPT !.capacity = capacity]
                    \/ new = [game EXCEPT !.attrs = attributes]
                    \/ new = [game EXCEPT !.settings = settings]
                    \/ new = [game EXCEPT !.state = gameState]
                    \/ new = [game EXCEPT !.state = 130]
  BY DEF SetPlayerCapacity, SetGameAttrs, SetGameSettings, AdvanceGameState, ReplayGame, SetField
<1>3. IsGame(game) /\ TablesFor(game, persona)
  BY <1>1, KeptSelf
<1> HIDE DEF game
<1>4. SameRoster(new, game)
  BY <1>2, <1>3 DEF SameRoster, IsGame, GameFields
<1>5. /\ new.slots = game.slots
      /\ new.playerAttrs = game.playerAttrs
      /\ new.mesh = game.mesh
      /\ new.meshReady = game.meshReady
  BY <1>2, <1>3 DEF IsGame, GameFields
<1>6. Kept(new, game, persona)
  BY <1>3, <1>4, <1>5, SameSlots
<1> QED BY <1>1, <1>2, <1>6, ReplaceSteady DEF game

\* No request leaves a table with an entry of somebody who is not a member, or
\* moves a member to another slot.
LEMMA StepSteady ==
    ASSUME LobbyInv, Tabled, LobbyNext
    PROVE  Steady
<1>1. ASSUME games' = games PROVE Steady
  BY <1>1, KeptSelf DEF Steady
<1>2. ASSUME NEW s \in Session, Accept(s) \/ SilentLogin(s)
      PROVE  Steady
  BY <1>1, <1>2 DEF Accept, SilentLogin, lobbyVars
<1>3. ASSUME NEW s \in Session, removeSession(s)
      PROVE  Steady
  <2>1. ASSUME NEW g \in GamesOf(s), Leave(s, g)
        PROVE  Steady
    <3>1. g \in DOMAIN games
      BY DEF GamesOf
    <3>2. s \in Roster(games[g])
      <4>1. CASE gameID[s] \in DOMAIN games
        BY <4>1 DEF GamesOf, LobbyInv, SessionStateMachine, Member
      <4>2. CASE gameID[s] \notin DOMAIN games
        BY <3>1, <4>2, FindMember DEF GamesOf, LobbyInv, RostersOK
      <4> QED BY <4>1, <4>2
    <3> QED BY <2>1, <3>1, <3>2, LeaveSteady
  <2> QED BY <1>1, <1>3, <2>1 DEF removeSession
<1>4. ASSUME NEW s \in Session, NEW req \in Requests,
             ResetDedicated(s, req) \/ StartMatchmaking(s, req)
      PROVE  Steady
  BY <1>4, ResetSteady, StartSteady
<1>5. ASSUME NEW s \in Session, NEW msid \in 1..MaxMatches, CancelMatchmaking(s, msid)
      PROVE  Steady
  BY <1>1, <1>5 DEF CancelMatchmaking
<1>6. ASSUME NEW s \in Session, NEW gid \in GameIDs, NEW pid \in PlayerIDs,
             RemovePlayer(s, gid, pid)
      PROVE  Steady
  <2>1. PICK t \in sessionForPlayerID(games[gid], pid) : Leave(t, gid)
    BY <1>6 DEF RemovePlayer, RemovalTarget
  <2>2. gid \in DOMAIN games
    BY <1>6 DEF RemovePlayer
  <2>3. t \in Roster(games[gid])
    BY <2>2, FindMember DEF LobbyInv, RostersOK
  <2> QED BY <2>1, <2>2, <2>3, LeaveSteady
<1>7. ASSUME NEW s \in Session, NEW gid \in GameIDs,
             \/ FinalizeGame(s, gid)
             \/ \E report \in MeshReports : UpdateMesh(s, gid, report)
             \/ \E pid \in PlayerIDs, attributes \in AttrMaps :
                    SetPlayerAttrs(s, gid, pid, attributes)
      PROVE  Steady
  BY <1>1, <1>7, MeshSteady, AttrsSteady DEF FinalizeGame
<1>8. ASSUME NEW s \in Session, NEW gid \in GameIDs,
             \/ \E capacity \in Capacities : SetPlayerCapacity(s, gid, capacity)
             \/ \E attributes \in AttrMaps : SetGameAttrs(s, gid, attributes)
             \/ \E settings \in SettingBits : SetGameSettings(s, gid, settings)
             \/ \E gameState \in GameStates : AdvanceGameState(s, gid, gameState)
             \/ ReplayGame(s, gid)
      PROVE  Steady
  <2>1. \A capacity \in Capacities : capacity \in Int
    BY LobbyAssumption
  <2>2. 0 \in Int
    OBVIOUS
  <2> QED BY <1>8, <2>1, <2>2, FieldSteady
<1> QED BY <1>2, <1>3, <1>4, <1>5, <1>6, <1>7, <1>8 DEF LobbyNext

-----------------------------------------------------------------------------
(* The personas the tables are keyed by do not change under the members:   *)
(* a client that logs in before it plays has its persona for good.         *)

Busy(s) == gameID[s] # 0 \/ queuedMatchID[s] # 0

PlayersLoggedIn == \A s \in Session : Busy(s) => persona[s] # 0

\* Only the sender of a request becomes busy.
LEMMA BecomesBusy ==
    ASSUME LobbyInv, LobbyNext, NEW x \in Session, Busy(x)'
    PROVE  Busy(x) \/ MaySend(x)
<1> USE DEF LobbyInv, FieldsOK, Busy
<1>1. ASSUME NEW s \in Session, Accept(s) \/ SilentLogin(s)
      PROVE  Busy(x)
  BY <1>1 DEF Accept, SilentLogin, lobbyVars
<1>2. ASSUME NEW t, NEW g, Leave(t, g)
      PROVE  Busy(x)
  BY <1>2 DEF Leave, Assign
<1>3. ASSUME NEW s \in Session, removeSession(s)
      PROVE  Busy(x)
  BY <1>2, <1>3 DEF removeSession
<1>4. ASSUME NEW s \in Session, NEW req \in Requests, ResetDedicated(s, req)
      PROVE  Busy(x) \/ MaySend(x)
  BY <1>4 DEF ResetDedicated, lobbyVars
<1>5. ASSUME NEW s \in Session, NEW req \in Requests, StartMatchmaking(s, req)
      PROVE  Busy(x) \/ MaySend(x)
  <2> DEFINE request == MatchRequest(s, req, nextMatchID)
  <2>1. MaySend(s) /\ request.session = s
    BY <1>5 DEF StartMatchmaking, MatchRequest
  <2>2. IgnoreMatch(s) \/ JoinGame(request) \/ PairMatch(request) \/ EnqueueMatch(request)
    BY <1>5 DEF StartMatchmaking
  <2> HIDE DEF request
  <2>3. CASE IgnoreMatch(s)
    BY <2>3 DEF IgnoreMatch
  <2>4. CASE JoinGame(request)
    BY <2>1, <2>4 DEF JoinGame
  <2>5. CASE EnqueueMatch(request)
    BY <2>1, <2>5 DEF EnqueueMatch
  <2>6. CASE PairMatch(request)
    <3> DEFINE base(r) == newGame(r.session, r.attrs, r.cap, r.topology)
    <3>1. PICK r \in matchQueue :
            /\ gameID' = Assign([gameID EXCEPT ![s] = 0], Roster(addMember(base(r), s)), nextGameID)
            /\ queuedMatchID' =
                 Assign([queuedMatchID EXCEPT ![s] = 0], Roster(addMember(base(r), s)), 0)
      BY <2>1, <2>6 DEF PairMatch
    <3>2. r.session \in Session /\ r.cap \in Int /\ queuedMatchID[r.session] # 0
      BY RequestAssumption DEF MatchRequests, SessionStateMachine
    <3>3. IsGame(base(r)) /\ Roster(base(r)) = {r.session}
      BY <3>2, NewRoster
    <3> HIDE DEF base
    <3>4. Roster(addMember(base(r), s)) \subseteq {r.session, s}
      BY <3>3, AddRoster
    <3> QED BY <2>1, <3>1, <3>2, <3>4 DEF Assign
  <2> QED BY <2>2, <2>3, <2>4, <2>5, <2>6
<1>6. ASSUME NEW s \in Session, NEW msid \in 1..MaxMatches, CancelMatchmaking(s, msid)
      PROVE  Busy(x)
  BY <1>6 DEF CancelMatchmaking
<1>7. ASSUME NEW s \in Session, NEW gid \in GameIDs, NEW pid \in PlayerIDs,
             RemovePlayer(s, gid, pid)
      PROVE  Busy(x)
  BY <1>2, <1>7 DEF RemovePlayer
<1>8. ASSUME NEW s \in Session, NEW gid \in GameIDs,
             \/ FinalizeGame(s, gid)
             \/ \E report \in MeshReports : UpdateMesh(s, gid, report)
             \/ \E pid \in PlayerIDs, attributes \in AttrMaps :
                    SetPlayerAttrs(s, gid, pid, attributes)
             \/ \E capacity \in Capacities : SetPlayerCapacity(s, gid, capacity)
             \/ \E attributes \in AttrMaps : SetGameAttrs(s, gid, attributes)
             \/ \E settings \in SettingBits : SetGameSettings(s, gid, settings)
             \/ \E gameState \in GameStates : AdvanceGameState(s, gid, gameState)
             \/ ReplayGame(s, gid)
      PROVE  Busy(x)
  BY <1>8 DEF FinalizeGame, UpdateMesh, SetPlayerAttrs, SetPlayerCapacity, SetGameAttrs,
              SetGameSettings, AdvanceGameState, ReplayGame, SetField
<1> HIDE DEF LobbyInv, FieldsOK, Busy
<1> QED BY <1>1, <1>3, <1>4, <1>5, <1>6, <1>7, <1>8 DEF LobbyNext

\* A session in the queue or in a game after the step had its persona before
\* the step.
LEMMA StillLoggedIn ==
    ASSUME LoginFirst, LobbyInv, IdentityInv, PlayersLoggedIn, LobbyNext,
           NEW x \in Session, Busy(x)'
    PROVE  persona[x] # 0 /\ persona'[x] = persona[x]
<1>1. x \in open /\ persona[x] # 0
  BY BecomesBusy DEF MaySend, PlayersLoggedIn, Busy, LobbyInv, SessionStateMachine
<1>2. [IdentityNext]_identityVars
  BY LobbyStepIdentity
<1>3. persona \in [Session -> MinInt..MaxInt]
  BY DEF IdentityInv, IdentityTypeOK
<1>4. persona'[x] = persona[x]
  <2>1. ASSUME NEW s \in Session, Connect(s) PROVE persona'[x] = persona[x]
    BY <1>1, <1>3, <2>1 DEF Connect
  <2>2. ASSUME NEW s \in Session, NEW pid \in RequestedPIDs, Authenticate(s, pid)
        PROVE  persona'[x] = persona[x]
    BY <1>1, <1>3, <2>2 DEF Authenticate
  <2>3. ASSUME NEW s \in Session, AuthenticateAgain(s) \/ Unregister(s)
        PROVE  persona'[x] = persona[x]
    BY <2>3 DEF AuthenticateAgain, Unregister, identityVars
  <2>4. CASE UNCHANGED identityVars
    BY <2>4 DEF identityVars
  <2> QED BY <1>2, <2>1, <2>2, <2>3, <2>4 DEF IdentityNext
<1> QED BY <1>1, <1>4

-----------------------------------------------------------------------------
(* The theorems about tables and slots.                                    *)

RosterInv == Tabled /\ PlayersLoggedIn

\* The members of a game after a step had their personas before it.
LEMMA MembersKeepPersonas ==
    ASSUME LoginFirst, LobbyInv, IdentityInv, PlayersLoggedIn, LobbyNext, LobbyInv',
           NEW g \in DOMAIN games', NEW s \in Roster(games'[g])
    PROVE  s \in Session /\ persona'[s] = persona[s]
<1>1. s \in Session
  BY DEF LobbyInv, RostersOK, IsGame, Roster, ToSet
<1>2. gameID'[s] = g /\ g # 0
  BY <1>1 DEF LobbyInv, SessionStateMachine, Member, FieldsOK
<1> QED BY <1>1, <1>2, StillLoggedIn DEF Busy

\* Tables read with personas that agree on the roster.
LEMMA TablesAgree ==
    ASSUME NEW game, NEW P, NEW Q, TablesFor(game, P), \A s \in Roster(game) : P[s] = Q[s]
    PROVE  TablesFor(game, Q)
<1>1. PersonasIn(game, P) = PersonasIn(game, Q)
  BY DEF PersonasIn
<1> QED BY <1>1 DEF TablesFor

\* The inductive step.
LEMMA RosterNextInv ==
    ASSUME LoginFirst, LobbyInv, IdentityInv, RosterInv, LobbyInv', [LobbyNext]_vars
    PROVE  RosterInv'
<1>1. CASE LobbyNext
  <2>1. PlayersLoggedIn'
    BY <1>1, StillLoggedIn DEF RosterInv, PlayersLoggedIn
  <2>2. Steady
    BY <1>1, StepSteady DEF RosterInv
  <2>3. ASSUME NEW g \in DOMAIN games'
        PROVE  TablesFor(games'[g], persona') /\ HostFirst(games'[g], persona')
    <3>1. \A s \in Roster(games'[g]) : persona[s] = persona'[s]
      BY <1>1, MembersKeepPersonas DEF RosterInv
    <3>2. TablesFor(games'[g], persona)
      BY <2>2 DEF Steady, Kept
    <3>3. games'[g].host \in Roster(games'[g])
      BY DEF LobbyInv, HostIsMember, Member
    <3>4. HostFirst(games'[g], persona)
      <4>1. CASE g \in DOMAIN games
        <5>1. Kept(games'[g], games[g], persona)
          BY <2>2, <4>1 DEF Steady
        <5>2. games[g].host \in Roster(games[g]) /\ HostFirst(games[g], persona)
          BY <4>1 DEF LobbyInv, HostIsMember, Member, RosterInv, Tabled
        <5> QED BY <3>3, <5>1, <5>2 DEF Kept, HostFirst
      <4>2. CASE g \notin DOMAIN games
        BY <2>2, <4>2 DEF Steady
      <4> QED BY <4>1, <4>2
    <3>5. TablesFor(games'[g], persona')
      BY <3>1, <3>2, TablesAgree
    <3> QED BY <3>1, <3>3, <3>4, <3>5 DEF HostFirst
  <2> QED BY <2>1, <2>3 DEF RosterInv, Tabled
<1>2. CASE UNCHANGED vars
  BY <1>2 DEF RosterInv, Tabled, PlayersLoggedIn, Busy, vars, identityVars, lobbyVars
<1> QED BY <1>1, <1>2

\* The invariant of the tables, for clients that log in before they play.
THEOREM RosterInvariant ==
    ASSUME LoginFirst
    PROVE  LobbySpec => []RosterInv
<1>1. LobbyInit => RosterInv
  BY DEF LobbyInit, IdentityInit, RosterInv, Tabled, PlayersLoggedIn, Busy
<1>2. LobbyInv /\ IdentityInv /\ RosterInv /\ LobbyInv' /\ [LobbyNext]_vars => RosterInv'
  BY RosterNextInv
<1> QED BY <1>1, <1>2, LobbyInvariant, LobbyIdentity, PTL DEF LobbySpec

\* A player who leaves is in no table any more, and nobody else is in one
\* either (ensureMembershipState, addMember, removeMember).
THEOREM LobbyRosterTables ==
    ASSUME LoginFirst
    PROVE  LobbySpec => []RosterTables
<1>1. RosterInv => RosterTables
  BY DEF RosterInv, Tabled, TablesFor, PersonasIn, RosterTables, Personas
<1> QED BY <1>1, RosterInvariant, PTL

\* No two members of a game have the same slot (firstFreeSlot).
THEOREM LobbyDistinctSlots ==
    ASSUME LoginFirst
    PROVE  LobbySpec => []DistinctSlots
<1>1. RosterInv /\ LobbyInv => DistinctSlots
  BY DEF RosterInv, Tabled, TablesFor, IsInjective, DistinctSlots, LobbyInv, DistinctPersonas
<1> QED BY <1>1, RosterInvariant, LobbyInvariant, PTL

\* A member keeps its slot, and the host slot 0, whoever joins or leaves.
THEOREM LobbyStableSlots ==
    ASSUME LoginFirst
    PROVE  LobbySpec => StableSlots
<1> DEFINE Stable == \A g \in DOMAIN games \cap DOMAIN games' :
        /\ games'[g].slots[persona[games[g].host]] = 0
        /\ \A s \in Roster(games[g]) \cap Roster(games'[g]) :
             games'[g].slots[persona[s]] = games[g].slots[persona[s]]
<1>1. ASSUME LobbyInv, LobbyInv', RosterInv, [LobbyNext]_vars
      PROVE  [Stable]_vars
  <2> SUFFICES ASSUME LobbyNext, NEW g \in DOMAIN games \cap DOMAIN games'
               PROVE  Stable!(g)
    BY <1>1
  <2>1. Kept(games'[g], games[g], persona)
    BY <1>1, StepSteady DEF RosterInv, Steady
  <2>2. games[g].host \in Roster(games[g]) /\ games'[g].host \in Roster(games'[g])
    BY <1>1 DEF LobbyInv, HostIsMember, Member
  <2>3. HostFirst(games[g], persona)
    BY <1>1 DEF RosterInv, Tabled
  <2> QED BY <2>1, <2>2, <2>3 DEF Kept, HostFirst
<1>2. QED
  BY <1>1, RosterInvariant, LobbyInvariant, PTL DEF LobbySpec, StableSlots

-----------------------------------------------------------------------------
(* Joins.  These two hold whatever the clients send, logged in or not.     *)

\* A pending member to and from which every link is recorded after the step.
Linked(x) ==
    /\ pending[x] # 0
    /\ Member(x, pending[x])
    /\ \A t \in Roster(games[pending[x]]) \ {x} :
         {<<persona[x], persona[t]>>, <<persona[t], persona[x]>>}
            \subseteq games'[pending[x]].mesh

\* updateMeshConnection completes the joins of pending members whose links to
\* and from all other members are now recorded, and counts each of them once.
LEMMA MeshCompletes ==
    ASSUME LobbyInv, NEW s \in Session, NEW gid, NEW report, UpdateMesh(s, gid, report),
           NEW x \in Session
    PROVE  /\ gameID' = gameID
           /\ \/ joined'[x] = joined[x] /\ pending'[x] \in {0, pending[x]}
              \/ /\ joined'[x] = joined[x] + 1
                 /\ pending'[x] = 0
                 /\ Linked(x)
<1> DEFINE game == ensureMembershipState(games[gid])
           known == {p \in DOMAIN report : sessionForPlayerID(game, p) \notin {{}, {s}}}
           up == {p \in known : report[p] = 2}
           linked == [game EXCEPT !.mesh =
                        {e \in @ : ~ (e[1] = persona[s] /\ e[2] \in known)}
                        \cup ({persona[s]} \X up)]
           completed == {t \in Roster(game) :
                            pending[t] = gid /\ meshReadyForPlayer(linked, t)}
<1>1. gid \in DOMAIN games /\ gameID' = gameID
  BY DEF UpdateMesh
<1>2. CASE UNCHANGED <<pending, joined>>
  BY <1>1, <1>2
<1>3. CASE /\ games' = [games EXCEPT ![gid] = refreshMeshReadiness(linked)]
           /\ pending' = NotPending(completed)
           /\ joined' = Published(completed)
  <2>1. SameRoster(game, games[gid])
    BY <1>1, EnsureRoster DEF LobbyInv, RostersOK
  <2>2. x \in completed =>
          x \in Roster(game) /\ pending[x] = gid /\ meshReadyForPlayer(linked, x)
    OBVIOUS
  <2>3. /\ pending'[x] = IF x \in completed THEN 0 ELSE pending[x]
        /\ joined'[x] = IF x \in completed THEN joined[x] + 1 ELSE joined[x]
    BY <1>3 DEF NotPending, Published, Assign
  <2> HIDE DEF game, known, up, completed
  <2>4. SameRoster(linked, games[gid])
    BY <2>1 DEF SameRoster, IsGame, GameFields
  <2> HIDE DEF linked
  <2>5. refreshMeshReadiness(linked).mesh = linked.mesh
    BY <2>4 DEF refreshMeshReadiness, SameRoster, IsGame, GameFields
  <2>6. Roster(game) = Roster(games[gid]) /\ Roster(linked) = Roster(games[gid])
    BY <2>1, <2>4 DEF SameRoster, Roster
  <2>7. games'[gid].mesh = linked.mesh
    BY <1>1, <1>3, <2>5
  <2>8. CASE x \in completed
    <3>1. pending[x] # 0 /\ Member(x, pending[x])
      BY <1>1, <2>2, <2>6, <2>8 DEF LobbyInv, FieldsOK, Member
    <3>2. Linked(x)
      BY <2>2, <2>6, <2>7, <2>8, <3>1 DEF meshReadyForPlayer, Linked
    <3> QED BY <1>1, <2>3, <2>8, <3>2
  <2>9. CASE x \notin completed
    BY <1>1, <2>3, <2>9
  <2> QED BY <2>8, <2>9
<1> QED BY <1>2, <1>3 DEF UpdateMesh

\* What the other steps do to the count of a session: it starts anew, or it stays,
\* and then the session may enter a game, but it becomes pending no other way.
Untold(x) ==
    \/ joined'[x] = 0
    \/ /\ joined'[x] = joined[x]
       /\ \/ gameID[x] = 0
          \/ gameID'[x] = gameID[x] /\ pending'[x] \in {0, pending[x]}

\* A leaver, and everyone a leaving host idles, starts anew.
LEMMA LeaveUntold ==
    ASSUME NEW t, NEW g, Leave(t, g), NEW x \in Session
    PROVE  Untold(x)
  BY DEF Leave, Assign, Untold

\* queueMatch puts only idle sessions into a game.
LEMMA MatchUntold ==
    ASSUME LobbyInv, NEW request, request.session \in Session, ~ InGame(request.session),
           JoinGame(request) \/ PairMatch(request) \/ EnqueueMatch(request),
           NEW x \in Session
    PROVE  Untold(x)
<1> DEFINE s == request.session
<1>1. gameID[s] = 0 /\ gameID \in [Session -> GameIDs] /\ pending \in [Session -> GameIDs]
  BY InGameMeaning DEF LobbyInv, FieldsOK
<1>2. CASE JoinGame(request)
  <2>1. PICK g : /\ gameID' = [gameID EXCEPT ![s] = g] /\ pending' = [pending EXCEPT ![s] = g]
                 /\ joined' = joined
    BY <1>2 DEF JoinGame
  <2> QED BY <1>1, <2>1 DEF Untold
<1>3. CASE PairMatch(request)
  <2> DEFINE base(r) == newGame(r.session, r.attrs, r.cap, r.topology)
  <2>1. PICK r \in matchQueue :
          /\ gameID' = Assign([gameID EXCEPT ![s] = 0], Roster(addMember(base(r), s)), nextGameID)
          /\ pending' = Assign(pending, Roster(addMember(base(r), s)), nextGameID)
    BY <1>3 DEF PairMatch
  <2>2. joined' = joined
    BY <1>3 DEF PairMatch
  <2> DEFINE host == r.session
  <2>3. host \in Session /\ r.msid # 0 /\ r.cap \in Int
    BY RequestAssumption DEF LobbyInv, FieldsOK, MatchRequests
  <2>4. gameID[host] = 0
    BY <2>3 DEF LobbyInv, SessionStateMachine
  <2>5. IsGame(base(r)) /\ Roster(base(r)) = {host}
    <3> SUFFICES /\ IsGame(newGame(host, r.attrs, r.cap, r.topology))
                 /\ Roster(newGame(host, r.attrs, r.cap, r.topology)) = {host}
      OBVIOUS
    <3> HIDE DEF host
    <3> QED BY <2>3, NewRoster
  <2>6. Roster(addMember(base(r), s)) \subseteq {host, s}
    <3> HIDE DEF base
    <3> QED BY <2>5, AddRoster
  <2> HIDE DEF base
  <2>7. CASE x = host \/ x = s
    BY <1>1, <2>2, <2>4, <2>7 DEF Untold
  <2>8. CASE x # host /\ x # s
    BY <1>1, <2>1, <2>2, <2>6, <2>8 DEF Untold, Assign
  <2> QED BY <2>7, <2>8
<1>4. CASE EnqueueMatch(request)
  BY <1>1, <1>4 DEF EnqueueMatch, Untold
<1> QED BY <1>2, <1>3, <1>4

\* Only updateMeshConnection completes a join.
LEMMA JoinedByMesh ==
    ASSUME LobbyInv, LobbyNext, NEW x \in Session
    PROVE  \/ Untold(x)
           \/ \E s \in Session, gid \in GameIDs, report \in MeshReports :
                UpdateMesh(s, gid, report)
<1>0. ASSUME UNCHANGED <<gameID, pending, joined>>
      PROVE  Untold(x)
  BY <1>0 DEF Untold
<1>1. ASSUME NEW s \in Session, Accept(s) \/ SilentLogin(s) \/ removeSession(s)
      PROVE  Untold(x)
  <2>1. CASE Accept(s) \/ SilentLogin(s)
    BY <1>0, <2>1 DEF Accept, SilentLogin, lobbyVars
  <2>2. CASE \E g \in GamesOf(s) : Leave(s, g)
    BY <2>2, LeaveUntold
  <2>3. CASE /\ GamesOf(s) = {}
             /\ gameID' = [gameID EXCEPT ![s] = 0]
             /\ pending' = [pending EXCEPT ![s] = 0]
             /\ joined' = joined
    <3>1. gameID[s] = 0
      BY <2>3 DEF GamesOf, LobbyInv, SessionStateMachine
    <3> QED BY <2>3, <3>1 DEF LobbyInv, FieldsOK, Untold
  <2> QED BY <1>1, <2>1, <2>2, <2>3 DEF removeSession
<1>2. ASSUME NEW s \in Session, NEW req \in Requests,
             ResetDedicated(s, req) \/ StartMatchmaking(s, req)
      PROVE  Untold(x)
  <2>1. CASE InGame(s)
    <3>1. UNCHANGED <<gameID, pending, joined>>
      BY <1>2, <2>1 DEF ResetDedicated, lobbyVars, StartMatchmaking, IgnoreMatch
    <3> QED BY <1>0, <3>1
  <2>2. CASE ~ InGame(s) /\ ResetDedicated(s, req)
    <3>1. gameID[s] = 0
      BY <2>2, InGameMeaning
    <3>2. /\ gameID' = [gameID EXCEPT ![s] = nextGameID] /\ pending' = pending
          /\ joined' = joined
      BY <2>2 DEF ResetDedicated
    <3> QED BY <3>1, <3>2 DEF LobbyInv, FieldsOK, Untold
  <2>3. CASE ~ InGame(s) /\ StartMatchmaking(s, req)
    <3>1. PICK request : request = MatchRequest(s, req, nextMatchID)
      OBVIOUS
    <3>2. /\ request.session = s
          /\ JoinGame(request) \/ PairMatch(request) \/ EnqueueMatch(request)
      BY <2>3, <3>1 DEF StartMatchmaking, IgnoreMatch, MatchRequest
    <3> QED BY <2>3, <3>2, MatchUntold
  <2> QED BY <1>2, <2>1, <2>2, <2>3
<1>3. ASSUME NEW s \in Session, NEW msid \in 1..MaxMatches, CancelMatchmaking(s, msid)
      PROVE  Untold(x)
  BY <1>0, <1>3 DEF CancelMatchmaking
<1>4. ASSUME NEW s \in Session, NEW gid \in GameIDs, FinalizeGame(s, gid)
      PROVE  Untold(x)
  BY <1>4 DEF FinalizeGame, LobbyInv, FieldsOK, Untold
<1>5. ASSUME NEW s \in Session, NEW gid \in GameIDs, NEW pid \in PlayerIDs,
             RemovePlayer(s, gid, pid)
      PROVE  Untold(x)
  BY <1>5, LeaveUntold DEF RemovePlayer
<1>6. ASSUME NEW s \in Session, NEW gid \in GameIDs,
             \/ \E pid \in PlayerIDs, attributes \in AttrMaps :
                    SetPlayerAttrs(s, gid, pid, attributes)
             \/ \E capacity \in Capacities : SetPlayerCapacity(s, gid, capacity)
             \/ \E attributes \in AttrMaps : SetGameAttrs(s, gid, attributes)
             \/ \E settings \in SettingBits : SetGameSettings(s, gid, settings)
             \/ \E gameState \in GameStates : AdvanceGameState(s, gid, gameState)
             \/ ReplayGame(s, gid)
      PROVE  Untold(x)
  BY <1>0, <1>6 DEF SetPlayerAttrs, SetPlayerCapacity, SetGameAttrs, SetGameSettings,
                    AdvanceGameState, ReplayGame, SetField
<1> QED BY <1>1, <1>2, <1>3, <1>4, <1>5, <1>6 DEF LobbyNext

\* Nothing has been published for a session outside every game, nor for a member
\* whose join is pending.
CountedAfter == \A s \in Session : gameID[s] = 0 \/ pending[s] # 0 => joined[s] = 0

\* Every step keeps it, and publishes only for linked pending members, for each
\* of them for the first time.
LEMMA JoinStep ==
    ASSUME LobbyInv, CountedAfter, [LobbyNext]_vars, NEW x \in Session
    PROVE  /\ gameID'[x] = 0 \/ pending'[x] # 0 => joined'[x] = 0
           /\ joined'[x] > joined[x] => joined'[x] = 1 /\ Linked(x)
<1>1. joined[x] \in Nat
  BY DEF LobbyInv, FieldsOK
<1>2. CASE UNCHANGED vars
  BY <1>1, <1>2 DEF CountedAfter, vars, lobbyVars
<1>3. CASE Untold(x)
  <2>1. joined'[x] = 0 \/ joined'[x] = joined[x]
    BY <1>3 DEF Untold
  <2>2. ~ (joined'[x] > joined[x])
    BY <1>1, <2>1
  <2>3. gameID'[x] = 0 \/ pending'[x] # 0 => joined'[x] = 0
    BY <1>3 DEF Untold, CountedAfter
  <2> QED BY <2>2, <2>3
<1>4. CASE \E s \in Session, gid \in GameIDs, report \in MeshReports : UpdateMesh(s, gid, report)
  <2>1. PICK s \in Session, gid \in GameIDs, report \in MeshReports : UpdateMesh(s, gid, report)
    BY <1>4
  <2>2. gameID' = gameID
    BY <2>1, MeshCompletes
  <2>3. CASE joined'[x] = joined[x] /\ pending'[x] \in {0, pending[x]}
    BY <1>1, <2>2, <2>3 DEF CountedAfter
  <2>4. CASE joined'[x] = joined[x] + 1 /\ pending'[x] = 0 /\ Linked(x)
    <3>1. joined[x] = 0
      BY <2>4 DEF CountedAfter, Linked
    <3>2. gameID[x] # 0
      BY <2>4 DEF Linked, LobbyInv, SessionStateMachine, Member
    <3> QED BY <2>2, <2>4, <3>1, <3>2
  <2> QED BY <2>1, <2>3, <2>4, MeshCompletes
<1> QED BY <1>2, <1>3, <1>4, JoinedByMesh

\* NotifyPlayerJoined is published at most once per membership, for a pending
\* member, and only with every link of the player recorded in both directions.
THEOREM LobbyJoinCompletion == LobbySpec => JoinCompletion
<1> DEFINE Complete == \A s \in Session : joined'[s] > joined[s] =>
        /\ joined'[s] = 1
        /\ pending[s] # 0
        /\ Member(s, pending[s])
        /\ \A t \in Roster(games[pending[s]]) \ {s} :
             {<<persona[s], persona[t]>>, <<persona[t], persona[s]>>}
                \subseteq games'[pending[s]].mesh
<1>1. LobbyInit => CountedAfter
  BY DEF LobbyInit, CountedAfter
<1>2. LobbyInv /\ CountedAfter /\ [LobbyNext]_vars => CountedAfter'
  BY JoinStep DEF CountedAfter
<1>3. LobbyInv /\ CountedAfter /\ [LobbyNext]_vars => [Complete]_vars
  BY JoinStep DEF Linked
<1>4. QED
  BY <1>1, <1>2, <1>3, LobbyInvariant, PTL DEF LobbySpec, JoinCompletion

\* A game after the step has no more members than before, or than it may have.
Fits(g) ==
    (IF g \in DOMAIN games THEN Len(games[g].members) ELSE 1) < Len(games'[g].members)
        => Len(games'[g].members) <= games'[g].capacity

\* A game whose roster has not grown fits.
LEMMA FitsSame ==
    ASSUME LobbyInv, NEW g \in DOMAIN games, games'[g].members \in Seq(Session),
           Len(games'[g].members) <= Len(games[g].members)
    PROVE  Fits(g)
BY DEF Fits, LobbyInv, RostersOK, IsGame

\* The games that only had their slots brought up to date fit.
LEMMA FitsSameRoster ==
    ASSUME LobbyInv, NEW g \in DOMAIN games, SameRoster(games'[g], games[g])
    PROVE  Fits(g)
BY DEF Fits, SameRoster, LobbyInv, RostersOK, IsGame

\* Leaving a game.
LEMMA LeaveFits ==
    ASSUME LobbyInv, NEW t \in Session, NEW h \in DOMAIN games, Leave(t, h), NEW g \in DOMAIN games'
    PROVE  Fits(g)
<1> DEFINE left == removeMember(games[h], t)
<1>1. IsGame(left) /\ Len(left.members) <= Len(games[h].members)
  BY RemoveRoster DEF LobbyInv, RostersOK
<1>2. games' \in {Without(games, h), [games EXCEPT ![h] = refreshMeshReadiness(left)]}
  BY DEF Leave
<1> HIDE DEF left
<1>3. SameRoster(refreshMeshReadiness(left), left)
  BY <1>1, RefreshRoster
<1>4. /\ g \in DOMAIN games
      /\ \/ games'[g] = games[g]
         \/ g = h /\ games'[g] = refreshMeshReadiness(left)
  <2>1. CASE games' = Without(games, h)
    BY <2>1 DEF Without
  <2>2. CASE games' = [games EXCEPT ![h] = refreshMeshReadiness(left)]
    BY <2>2
  <2> QED BY <1>2, <2>1, <2>2
<1>5. games'[g].members \in Seq(Session) /\ Len(games'[g].members) <= Len(games[g].members)
  <2>1. IsGame(games[g]) /\ Len(games[g].members) \in Nat
    BY <1>4 DEF LobbyInv, RostersOK, IsGame
  <2>2. CASE games'[g] = games[g]
    BY <2>1, <2>2 DEF IsGame
  <2>3. CASE g = h /\ games'[g] = refreshMeshReadiness(left)
    BY <1>1, <1>3, <2>3 DEF IsGame, SameRoster
  <2> QED BY <1>4, <2>2, <2>3
<1> QED BY <1>4, <1>5, FitsSame

\* startMatchmaking: the two outcomes in which a roster grows.
LEMMA StartFits ==
    ASSUME LobbyInv, NEW s \in Session, NEW req \in Requests, StartMatchmaking(s, req),
           NEW g \in DOMAIN games'
    PROVE  Fits(g)
<1> DEFINE request == MatchRequest(s, req, nextMatchID)
<1>1. IgnoreMatch(s) \/ JoinGame(request) \/ PairMatch(request) \/ EnqueueMatch(request)
  BY DEF StartMatchmaking
<1>2. request.session = s
  BY DEF MatchRequest
<1> HIDE DEF request
<1>3. CASE IgnoreMatch(s)
  BY <1>3, FitsSameRoster DEF IgnoreMatch, SameRoster, LobbyInv, RostersOK
<1>4. CASE EnqueueMatch(request)
  BY <1>4, VisitedRosters, FitsSameRoster DEF EnqueueMatch
<1>5. CASE JoinGame(request)
  <2>1. PICK h \in Joinable(request) :
            games' = [Visited(request, h) EXCEPT ![h] = addMember(games[h], s)]
    BY <1>2, <1>5 DEF JoinGame
  <2>2. h \in DOMAIN games /\ Len(games[h].members) < games[h].capacity
    BY DEF Joinable, isCompatibleGame
  <2>3. DOMAIN games' = DOMAIN games
    BY <2>1, VisitedRosters
  <2>4. CASE g # h
    BY <2>1, <2>3, <2>4, VisitedRosters, FitsSameRoster
  <2>5. CASE g = h
    <3>1. games'[g] = addMember(games[h], s) /\ IsGame(games[h])
      BY <2>1, <2>2, <2>5, VisitedRosters DEF LobbyInv, RostersOK
    <3>2. /\ games'[g].capacity = games[h].capacity
          /\ Len(games'[g].members) = IF Admits(games[h], s) THEN Len(games[h].members) + 1
                                       ELSE Len(games[h].members)
      BY <3>1, AddRoster
    <3>3. Len(games[h].members) \in Nat /\ games[h].capacity \in Int
      BY <3>1 DEF IsGame
    <3>4. Len(games'[g].members) <= games'[g].capacity
      BY <2>2, <3>2, <3>3
    <3> QED BY <3>4 DEF Fits
  <2> QED BY <2>4, <2>5
<1>6. CASE PairMatch(request)
  <2> DEFINE base(r) == newGame(r.session, r.attrs, r.cap, r.topology)
  <2>1. PICK r \in matchQueue :
          /\ Partner(request, r)
          /\ games' = Put(Visited(request, nextGameID), nextGameID, addMember(base(r), s))
    BY <1>2, <1>6 DEF PairMatch
  <2> DEFINE b == base(r)
  <2>2. r.session \in Session /\ r.cap \in Int /\ r.cap >= 2
    BY <2>1, RequestAssumption
       DEF LobbyInv, FieldsOK, MatchRequests, Partner, isCompatibleMatch
  <2>3. IsGame(b) /\ b.capacity = r.cap /\ Len(b.members) = 1
    BY <2>2, NewRoster
  <2>4. games' = Put(Visited(request, nextGameID), nextGameID, addMember(b, s))
    BY <2>1
  <2> HIDE DEF base, b
  <2>5. CASE g # nextGameID
    <3>1. g \in DOMAIN games /\ SameRoster(games'[g], games[g])
      BY <2>4, <2>5, VisitedRosters DEF Put
    <3> QED BY <3>1, FitsSameRoster
  <2>6. CASE g = nextGameID
    <3>1. games'[g] = addMember(b, s)
      BY <2>4, <2>6 DEF Put
    <3>2. /\ games'[g].capacity = b.capacity
          /\ Len(games'[g].members) = IF Admits(b, s) THEN Len(b.members) + 1
                                       ELSE Len(b.members)
      BY <2>3, <3>1, AddRoster
    <3>3. Len(games'[g].members) <= games'[g].capacity
      BY <2>2, <2>3, <3>2
    <3> QED BY <3>3 DEF Fits
  <2> QED BY <2>5, <2>6
<1> QED BY <1>1, <1>3, <1>4, <1>5, <1>6

\* resetDedicatedServer: the host is alone in the new game.
LEMMA ResetFits ==
    ASSUME LobbyInv, NEW s \in Session, NEW req \in Requests, ResetDedicated(s, req),
           NEW g \in DOMAIN games'
    PROVE  Fits(g)
<1> DEFINE new == newGame(s, Attributes(req), getMatchmakingCapacity(req),
                          getMatchmakingTopology(req))
<1>1. games' = games \/ games' = Put(games, nextGameID, new)
  BY DEF ResetDedicated, lobbyVars
<1>2. Len(new.members) = 1
  BY NewRoster, RequestAssumption
<1> HIDE DEF new
<1>3. nextGameID \notin DOMAIN games
  BY DEF LobbyInv, FieldsOK
<1>4. CASE g \in DOMAIN games
  <2>1. games'[g] = games[g]
    BY <1>1, <1>3, <1>4 DEF Put
  <2>2. SameRoster(games'[g], games[g])
    BY <1>4, <2>1 DEF SameRoster, LobbyInv, RostersOK
  <2> QED BY <1>4, <2>2, FitsSameRoster
<1>5. CASE g \notin DOMAIN games
  <2>1. games'[g] = new
    BY <1>1, <1>5 DEF Put
  <2>2. Len(games'[g].members) = 1
    BY <1>2, <2>1, Zenon
  <2>3. ~ (1 < Len(games'[g].members))
    BY <2>2
  <2> QED BY <1>5, <2>3 DEF Fits
<1> QED BY <1>4, <1>5

\* The requests about a game change one record and not its roster.
LEMMA RequestsKeepRosters ==
    ASSUME LobbyInv, NEW s \in Session, NEW gid, NEW pid, NEW report, NEW settings,
           NEW attributes, NEW capacity \in Int, NEW gameState,
           \/ UpdateMesh(s, gid, report)
           \/ SetPlayerAttrs(s, gid, pid, attributes)
           \/ SetPlayerCapacity(s, gid, capacity)
           \/ SetGameAttrs(s, gid, attributes)
           \/ SetGameSettings(s, gid, settings)
           \/ AdvanceGameState(s, gid, gameState)
           \/ ReplayGame(s, gid),
           NEW g \in DOMAIN games'
    PROVE  g \in DOMAIN games /\ SameRoster(games'[g], games[g])
<1> DEFINE game == games[gid]
           e == ensureMembershipState(game)
<1>1. gid \in DOMAIN games
  BY DEF UpdateMesh, SetPlayerAttrs, SetPlayerCapacity, SetGameAttrs, SetGameSettings,
         AdvanceGameState, ReplayGame, SetField
<1>2. IsGame(game) /\ SameRoster(e, game)
  BY <1>1, EnsureRoster DEF LobbyInv, RostersOK
<1>3. ASSUME NEW new, SameRoster(new, game), games' = [games EXCEPT ![gid] = new]
      PROVE  g \in DOMAIN games /\ SameRoster(games'[g], games[g])
  BY <1>1, <1>3 DEF SameRoster, LobbyInv, RostersOK
<1>4. CASE UpdateMesh(s, gid, report)
  <2> DEFINE known == {p \in DOMAIN report : sessionForPlayerID(e, p) \notin {{}, {s}}}
             up == {p \in known : report[p] = 2}
             linked == [e EXCEPT !.mesh =
                          {l \in @ : ~ (l[1] = persona[s] /\ l[2] \in known)}
                          \cup ({persona[s]} \X up)]
  <2>1. games' \in {[games EXCEPT ![gid] = e],
                    [games EXCEPT ![gid] = refreshMeshReadiness(linked)]}
    BY <1>4 DEF UpdateMesh
  <2>2. SameRoster(linked, game)
    <3> HIDE DEF e, known, up
    <3> QED BY <1>2 DEF SameRoster, IsGame, GameFields
  <2> HIDE DEF linked, e
  <2>3. SameRoster(refreshMeshReadiness(linked), game)
    BY <2>2, RefreshRoster DEF SameRoster
  <2> QED BY <1>2, <1>3, <2>1, <2>3
<1>5. CASE SetPlayerAttrs(s, gid, pid, attributes)
  <2> DEFINE old == IF pid \in DOMAIN e.playerAttrs THEN e.playerAttrs[pid] ELSE <<>>
             new == [e EXCEPT !.playerAttrs = Put(@, pid, attributes @@ old)]
  <2>1. games' = [games EXCEPT ![gid] = new]
    BY <1>5 DEF SetPlayerAttrs
  <2>2. SameRoster(new, game)
    <3> HIDE DEF e, old
    <3> QED BY <1>2 DEF SameRoster, IsGame, GameFields
  <2> HIDE DEF new
  <2> QED BY <1>3, <2>1, <2>2
<1>6. CASE \/ SetPlayerCapacity(s, gid, capacity)
           \/ SetGameAttrs(s, gid, attributes)
           \/ SetGameSettings(s, gid, settings)
           \/ AdvanceGameState(s, gid, gameState)
           \/ ReplayGame(s, gid)
  <2>1. PICK new : /\ games' = [games EXCEPT ![gid] = new]
                   /\ \/ new = [game EXCEPT !.capacity = capacity]
                      \/ new = [game EXCEPT !.attrs = attributes]
                      \/ new = [game EXCEPT !.settings = settings]
                      \/ new = [game EXCEPT !.state = gameState]
                      \/ new = [game EXCEPT !.state = 130]
    BY <1>6 DEF SetPlayerCapacity, SetGameAttrs, SetGameSettings, AdvanceGameState, ReplayGame,
                SetField
  <2>2. SameRoster(new, game)
    BY <1>2, <2>1 DEF SameRoster, IsGame, GameFields
  <2> QED BY <1>3, <2>1, <2>2
<1> QED BY <1>4, <1>5, <1>6

\* No step lets a roster grow beyond the capacity the game then has.
LEMMA StepFits ==
    ASSUME LobbyInv, LobbyNext, NEW g \in DOMAIN games'
    PROVE  Fits(g)
<1>1. ASSUME games' = games PROVE Fits(g)
  BY <1>1, FitsSameRoster DEF SameRoster, LobbyInv, RostersOK
<1>2. ASSUME NEW s \in Session, Accept(s) \/ SilentLogin(s)
      PROVE  Fits(g)
  BY <1>1, <1>2 DEF Accept, SilentLogin, lobbyVars
<1>3. ASSUME NEW s \in Session, removeSession(s)
      PROVE  Fits(g)
  <2>1. GamesOf(s) \subseteq DOMAIN games
    BY DEF GamesOf
  <2> QED BY <1>1, <1>3, <2>1, LeaveFits DEF removeSession
<1>4. ASSUME NEW s \in Session, NEW req \in Requests,
             ResetDedicated(s, req) \/ StartMatchmaking(s, req)
      PROVE  Fits(g)
  BY <1>4, ResetFits, StartFits
<1>5. ASSUME NEW s \in Session, NEW msid \in 1..MaxMatches, CancelMatchmaking(s, msid)
      PROVE  Fits(g)
  BY <1>1, <1>5 DEF CancelMatchmaking
<1>6. ASSUME NEW s \in Session, NEW gid \in GameIDs, NEW pid \in PlayerIDs,
             RemovePlayer(s, gid, pid)
      PROVE  Fits(g)
  <2>1. PICK t \in sessionForPlayerID(games[gid], pid) : Leave(t, gid)
    BY <1>6 DEF RemovePlayer, RemovalTarget
  <2>2. gid \in DOMAIN games
    BY <1>6 DEF RemovePlayer
  <2>3. t \in Session
    BY <2>2, FindMember, MembersOpen DEF LobbyInv, RostersOK
  <2> QED BY <2>1, <2>2, <2>3, LeaveFits
<1>7. ASSUME NEW s \in Session, NEW gid \in GameIDs, FinalizeGame(s, gid)
      PROVE  Fits(g)
  BY <1>1, <1>7 DEF FinalizeGame
<1>8. ASSUME NEW s \in Session, NEW gid \in GameIDs,
             \/ \E report \in MeshReports : UpdateMesh(s, gid, report)
             \/ \E pid \in PlayerIDs, attributes \in AttrMaps :
                    SetPlayerAttrs(s, gid, pid, attributes)
             \/ \E capacity \in Capacities : SetPlayerCapacity(s, gid, capacity)
             \/ \E attributes \in AttrMaps : SetGameAttrs(s, gid, attributes)
             \/ \E settings \in SettingBits : SetGameSettings(s, gid, settings)
             \/ \E gameState \in GameStates : AdvanceGameState(s, gid, gameState)
             \/ ReplayGame(s, gid)
      PROVE  Fits(g)
  <2>1. \A capacity \in Capacities : capacity \in Int
    BY LobbyAssumption
  <2>2. 0 \in Int
    OBVIOUS
  <2>3. g \in DOMAIN games /\ SameRoster(games'[g], games[g])
    BY <1>8, <2>1, <2>2, RequestsKeepRosters
  <2> QED BY <2>3, FitsSameRoster
<1> QED BY <1>2, <1>3, <1>4, <1>5, <1>6, <1>7, <1>8 DEF LobbyNext

\* No join and no pairing leaves more members than the capacity the game has
\* then, although any connection may change it (queueMatch, addMember).
THEOREM LobbyNoOverfill == LobbySpec => NoOverfill
<1> DEFINE Room == \A g \in DOMAIN games' :
        (IF g \in DOMAIN games THEN Len(games[g].members) ELSE 1) < Len(games'[g].members)
            => Len(games'[g].members) <= games'[g].capacity
<1>1. ASSUME LobbyInv, [LobbyNext]_vars
      PROVE  [Room]_vars
  BY <1>1, StepFits DEF Fits
<1>2. QED
  BY <1>1, LobbyInvariant, PTL DEF LobbySpec, NoOverfill
=============================================================================

------------------------------- MODULE Server -------------------------------
(***************************************************************************)
(* The running server: one serveConn goroutine and one writeLoop goroutine *)
(* per connection, on top of the lobby registry (hpserver/server.go,       *)
(* session.go, handlers.go).                                               *)
(*                                                                         *)
(* A handler is one step of the lobby, under Server.mu, and then a list of *)
(* frames that its goroutine puts, one by one and holding no lock, on the  *)
(* bounded outbound channels of the recipients.  work[s] is what the       *)
(* goroutine of s still has to put: the notifications of the handler, the  *)
(* reply, and then what the handler had left in Session.Notifications,     *)
(* which only this goroutine fills and which is flushed after the reply.   *)
(*                                                                         *)
(* The NotifyUserAdded and NotifyExtendedData frames, which introduce a    *)
(* user just ahead of the frame that is about it, are part of that frame;  *)
(* those that silentLogin sends, about the user itself, are frames here.   *)
(* wire[s] is history: the notifications put on the channel of the         *)
(* connection, which is the order in which its client sees them.           *)
(***************************************************************************)
EXTENDS Lobby

CONSTANTS
    Commands,     \* the requests the clients of an instance make use of, and
                  \* "hangup" where they may close the connection
    Honest,       \* TRUE: clients name only games and players they were told of
    OutCap,       \* capacity of Session.outbound, 256 in newSession
    Backpressure, \* FALSE: every writer takes each frame off its channel at once
    WritesFail,   \* TRUE: writing to a connection may fail
    Locking,      \* TRUE: the Session.mu that a goroutine holds while it takes
                  \* others is modelled; FALSE: that stage is passed over
    MaxRequests   \* bound: how many requests a connection makes

ASSUME ServerAssumption ==
    /\ OutCap \in Nat \ {0}
    /\ Honest \in BOOLEAN
    /\ Backpressure \in BOOLEAN
    /\ WritesFail \in BOOLEAN
    /\ Locking \in BOOLEAN
    /\ MaxRequests \in Nat

VARIABLES
    work,         \* what each serveConn goroutine has still to put or do
    done,         \* the connections whose Session.done is closed
    dead,         \* the connections whose writeLoop gave up on an error
    outbound,     \* the length of each Session.outbound
    locked,       \* the Session.mu held by the goroutine of that session
    asked,        \* history: how many requests the connection has made
    wire          \* history: the notifications put on Session.outbound so far

deliveryVars == <<work, done, dead, outbound, locked, asked, wire>>
serverVars == <<vars, deliveryVars>>

-----------------------------------------------------------------------------
(* Frames, with what the properties tell apart, and items of work.         *)

Frame(kind, game, player, roster, value) ==
    [kind |-> kind, game |-> game, player |-> player, roster |-> roster, value |-> value]

Reply(game, player, msid) == Frame("Reply", game, player, {}, msid)
gameSetup(g, game, msid) ==
    [kind |-> "GameSetup", game |-> g, player |-> 0, roster |-> Personas(game), value |-> msid,
     state |-> game.state]
PlayerJoining(g, p) == Frame("PlayerJoining", g, p, {}, 0)
playerJoinCompletedNotification(g, p) == Frame("PlayerJoined", g, p, {}, 0)
playerRemovedNotification(g, p) == Frame("PlayerRemoved", g, p, {}, 0)
gameRemovedNotification(g) == Frame("GameRemoved", g, 0, {}, 0)
UserAdded(p) == Frame("UserAdded", 0, p, {}, 0)
ExtendedData(usid) == Frame("ExtendedData", 0, 0, {}, usid)
PlatformHost(g) == Frame("PlatformHost", g, 0, {}, 0)
PlayerAttrs(g, p) == Frame("PlayerAttrs", g, p, {}, 0)
GameChange(kind, g, value) == Frame(kind, g, 0, {}, value)

\* session.notify(frame), and broadcast(session, frame.game, frame).
To(s, frame) == [to |-> s, all |-> FALSE, frame |-> frame]
ToMembers(s, frame) == [to |-> s, all |-> TRUE, frame |-> frame]

\* A stage of the goroutine of s that is about the Session.mu of t.
Mutex(stage, t) == To(t, Frame(stage, 0, 0, {}, 0))
Mutexes == {"lock", "peek", "unlock"}

\* userNotificationsFor takes the Session.mu of each player in turn, for its
\* address and again for its QoS.
Peeks(players) == IF Locking THEN [i \in DOMAIN players |-> Mutex("peek", players[i])] ELSE <<>>

\* The introductions of the other players are collected with the own mutex held.
Introduced(s, players) ==
    IF Locking THEN <<Mutex("lock", s)>> \o Peeks(players) \o <<Mutex("unlock", s)>> ELSE <<>>

\* The frames F(m) for the members m of a roster, in its order.
ForEach(members, F(_)) == FlattenSeq([i \in DOMAIN members |-> F(members[i])])

\* Mutant: only the first of the others is told.
FirstOther(members, s) ==
    LET others == SelectSeq(members, LAMBDA m : m # s)
    IN IF others = <<>> THEN <<>> ELSE <<Head(others)>>

Others(members, s) == ForEach(members, LAMBDA m : IF m = s THEN <<>> ELSE <<m>>)

\* The frame tells its recipient that p is in game g.
Announces(frame, g, p) ==
    \/ frame.kind = "GameSetup" /\ frame.game = g /\ p \in frame.roster
    \/ frame = PlayerJoining(g, p)

\* A handler has returned: its notifications, the reply, the deferred frames.
Answer(s, notifications, reply, deferred) ==
    /\ work' = [work EXCEPT ![s] =
          notifications \o <<To(s, reply)>>
          \o [i \in DOMAIN deferred |-> To(s, deferred[i])]]
    /\ asked' = [asked EXCEPT ![s] = @ + 1]
    /\ UNCHANGED <<done, dead, outbound, locked, wire>>

\* The goroutine is at the top of its loop and reads this request.
Reads(s, command) ==
    /\ command \in Commands
    /\ s \in open
    /\ s \notin done
    /\ work[s] = <<>>
    /\ asked[s] < MaxRequests

\* The games, and the players of game g, that the client of s may name.
NamedGames(s) ==
    {g \in GameIDs : Honest => \E i \in DOMAIN wire[s] :
                        wire[s][i].kind = "GameSetup" /\ wire[s][i].game = g}
NamedPlayers(s, g) ==
    {persona[t] : t \in {u \in open : Honest =>
        \E i \in DOMAIN wire[s] : Announces(wire[s][i], g, persona[u])}}

-----------------------------------------------------------------------------
(* The connection: accept, delivery, end.                                  *)

ServerInit ==
    /\ LobbyInit
    /\ work = [s \in Session |-> <<>>]
    /\ done = {}
    /\ dead = {}
    /\ outbound = [s \in Session |-> 0]
    /\ locked = {}
    /\ asked = [s \in Session |-> 0]
    /\ wire = [s \in Session |-> <<>>]

\* Serve starts serveConn for a new connection.  A Session is not collected,
\* hence not used again, while a goroutine has still to notify it.
ServeConn(s) ==
    /\ Accept(s)
    /\ work[s] = <<>>
    /\ \A t \in Session : \A i \in DOMAIN work[t] : work[t][i].to # s
    /\ done' = done \ {s}
    /\ dead' = dead \ {s}
    /\ outbound' = [outbound EXCEPT ![s] = 0]
    /\ asked' = [asked EXCEPT ![s] = 0]
    /\ wire' = [wire EXCEPT ![s] = <<>>]
    /\ UNCHANGED <<work, locked>>

\* Mutants: a channel that does not block; a sender that waits for room even
\* when the recipient has gone.
EnqueueUnbounded(s) ==
    /\ work[s] # <<>>
    /\ ~ Head(work[s]).all
    /\ Head(work[s]).frame.kind \notin Mutexes
    /\ LET t == Head(work[s]).to IN
        /\ outbound' = [outbound EXCEPT ![t] = IF Backpressure THEN @ + 1 ELSE @]
        /\ wire' = [wire EXCEPT ![t] = Append(@, Head(work[s]).frame)]
    /\ work' = [work EXCEPT ![s] = Tail(@)]
    /\ UNCHANGED <<vars, done, dead, locked, asked>>

EnqueueAlwaysWaits(s) ==
    /\ work[s] # <<>>
    /\ ~ Head(work[s]).all
    /\ Head(work[s]).frame.kind \notin Mutexes
    /\ LET t == Head(work[s]).to IN
        /\ outbound[t] < OutCap
        /\ outbound' = [outbound EXCEPT ![t] = IF Backpressure THEN @ + 1 ELSE @]
        /\ wire' = IF Head(work[s]).frame.kind = "Reply" THEN wire
                   ELSE [wire EXCEPT ![t] = Append(@, Head(work[s]).frame)]
    /\ work' = [work EXCEPT ![s] = Tail(@)]
    /\ UNCHANGED <<vars, done, dead, locked, asked>>

\* enqueue: wait for room on the channel, or for the end of the recipient.
Enqueue(s) ==
    /\ work[s] # <<>>
    /\ ~ Head(work[s]).all
    /\ Head(work[s]).frame.kind \notin Mutexes
    /\ LET t == Head(work[s]).to IN
        \/ /\ t \notin done
           /\ outbound[t] < OutCap
           /\ outbound' = [outbound EXCEPT ![t] = IF Backpressure THEN @ + 1 ELSE @]
           /\ wire' = IF Head(work[s]).frame.kind = "Reply" THEN wire
                      ELSE [wire EXCEPT ![t] = Append(@, Head(work[s]).frame)]
        \/ /\ t \in done
           /\ UNCHANGED <<outbound, wire>>
    /\ work' = [work EXCEPT ![s] = Tail(@)]
    /\ UNCHANGED <<vars, done, dead, locked, asked>>

\* Session.mu.Lock, a Lock and Unlock of another session, Session.mu.Unlock.
TakeMutex(s) ==
    /\ work[s] # <<>>
    /\ LET t == Head(work[s]).to
           stage == Head(work[s]).frame.kind
       IN \/ /\ stage = "lock"
             /\ t \notin locked
             /\ locked' = locked \cup {t}
          \/ /\ stage = "peek"
             /\ t \notin locked
             /\ UNCHANGED locked
          \/ /\ stage = "unlock"
             /\ locked' = locked \ {t}
    /\ work' = [work EXCEPT ![s] = Tail(@)]
    /\ UNCHANGED <<vars, done, dead, outbound, asked, wire>>

\* Mutant: the sender is left out.
BroadcastToOthers(s) ==
    /\ work[s] # <<>>
    /\ Head(work[s]).all
    /\ LET frame == Head(work[s]).frame
           members == IF frame.game \in DOMAIN games THEN games[frame.game].members ELSE <<>>
           recipients == Others(members, s)
       IN work' = [work EXCEPT ![s] =
                     [i \in DOMAIN recipients |-> To(recipients[i], frame)] \o Tail(@)]
    /\ UNCHANGED <<vars, done, dead, outbound, locked, asked, wire>>

\* broadcast: take the lock again and copy the roster of that moment.
Broadcast(s) ==
    /\ work[s] # <<>>
    /\ Head(work[s]).all
    /\ LET frame == Head(work[s]).frame
           members == IF frame.game \in DOMAIN games THEN games[frame.game].members ELSE <<>>
           recipients == IF members = <<>> THEN <<s>> ELSE members
       IN work' = [work EXCEPT ![s] =
                     [i \in DOMAIN recipients |-> To(recipients[i], frame)] \o Tail(@)]
    /\ UNCHANGED <<vars, done, dead, outbound, locked, asked, wire>>

\* writeLoop takes a frame off the channel and writes it.
Write(s) ==
    /\ s \in open \ (done \cup dead)
    /\ outbound[s] > 0
    /\ outbound' = [outbound EXCEPT ![s] = @ - 1]
    /\ UNCHANGED <<vars, work, done, dead, locked, asked, wire>>

\* The write fails: writeLoop closes the connection and returns.
WriteFails(s) ==
    /\ WritesFail
    /\ s \in open \ (done \cup dead)
    /\ outbound[s] > 0
    /\ outbound' = [outbound EXCEPT ![s] = @ - 1]
    /\ dead' = dead \cup {s}
    /\ UNCHANGED <<vars, work, done, locked, asked, wire>>

\* serveConn returns: the client has gone, asks for an unknown command, or the
\* writer has failed.  The writer is cancelled and Session.done closed.
Return(s) ==
    /\ s \in open \ done
    /\ "hangup" \in Commands \/ s \in dead
    /\ work[s] = <<>>
    /\ done' = done \cup {s}
    /\ wire' = [wire EXCEPT ![s] = <<>>]
    /\ UNCHANGED <<vars, work, dead, outbound, locked, asked>>

\* Mutants: nobody is told that the game has ended; nobody is told unless it has.
FarewellPlayerOnly(recipients, g, t) ==
    ForEach(recipients, LAMBDA m : <<To(m, playerRemovedNotification(g, persona[t]))>>)

FarewellOfHost(recipients, g, t) ==
    ForEach(recipients, LAMBDA m :
        IF games[g].host = t
        THEN <<To(m, playerRemovedNotification(g, persona[t])),
               To(m, gameRemovedNotification(g))>>
        ELSE <<>>)

\* What the remaining members of game g are told about the end of member t.
Farewell(recipients, g, t) ==
    ForEach(recipients, LAMBDA m :
        <<To(m, playerRemovedNotification(g, persona[t]))>>
        \o IF games[g].host = t /\ m # t
           THEN <<To(m, gameRemovedNotification(g))>> ELSE <<>>)

\* The deferred removeSession: off the registry, then tell the others.
Teardown(s) ==
    /\ s \in done
    /\ removeSession(s)
    /\ work' = [work EXCEPT ![s] =
          IF GamesOf(s) = {} THEN <<>>
          ELSE LET g == CHOOSE x \in GamesOf(s) : TRUE
               IN Farewell(Others(games[g].members, s), g, s)]
    /\ UNCHANGED <<done, dead, outbound, locked, asked, wire>>

-----------------------------------------------------------------------------
(* The handlers.  Each takes the lobby's step, if the request is accepted, *)
(* and answers in any case.                                                *)

\* Handlers that touch no shared state, and refused requests: only a reply.
ServeOther(s) ==
    /\ Reads(s, "other")
    /\ UNCHANGED vars
    /\ Answer(s, <<>>, Reply(0, 0, 0), <<>>)

ServeLogin(s) ==
    /\ Reads(s, "login")
    /\ SilentLogin(s)
    /\ Answer(s, <<>>, Reply(0, persona'[s], 0),
              <<UserAdded(persona'[s]), ExtendedData(sessionID'[s])>>)

ServeResetDedicated(s) ==
    /\ Reads(s, "reset")
    /\ \E req \in Requests : ResetDedicated(s, req)
    /\ Answer(s, <<>>, Reply(gameID'[s], 0, 0),
              IF gameID'[s] = gameID[s] THEN <<>>
              ELSE <<gameSetup(gameID'[s], games'[gameID'[s]], 0)>>)

\* notifyMatchedGame, and the same for two requests that were paired: the ones
\* already there learn of the joiner at once, the joiner after its reply.  Both
\* setups are built under Server.mu from the addresses of the members, which are
\* read under their Session.mu; notifyMatchedGame reads them for its log too.
ServeMatchmaking(s) ==
    LET msid == nextMatchID
        paired == nextGameID' # nextGameID
        entered == gameID'[s] # gameID[s] /\ gameID'[s] # 0
        g == IF paired THEN nextGameID ELSE gameID'[s]
        others == Others(games'[g].members, s)
        request == CHOOSE r \in matchQueue : r.session = games'[g].host
    IN /\ Reads(s, "match")
       /\ \E req \in Requests : StartMatchmaking(s, req)
       /\ \/ /\ paired \/ entered
             /\ Roster(games'[g]) \cap locked = {}
             /\ Answer(s,
                  (IF paired THEN <<>> ELSE Peeks(others))
                  \o ForEach(others, LAMBDA m :
                       <<To(m, IF paired THEN gameSetup(g, games'[g], request.msid)
                               ELSE PlayerJoining(g, persona[s]))>>)
                  \o Introduced(s, others),
                  Reply(0, 0, msid),
                  <<gameSetup(g, games'[g], msid)>>)
          \/ /\ ~ (paired \/ entered)
             /\ Answer(s, <<>>, Reply(0, 0, msid), <<>>)

ServeCancel(s) ==
    /\ Reads(s, "cancel")
    /\ CancelMatchmaking(s, queuedMatchID[s])
    /\ Answer(s, <<>>, Reply(0, 0, 0), <<>>)

\* The game finalizeGameCreation is about: the one named, the one the client
\* was matched into, or its own.
FinalizedGame(s, gid) ==
    IF gid # 0 THEN gid ELSE IF pending[s] # 0 THEN pending[s] ELSE gameID[s]

ServeFinalize(s) ==
    /\ Reads(s, "finalize")
    /\ \E gid \in NamedGames(s) \cup {0} :
        /\ FinalizeGame(s, gid)
        /\ Answer(s, <<>>, Reply(0, 0, 0),
                  IF FinalizedGame(s, gid) = 0 THEN <<>>
                  ELSE <<PlatformHost(FinalizedGame(s, gid))>>)

ServeRemovePlayer(s) ==
    /\ Reads(s, "remove")
    /\ \E gid \in NamedGames(s) : \E pid \in NamedPlayers(s, gid) :
        \/ /\ RemovePlayer(s, gid, pid)
           /\ \E t \in RemovalTarget(s, gid, pid) :
                Answer(s, Farewell(games[gid].members, gid, t), Reply(0, 0, 0), <<>>)
        \/ /\ MaySend(s)
           /\ gid \notin DOMAIN games
           /\ UNCHANGED vars
           /\ Answer(s, <<To(s, playerRemovedNotification(gid, pid))>>, Reply(0, 0, 0), <<>>)

ServeUpdateMesh(s) ==
    /\ Reads(s, "mesh")
    /\ \E gid \in NamedGames(s), report \in MeshReports :
        /\ Honest => DOMAIN report \subseteq NamedPlayers(s, gid)
        /\ UpdateMesh(s, gid, report)
        /\ LET members == games[gid].members
               completed == ForEach(members, LAMBDA m : IF pending[m] = pending'[m] THEN <<>> ELSE <<m>>)
               note(p) == playerJoinCompletedNotification(gid, persona[p])
           IN Answer(s,
                ForEach(completed, LAMBDA p :
                    ForEach(Others(members, s), LAMBDA m : <<To(m, note(p))>>)),
                Reply(0, 0, 0),
                ForEach(completed, LAMBDA p : <<note(p)>>))

ServePlayerAttrs(s) ==
    /\ Reads(s, "playerAttrs")
    /\ \E gid \in NamedGames(s), attributes \in AttrMaps : \E pid \in NamedPlayers(s, gid) :
        \/ /\ SetPlayerAttrs(s, gid, pid, attributes)
           /\ Answer(s, ForEach(games[gid].members, LAMBDA m : <<To(m, PlayerAttrs(gid, pid))>>),
                     Reply(0, 0, 0), <<>>)
        \/ /\ MaySend(s)
           /\ gid \notin DOMAIN games
           /\ UNCHANGED vars
           /\ Answer(s, <<To(s, PlayerAttrs(gid, pid))>>, Reply(0, 0, 0), <<>>)

\* The setters: store the value, release the lock, broadcast.
Publish(s, command, gid, step, frame) ==
    /\ Reads(s, command)
    /\ \/ step
       \/ MaySend(s) /\ gid \notin DOMAIN games /\ UNCHANGED vars
    /\ Answer(s, <<ToMembers(s, frame)>>, Reply(0, 0, 0), <<>>)

ServeSetters(s) ==
    \E gid \in NamedGames(s) :
        \/ \E capacity \in Capacities :
            Publish(s, "capacity", gid, SetPlayerCapacity(s, gid, capacity),
                    GameChange("GameCapacity", gid, capacity))
        \* An empty PCAP changes nothing and is broadcast all the same.
        \/ Publish(s, "capacity", gid, MaySend(s) /\ UNCHANGED vars,
                   GameChange("GameCapacity", gid, 0))
        \/ \E settings \in SettingBits :
            Publish(s, "settings", gid, SetGameSettings(s, gid, settings),
                    GameChange("GameSettings", gid, settings))
        \/ \E gameState \in GameStates :
            Publish(s, "advance", gid, AdvanceGameState(s, gid, gameState),
                    GameChange("GameState", gid, gameState))
        \/ \E attributes \in AttrMaps :
            Publish(s, "gameAttrs", gid, SetGameAttrs(s, gid, attributes),
                    GameChange("GameAttrs", gid, 0))

ServeReplay(s) ==
    /\ Reads(s, "replay")
    /\ \E gid \in NamedGames(s) :
        /\ ReplayGame(s, gid)
        /\ Answer(s, <<ToMembers(s, GameChange("GameState", gid, 130))>>, Reply(0, 0, 0), <<>>)

-----------------------------------------------------------------------------
Serve(s) ==
    \/ ServeOther(s)
    \/ ServeLogin(s)
    \/ ServeResetDedicated(s)
    \/ ServeMatchmaking(s)
    \/ ServeCancel(s)
    \/ ServeFinalize(s)
    \/ ServeRemovePlayer(s)
    \/ ServeUpdateMesh(s)
    \/ ServePlayerAttrs(s)
    \/ ServeSetters(s)
    \/ ServeReplay(s)

ServerNext ==
    \E s \in Session :
        \/ ServeConn(s)
        \/ Serve(s)
        \/ Enqueue(s)
        \/ TakeMutex(s)
        \/ Broadcast(s)
        \/ Write(s)
        \/ WriteFails(s)
        \/ Return(s)
        \/ Teardown(s)

ServerSpec == ServerInit /\ [][ServerNext]_serverVars

\* A goroutine that can go on does so, a client reads what is written to it,
\* and a closed connection makes serveConn's next read fail.  Nothing makes a
\* client send a request or hang up.
Fairness ==
    \A s \in Session :
        /\ WF_serverVars(Enqueue(s))
        /\ WF_serverVars(TakeMutex(s))
        /\ WF_serverVars(Broadcast(s))
        /\ WF_serverVars(Write(s))
        /\ WF_serverVars(Return(s) /\ s \in dead)
        /\ WF_serverVars(Teardown(s))

FairServerSpec == ServerSpec /\ Fairness

-----------------------------------------------------------------------------
\* The frames a connection has been or is about to be sent.
Coming(s) ==
    ToSet(wire[s])
    \cup {item.frame : item \in UNION {{i \in ToSet(work[t]) : i.to = s /\ ~ i.all} : t \in Session}}

Earlier(s, i, P(_)) == \E j \in 1..(i - 1) : P(wire[s][j])

\* A goroutine works for a connection that is being served or just ended, and
\* no channel holds more than its capacity.
ServerTypeOK ==
    /\ LobbyTypeOK
    /\ done \subseteq Session
    /\ dead \subseteq Session
    /\ outbound \in [Session -> 0..OutCap]
    /\ \A s \in Session : work[s] # <<>> => s \in open \/ s \in done

\* Every member of a game has been told, or is being told, of every other one:
\* the setup of the joiner and the notifications of the members leave no gap
\* however joins, removals and disconnects overlap (server.go:331-358,
\* 454-502).
Announced ==
    \A g \in DOMAIN games : \A s, t \in Roster(games[g]) :
        s # t /\ s \notin done => \E frame \in Coming(s) : Announces(frame, g, persona[t])

\* A client that was set up in a game it is no longer in has been told, or is
\* being told, that the game or its own membership ended (server.go:190-199,
\* handlers.go:445-459).
EndTold ==
    \A s \in open \ done : \A g \in 1..MaxGames :
        (\E frame \in Coming(s) : frame.kind = "GameSetup" /\ frame.game = g) /\ ~ Member(s, g)
            => {gameRemovedNotification(g), playerRemovedNotification(g, persona[s])}
                 \cap Coming(s) # {}

\* "Broadcast back to game members. The client waits for this notification before
\* adopting the requested state": every member has been told, or will be, of the
\* state the game is in, by its setup or by a broadcast, although the state is
\* stored under the lock and the roster is copied in another critical section,
\* between which players join and leave (handlers.go:315-331, server.go:220-242).
StateTold ==
    \A g \in DOMAIN games : \A s \in Roster(games[g]) \ done :
        LET news == GameChange("GameState", g, games[g].state)
        IN \/ news \in Coming(s)
           \/ \E t \in Session : \E i \in DOMAIN work[t] : work[t][i].all /\ work[t][i].frame = news
           \/ \E frame \in Coming(s) :
                frame.kind = "GameSetup" /\ frame.game = g /\ frame.state = games[g].state

\* NotifyPlayerJoined for a player never overtakes the frame that introduces
\* the player to the recipient, although the two are sent by goroutines of
\* different connections: every recipient has reported the link itself, and
\* could do so only after it was told of the player (server.go:563-605).
JoinedAfterAnnounced ==
    \A s \in Session : \A i \in DOMAIN wire[s] :
        wire[s][i].kind = "PlayerJoined" =>
            Earlier(s, i, LAMBDA frame : Announces(frame, wire[s][i].game, wire[s][i].player))

\* "Existing members already completed game creation" (server.go:469): a member
\* is told of a joining player only after its own game setup.
SetupBeforeJoining ==
    \A s \in Session : \A i \in DOMAIN wire[s] :
        wire[s][i].kind = "PlayerJoining" =>
            Earlier(s, i, LAMBDA frame :
                frame.kind = "GameSetup" /\ frame.game = wire[s][i].game)

\* "serveConn always puts the RPC reply on the wire first" (server.go:412-413): the
\* setup that answers a matchmaking request comes after the reply with its MSID.
ReplyBeforeSetup ==
    \A s \in Session : \A frame \in ToSet(wire[s]) :
        frame.kind = "GameSetup" /\ frame.value # 0 =>
            \A i \in DOMAIN work[s] : work[s][i].frame # Reply(0, 0, frame.value)

\* The goroutine of s holds its own Session.mu and needs that of t.
WaitsFor(s, t) ==
    s \in locked /\ work[s] # <<>> /\ Head(work[s]) = Mutex("peek", t) /\ t \in locked

\* "The requesting connection queues its reply after this handler returns"
\* (server.go:412): the handlers do return, which they never will once they hold
\* mutexes and wait for each other's.
HandlersReturn == \A s, t \in Session : ~ (WaitsFor(s, t) /\ WaitsFor(t, s))

\* Every request is answered and all its notifications are put on their way,
\* although goroutines wait for each other's channels (session.go:117-135).
RequestsAnswered == \A s \in Session : work[s] # <<>> ~> work[s] = <<>>

\* When a connection ends, every other member of its game is told, unless it
\* leaves the game too, of which it is told, or its own connection ends
\* (server.go:190-199).
DepartureTold ==
    \A s, t \in Session : \A g \in 1..MaxGames : \A p, q \in 1..MaxLogins :
        (/\ s # t /\ s \in done
         /\ persona[s] = p /\ persona[t] = q
         /\ Member(s, g) /\ Member(t, g))
            ~> (\/ t \in done
                \/ playerRemovedNotification(g, p) \in ToSet(wire[t])
                \/ playerRemovedNotification(g, q) \in ToSet(wire[t]))

\* A goroutine that can never again return to its Read: its writer is gone and
\* its own channel full.
Wedged(s) == s \in dead \ done /\ work[s] # <<>> /\ outbound[s] = OutCap

\* When writes fail, a goroutine waits for ever only while one is wedged.
AnsweredOrWedged ==
    \A s \in Session :
        work[s] # <<>> ~> (work[s] = <<>> \/ [](\E t \in Session : Wedged(t)))
=============================================================================

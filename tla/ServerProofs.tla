---------------------------- MODULE ServerProofs ----------------------------
(***************************************************************************)
(* The running server is a lobby, whatever the goroutines of connections   *)
(* are doing, and what it owes its clients.                                *)
(***************************************************************************)
EXTENDS Server, RosterProofs

-----------------------------------------------------------------------------
(* Every step of the server is a step of the lobby, or none.               *)

LEMMA NamedAreIDs ==
    ASSUME IdentityInv, NEW s \in Session
    PROVE  /\ NamedGames(s) \subseteq GameIDs
           /\ \A gid : NamedPlayers(s, gid) \subseteq PlayerIDs
  BY DEF NamedGames, NamedPlayers, IdentityInv, IdentityTypeOK, PlayerIDs

\* The handlers.
LEMMA ServeIsLobbyStep ==
    ASSUME LobbyInv, IdentityInv, NEW s \in Session, Serve(s)
    PROVE  LobbyNext \/ UNCHANGED vars
<1>1. CASE ServeOther(s)
  BY <1>1 DEF ServeOther
<1>2. CASE ServeLogin(s)
  BY <1>2 DEF ServeLogin, LobbyNext
<1>3. CASE ServeResetDedicated(s)
  BY <1>3 DEF ServeResetDedicated, LobbyNext
<1>4. CASE ServeMatchmaking(s)
  BY <1>4 DEF ServeMatchmaking, LobbyNext
<1>5. CASE ServeCancel(s)
  <2>1. CancelMatchmaking(s, queuedMatchID[s])
    BY <1>5 DEF ServeCancel
  <2>2. queuedMatchID[s] \in 1..MaxMatches
    BY <2>1, LobbyAssumption DEF CancelMatchmaking, LobbyInv, FieldsOK
  <2> QED BY <2>1, <2>2 DEF LobbyNext
<1>6. CASE ServeFinalize(s)
  <2>1. \E gid \in GameIDs : FinalizeGame(s, gid)
    <3>1. 0 \in GameIDs
      BY LobbyAssumption DEF GameIDs
    <3> QED BY <1>6, <3>1, NamedAreIDs DEF ServeFinalize
  <2> QED BY <2>1 DEF LobbyNext
<1>7. CASE ServeRemovePlayer(s)
  BY <1>7, NamedAreIDs DEF ServeRemovePlayer, LobbyNext
<1>8. CASE ServeUpdateMesh(s)
  BY <1>8, NamedAreIDs DEF ServeUpdateMesh, LobbyNext
<1>9. CASE ServePlayerAttrs(s)
  BY <1>9, NamedAreIDs DEF ServePlayerAttrs, LobbyNext
<1>10. CASE ServeSetters(s)
  <2>1. PICK gid \in GameIDs :
          \/ \E capacity \in Capacities : SetPlayerCapacity(s, gid, capacity)
          \/ \E settings \in SettingBits : SetGameSettings(s, gid, settings)
          \/ \E gameState \in GameStates : AdvanceGameState(s, gid, gameState)
          \/ \E attributes \in AttrMaps : SetGameAttrs(s, gid, attributes)
          \/ UNCHANGED vars
    BY <1>10, NamedAreIDs DEF ServeSetters, Publish
  <2> QED BY <2>1 DEF LobbyNext
<1>11. CASE ServeReplay(s)
  BY <1>11, NamedAreIDs DEF ServeReplay, LobbyNext
<1> QED BY <1>1, <1>2, <1>3, <1>4, <1>5, <1>6, <1>7, <1>8, <1>9, <1>10, <1>11 DEF Serve

LEMMA ServerStepLobby ==
    LobbyInv /\ IdentityInv /\ [ServerNext]_serverVars => [LobbyNext]_vars
<1> SUFFICES ASSUME LobbyInv, IdentityInv, [ServerNext]_serverVars
             PROVE  LobbyNext \/ UNCHANGED vars
  OBVIOUS
<1>1. CASE UNCHANGED serverVars
  BY <1>1 DEF serverVars
<1>2. CASE ServerNext
  <2>1. PICK s \in Session :
        \/ ServeConn(s) \/ Serve(s) \/ Enqueue(s) \/ TakeMutex(s) \/ Broadcast(s)
        \/ Write(s) \/ WriteFails(s) \/ Return(s) \/ Teardown(s)
    BY <1>2 DEF ServerNext
  <2>2. CASE ServeConn(s) \/ Teardown(s)
    BY <2>2 DEF ServeConn, Teardown, LobbyNext
  <2>3. CASE Enqueue(s) \/ TakeMutex(s) \/ Broadcast(s) \/ Write(s) \/ WriteFails(s) \/ Return(s)
    BY <2>3 DEF Enqueue, TakeMutex, Broadcast, Write, WriteFails, Return
  <2> QED BY <2>1, <2>2, <2>3, ServeIsLobbyStep
<1> QED BY <1>1, <1>2

LEMMA ServerLobbyInv == ServerSpec => [](LobbyInv /\ IdentityInv)
<1>1. ServerInit => LobbyInv /\ IdentityInv
  BY LobbyInitInv, IdentityInitInv DEF ServerInit, LobbyInit
<1>2. LobbyInv /\ IdentityInv /\ [ServerNext]_serverVars => LobbyInv' /\ IdentityInv'
  BY ServerStepLobby, LobbyNextInv, LobbyStepIdentity, IdentityNextInv
<1> QED BY <1>1, <1>2, PTL DEF ServerSpec

\* What the goroutines of all connections do together is a behaviour of the
\* lobby, so that every theorem about the lobby holds for the running server
\* (server.go:86-150, 201-400).
THEOREM ServerImplementsLobby == ServerSpec => LobbySpec
<1>1. ServerInit => LobbyInit
  BY DEF ServerInit
<1> QED BY <1>1, ServerStepLobby, ServerLobbyInv, PTL DEF ServerSpec, LobbySpec

-----------------------------------------------------------------------------
(* Types of the delivery.                                                  *)

DeliveryTyped ==
    /\ DOMAIN work = Session
    /\ DOMAIN wire = Session
    /\ done \subseteq Session
    /\ dead \subseteq Session
    /\ outbound \in [Session -> 0..OutCap]
    /\ \A s \in Session : work[s] # <<>> => s \in open \/ s \in done

\* A handler leaves its caller, and nobody else, something to put.
LEMMA ServeAnswers ==
    ASSUME NEW s \in Session, Serve(s)
    PROVE  /\ s \in open \ done /\ work[s] = <<>>
           /\ \E items : work' = [work EXCEPT ![s] = items]
           /\ UNCHANGED <<done, dead, outbound, wire, open>>
<1> USE DEF Reads, Answer
<1>1. CASE ServeOther(s) \/ ServeLogin(s) \/ ServeResetDedicated(s) \/ ServeMatchmaking(s)
  BY <1>1 DEF ServeOther, ServeLogin, ServeResetDedicated, ServeMatchmaking, SilentLogin,
              Authenticate, AuthenticateAgain, ResetDedicated, StartMatchmaking, vars, identityVars
<1>2. CASE ServeCancel(s) \/ ServeFinalize(s) \/ ServeRemovePlayer(s) \/ ServeUpdateMesh(s)
  BY <1>2 DEF ServeCancel, ServeFinalize, ServeRemovePlayer, ServeUpdateMesh, CancelMatchmaking,
              FinalizeGame, RemovePlayer, UpdateMesh, vars, identityVars
<1>3. CASE ServePlayerAttrs(s) \/ ServeReplay(s)
  BY <1>3 DEF ServePlayerAttrs, ServeReplay, SetPlayerAttrs, ReplayGame, SetField, vars,
              identityVars
<1>4. CASE ServeSetters(s)
  BY <1>4 DEF ServeSetters, Publish, SetPlayerCapacity, SetGameSettings, AdvanceGameState,
              SetGameAttrs, SetField, vars, identityVars
<1> QED BY <1>1, <1>2, <1>3, <1>4 DEF Serve

LEMMA DeliveryTypedStep == DeliveryTyped /\ [ServerNext]_serverVars => DeliveryTyped'
<1> SUFFICES ASSUME DeliveryTyped, [ServerNext]_serverVars PROVE DeliveryTyped'
  OBVIOUS
<1> USE ServerAssumption DEF DeliveryTyped
<1>1. CASE UNCHANGED serverVars
  BY <1>1 DEF serverVars, deliveryVars, vars, identityVars
<1>2. ASSUME NEW s \in Session, ServeConn(s) PROVE DeliveryTyped'
  BY <1>2 DEF ServeConn, Accept, Connect
<1>3. ASSUME NEW s \in Session, Serve(s) PROVE DeliveryTyped'
  BY <1>3, ServeAnswers
<1>4. ASSUME NEW s \in Session, Enqueue(s) PROVE DeliveryTyped'
  <2>1. PICK t : t = Head(work[s]).to
    OBVIOUS
  <2>2. outbound' \in [Session -> 0..OutCap]
    <3>1. CASE /\ outbound[t] < OutCap
                /\ outbound' = [outbound EXCEPT ![t] = IF Backpressure THEN @ + 1 ELSE @]
      <4>1. ASSUME NEW u \in Session PROVE outbound'[u] \in 0..OutCap
        <5>1. outbound[u] \in 0..OutCap /\ OutCap \in Nat
          OBVIOUS
        <5>2. outbound'[u] = outbound[u] \/ (u = t /\ outbound'[u] = outbound[u] + 1)
          BY <3>1
        <5> QED BY <3>1, <5>1, <5>2
      <4> QED BY <3>1, <4>1
    <3>2. CASE UNCHANGED outbound
      BY <3>2
    <3> QED BY <1>4, <2>1, <3>1, <3>2 DEF Enqueue
  <2>3. DOMAIN wire' = Session
    BY <1>4 DEF Enqueue
  <2> QED BY <1>4, <2>2, <2>3 DEF Enqueue, vars, identityVars
<1>5. ASSUME NEW s \in Session, TakeMutex(s) \/ Broadcast(s) PROVE DeliveryTyped'
  BY <1>5 DEF TakeMutex, Broadcast, vars, identityVars
<1>6. ASSUME NEW s \in Session, Write(s) \/ WriteFails(s) \/ Return(s) PROVE DeliveryTyped'
  BY <1>6 DEF Write, WriteFails, Return, vars, identityVars
<1>7. ASSUME NEW s \in Session, Teardown(s) PROVE DeliveryTyped'
  <2>1. s \in done /\ open' = open \ {s} /\ UNCHANGED <<done, dead, outbound, wire>>
        /\ \E items : work' = [work EXCEPT ![s] = items]
    BY <1>7 DEF Teardown, removeSession, Unregister
  <2> QED BY <2>1
<1> QED BY <1>1, <1>2, <1>3, <1>4, <1>5, <1>6, <1>7 DEF ServerNext

LEMMA ServerDeliveryTyped == ServerSpec => []DeliveryTyped
<1>1. ServerInit => DeliveryTyped
  BY ServerAssumption DEF ServerInit, DeliveryTyped
<1> QED BY <1>1, DeliveryTypedStep, PTL DEF ServerSpec

\* A channel never holds more than its capacity, and only the goroutine of a
\* connection that is served or just ended has something to put, for any number
\* of connections and any capacity (session.go:117-135, server.go:86-150).
THEOREM ServerTyped == ServerSpec => []ServerTypeOK
<1>1. LobbyInv /\ IdentityInv /\ DeliveryTyped => ServerTypeOK
  <2>1. LobbyInv /\ IdentityInv => LobbyTypeOK
    BY DEF LobbyInv, IdentityInv, LobbyTypeOK, FieldsOK, RostersOK, IsGame
  <2> QED BY <2>1 DEF DeliveryTyped, ServerTypeOK
<1> QED BY <1>1, ServerLobbyInv, ServerDeliveryTyped, PTL
=============================================================================

----------------------------- MODULE LobbyPhases ----------------------------
(* The lobby registry implements SessionPhases.  The phase of a connection is *)
(* read off the rosters and the queue, not off the Session's own fields.      *)
EXTENDS Lobby

PhaseOf(s) ==
    IF s \notin open THEN <<"offline", 0>>
    ELSE IF \E g \in DOMAIN games : Member(s, g)
    THEN <<"game", CHOOSE g \in DOMAIN games : Member(s, g)>>
    ELSE IF \E r \in matchQueue : r.session = s THEN <<"queued", 0>>
    ELSE <<"idle", 0>>

Phases == INSTANCE SessionPhases WITH
    phase <- [s \in Session |-> PhaseOf(s)],
    host <- [g \in DOMAIN games |-> games[g].host],
    opened <- nextGameID - 1

\* Every behaviour of the lobby is one SessionPhases allows: whatever the
\* handlers of several connections do in whatever order, a connection moves
\* only along the state machine of server.go:203, and a game ends for all its
\* players in the step in which its host leaves (server.go:170-186,
\* handlers.go:425-442).
ImplementsPhases == Phases!PhasesSpec
=============================================================================

---------------------------- MODULE SessionPhases ---------------------------
(***************************************************************************)
(* What the lobby promises a connection, without rosters, queues or IDs: a *)
(* connection is offline, idle, queued or in one game.  It moves from one  *)
(* game to another only by way of idle; a game is born with its host, dies *)
(* when its host leaves, takes all its players back to idle then, and its  *)
(* number is never used for another game.                                  *)
(***************************************************************************)
EXTENDS Integers

CONSTANT Session

VARIABLES
    phase,   \* the phase of each connection
    host,    \* the host of each live game
    opened   \* how many games have been opened so far

phaseVars == <<phase, host, opened>>

Offline == <<"offline", 0>>
Idle == <<"idle", 0>>
Queued == <<"queued", 0>>
Playing(g) == <<"game", g>>

\* A connection that may be given a place in a game.
Available(s) == phase[s] \in {Idle, Queued}

PhasesInit ==
    /\ phase = [s \in Session |-> Offline]
    /\ host = [g \in {} |-> 0]
    /\ opened = 0

GoOnline(s) ==
    /\ phase[s] = Offline
    /\ phase' = [phase EXCEPT ![s] = Idle]
    /\ UNCHANGED <<host, opened>>

Wait(s) ==
    /\ Available(s)
    /\ phase' = [phase EXCEPT ![s] = Queued]
    /\ UNCHANGED <<host, opened>>

\* A waiting connection gives up, or one that hosts no game leaves: to idle
\* or, when its connection ends, offline.
GiveUp(s) ==
    /\ phase[s] # Offline
    /\ \A g \in DOMAIN host : host[g] # s
    /\ \E end \in {Idle, Offline} : phase' = [phase EXCEPT ![s] = end]
    /\ UNCHANGED <<host, opened>>

\* s opens a game, alone or with a partner; a partner that cannot be let in
\* is left idle.
OpenGame(s, guests) ==
    LET g == opened + 1 IN
    /\ Available(s)
    /\ \A t \in guests : Available(t)
    /\ opened' = g
    /\ host' = [x \in DOMAIN host \cup {g} |-> IF x = g THEN s ELSE host[x]]
    /\ \E in \in {{s}, {s} \cup guests} :
         phase' = [t \in Session |-> IF t \in in THEN Playing(g)
                                     ELSE IF t \in guests THEN Idle ELSE phase[t]]

Join(s, g) ==
    /\ Available(s)
    /\ g \in DOMAIN host
    /\ phase' = [phase EXCEPT ![s] = Playing(g)]
    /\ UNCHANGED <<host, opened>>

\* The host leaves its game.
CloseGame(g) ==
    LET s == host[g] IN
    /\ g \in DOMAIN host
    /\ host' = [x \in DOMAIN host \ {g} |-> host[x]]
    /\ \E end \in {Idle, Offline} :
         phase' = [t \in Session |-> IF t = s THEN end
                                     ELSE IF phase[t] = Playing(g) THEN Idle ELSE phase[t]]
    /\ UNCHANGED opened

PhasesNext ==
    \/ \E s \in Session :
        \/ GoOnline(s)
        \/ Wait(s)
        \/ GiveUp(s)
        \/ \E t \in Session : OpenGame(s, {t} \ {s})
        \/ \E g \in DOMAIN host : Join(s, g)
    \/ \E g \in DOMAIN host : CloseGame(g)

PhasesSpec == PhasesInit /\ [][PhasesNext]_phaseVars
=============================================================================

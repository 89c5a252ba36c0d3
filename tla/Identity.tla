------------------------------ MODULE Identity ------------------------------
(***************************************************************************)
(* The identity registry of the Blaze server: which connection holds which *)
(* persona and which session ID (hpserver/server.go, types.go).            *)
(*                                                                         *)
(* Every operation below runs under Server.mu in the code, so each one is  *)
(* a single atomic action.  A member of Session stands for a *Session; the *)
(* pool is finite, and an object whose connection is gone is used again by *)
(* a later connection, with every field zeroed as newSession does.         *)
(*                                                                         *)
(* AccountID always equals PersonaID (server.go:108) and the display name  *)
(* steers nothing, so neither is part of the state.                        *)
(***************************************************************************)
EXTENDS Integers

CONSTANTS
    Session,        \* the pool of connection objects
    MaxInt,         \* largest int64, scaled down for model checking
    RequestedPIDs,  \* the values of PID a silentLogin may carry
    MaxLogins       \* bound: how many logins a behaviour contains

MinInt == -MaxInt - 1

\* Persona 0 is the zero value of Session.PersonaID: not logged in.
ASSUME IdentityAssumption ==
    /\ MaxInt \in Nat \ {0}
    /\ MaxLogins \in Nat
    /\ MaxLogins < MaxInt
    /\ RequestedPIDs \subseteq MinInt..MaxInt

VARIABLES
    open,           \* the connections serveConn is running for
    persona,        \* Session.PersonaID
    sessionID,      \* Session.SessionID
    requested,      \* history: the PID the session's login asked for
    users,          \* the keys of Server.users
    activePersonas, \* Server.activePersonas
    sessions,       \* Server.sessions
    nextUserID,     \* Server.nextUserID
    nextSessionID   \* Server.nextSessionID

identityVars == <<open, persona, sessionID, requested, users, activePersonas,
                  sessions, nextUserID, nextSessionID>>

\* m[k] = v on a Go map.
Put(m, k, v) == [x \in DOMAIN m \cup {k} |-> IF x = k THEN v ELSE m[x]]

\* delete(m, k) on a Go map.
Without(m, k) == [x \in DOMAIN m \ {k} |-> m[x]]

\* Mutant: an allocator that keeps counting past the width of the field.
WrapUnbounded(n) == n

\* The value an int64 holds after an addition that may pass MaxInt.
Wrap(n) == IF n > MaxInt THEN n - 2 * (MaxInt + 1) ELSE n

IdentityInit ==
    /\ open = {}
    /\ persona = [s \in Session |-> 0]
    /\ sessionID = [s \in Session |-> 0]
    /\ requested = [s \in Session |-> 0]
    /\ users = {}
    /\ activePersonas = [p \in {} |-> 0]
    /\ sessions = [i \in {} |-> 0]
    /\ nextUserID = 1
    /\ nextSessionID = 1

\* serveConn accepts a connection and newSession allocates its Session.
Connect(s) ==
    /\ s \notin open
    /\ open' = open \cup {s}
    /\ persona' = [persona EXCEPT ![s] = 0]
    /\ sessionID' = [sessionID EXCEPT ![s] = 0]
    /\ requested' = [requested EXCEPT ![s] = 0]
    /\ UNCHANGED <<users, activePersonas, sessions, nextUserID, nextSessionID>>

\* Mutant: the loop asks only for the personas in use.
TakenByLive(p) == p \in DOMAIN activePersonas

\* The condition of the loop that looks for an unused persona.  A zero persona
\* in users does not count: its UserIdentity has PersonaID 0.
Taken(p) == p \in DOMAIN activePersonas \/ (p \in users /\ p # 0)

\* The persona the loop from nextUserID stops at: the first one not taken, k
\* int64 increments away.  At most MaxLogins personas are ever taken.
Provisioned(p) ==
    \E k \in 0..MaxLogins :
        /\ p = Wrap(nextUserID + k)
        /\ ~ Taken(p)
        /\ \A j \in 0..(k - 1) : Taken(Wrap(nextUserID + j))

\* Mutant: a requested persona is granted without looking whether it is in use.
AssignedUnchecked(pid, p) == IF pid <= 0 THEN Provisioned(p) ELSE p = pid

\* The persona a login asking for pid ends up with.
Assigned(pid, p) ==
    IF pid <= 0 \/ pid \in DOMAIN activePersonas THEN Provisioned(p) ELSE p = pid

\* authenticateSessionNamed, for a session that is not logged in yet.
Authenticate(s, pid) ==
    /\ s \in open
    /\ persona[s] = 0
    /\ nextSessionID <= MaxLogins
    /\ \E p \in MinInt..MaxInt :
        /\ Assigned(pid, p)
        /\ users' = users \cup {p}
        /\ nextUserID' = IF p >= nextUserID THEN Wrap(p + 1) ELSE nextUserID
        /\ persona' = [persona EXCEPT ![s] = p]
        /\ activePersonas' = Put(activePersonas, p, s)
    /\ requested' = [requested EXCEPT ![s] = pid]
    /\ sessionID' = [sessionID EXCEPT ![s] = nextSessionID]
    /\ sessions' = Put(sessions, nextSessionID, s)
    /\ nextSessionID' = nextSessionID + 1
    /\ UNCHANGED open

\* authenticateSessionNamed, early return: a second login changes nothing.
AuthenticateAgain(s) ==
    /\ s \in open
    /\ persona[s] # 0
    /\ UNCHANGED identityVars

\* Mutant: a disconnect leaves the persona registered.
UnregisterSessionOnly(s) ==
    /\ s \in open
    /\ open' = open \ {s}
    /\ sessions' = Without(sessions, sessionID[s])
    /\ UNCHANGED <<persona, sessionID, requested, users, activePersonas, nextUserID,
                   nextSessionID>>

\* The identity half of removeSession: drop the session's registrations, the
\* persona only while this very session holds it.
Unregister(s) ==
    /\ s \in open
    /\ open' = open \ {s}
    /\ sessions' = Without(sessions, sessionID[s])
    /\ activePersonas' =
         IF persona[s] \in DOMAIN activePersonas /\ activePersonas[persona[s]] = s
         THEN Without(activePersonas, persona[s])
         ELSE activePersonas
    /\ UNCHANGED <<persona, sessionID, requested, users, nextUserID, nextSessionID>>

IdentityNext ==
    \E s \in Session :
        \/ Connect(s)
        \/ \E pid \in RequestedPIDs : Authenticate(s, pid)
        \/ AuthenticateAgain(s)
        \/ Unregister(s)

IdentitySpec == IdentityInit /\ [][IdentityNext]_identityVars

-----------------------------------------------------------------------------
LoggedIn(s) == s \in open /\ persona[s] # 0

\* Types of the registry, an entry of a map naming a session.
IdentityTypeOK ==
    /\ open \subseteq Session
    /\ persona \in [Session -> MinInt..MaxInt]
    /\ sessionID \in [Session -> 0..MaxLogins]
    /\ requested \in [Session -> RequestedPIDs \cup {0}]
    /\ users \subseteq MinInt..MaxInt
    /\ activePersonas \in [DOMAIN activePersonas -> Session]
    /\ sessions \in [DOMAIN sessions -> Session]
    /\ nextUserID \in MinInt..MaxInt
    /\ nextSessionID \in 1..(MaxLogins + 1)

\* The two registries are exactly the live logins: a live session is found
\* under its own persona and its own session ID, nothing else is registered,
\* and no registered identity is the zero one.  Hence one live connection per
\* persona and per session ID (server.go:86-129, 139-148), which is what the
\* readme calls one canonical identity per client.
CanonicalIdentity ==
    /\ \A s \in Session : LoggedIn(s) =>
         /\ persona[s] \in DOMAIN activePersonas
         /\ activePersonas[persona[s]] = s
         /\ sessionID[s] \in DOMAIN sessions
         /\ sessions[sessionID[s]] = s
         /\ persona[s] \in users
    /\ \A p \in DOMAIN activePersonas :
         /\ p # 0
         /\ LoggedIn(activePersonas[p])
         /\ persona[activePersonas[p]] = p
    /\ \A i \in DOMAIN sessions :
         /\ i # 0
         /\ LoggedIn(sessions[i])
         /\ sessionID[sessions[i]] = i

\* The session the step logs in.
LogsIn(s) == persona[s] = 0 /\ persona'[s] # 0

\* A login that is not given the persona it asked for gets a brand-new one:
\* a persona no user, live or gone, was ever given (server.go:95-104), also
\* after the int64 allocator has wrapped round.
FreshProvision ==
    [][\A s \in Session :
        LogsIn(s) /\ persona'[s] # requested'[s] => persona'[s] \notin users]_identityVars

\* The preferred persona is reused when it is available, and a live session
\* never loses its persona to another login or disconnect (readme.md:52-55).
KeepsPersona ==
    [][\A s \in Session :
        /\ LogsIn(s) /\ requested'[s] > 0 /\ (\A t \in open : persona[t] # requested'[s])
             => persona'[s] = requested'[s]
        /\ LoggedIn(s) /\ s \in open' =>
             persona'[s] = persona[s] /\ activePersonas'[persona[s]] = s]_identityVars
=============================================================================

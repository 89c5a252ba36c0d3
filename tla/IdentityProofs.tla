--------------------------- MODULE IdentityProofs ---------------------------
(***************************************************************************)
(* The identity registry is canonical for every pool of connections, every *)
(* integer width and every number of logins below 2^63.                    *)
(***************************************************************************)
EXTENDS Identity, TLAPS

\* What the int64 allocator has handed out: positive personas and, once it has
\* wrapped, at most one negative one per login, counted up from MinInt.
HandedOut(n) == (1..MaxInt) \cup (MinInt..(MinInt + n))

Allocator ==
    /\ users \subseteq HandedOut(nextSessionID - 2)
    /\ nextUserID \in HandedOut(nextSessionID - 1)
    /\ DOMAIN activePersonas \subseteq users
    /\ DOMAIN sessions \subseteq 1..(nextSessionID - 1)
    /\ \A s \in open : persona[s] = 0 => sessionID[s] = 0

IdentityInv == IdentityTypeOK /\ CanonicalIdentity /\ Allocator

\* The allocator starts out in the inductive invariant.
LEMMA IdentityInitInv == IdentityInit => IdentityInv
BY IdentityAssumption
   DEF IdentityInit, IdentityInv, IdentityTypeOK, CanonicalIdentity, Allocator,
       HandedOut, LoggedIn, MinInt

\* The persona a login is given is not zero, is held by no live session, is
\* one the allocator may hand out next, and unless it is the requested one
\* nobody was ever given it.
LEMMA AssignedFacts ==
    ASSUME IdentityInv, NEW pid \in RequestedPIDs, NEW p \in MinInt..MaxInt,
           nextSessionID <= MaxLogins, Assigned(pid, p)
    PROVE  /\ p \in HandedOut(nextSessionID - 1)
           /\ p # 0
           /\ p \notin DOMAIN activePersonas
           /\ p # pid => p \notin users
<1> USE IdentityAssumption DEF IdentityInv, IdentityTypeOK, Allocator, MinInt
<1>1. CASE pid <= 0 \/ pid \in DOMAIN activePersonas
  <2>1. PICK k \in 0..MaxLogins :
            /\ p = Wrap(nextUserID + k)
            /\ ~ Taken(p)
            /\ \A j \in 0..(k - 1) : Taken(Wrap(nextUserID + j))
    BY <1>1 DEF Assigned, Provisioned
  <2>2. CASE k = 0
    BY <2>1, <2>2 DEF Wrap, HandedOut, Taken
  <2>3. CASE k # 0
    <3>1. Wrap(nextUserID + (k - 1)) \in users
      BY <2>1, <2>3 DEF Taken
    <3>2. Wrap(nextUserID + (k - 1)) \in HandedOut(nextSessionID - 2)
      BY <3>1
    <3>3. p \in HandedOut(nextSessionID - 1) /\ p # 0
      BY <2>1, <2>3, <3>2 DEF Wrap, HandedOut
    <3> QED BY <2>1, <3>3 DEF Taken
  <2> QED BY <2>2, <2>3
<1>2. CASE ~ (pid <= 0 \/ pid \in DOMAIN activePersonas)
  BY <1>2 DEF Assigned, HandedOut
<1> QED BY <1>1, <1>2

\* Every step of the registry preserves the inductive invariant.
LEMMA IdentityNextInv == IdentityInv /\ [IdentityNext]_identityVars => IdentityInv'
<1> SUFFICES ASSUME IdentityInv, [IdentityNext]_identityVars
             PROVE  IdentityInv'
  OBVIOUS
<1> USE IdentityAssumption DEF MinInt
<1>1. ASSUME NEW s \in Session, Connect(s)
      PROVE  IdentityInv'
  <2>1. IdentityTypeOK'
    BY <1>1 DEF IdentityInv, IdentityTypeOK, Connect
  <2>2. CanonicalIdentity'
    BY <1>1 DEF IdentityInv, IdentityTypeOK, CanonicalIdentity, LoggedIn, Connect
  <2>3. Allocator'
    BY <1>1 DEF IdentityInv, IdentityTypeOK, Allocator, HandedOut, Connect
  <2> QED BY <2>1, <2>2, <2>3 DEF IdentityInv
<1>2. ASSUME NEW s \in Session, NEW pid \in RequestedPIDs, Authenticate(s, pid)
      PROVE  IdentityInv'
  <2>1. PICK p \in MinInt..MaxInt :
            /\ Assigned(pid, p)
            /\ users' = users \cup {p}
            /\ nextUserID' = IF p >= nextUserID THEN Wrap(p + 1) ELSE nextUserID
            /\ persona' = [persona EXCEPT ![s] = p]
            /\ activePersonas' = Put(activePersonas, p, s)
    BY <1>2 DEF Authenticate
  <2>2. /\ s \in open
        /\ persona[s] = 0
        /\ nextSessionID <= MaxLogins
        /\ requested' = [requested EXCEPT ![s] = pid]
        /\ sessionID' = [sessionID EXCEPT ![s] = nextSessionID]
        /\ sessions' = Put(sessions, nextSessionID, s)
        /\ nextSessionID' = nextSessionID + 1
        /\ open' = open
    BY <1>2 DEF Authenticate
  <2>3. /\ p \in HandedOut(nextSessionID - 1)
        /\ p # 0
        /\ p \notin DOMAIN activePersonas
    BY <2>1, <2>2, AssignedFacts
  <2>4. IdentityTypeOK'
    <3>1. nextUserID' \in MinInt..MaxInt
      BY <2>1 DEF IdentityInv, IdentityTypeOK, Wrap
    <3>2. activePersonas' \in [DOMAIN activePersonas' -> Session]
      BY <2>1 DEF IdentityInv, IdentityTypeOK, Put
    <3>3. sessions' \in [DOMAIN sessions' -> Session]
      BY <2>2 DEF IdentityInv, IdentityTypeOK, Put
    <3> QED BY <2>1, <2>2, <3>1, <3>2, <3>3 DEF IdentityInv, IdentityTypeOK
  <2>5. CanonicalIdentity'
    <3>1. nextSessionID \notin DOMAIN sessions
      BY DEF IdentityInv, IdentityTypeOK, Allocator
    <3> QED BY <2>1, <2>2, <2>3, <3>1
            DEF IdentityInv, IdentityTypeOK, CanonicalIdentity, LoggedIn, Put
  <2>6. Allocator'
    <3>1. users' \subseteq HandedOut(nextSessionID' - 2)
      BY <2>1, <2>2, <2>3 DEF IdentityInv, IdentityTypeOK, Allocator, HandedOut
    <3>2. nextUserID' \in HandedOut(nextSessionID' - 1)
      BY <2>1, <2>2, <2>3 DEF IdentityInv, IdentityTypeOK, Allocator, HandedOut, Wrap
    <3>3. DOMAIN activePersonas' \subseteq users'
      BY <2>1 DEF IdentityInv, Allocator, Put
    <3>4. DOMAIN sessions' \subseteq 1..(nextSessionID' - 1)
      BY <2>2 DEF IdentityInv, IdentityTypeOK, Allocator, Put
    <3>5. \A t \in open' : persona'[t] = 0 => sessionID'[t] = 0
      BY <2>1, <2>2, <2>3 DEF IdentityInv, IdentityTypeOK, Allocator
    <3> QED BY <3>1, <3>2, <3>3, <3>4, <3>5 DEF Allocator
  <2> QED BY <2>4, <2>5, <2>6 DEF IdentityInv
<1>3. ASSUME NEW s \in Session, Unregister(s)
      PROVE  IdentityInv'
  <2>1. IdentityTypeOK'
    BY <1>3 DEF IdentityInv, IdentityTypeOK, Unregister, Without
  <2>2. CanonicalIdentity'
    <3>1. CASE persona[s] = 0
      BY <1>3, <3>1 DEF IdentityInv, IdentityTypeOK, CanonicalIdentity, Allocator,
                        LoggedIn, Unregister, Without
    <3>2. CASE persona[s] # 0
      BY <1>3, <3>2 DEF IdentityInv, IdentityTypeOK, CanonicalIdentity,
                        LoggedIn, Unregister, Without
    <3> QED BY <3>1, <3>2
  <2>3. Allocator'
    BY <1>3 DEF IdentityInv, IdentityTypeOK, Allocator, Unregister, Without
  <2> QED BY <2>1, <2>2, <2>3 DEF IdentityInv
<1>4. CASE UNCHANGED identityVars
  BY <1>4 DEF IdentityInv, IdentityTypeOK, CanonicalIdentity, Allocator, HandedOut,
              LoggedIn, identityVars
<1> QED BY <1>1, <1>2, <1>3, <1>4 DEF IdentityNext, AuthenticateAgain

\* The inductive invariant holds throughout.
THEOREM IdentityInvariant == IdentitySpec => []IdentityInv
BY IdentityInitInv, IdentityNextInv, PTL DEF IdentitySpec

\* Type correctness of the identity registry.
THEOREM IdentityTypeCorrect == IdentitySpec => []IdentityTypeOK
BY IdentityInvariant, PTL DEF IdentityInv

\* The registries are exactly the live logins, whatever personas the clients
\* ask for (authenticateSessionNamed, removeSession).
THEOREM IdentityCanonical == IdentitySpec => []CanonicalIdentity
BY IdentityInvariant, PTL DEF IdentityInv

\* A login that is refused its preferred persona gets one that nobody was ever
\* given, also after the allocator has wrapped (the loop at server.go:101).
THEOREM IdentityFresh == IdentitySpec => FreshProvision
<1> DEFINE Fresh == \A s \in Session :
        LogsIn(s) /\ persona'[s] # requested'[s] => persona'[s] \notin users
<1>1. ASSUME IdentityInv, [IdentityNext]_identityVars
      PROVE  [Fresh]_identityVars
  <2>1. ASSUME NEW s \in Session, NEW t \in Session, NEW pid \in RequestedPIDs,
               Authenticate(t, pid), LogsIn(s), persona'[s] # requested'[s]
        PROVE  persona'[s] \notin users
    <3>1. PICK p \in MinInt..MaxInt : Assigned(pid, p) /\ persona' = [persona EXCEPT ![t] = p]
      BY <2>1 DEF Authenticate
    <3>2. nextSessionID <= MaxLogins /\ requested' = [requested EXCEPT ![t] = pid]
      BY <2>1 DEF Authenticate
    <3>3. p # pid => p \notin users
      BY <1>1, <3>1, <3>2, AssignedFacts
    <3>4. s = t
      BY <2>1, <3>1, <1>1 DEF LogsIn, IdentityInv, IdentityTypeOK
    <3> QED BY <2>1, <3>1, <3>2, <3>3, <3>4, <1>1 DEF IdentityInv, IdentityTypeOK
  <2>2. ASSUME NEW s \in Session, NEW t \in Session,
               Connect(t) \/ AuthenticateAgain(t) \/ Unregister(t)
        PROVE  ~ LogsIn(s)
    BY <1>1, <2>2 DEF LogsIn, Connect, AuthenticateAgain, Unregister, identityVars,
                      IdentityInv, IdentityTypeOK
  <2> QED BY <1>1, <2>1, <2>2 DEF IdentityNext
<1>2. QED
  BY <1>1, IdentityInvariant, PTL DEF IdentitySpec, FreshProvision

\* A live login keeps its persona and its registration until it ends, and a
\* persona that no live connection holds is given to whoever asks for it
\* (authenticateSessionNamed, removeSession).
THEOREM IdentityKeeps == IdentitySpec => KeepsPersona
<1> DEFINE Keeps == \A s \in Session :
        /\ LogsIn(s) /\ requested'[s] > 0 /\ (\A t \in open : persona[t] # requested'[s])
             => persona'[s] = requested'[s]
        /\ LoggedIn(s) /\ s \in open' =>
             persona'[s] = persona[s] /\ activePersonas'[persona[s]] = s
<1>1. ASSUME IdentityInv, [IdentityNext]_identityVars
      PROVE  [Keeps]_identityVars
  <2> USE <1>1, IdentityAssumption DEF IdentityInv, IdentityTypeOK, MinInt
  <2>1. ASSUME NEW s \in Session, NEW t \in Session, NEW pid \in RequestedPIDs, Authenticate(t, pid)
        PROVE  Keeps!(s)
    <3>1. PICK p \in MinInt..MaxInt :
              /\ Assigned(pid, p)
              /\ persona' = [persona EXCEPT ![t] = p]
              /\ activePersonas' = Put(activePersonas, p, t)
      BY <2>1 DEF Authenticate
    <3>2. /\ nextSessionID <= MaxLogins
          /\ requested' = [requested EXCEPT ![t] = pid]
          /\ open' = open
          /\ persona[t] = 0
      BY <2>1 DEF Authenticate
    <3>3. p \notin DOMAIN activePersonas
      BY <3>1, <3>2, AssignedFacts
    <3>4. ASSUME LogsIn(s), requested'[s] > 0, \A u \in open : persona[u] # requested'[s]
          PROVE  persona'[s] = requested'[s]
      <4>1. s = t
        BY <3>1, <3>4 DEF LogsIn
      <4>2. pid \notin DOMAIN activePersonas
        BY <3>2, <3>4, <4>1 DEF CanonicalIdentity, LoggedIn
      <4>3. pid > 0
        BY <3>2, <3>4, <4>1
      <4> QED BY <3>1, <3>2, <4>1, <4>2, <4>3 DEF Assigned
    <3>5. ASSUME LoggedIn(s)
          PROVE  persona'[s] = persona[s] /\ activePersonas'[persona[s]] = s
      BY <3>1, <3>2, <3>3, <3>5 DEF LoggedIn, CanonicalIdentity, Put
    <3> QED BY <3>4, <3>5
  <2>2. ASSUME NEW s \in Session, NEW t \in Session,
               Connect(t) \/ AuthenticateAgain(t) \/ Unregister(t)
        PROVE  Keeps!(s)
    <3>1. ~ LogsIn(s)
      BY <2>2 DEF LogsIn, Connect, AuthenticateAgain, Unregister, identityVars
    <3>2. ASSUME LoggedIn(s), s \in open'
          PROVE  persona'[s] = persona[s] /\ activePersonas'[persona[s]] = s
      BY <2>2, <3>2 DEF LoggedIn, CanonicalIdentity, Connect, AuthenticateAgain, Unregister,
                        identityVars, Without
    <3> QED BY <3>1, <3>2
  <2> QED BY <2>1, <2>2 DEF IdentityNext
<1>2. QED
  BY <1>1, IdentityInvariant, PTL DEF IdentitySpec, KeepsPersona
=============================================================================

------------------------------ MODULE MCServer ------------------------------
(* Model checking of Server: the requests and reports of small instances. *)
EXTENDS Server

SessionSymmetry == Permutations(Session)

Quick == [PMAX |-> 3, NTOP |-> 132]
QuickMatch == {Quick}

NoReports == {}
LinksUp == [{1} -> {2}] \cup [{2} -> {2}] \cup [{3} -> {2}]
AllLinksUp == LinksUp \cup UNION {[ids -> {2}] : ids \in {{1, 2}, {1, 3}, {2, 3}}}
EmptyMap == {<<>>}

\* Everyone has connected and logged in, in some order, and all that was sent
\* then has been delivered.
WarmInit ==
    /\ open = Session
    /\ persona \in {f \in [Session -> 1..Cardinality(Session)] : IsInjective(f)}
    /\ sessionID = persona
    /\ requested = [s \in Session |-> 0]
    /\ users = 1..Cardinality(Session)
    /\ activePersonas = [p \in users |-> CHOOSE s \in Session : persona[s] = p]
    /\ sessions = activePersonas
    /\ nextUserID = Cardinality(Session) + 1
    /\ nextSessionID = Cardinality(Session) + 1
    /\ gameID = [s \in Session |-> 0]
    /\ pending = [s \in Session |-> 0]
    /\ queuedMatchID = [s \in Session |-> 0]
    /\ matchQueue = {}
    /\ games = [g \in {} |-> 0]
    /\ nextGameID = 1
    /\ nextMatchID = 1
    /\ joined = [s \in Session |-> 0]
    /\ work = [s \in Session |-> <<>>]
    /\ done = {}
    /\ dead = {}
    /\ outbound = [s \in Session |-> 0]
    /\ locked = {}
    /\ asked = [s \in Session |-> 0]
    /\ wire = [s \in Session |-> <<>>]

WarmSpec == WarmInit /\ [][ServerNext]_serverVars

\* One order of the logins: the others differ in the names of the connections only.
OneOrderInit ==
    /\ WarmInit
    /\ persona = CHOOSE f \in [Session -> 1..Cardinality(Session)] : IsInjective(f)

FairWarmSpec == OneOrderInit /\ [][ServerNext]_serverVars /\ Fairness

=============================================================================

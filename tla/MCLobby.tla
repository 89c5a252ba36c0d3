------------------------------ MODULE MCLobby -------------------------------
(* Model checking of Lobby: the requests and reports that small instances use. *)
EXTENDS LobbyPhases

SessionSymmetry == Permutations(Session)

\* A two-player request, a roomier one without a playlist, and one nobody can
\* be paired with.
Duel == [PCAP |-> <<2, 0>>, NTOP |-> 132, ATTR |-> [playlist |-> "race"]]
Open == [PCAP |-> <<>>, PMAX |-> 3, NTOP |-> 130]
Solo == [PMAX |-> 0, MCAP |-> 1, NTOP |-> 130]
Wide == [NTOP |-> 130, ATTR |-> <<>>]

DuelAndOpen == {Duel, Open}
WideAndSolo == {Wide, Solo}
WideOnly == {Wide}

NoReports == {}
LinkReports == [{1} -> {0, 2}] \cup [{2} -> {0, 2}] \cup [{3} -> {0, 2}]

LowCapacities == {-1, 2}
EmptyMap == {<<>>}
=============================================================================

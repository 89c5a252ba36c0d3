# A TLA+ model of the Need for Speed: Hot Pursuit Blaze server

This directory models the server in `hpserver/` of this repository: the registry
of identities, the lobby with its games and matchmaking queue, and the goroutines
that deliver replies and notifications to the clients; and below it the frames
(`legacyfire/`), the TLS server (`legacytls/`) and the TDF codec (`Fire2*.go`). It
holds TLA+ modules, TLC configurations, and proofs checked by TLAPS. Paths below are relative to the root
of the repository.

## 1. Inventory of the system

| Part | State | Operations | Interacts with |
|---|---|---|---|
| Identity registry (`hpserver/server.go`, `types.go`) | `Server.users`, `activePersonas`, `sessions`, `nextUserID`, `nextSessionID`; `Session.PersonaID`, `SessionID` | connect, silentLogin, second login, disconnect | lobby tables are keyed by persona |
| Lobby registry and queue (`server.go`, `handlers.go`) | `Server.games`, `matchQueue`, `nextGameID`, `nextMatchID`; `Session.GameID`, `PendingMatchmakingGame`, `QueuedMatchID` | resetDedicatedServer, startMatchmaking, cancelMatchmaking, finalizeGameCreation, removePlayer, disconnect, and the setters (state, attributes, settings, capacity, replay) | handlers of one connection change Sessions of other connections |
| Game rosters (`game.go`) | `Members`, `PlayerSlots`, `PlayerAttrs`, `Mesh`, `MeshReady` | addMember, removeMember, ensureMembershipState, refreshMeshReadiness, updateMeshConnection, setPlayerAttributes | called by the lobby under `Server.mu` |
| Connections and delivery (`server.go`, `session.go`) | `Session.outbound` (bounded), `Notifications` (deferred), `done`; one serveConn and one writeLoop goroutine each | read a request, run its handler, enqueue, flush, broadcast, write, failing write, teardown | goroutines block on each other's channels |
| Stateless handlers (`handlers.go`) | none | redirector, utility, authentication, reporting, Autolog replies | - |
| Network information (`handlers.go`, `session.go`) | addresses and QoS of a Session | updateNetworkInfo | copied into GameSetup and NotifyUserAdded |
| FIRE framing (`legacyfire/`) | a frame half read or written | Read, Write | used by serveConn and writeLoop, over TLS |
| TDF codec (`Fire2*.go`) | `Encoder.header`, `stack` | the Encoder's calls; encode and decode tags, integers, structs, lists, maps, unions, variables; FIRE2 packets | bodies of all frames |
| TLS transport (`legacytls/`) | handshake, `in` and `out` ciphers with sequence numbers, `readBuf`, `firstRecord` | Handshake (once), Read, Write | both goroutines of a connection use one Conn |
| Autolog HTTP, logging, `cmd/`, `test/` | none | - | - |

What is hard here, and what would make each part correct:

* *Identity.* Logins ask for a persona, collide, leave and come back, and the int64
  allocator can be driven to its end by a request. Correct: one live connection per
  persona, registries equal to the live logins, a provisioned persona is new.
* *Lobby.* All handlers take `Server.mu`, but the state of one Session is spread
  over its own fields, a roster and the queue, and is changed by other clients'
  requests between two of its own. Correct: idle, queued or in one game; a game
  ends with its host; compatible requests do not wait side by side.
* *Rosters.* Tables keyed by persona must forget a leaver completely, slots must
  stay put, a join completes at most once and on a mesh both ends have confirmed.
* *Delivery.* Frames go out after the lock is released, from several goroutines to
  one channel, and each goroutine may block on a full channel of another. Correct:
  nobody misses a join or an end, and nobody waits for ever.
* *Transport.* Two goroutines use one Conn, the first of them to touch it runs its
  handshake (in `hpserver` that is the reader), frames are cut into records and records into reads, and what a client sends may come in any
  order or damaged. Correct: both ends have seen the same handshake or it fails,
  nothing but the handshake is sent in the clear, frames arrive whole and in order or
  the connection ends.
* *Codec.* Lengths, terminators, arms and sign bits depend on type and nesting.
  Correct: what was encoded is decoded, to the byte, and a message that is cut
  short yields no field that was not sent.

`PROJECT.json` lists the hazards at their lines, with the properties that cover them.

## 2. Modules

| Module | Models | Role |
|---|---|---|
| `Identity` | identity registry | variables, actions, properties |
| `Lobby` (extends `Identity`) | lobby registry, queue, rosters | one action per critical section under `Server.mu` |
| `SessionPhases` | - | abstract specification: what the lobby promises a connection |
| `LobbyPhases` | - | refinement mapping from `Lobby` to `SessionPhases` |
| `Server` (extends `Lobby`) | connections and delivery | composes every lobby action with the goroutines |
| `LegacyTls` | TLS transport | server handshake, records; the client and the network as environment |
| `FireStream` (extends `LegacyTls`) | FIRE framing, Read and Write of Conn | composes framing, records and the two goroutines |
| `FrameChannel` | - | abstract specification: what framing and TLS promise together |
| `Tdf` | TDF codec and FIRE2 packets | the Encoder as a state machine, codec as operators |
| `SequenceFacts` | - | lemmas about sequences: their elements, concatenation, flattening, the least number with a property |
| `IdentityProofs` | - | theorems about `Identity` |
| `LobbyProofs`, `RosterProofs` | - | theorems about `Lobby`: sessions and queue; tables, slots and joins |
| `PhasesProofs` | - | `Lobby` implements `SessionPhases` |
| `ServerProofs`, `DeliveryProofs` | - | `Server` is a lobby; what clients are told |
| `TlsProofs` | - | theorems about `LegacyTls` within `FireStream`; `FireStream` implements `FrameChannel` |
| `MCIdentity`, `MCLobby`, `MCServer`, `MCFireStream`, `MCTdf` | - | values of the constants for TLC |

Definitions whose comment starts with "Mutant" are deliberately wrong variants of
the definition that follows them. No specification uses them; they stand for bugs
that the properties must notice.

### Identity

`Connect`, `Authenticate`, `AuthenticateAgain` and `Unregister` are `newSession`,
the two paths of `authenticateSessionNamed`, and the registry part of
`removeSession`. `Wrap` is int64 addition with the width as a parameter (`MaxInt`).
`Provisioned(p)` says where the loop over `nextUserID` stops, without recursion.
`requested` is history, for the properties only. `AccountID` equals `PersonaID` and
display names steer nothing, so both are left out.

A member of `Session` stands for a `*Session`. The pool is finite, and an object is
used again for a later connection with its fields zeroed, once nothing refers to it.

### Lobby

* `games[g]` is a record with the fields of `Game`. `mesh` holds the pairs whose
  reported status is 2, the only status the code asks for. `JoinedAt` (a time stamp)
  and `PlayerStates` (a constant) are left out.
* `matchQueue` is a set: entries are appended with growing match IDs and never
  moved, so the order of the slice is the order of `msid`.
* `StartMatchmaking` is `queueMatch` in its four outcomes: `IgnoreMatch` (already in
  a game), `JoinGame`, `PairMatch`, `EnqueueMatch`. `Visited` keeps the side effect
  of the games that were tried first. `Leave` is the part shared by `removePlayer`
  and `removeSession`.
* `finalizeGameCreation` reads the pending game without a lock and clears it under
  `Session.mu`; the two are one step here. What it clears is the field at the time of
  the write, so a read that is stale affects only which game a frame names.
* GIDs and PIDs come from the wire: any connection may name any game or player.
  `LoginFirst = TRUE` restricts an instance to clients that log in before they send
  lobby requests, which no handler enforces. `lobby_states`, `late_login` and
  most proofs do without it; slots (see `late_login`), the delivery runs and the
  theorems that say so assume it.
* `joined` is history: how often NotifyPlayerJoined was published for a session since it
  became a member. It counts the publications of the code, so that one too many shows.

### Server

* A handler is one step: the lobby's action, and the list of frames its goroutine
  has then to put on channels (`work[s]`): notifications, the reply, and what it
  deferred with `queueNotification`. `Enqueue` puts one frame, so goroutines
  interleave frame by frame. `Broadcast` takes the lock again and copies the roster
  of that moment, as `Server.broadcast` does.
* `outbound[s]` is the length of the channel. `wire[s]` is history: the notifications
  in the order they entered the channel, which is the order the client sees.
* `Write` and `WriteFails` are writeLoop; `Return` is the end of serveConn's loop,
  which closes `Session.done`; `Teardown` is the deferred `removeSession` and the
  frames it sends.
* Refused requests and handlers without shared state are `ServeOther`: a reply only.
  NotifyUserAdded and NotifyExtendedData are folded into the frame they precede, except
  those that silentLogin defers, which are frames of their own. The
  250 ms pauses of writeLoop are left out, they only slow it down.
* `Honest = TRUE`: clients name only games and players they were told of. It matters
  for `JoinedAfterAnnounced`, whose argument is that a client cannot report a link to
  a player it has not heard of.
* `Backpressure = FALSE`: writers keep up with every frame. The order of frames is
  decided at the channel, so the properties about order lose nothing.
* `Locking = TRUE`: the `Session.mu` that a goroutine holds while it takes those of
  other players (`notifyMatchedGame`, and the same for a pair) is modelled. The stages
  lock, peek and unlock are items of `work[s]` between the notifications and the reply;
  `locked` holds the mutexes that are taken. A mutex that is taken and released without
  waiting in between is part of the step it is in. Waiting for a member's mutex under
  `Server.mu`, while a GameSetup is built, is a guard of the matchmaking step, so that
  other handlers may still go on in the model: the blocking is understated, never made up.
* `gameSetup` carries the state of the game, `GameChange("GameState", ...)` the state
  that is broadcast, for `StateTold`.

### LegacyTls and FireStream

* Cryptography is symbolic: a key is the tuple of what it is derived from, Finished
  names the secret and the messages it covers, a seal is what the MAC covers. RC4 is a
  stream, so the sequence number is also the place in the key stream, and a record that
  is not the next one does not verify.
* `at["server"]` is the place in `handshake()`: `AcceptClientHello`,
  `AcceptClientKeyExchange`, `AcceptChangeCipherSpec` and `AcceptFinished` are the code
  from one `readRecord` to the next, with what is written in return; `RefuseHandshake`
  is every error return, those of writing an answer to a client that has gone
  included. `splitHandshake` joins nothing over records, so a message in
  two records is an error (`OneMessage`).
* `CallHandshake` and `ReturnHandshake` are `sync.Once`: the first caller is the
  `runner`, both get the same result. serveConn calls Handshake before it reads, and
  writeLoop when it has a frame. `hpserver` puts nothing on the channel of a connection
  before serveConn has passed Handshake and read a request (`HasWork`), so that the
  reader is the runner, and writeLoop finds the handshake over.
* The client (external) does what the client of `legacytls/conn_test.go` does, with a
  choice of version, suites and packing, and may close, alert or renegotiate. The
  network may damage, lose, repeat or swap records (`MaxFaults` times).
* A frame is its size field, one identity and a payload; `SizeLimit` stands for 0xffff
  and `MaxFragment` for 16384. `ReadPiece` is io.ReadFull over what Conn.Read hands out; what is buffered is handed out
  after the connection was closed, too. The client may give its TLS library a frame while
  the last one is still on its way out, so that two frames share a record (`WriteFrame`).
* `FrameChannel`: per direction a sequence of frames sent and the prefix of it that was
  delivered. The mapping is the identity on `sent` and `got`.

### Tdf

* `SetValue`, `List`, `Map`, `BeginStruct`, `EndStruct`, `MsgNum` and `UserIndex` are
  the calls on an Encoder. The stack of references is a tree and a path.
* A Go value is a tuple that starts with its type; bytes on the wire are the real ones.
  An int64 has `Width` bits (24 in the run), a uint32 half and a uint16 a quarter.
* `encodeBody` is the body and `typeByte` the type that `encodeValue` returns. The
  readers return a value and the bytes read, -1 for a failure, as in the code.
* `Canon` is the reference: what decoding may change (bools become integers, typed lists
  plain ones, tags upper-case and four characters, empty collections vanish).
* Left out of the inputs: collections inside maps, whose type byte the decoder does not
  undo; empty untyped lists inside lists and unions, on which the encoder panics; armed
  structs outside lists and arm 0; tags that do not start with a letter; counts and lengths
  that no encoder writes. With a negative or very large count `readList` panics in `make`
  (`Fire2Decoder.go:131`), and with a negative length so does `readBlob` (`:187`): there the
  model's value means nothing.
* `PacketRoundTrip` is exact about errors: `BlazeError.Code` is the low 32 bits of ERRC
  (`Fire2.go:99-102`), so an ERRC that is a multiple of 2^32, or that is no integer, makes
  no error. The instance has such values, and one with bits above and below.

## 3. Runs

| Run | Instance | Checks |
|---|---|---|
| `identity` | 3 connections, 5 logins, 4-bit integers, requests for 0, 1, 2 and the largest integer | `IdentityTypeOK`, `CanonicalIdentity`, `FreshProvision`, `KeepsPersona` |
| `lobby_states` | 3 connections, logged in or not, 2 games, 3 match requests of two kinds | `LobbyTypeOK`, `SessionStateMachine`, `HostIsMember`, `NoMissedMatch`, `ImplementsPhases` |
| `lobby_roster` | 3 players, 3 logins asking for the same persona, mesh reports up and down, capacities -1 and 2, all setters | `RosterTables`, `DistinctSlots`, `StableSlots`, `JoinCompletion`, `NoOverfill` |
| `late_login` | as `lobby_roster`, lobby requests before login allowed | `DistinctSlots` is violated |
| `server_members` | 3 clients that match, report links, remove and hang up | `Announced`, `EndTold`, `JoinedAfterAnnounced` |
| `server_live` | 2 clients, connected and logged in, that create, match, cancel, remove, advance, replay and hang up, two requests each, channels of capacity 1, mutexes | `StateTold`, `RequestsAnswered`, `DepartureTold` |
| `server_write_fails` | 2 clients, all handlers, arbitrary GIDs and PIDs, failing writes, channels of capacity 1 | `ServerTypeOK`, `AnsweredOrWedged` |
| `setup_order` | 3 clients that match | `SetupBeforeJoining` is violated |
| `reply_order` | 3 clients that match | `ReplyBeforeSetup` is violated |
| `lock_order` | 3 clients that match and remove, mutexes | `HandlersReturn` is violated |
| `fire_stream` | 5 kinds of client, 3 frames, records of 3 units, size field up to 3, 1 fault | `StreamTypeOK`, `Agreement`, `DataSealed`, `ImplementsFrameChannel`, `HandshakeCompletes`, `CallersReturn`, `FramesArrive` |
| `tdf` | 3 calls, 2 tags, 25 values of all types, 24-bit integers, nesting 2 | `RoundTrip`, `Truncated`, `PacketRoundTrip` |

Why the bounds are enough to be interesting. Three connections are a host, a member
and a third that joins, leaves or removes in between; two games let a request
choose, and let a player leave one game for another. Five logins over a four-bit
integer reach a wrapped allocator that runs into personas given out before. Three
match requests fill a queue with an entry in the middle. `MaxGames`, `MaxMatches`,
`MaxLogins` and `MaxRequests` are the only counters that are cut off. A channel
capacity of 1 is the smallest that blocks; the code has 256, and a longer queue only
delays the first block. Runs that start from `WarmSpec` begin with everyone connected,
logged in and idle, a state that every order of logins reaches; `FairWarmSpec` of
`server_live` fixes that order (`OneOrderInit`), because the others differ in the names of
the connections only. Logins themselves run in `server_write_fails`. In `fire_stream` a
frame of four units needs two records, one of two units leaves room for part of the next,
and one is too large for the size field; three frames, in one direction or in both, meet the reader
in the middle of a record, and two of a client may share one; one fault hits every record of the handshake and of the
data. Faults do not repair each other, so more of them only end the connection
earlier. In `tdf` the integers include both ends of the range and the values on either
side of six bits, the blob has a length of two bytes, and every prefix of every
encoding is decoded.

Symmetry over `Session` is used in safety runs only.

Fairness (`Fairness` of `Server`, in `FairServerSpec` and `FairWarmSpec`). Weak fairness of `Enqueue` and `Broadcast`: a goroutine
that can go on is scheduled, and Go serves the waiters of a channel in order. Weak
fairness of `Write`: the client reads its socket. Weak fairness of `Return` only for a
connection whose writer has failed: the closed connection makes the next read fail. Weak
fairness of `Teardown`: it is deferred. Nothing is assumed about requests or hang-ups. In
`server_live`, where nobody's write fails, everything is answered; the instance has two
connections, and with three the mutexes can stop two of them for good (`lock_order`). In
`server_write_fails` the system can really stop for good (see hazards), hence
`CHECK_DEADLOCK FALSE`, and the property says precisely when: some goroutine's own
channel was full when its writer died, so that it never comes back to the read that
would report the error, never closes `done`, and blocks whoever notifies it.

Fairness (`FairStreamSpec`). Weak fairness of the two goroutines of the server and of
the client's own steps, and of the client hanging up when both ends wait and nothing
is on its way: the client gives up, the server sets no deadline. Nothing is
assumed about frames, faults or a client that leaves. Both ends may close, after which
nothing happens, hence `CHECK_DEADLOCK FALSE`; `tdf` ends with its last call.

### Disagreements with comments and documents

* `late_login`: a member that logs in after it has entered a game gets the slot of its
  position in the roster, which another member may hold (`game.go:54`); the readme
  promises stable lobby slots under one identity.
* `setup_order`: a member can be sent NotifyPlayerJoining ahead of its own
  NotifyGameSetup, against "Existing members already completed game creation"
  (`server.go:469`). In the shortest trace the member is the host of a pair, whose setup
  is put on its channel by the goroutine that paired it (`server.go:410`); it happens to
  a joiner too, whose setup waits for its reply.
* `reply_order`: a queued request can be paired before its own reply is on the
  channel, against the order `server.go:412-413` asks for.
* `lock_order`: two handlers each hold the `Session.mu` of their own player and wait for
  the other's (`server.go:486-500`, `session.go:145-191`), so they do not return, as
  `server.go:412` takes for granted; the next GameSetup for that game waits for them
  under `Server.mu`. Entering at the same time is not enough, because a handler waits only
  for the members that its snapshot of the roster shows, the earlier ones: one of the two
  players has to be removed and to enter again while the handler with which the other
  entered still runs.

One more disagreement needs no run: `handlers.go:406-407` says that NotifyPlayerRemoved
follows the ACK, and the handler puts it on the channel before its reply.

## 4. Proofs

All theorems hold for every value of the constants that satisfies the named
assumptions.

**Identity** (`IdentityProofs`). The invariant is
`IdentityInv == IdentityTypeOK /\ CanonicalIdentity /\ Allocator`.
`CanonicalIdentity` is not inductive alone: that no login is ever given persona 0
needs to know where the allocator can be. `Allocator` says that it and the known users are positive, or
at most one step per login up from the smallest integer. With
`MaxLogins < MaxInt` (part of `IdentityAssumption`; for the real int64 it says that
the server sees fewer than 2^63 - 1 logins) a wrapped allocator does not reach 0.
From it: `IdentityTypeCorrect`, `IdentityCanonical`, and the action properties
`IdentityFresh` and `IdentityKeeps`.

**Lobby** (`LobbyProofs`). Every lobby step is an identity step or leaves the
identities alone (`LobbyStepIdentity`), so `IdentityInv` holds of the lobby too. The
lobby's own invariant `LobbyInv` adds to the properties:
`RostersOK` (every game is a record whose roster has no repetitions), `FieldsOK`
(types) and `DistinctPersonas` (no two members of a game have the same persona, so at
most one of them is not logged in: `addMember` refuses a second one). The last one
is what makes `sessionForPlayerID` find the caller itself. One lemma per operation
on rosters (`AddRoster`, `NewRoster`, `RemoveRoster`, ...), one for leaving and one
for entering a game (`LeaveInv`, `EnterInv`), one per action. From it:
`LobbyTypeCorrect`, `LobbySessionStates`, `LobbyHosts`, `LobbyCanonical`.

`LobbyNoMissedMatch` is a separate induction. Compatibility of requests is symmetric
and transitive (`CompatibleSymmetric`, `CompatibleTransitive`); a request enters the
queue only when no other one fits it, and nothing else adds to the queue
(`QueueGrowth`).

**Rosters** (`RosterProofs`). `TablesFor(game, P)` says that slots and attributes of
a game have exactly the personas of its roster as keys, that slots are distinct, and
that links and readiness name members. Each operation on a game keeps it (`AddTables`,
`RemoveTables`, `RefreshTables`, ...), read with the personas of the moment (`Kept`,
`Steady`). That the personas do not change under the tables is the other half,
`PlayersLoggedIn`: who waits or plays has a persona, and a login is kept. It needs
`LoginFirst`, without which SilentLogin changes the persona of a member and the claim
is false (`late_login`). Their conjunction `RosterInv` gives `LobbyRosterTables`,
`LobbyDistinctSlots` and `LobbyStableSlots`. That the loop of `addMember` finds a free
slot (`FirstFreeSlot`) is a pigeonhole argument over the least unused number.
`LobbyJoinCompletion` and `LobbyNoOverfill` hold logged in or not, on top of `LobbyInv`.
The second needs no more. That each publication is the first of its membership needs the
invariant `CountedAfter`: nothing has been published for a session outside every game, nor
for one whose join is pending. It is kept because sessions enter games from outside only,
and become pending in no other way (`Untold`, `MatchUntold`), and because
updateMeshConnection clears `pending` in the step that counts (`MeshCompletes`).

**Phases** (`PhasesProofs`). `LobbyInv` makes the phase of a connection, which
`LobbyPhases` defines by rosters and queue, readable from the fields of its Session
(`PhaseMeaning`); each lobby action is then shown to be one action of `SessionPhases`
or a stutter. `LobbyImplementsPhases`.

**Server** (`ServerProofs`). Every step of the server is a step of the lobby or leaves
the lobby alone (`ServerStepLobby`), hence `ServerImplementsLobby`, through which all
theorems about the lobby hold of the running server. `ServerTyped` bounds the channels.

**Delivery** (`DeliveryProofs`). Two facts carry all four theorems. First, `Informs(s)`: what a
handler leaves its goroutine to put. Whoever enters a game gets a setup that shows the
roster and the state the handler left, and the members already there get a
NotifyPlayerJoining; whoever leaves is told so; a new state is broadcast; joins are
reported complete only when all links are (`Proper`). There is one lemma for each
group of handlers, and one for the teardown (`ServeInforms`, `TeardownInforms`); the
lists are made with nested loops, so these rest on what flattening a sequence of
sequences holds (`SequenceFacts`). Second, `Persists`: what a connection has been or is
about to be sent stays so until its `done` is closed (`ItemStep`: an item is put, kept,
or copied to the members of that moment; `WireStep`: a history only grows).

* `ServerStateTold`: a member that stays while the state stays keeps the news, a
  broadcast not yet copied reaches the members of the moment it is copied, a new member
  has a setup with the current state. No assumption about clients.
* `ServerAnnounced` and `ServerEndTold`: under `LoginFirst`, which keeps the personas in
  the frames those of the players. The second needs two more invariants: only news about a
  game is broadcast (`NewsOnly`), and who was set up has logged in (`SetupsLoggedIn`).
* `ServerJoinedAfterAnnounced`: under `LoginFirst` and `Honest`. The invariant is
  `MeshTold`: a member's links in the mesh go to players it has been told of, after its own
  setup. It holds because only updateMeshConnection adds links (`ServerLinks`), and only
  from the caller to players the caller may name. Hence when a join completes, every
  recipient of NotifyPlayerJoined already has the introduction in its history
  (`NotesTold`), and the notification can only come behind it.

**TLS** (`TlsProofs`). `TlsInv` says of each direction that every sealed record on its
way was made by the side that writes there, under the key it has now and with a
sequence number it has used (`WireOK`), that numbers of the records still to be read grow,
and how the stages of the two sides relate (`StagesAgree`). Damage, loss, repetition and
swapping keep this, because none of them makes a seal. A Finished that verifies was
therefore sealed by the peer over the messages it has seen (`FinishedProvesAgreement`).
From it: `StreamTyped`, `TlsAgreement`, `TlsDataSealed`, for any number of faults, frames and
record sizes.

**Frames** (`TlsProofs`, second half). `StreamImplementsFrameChannel` shows that a
connection is a `FrameChannel`: `WriteFrame` is `Send`, the `ReadPiece` that completes a
frame is `Deliver`, every other step of handshake, network, records and reads is a
stutter. The abstract `Deliver` insists that the frame read is the next one written, which
`TlsInv` cannot say. `FrameInv` adds, per direction (`Carried`), that there is one
stream of bytes and two ways to divide it:

* `first[k]` is where the k-th frame sent begins, and between `first[k]` and `first[k+1]`
  stands its image, header and payload;
* `cut[m]` is where record number m begins; a seal of application data with number m,
  however often it was repeated and wherever it was moved, holds what is between `cut[m]`
  and `cut[m+1]`, and a Finished message, an alert or a new handshake takes no bytes;
* the writer still has the bytes from the last cut to the end of the last frame; the
  reader has `partial` from the beginning of frame `Len(got) + 1`, and behind it `readBuf`
  up to the cut of the sequence number it expects.

The stream, `first` and `cut` are bound by an existential quantifier, so no function of
the history had to be defined by recursion. `CarriedFrame`, `CarriedRecord`, `CarriedRead` and
`CarriedPiece` show what writing a frame, sealing, opening and handing out a piece do to
it. `CarriedPiece` is the heart: what io.ReadFull asks for never goes beyond
the end of the frame, because the size field it reads is the length that Write put there
(`Framable` keeps it from wrapping), and when nothing is missing the bytes are
the image of the frame. `CiphersOK` ties the sequence numbers to the stages: the Finished
message takes number 0, application data starts at 1. `FrameInv` quantifies over functions
on all naturals, which TLC cannot enumerate; it is established by the proof alone, and what
it implies is what `fire_stream` checks. `StreamAssumption` asks that a frame be an
identity and a payload of numbers, which is what lets its image be read back.

Assumptions are `IdentityAssumption`, `LobbyAssumption`, `RequestAssumption`,
`ServerAssumption`, those of the transport modules, and `LoginFirst` or `Honest` where a
theorem states them; all are evaluated by the runs.

**Only model-checked:**

* Liveness under fairness: `RequestsAnswered`, `DepartureTold`, `AnsweredOrWedged`,
  `HandshakeCompletes`, `CallersReturn`, `FramesArrive`. TLAPS has no rules for it.
* `RoundTrip`, `Truncated`, `PacketRoundTrip`: the codec is recursive over its input, and
  what a recursive operator computes needs an induction that the provers cannot do.

## 5. Not modelled

* Contents of replies and notifications beyond what the properties tell apart; the
  bodies of the stateless handlers; the values of network addresses and QoS, which are
  copied and steer nothing.
* Cryptography itself, and the certificates: `GenerateSelfSigned`, `config.go`.
* `FindTagInt`, `BuildRawFrame`, `BuildMetadata`: nothing in the repository calls them.
* The Autolog HTTP endpoint, logging, flags and listeners: no state.
* A handler that panics, a crash of the Go runtime on concurrent map access, and
  process shutdown: nothing is persisted.

## 6. Plan

Done: identity, lobby, rosters, delivery, mutexes, framing, TLS, codec; the runs above;
theorems for every safety invariant and action property and for every refinement that a
passing run checks, except those of the codec.

The codec and the liveness properties stay with TLC, for the reasons given in section 4.

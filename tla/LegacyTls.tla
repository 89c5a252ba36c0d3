----------------------------- MODULE LegacyTls -----------------------------
(***************************************************************************)
(* The TLS 1.0 / SSL 3.0 server of the game client's ProtoSSL library      *)
(* (legacytls/conn.go): handshake, record layer, and the two goroutines of *)
(* a connection, which share one sync.Once.                                *)
(*                                                                         *)
(* Cryptography is symbolic.  A key is the tuple of what it is derived     *)
(* from, a Finished value names the secret and the messages it covers, and *)
(* the seal of a record is what its MAC covers: key, sequence number (which *)
(* is also the position in the RC4 key stream), type and data.             *)
(*                                                                         *)
(* The client is external: it does what the client of conn_test.go does,   *)
(* with a choice of version, cipher suites and record packing.  A record   *)
(* may be damaged, lost, repeated or swapped with the next one in transit. *)
(***************************************************************************)
EXTENDS SequencesExt, Integers

CONSTANTS
    Hellos,       \* what clients choose: version, version of the first record,
                  \* cipher suites, and whether they split a message over records
    MaxFaults     \* bound: how many records suffer in transit

ASSUME TlsAssumption ==
    /\ Hellos \subseteq [version : {"ssl30", "tls10"}, recordVersion : {"ssl30", "tls10"},
                         offer : SUBSET {"RC4SHA", "RC4MD5", "other"}, split : BOOLEAN]
    /\ MaxFaults \in Nat

VARIABLES
    hello,        \* the choice of this client
    at,           \* how far the handshake is, on each side
    sec,          \* what each side has agreed on so far
    in,           \* Conn.in, of each side
    out,          \* Conn.out, of each side
    firstRecord,  \* Conn.firstRecord, of each side
    net,          \* the records each side has written and the other not yet read
    closed,       \* the sides that have closed the connection
    runner,       \* the goroutine that runs the sync.Once, or "none"
    call,         \* where the two goroutines of the server are in Handshake()
    faults        \* history: how many records suffered

tlsVars == <<hello, at, sec, in, out, firstRecord, net, closed, runner, call, faults>>

Sides == {"client", "server"}
Callers == {"reader", "writer"}
Versions == {"ssl30", "tls10"}
Peer(side) == IF side = "client" THEN "server" ELSE "client"

-----------------------------------------------------------------------------
(* Messages, keys and records.                                             *)

handshakeMessage(kind, body) == [kind |-> kind, body |-> body]

\* What is left of a message, or of a record, that cannot be made sense of.
Garbled == handshakeMessage("garbled", <<>>)

masterSecret(s) == <<s.version, s.premaster, s.clientRandom, s.serverRandom>>
expandKeys(s, writer) == <<masterSecret(s), s.suite, writer>>
finishedVerify(s, sender) == <<masterSecret(s), s.transcript, sender>>

\* cipherState, before and after makeCipher.
Inactive == [key |-> <<>>, seq |-> 0]
makeCipher(key) == [key |-> key, seq |-> 0]
Active(cipher) == cipher.key # <<>>

NoSeal == <<>>
recordMAC(cipher, typ, data) ==
    IF Active(cipher) THEN <<cipher.key, cipher.seq, typ, data>> ELSE NoSeal

\* writeRecord: seal, if a key is in use, and put on the wire.
Record(cipher, version, typ, data) ==
    [typ |-> typ, version |-> version, seal |-> recordMAC(cipher, typ, data), data |-> data]

\* Mutant: the sequence number and the key stream stay where they are.
StayInPlace(cipher, n) == cipher

Advance(cipher, n) == IF Active(cipher) THEN [cipher EXCEPT !.seq = @ + n] ELSE cipher

\* Mutant: the MAC does not cover the sequence number.
AnyPosition(side, r) ==
    Active(in[side]) => /\ r.seal # NoSeal
                        /\ r.seal[1] = in[side].key
                        /\ r.seal[3] = r.typ
                        /\ r.seal[4] = r.data

\* The MAC verifies under the cipher in use, if there is one.
MacOK(side, r) == Active(in[side]) => r.seal = recordMAC(in[side], r.typ, r.data)

VersionOK(side, r) ==
    \/ r.version = sec[side].version
    \/ firstRecord[side] /\ r.version = "ssl30" /\ r.typ = "handshake"

\* The next record of the other side, and what readRecord makes of it: its
\* content, or nothing when it is refused.
Incoming(side) == Head(net[Peer(side)])
CanRead(side) == side \notin closed /\ net[Peer(side)] # <<>>
readRecord(side) ==
    LET r == Incoming(side)
    IN IF ~ (VersionOK(side, r) /\ MacOK(side, r)) THEN [typ |-> "refused", data |-> <<>>]
       ELSE [typ |-> r.typ,
             data |-> IF r.seal # NoSeal /\ ~ Active(in[side]) THEN <<Garbled>> ELSE r.data]

\* A handshake record with exactly one message, of this kind: anything else is
\* an error of the handshake (splitHandshake).
OneMessage(r, kind) ==
    r.typ = "handshake" /\ Len(r.data) = 1 /\ r.data[1].kind = kind

ChangeCipherSpec == <<handshakeMessage("changeCipherSpec", <<>>)>>

-----------------------------------------------------------------------------
(* Steps that read, on either side.                                        *)

\* The record is consumed; sent is what the side writes in return.
Exchange(side, sent) ==
    net' = [net EXCEPT ![Peer(side)] = Tail(@), ![side] = @ \o sent]

\* The server's connection is closed by the caller that gets the error.
Fail(side) ==
    /\ at' = [at EXCEPT ![side] = "failed"]
    /\ closed' = IF side = "client" THEN closed \cup {side} ELSE closed

\* Mutant: the end of the connection is not noticed.
RefuseRecords(side, Expected) ==
    /\ CanRead(side)
    /\ ~ Expected
    /\ Exchange(side, <<>>)
    /\ Fail(side)
    /\ UNCHANGED <<hello, sec, in, out, firstRecord, runner, call, faults>>

\* The side, which waits for a record, gets one that is not Expected, or finds
\* the connection closed by the other side or under its feet.
Refuse(side, Expected) ==
    \/ /\ CanRead(side)
       /\ ~ Expected
       /\ Exchange(side, <<>>)
       /\ Fail(side)
       /\ UNCHANGED <<hello, sec, in, out, firstRecord, runner, call, faults>>
    \/ /\ side \in closed \/ (net[Peer(side)] = <<>> /\ Peer(side) \in closed)
       /\ Fail(side)
       /\ UNCHANGED <<hello, sec, in, out, firstRecord, net, runner, call, faults>>

-----------------------------------------------------------------------------
(* The server's handshake.  It is run by the goroutine that called first.  *)

Blank == [version |-> "tls10", suite |-> "none", premaster |-> "none",
          clientRandom |-> "none", serverRandom |-> "none", transcript |-> <<>>]

\* Handshake(): the first caller runs the handshake, the others wait for it.
CallHandshake(g) ==
    /\ call[g] = "idle"
    /\ call' = [call EXCEPT ![g] = "waiting"]
    /\ runner' = IF runner = "none" THEN g ELSE runner
    /\ UNCHANGED <<hello, at, sec, in, out, firstRecord, net, closed, faults>>

\* hsErr is what every caller gets, and closes the connection for.
ReturnHandshake(g) ==
    /\ call[g] = "waiting"
    /\ \/ /\ at["server"] = "ready"
          /\ call' = [call EXCEPT ![g] = "through"]
          /\ UNCHANGED closed
       \/ /\ at["server"] = "failed"
          /\ call' = [call EXCEPT ![g] = "error"]
          /\ closed' = closed \cup {"server"}
    /\ UNCHANGED <<hello, at, sec, in, out, firstRecord, net, runner, faults>>

\* RC4-SHA when it is offered, else RC4-MD5.
ChooseSuite(offer) ==
    IF "RC4SHA" \in offer THEN "RC4SHA" ELSE IF "RC4MD5" \in offer THEN "RC4MD5" ELSE "none"

HelloOK(r) ==
    /\ OneMessage(r, "clientHello")
    /\ r.data[1].body.version \in Versions
    /\ ChooseSuite(r.data[1].body.offer) # "none"

\* Mutant: the transcript lacks the server's own flight.
FlightForgotten(ch, flight) == <<ch>>

\* The messages the two Finished values cover, after the server's flight.
HelloTranscript(ch, flight) == <<ch>> \o flight

\* ClientHello: settle version and suite, answer with the flight in one record.
AcceptClientHello ==
    LET r == readRecord("server")
        ch == r.data[1]
        suite == ChooseSuite(ch.body.offer)
        flight == <<handshakeMessage("serverHello",
                        [version |-> ch.body.version, random |-> "sr", suite |-> suite]),
                    handshakeMessage("certificate", "cert"),
                    handshakeMessage("serverHelloDone", <<>>)>>
    IN /\ at["server"] = "hello" /\ runner # "none"
       /\ CanRead("server")
       /\ HelloOK(r)
       /\ sec' = [sec EXCEPT !["server"] =
             [@ EXCEPT !.version = ch.body.version, !.suite = suite,
                       !.clientRandom = ch.body.random, !.serverRandom = "sr",
                       !.transcript = HelloTranscript(ch, flight)]]
       /\ Exchange("server", <<Record(Inactive, ch.body.version, "handshake", flight)>>)
       /\ firstRecord' = [firstRecord EXCEPT !["server"] = FALSE]
       /\ at' = [at EXCEPT !["server"] = "keyExchange"]
       /\ UNCHANGED <<hello, in, out, closed, runner, call, faults>>

\* ClientKeyExchange: the premaster secret decrypts if it was encrypted for the
\* certificate of this server and arrived whole.
KeyExchangeOK(r) ==
    /\ OneMessage(r, "clientKeyExchange")
    /\ r.data[1].body.cert = "cert"

AcceptClientKeyExchange ==
    LET r == readRecord("server")
    IN /\ at["server"] = "keyExchange"
       /\ CanRead("server")
       /\ KeyExchangeOK(r)
       /\ sec' = [sec EXCEPT !["server"] =
             [@ EXCEPT !.premaster = r.data[1].body.premaster,
                       !.transcript = Append(@, r.data[1])]]
       /\ Exchange("server", <<>>)
       /\ at' = [at EXCEPT !["server"] = "changeCipher"]
       /\ UNCHANGED <<hello, in, out, firstRecord, closed, runner, call, faults>>

CipherChangeOK(r) == r.typ = "changeCipherSpec" /\ r.data = ChangeCipherSpec

\* From here on what the client sends is sealed.
AcceptChangeCipherSpec ==
    /\ at["server"] = "changeCipher"
    /\ CanRead("server")
    /\ CipherChangeOK(readRecord("server"))
    /\ in' = [in EXCEPT !["server"] = makeCipher(expandKeys(sec["server"], "client"))]
    /\ Exchange("server", <<>>)
    /\ at' = [at EXCEPT !["server"] = "finished"]
    /\ UNCHANGED <<hello, sec, out, firstRecord, closed, runner, call, faults>>

\* Mutant: the client's Finished is read and not compared.
AnyFinished(side, r) == OneMessage(r, "finished")

\* The Finished message of the other side covers the messages this side saw.
FinishedOK(side, r) ==
    /\ OneMessage(r, "finished")
    /\ r.data[1].body = finishedVerify(sec[side], Peer(side))

\* Finished: verify, switch the other direction, send our own.
AcceptFinished ==
    LET r == readRecord("server")
        agreed == [sec["server"] EXCEPT !.transcript = Append(@, r.data[1])]
        cipher == makeCipher(expandKeys(agreed, "server"))
    IN /\ at["server"] = "finished"
       /\ CanRead("server")
       /\ FinishedOK("server", r)
       /\ sec' = [sec EXCEPT !["server"] = agreed]
       /\ in' = [in EXCEPT !["server"] = Advance(@, 1)]
       /\ Exchange("server",
            <<Record(Inactive, agreed.version, "changeCipherSpec", ChangeCipherSpec),
              Record(cipher, agreed.version, "handshake",
                     <<handshakeMessage("finished", finishedVerify(agreed, "server"))>>)>>)
       /\ out' = [out EXCEPT !["server"] = Advance(cipher, 1)]
       /\ at' = [at EXCEPT !["server"] = "ready"]
       /\ UNCHANGED <<hello, firstRecord, closed, runner, call, faults>>

\* Every other record, and the end of the connection, fails the handshake, and so
\* does an answer that cannot be written because the client has gone.
RefuseHandshake ==
    LET r == readRecord("server") IN
    \/ at["server"] = "hello" /\ runner # "none" /\ Refuse("server", HelloOK(r))
    \/ at["server"] = "keyExchange" /\ Refuse("server", KeyExchangeOK(r))
    \/ at["server"] = "changeCipher" /\ Refuse("server", CipherChangeOK(r))
    \/ at["server"] = "finished" /\ Refuse("server", FinishedOK("server", r))
    \/ /\ at["server"] = "finished" \/ (at["server"] = "hello" /\ runner # "none")
       /\ "client" \in closed
       /\ Refuse("server", FALSE)

-----------------------------------------------------------------------------
(* The client.                                                             *)

ClientHello ==
    LET ch == handshakeMessage("clientHello",
                [version |-> hello.version, random |-> "cr", offer |-> hello.offer])
    IN /\ at["client"] = "start"
       /\ "client" \notin closed
       /\ net' = [net EXCEPT !["client"] =
             Append(@, Record(Inactive, hello.recordVersion, "handshake", <<ch>>))]
       /\ sec' = [sec EXCEPT !["client"] =
             [@ EXCEPT !.version = hello.version, !.clientRandom = "cr", !.transcript = <<ch>>]]
       /\ at' = [at EXCEPT !["client"] = "flight"]
       /\ UNCHANGED <<hello, in, out, firstRecord, closed, runner, call, faults>>

FlightOK(r) ==
    /\ r.typ = "handshake" /\ Len(r.data) = 3
    /\ r.data[1].kind = "serverHello"
    /\ r.data[1].body.version = hello.version
    /\ r.data[1].body.suite \in hello.offer
    /\ r.data[2].kind = "certificate"
    /\ r.data[3].kind = "serverHelloDone"

\* A client that packs a message into two records, as TLS allows.
KeyExchangeRecords(version, ckx) ==
    IF hello.split
    THEN <<Record(Inactive, version, "handshake", <<Garbled>>),
           Record(Inactive, version, "handshake", <<Garbled>>)>>
    ELSE <<Record(Inactive, version, "handshake", <<ckx>>)>>

\* The server's flight: key exchange, change of cipher, Finished.
ClientFlight ==
    LET r == readRecord("client")
        ckx == handshakeMessage("clientKeyExchange",
                 [cert |-> r.data[2].body, premaster |-> "pm"])
        agreed == [sec["client"] EXCEPT !.suite = r.data[1].body.suite,
                     !.serverRandom = r.data[1].body.random, !.premaster = "pm",
                     !.transcript = @ \o r.data \o <<ckx>>]
        cipher == makeCipher(expandKeys(agreed, "client"))
        finished == handshakeMessage("finished", finishedVerify(agreed, "client"))
    IN /\ at["client"] = "flight"
       /\ CanRead("client")
       /\ FlightOK(r)
       /\ Exchange("client",
            KeyExchangeRecords(agreed.version, ckx)
            \o <<Record(Inactive, agreed.version, "changeCipherSpec", ChangeCipherSpec),
                 Record(cipher, agreed.version, "handshake", <<finished>>)>>)
       /\ out' = [out EXCEPT !["client"] = Advance(cipher, 1)]
       /\ sec' = [sec EXCEPT !["client"] = [agreed EXCEPT !.transcript = Append(@, finished)]]
       /\ firstRecord' = [firstRecord EXCEPT !["client"] = FALSE]
       /\ at' = [at EXCEPT !["client"] = "changeCipher"]
       /\ UNCHANGED <<hello, in, closed, runner, call, faults>>

ClientChangeCipherSpec ==
    /\ at["client"] = "changeCipher"
    /\ CanRead("client")
    /\ CipherChangeOK(readRecord("client"))
    /\ in' = [in EXCEPT !["client"] = makeCipher(expandKeys(sec["client"], "server"))]
    /\ Exchange("client", <<>>)
    /\ at' = [at EXCEPT !["client"] = "finished"]
    /\ UNCHANGED <<hello, sec, out, firstRecord, closed, runner, call, faults>>

ClientFinished ==
    /\ at["client"] = "finished"
    /\ CanRead("client")
    /\ FinishedOK("client", readRecord("client"))
    /\ in' = [in EXCEPT !["client"] = Advance(@, 1)]
    /\ Exchange("client", <<>>)
    /\ at' = [at EXCEPT !["client"] = "ready"]
    /\ UNCHANGED <<hello, sec, out, firstRecord, closed, runner, call, faults>>

RefuseServer ==
    LET r == readRecord("client") IN
    \/ at["client"] = "flight" /\ Refuse("client", FlightOK(r))
    \/ at["client"] = "changeCipher" /\ Refuse("client", CipherChangeOK(r))
    \/ at["client"] = "finished" /\ Refuse("client", FinishedOK("client", r))

\* The client closes the connection, or gives up waiting.
HangUp ==
    /\ "client" \notin closed
    /\ closed' = closed \cup {"client"}
    /\ UNCHANGED <<hello, at, sec, in, out, firstRecord, net, runner, call, faults>>

-----------------------------------------------------------------------------
(* Transit.                                                                *)

\* What damage makes of a message: another choice, or nothing readable.
Damaged(message) ==
    {Garbled} \cup
    CASE message.kind = "clientHello" ->
            {[message EXCEPT !.body.version = v, !.body.offer = h.offer] : v \in Versions, h \in Hellos}
      [] message.kind = "serverHello" ->
            {[message EXCEPT !.body.suite = s] : s \in {"RC4SHA", "RC4MD5"}}
      [] message.kind = "certificate" -> {[message EXCEPT !.body = "other"]}
      [] OTHER -> {}

DamagedRecords(r) ==
    IF r.typ = "applicationData" THEN {[r EXCEPT !.data[1] = @ + 1]}
    ELSE {[r EXCEPT !.data = <<Garbled>>]}
         \cup UNION {{[r EXCEPT !.data[i] = m] : m \in Damaged(r.data[i])} : i \in DOMAIN r.data}

Suffers(side, records) ==
    /\ faults < MaxFaults
    /\ faults' = faults + 1
    /\ net' = [net EXCEPT ![side] = records]
    /\ UNCHANGED <<hello, at, sec, in, out, firstRecord, closed, runner, call>>

DamageRecord(side) ==
    \E i \in DOMAIN net[side] : \E r \in DamagedRecords(net[side][i]) \ {net[side][i]} :
        Suffers(side, [net[side] EXCEPT ![i] = r])

LoseRecord(side) == \E i \in DOMAIN net[side] : Suffers(side, RemoveAt(net[side], i))

RepeatRecord(side) ==
    \E i \in DOMAIN net[side] : Suffers(side, InsertAt(net[side], i, net[side][i]))

SwapRecords(side) ==
    \E i \in 1..(Len(net[side]) - 1) :
        Suffers(side, [net[side] EXCEPT ![i] = net[side][i + 1], ![i + 1] = net[side][i]])

-----------------------------------------------------------------------------
TlsInit ==
    /\ hello \in Hellos
    /\ at = [client |-> "start", server |-> "hello"]
    /\ sec = [side \in Sides |-> Blank]
    /\ in = [side \in Sides |-> Inactive]
    /\ out = [side \in Sides |-> Inactive]
    /\ firstRecord = [side \in Sides |-> TRUE]
    /\ net = [side \in Sides |-> <<>>]
    /\ closed = {}
    /\ runner = "none"
    /\ call = [g \in Callers |-> "idle"]
    /\ faults = 0

ServerHandshake ==
    \/ \E g \in Callers : ReturnHandshake(g)
    \/ AcceptClientHello
    \/ AcceptClientKeyExchange
    \/ AcceptChangeCipherSpec
    \/ AcceptFinished
    \/ RefuseHandshake

ClientHandshake ==
    \/ ClientHello
    \/ ClientFlight
    \/ ClientChangeCipherSpec
    \/ ClientFinished
    \/ RefuseServer

Transit ==
    \E side \in Sides :
        \/ DamageRecord(side)
        \/ LoseRecord(side)
        \/ RepeatRecord(side)
        \/ SwapRecords(side)

-----------------------------------------------------------------------------
Handshaken(side) == at[side] = "ready"

\* The place in the key stream at which a record is sealed.
Place(r) == <<r.seal[1], r.seal[2]>>

\* The two ends of a handshake that completes have seen the same messages, hence
\* settled on the same version, cipher suite and keys, whatever happened to the
\* records on their way (conn.go:159-192, 324-340).
Agreement ==
    \A side \in Sides :
        Handshaken(side) => sec["server"] = sec["client"]

\* Nothing but handshake messages leaves in the clear, and no two records of one
\* direction are sealed at the same place of the key stream, from the Finished
\* message on (conn.go:94-98, 333-340, 434-452).
DataSealed ==
    \A side \in Sides : \A i \in DOMAIN net[side] :
        /\ net[side][i].typ \notin {"handshake", "changeCipherSpec"} => net[side][i].seal # NoSeal
        /\ faults = 0 => \A j \in DOMAIN net[side] \ {i} :
              net[side][i].seal # NoSeal /\ net[side][j].seal # NoSeal
                => Place(net[side][i]) # Place(net[side][j])
=============================================================================

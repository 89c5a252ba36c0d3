----------------------------- MODULE TlsProofs ------------------------------
(***************************************************************************)
(* The handshake and the record layer of legacytls, for every choice of    *)
(* clients, frames and sizes, and whatever happens to records in transit;  *)
(* then the frames above them: a connection implements FrameChannel.       *)
(***************************************************************************)
EXTENDS FireStream, SequenceFacts

-----------------------------------------------------------------------------
(* The seals in one direction, in order.                                   *)

Sealed(r) == r.seal # NoSeal

\* Sealed records stand in the order of their sequence numbers.
InOrder(s) ==
    \A i, j \in DOMAIN s :
        i < j /\ Sealed(s[i]) /\ Sealed(s[j]) => s[i].seal[2] < s[j].seal[2]

LEMMA TailInOrder ==
    ASSUME NEW s, IsSeq(s), s # <<>>, InOrder(s)
    PROVE  InOrder(Tail(s))
<1>1. /\ DOMAIN s = 1..Len(s) /\ Len(s) \in Nat
      /\ IsSeq(Tail(s)) /\ Len(Tail(s)) = Len(s) - 1
      /\ \A i \in 1..(Len(s) - 1) : Tail(s)[i] = s[i + 1]
  BY IsSeqFacts, TailIsSeq
<1>2. DOMAIN Tail(s) = 1..(Len(s) - 1)
  BY <1>1, IsSeqFacts
<1> SUFFICES ASSUME NEW i \in 1..(Len(s) - 1), NEW j \in 1..(Len(s) - 1), i < j,
                    Sealed(Tail(s)[i]), Sealed(Tail(s)[j])
             PROVE  Tail(s)[i].seal[2] < Tail(s)[j].seal[2]
  BY <1>2 DEF InOrder
<1>3. i + 1 \in DOMAIN s /\ j + 1 \in DOMAIN s /\ i + 1 < j + 1
  BY <1>1
<1>4. Tail(s)[i] = s[i + 1] /\ Tail(s)[j] = s[j + 1]
  BY <1>1
<1> QED BY <1>3, <1>4 DEF InOrder

SealedBefore(s, q) == \A r \in ToSet(s) : Sealed(r) => r.seal[2] < q

\* Only the last record is sealed, with this number.
SealsLast(t, q) == \A j \in 1..Len(t) : Sealed(t[j]) => j = Len(t) /\ t[j].seal[2] = q

\* What a side writes comes after what it has written.
LEMMA ConcatInOrder ==
    ASSUME NEW s, NEW t, NEW q \in Nat, IsSeq(s), IsSeq(t), InOrder(s),
           SealedBefore(s, q), SealsLast(t, q)
    PROVE  InOrder(s \o t)
<1>1. /\ DOMAIN s = 1..Len(s) /\ Len(s) \in Nat /\ \A i \in 1..Len(s) : s[i] \in ToSet(s)
      /\ DOMAIN t = 1..Len(t) /\ Len(t) \in Nat
  BY IsSeqFacts
<1> PICK u : u = s \o t
  OBVIOUS
<1>2. /\ IsSeq(u) /\ Len(u) = Len(s) + Len(t)
      /\ \A i \in 1..(Len(s) + Len(t)) : u[i] = IF i <= Len(s) THEN s[i] ELSE t[i - Len(s)]
  BY ConcatIsSeq
<1>3. DOMAIN u = 1..(Len(s) + Len(t))
  BY <1>2, IsSeqFacts
<1> SUFFICES ASSUME NEW i \in 1..(Len(s) + Len(t)), NEW j \in 1..(Len(s) + Len(t)), i < j,
                    Sealed(u[i]), Sealed(u[j])
             PROVE  u[i].seal[2] < u[j].seal[2]
  BY <1>3 DEF InOrder
<1>4. CASE j <= Len(s)
  <2>1. i \in DOMAIN s /\ j \in DOMAIN s /\ u[i] = s[i] /\ u[j] = s[j]
    BY <1>1, <1>2, <1>4
  <2> QED BY <2>1 DEF InOrder
<1>5. CASE j > Len(s)
  <2>1. j - Len(s) \in 1..Len(t) /\ u[j] = t[j - Len(s)]
    BY <1>1, <1>2, <1>5
  <2>2. j - Len(s) = Len(t) /\ u[j].seal[2] = q
    BY <2>1 DEF SealsLast
  <2>3. CASE i <= Len(s)
    <3>1. i \in 1..Len(s) /\ u[i] = s[i]
      BY <1>1, <1>2, <2>3
    <3> QED BY <1>1, <2>2, <3>1 DEF SealedBefore
  <2>4. CASE i > Len(s)
    <3>1. i - Len(s) \in 1..Len(t) /\ u[i] = t[i - Len(s)] /\ i - Len(s) # Len(t)
      BY <1>1, <1>2, <2>2, <2>4
    <3> QED BY <3>1 DEF SealsLast
  <2> QED BY <1>1, <2>3, <2>4
<1> QED BY <1>1, <1>4, <1>5
-----------------------------------------------------------------------------
(* The invariant.                                                          *)

IsCipher(cipher) == cipher = [key |-> cipher.key, seq |-> cipher.seq] /\ cipher.seq \in Nat

IsSecrets(s) ==
    s = [version |-> s.version, suite |-> s.suite, premaster |-> s.premaster,
         clientRandom |-> s.clientRandom, serverRandom |-> s.serverRandom,
         transcript |-> s.transcript]

IsRecord(r) == r = [typ |-> r.typ, version |-> r.version, seal |-> r.seal, data |-> r.data]

ServerStages == {"hello", "keyExchange", "changeCipher", "finished", "ready", "failed"}
ClientStages == {"start", "flight", "changeCipher", "finished", "ready", "failed"}

TlsTyped ==
    /\ at \in [Sides -> ServerStages \cup ClientStages]
    /\ at["server"] \in ServerStages
    /\ at["client"] \in ClientStages
    /\ DOMAIN sec = Sides /\ \A side \in Sides : IsSecrets(sec[side])
    /\ DOMAIN in = Sides
    /\ DOMAIN out = Sides /\ \A side \in Sides : IsCipher(out[side])
    /\ DOMAIN net = Sides
    /\ closed \subseteq Sides
    /\ call \in [Callers -> {"idle", "waiting", "through", "error"}]
    /\ faults \in Nat
    /\ packet \in [Sides -> Seq(Nat)]
    /\ DOMAIN partial = Sides
    /\ \A side \in Sides : partial[side] # <<>> => Missing(partial[side]) > 0

\* How far one side is says how far the other one must be, and which keys are in
\* use: only the Finished of a client that has seen the same messages takes the
\* server to its end, and only the Finished of the server takes the client there.
StagesAgree ==
    /\ at["server"] = "ready" => sec["server"] = sec["client"] /\ Active(out["client"])
    /\ at["client"] = "ready" => at["server"] = "ready"
    /\ at["client"] = "finished" => Active(in["client"])
    /\ at["server"] = "finished" => in["server"].key = expandKeys(sec["server"], "client")
    /\ Active(out["server"]) <=> at["server"] = "ready"
    /\ at["client"] \in {"changeCipher", "finished", "ready"} => Active(out["client"])
    /\ Active(out["client"]) =>
          /\ out["client"].key = expandKeys(sec["client"], "client")
          /\ at["client"] \notin {"start", "flight"}
    /\ \A g \in Callers : call[g] = "through" => at["server"] = "ready"

\* The only sealed handshake message of the client is the Finished at the end of
\* its transcript; a request for a new handshake makes no sense to the reader.
ClientSealOK(content) ==
    \/ content = <<Garbled>>
    \/ \E covered :
          /\ content = <<handshakeMessage("finished",
                            <<masterSecret(sec["client"]), covered, "client">>)>>
          /\ sec["client"].transcript = Append(covered, content[1])

\* A seal was made by this side, with the key it writes with.
SealOK(side, seal) ==
    /\ Active(out[side])
    /\ seal = <<seal[1], seal[2], seal[3], seal[4]>>
    /\ seal[1] = out[side].key
    /\ seal[2] \in Nat /\ seal[2] < out[side].seq
    /\ side = "client" /\ seal[3] = "handshake" => ClientSealOK(seal[4])

\* A record on its way: its seal is genuine although its content may not be.
RecordOK(side, r) ==
    /\ IsRecord(r)
    /\ r.typ \notin {"handshake", "changeCipherSpec"} => Sealed(r)
    /\ r.typ = "applicationData" => r.data \in Seq(Nat) /\ Len(r.data) <= MaxFragment
    /\ Sealed(r) => SealOK(side, r.seal)

WireOK(side) ==
    /\ IsSeq(net[side])
    /\ \A r \in ToSet(net[side]) : RecordOK(side, r)
    /\ faults = 0 => InOrder(net[side])

TlsInv == TlsTyped /\ StagesAgree /\ \A side \in Sides : WireOK(side)

-----------------------------------------------------------------------------
(* What a step may do to the records on their way.                         *)

\* The seals of this side stay genuine.
KeepsSeals(side) ==
    Active(out[side]) =>
        /\ out'[side].key = out[side].key
        /\ out'[side].seq >= out[side].seq
        /\ sec'["client"] = sec["client"]

LEMMA RecordKept ==
    ASSUME NEW side \in Sides, NEW r, RecordOK(side, r), KeepsSeals(side),
           IsCipher(out[side]), IsCipher(out'[side])
    PROVE  RecordOK(side, r)'
<1>1. ASSUME Sealed(r) PROVE SealOK(side, r.seal)'
  <2>1. SealOK(side, r.seal)
    BY <1>1 DEF RecordOK
  <2>2. /\ Active(out[side])
        /\ out'[side].key = out[side].key
        /\ out'[side].seq >= out[side].seq
        /\ sec'["client"] = sec["client"]
    BY <2>1 DEF SealOK, KeepsSeals
  <2>3. Active(out'[side])
    BY <2>2 DEF Active
  <2>4. r.seal[2] \in Nat /\ r.seal[2] < out'[side].seq
    <3> PICK n : n = r.seal[2]
      OBVIOUS
    <3>1. n \in Nat /\ n < out[side].seq /\ out[side].seq \in Nat /\ out'[side].seq \in Nat
      BY <2>1 DEF SealOK, IsCipher
    <3> QED BY <2>2, <3>1
  <2>5. ClientSealOK(r.seal[4]) => ClientSealOK(r.seal[4])'
    BY <2>2 DEF ClientSealOK
  <2> QED BY <2>1, <2>2, <2>3, <2>4, <2>5 DEF SealOK
<1> QED BY <1>1 DEF RecordOK, IsRecord, Sealed

\* Records that were there, or that are fine.
LEMMA WireKept ==
    ASSUME NEW side \in Sides, WireOK(side), KeepsSeals(side),
           IsCipher(out[side]), IsCipher(out'[side]),
           IsSeq(net'[side]),
           \A r \in ToSet(net'[side]) : r \in ToSet(net[side]) \/ RecordOK(side, r)',
           faults' = 0 => InOrder(net'[side])
    PROVE  WireOK(side)'
<1>1. ASSUME NEW r \in ToSet(net'[side]) PROVE RecordOK(side, r)'
  <2>1. CASE r \in ToSet(net[side])
    <3>1. RecordOK(side, r)
      BY <2>1 DEF WireOK
    <3> QED BY <3>1, RecordKept
  <2> QED BY <2>1
<1> QED BY <1>1 DEF WireOK, IsSeq, ToSet, InOrder, Sealed

LEMMA WireSame ==
    ASSUME NEW side \in Sides, WireOK(side), KeepsSeals(side),
           IsCipher(out[side]), IsCipher(out'[side]),
           net'[side] = net[side], faults' = faults
    PROVE  WireOK(side)'
<1>1. IsSeq(net'[side]) /\ (faults' = 0 => InOrder(net'[side]))
  BY DEF WireOK
<1> QED BY <1>1, WireKept

LEMMA WireRead ==
    ASSUME NEW side \in Sides, WireOK(side), KeepsSeals(side),
           IsCipher(out[side]), IsCipher(out'[side]),
           net[side] # <<>>, net'[side] = Tail(net[side]), faults' = faults
    PROVE  WireOK(side)'
<1>1. IsSeq(net[side]) /\ (faults = 0 => InOrder(net[side]))
  BY DEF WireOK
<1>2. IsSeq(net'[side]) /\ ToSet(net'[side]) \subseteq ToSet(net[side])
  BY <1>1, TailIsSeq
<1>3. faults' = 0 => InOrder(net'[side])
  BY <1>1, TailInOrder
<1> QED BY <1>2, <1>3, WireKept

\* The numbers of seals that are already on their way.
LEMMA SealsBefore ==
    ASSUME NEW side \in Sides, WireOK(side)
    PROVE  SealedBefore(net[side], out[side].seq)
  BY DEF WireOK, RecordOK, SealOK, SealedBefore

LEMMA WireWrite ==
    ASSUME NEW side \in Sides, NEW t, WireOK(side), KeepsSeals(side),
           IsCipher(out[side]), IsCipher(out'[side]),
           net'[side] = net[side] \o t, faults' = faults,
           IsSeq(t), \A r \in ToSet(t) : RecordOK(side, r)',
           SealsLast(t, out[side].seq) \/ (~ Active(out[side]) /\ \E q \in Nat : SealsLast(t, q))
    PROVE  WireOK(side)'
<1>1. IsSeq(net[side]) /\ (faults = 0 => InOrder(net[side]))
  BY DEF WireOK
<1>2. IsSeq(net'[side]) /\ ToSet(net'[side]) \subseteq ToSet(net[side]) \cup ToSet(t)
  BY <1>1, ConcatIsSeq
<1>3. faults' = 0 => InOrder(net'[side])
  <2>1. ASSUME NEW q \in Nat, SealsLast(t, q), SealedBefore(net[side], q), faults = 0
        PROVE  InOrder(net[side] \o t)
    <3> PICK s : s = net[side]
      OBVIOUS
    <3>1. IsSeq(s) /\ IsSeq(t) /\ InOrder(s) /\ SealedBefore(s, q) /\ SealsLast(t, q)
      BY <1>1, <2>1
    <3> QED BY <3>1, ConcatInOrder
  <2>2. CASE SealsLast(t, out[side].seq)
    BY <2>1, <2>2, SealsBefore DEF IsCipher
  <2>3. CASE ~ Active(out[side]) /\ \E q \in Nat : SealsLast(t, q)
    <3>1. PICK q \in Nat : SealsLast(t, q)
      BY <2>3
    <3>2. SealedBefore(net[side], q)
      BY <2>3 DEF SealedBefore, WireOK, RecordOK, SealOK
    <3> QED BY <2>1, <3>1, <3>2
  <2> QED BY <2>2, <2>3
<1> QED BY <1>2, <1>3, WireKept
-----------------------------------------------------------------------------
(* Records as they are written.                                            *)

LEMMA RecordShape ==
    ASSUME NEW cipher, NEW version, NEW typ, NEW data, NEW r,
           r = Record(cipher, version, typ, data)
    PROVE  /\ IsRecord(r)
           /\ r.typ = typ /\ r.data = data
           /\ Sealed(r) <=> Active(cipher)
           /\ Active(cipher) => r.seal = <<cipher.key, cipher.seq, typ, data>>
<1>1. /\ IsRecord(r) /\ r.typ = typ /\ r.data = data
      /\ r.seal = recordMAC(cipher, typ, data)
  BY DEF Record, IsRecord
<1>2. Active(cipher) => r.seal = <<cipher.key, cipher.seq, typ, data>>
  BY <1>1 DEF recordMAC
<1>3. ~ Active(cipher) => r.seal = NoSeal
  BY <1>1 DEF recordMAC
<1>4. <<cipher.key, cipher.seq, typ, data>> # NoSeal
  BY DEF NoSeal
<1> QED BY <1>1, <1>2, <1>3, <1>4 DEF Sealed

\* Handshake records are written in the clear before a key is in use.
PlainRecord(r) == IsRecord(r) /\ r.typ \in {"handshake", "changeCipherSpec"} /\ ~ Sealed(r)

LEMMA WrittenPlain ==
    ASSUME NEW version, NEW typ \in {"handshake", "changeCipherSpec"}, NEW data
    PROVE  PlainRecord(Record(Inactive, version, typ, data))
<1> PICK r : r = Record(Inactive, version, typ, data)
  OBVIOUS
<1>1. ~ Active(Inactive)
  BY DEF Active, Inactive
<1>2. IsRecord(r) /\ r.typ = typ /\ ~ Sealed(r)
  BY <1>1, RecordShape
<1> QED BY <1>2 DEF PlainRecord

LEMMA PlainOK ==
    ASSUME NEW side \in Sides, NEW r, PlainRecord(r)
    PROVE  RecordOK(side, r)'
  BY DEF PlainRecord, RecordOK, Sealed, IsRecord

LEMMA Peers ==
    /\ Peer("client") = "server" /\ Peer("server") = "client"
    /\ Sides = {"client", "server"}
    /\ \A side \in Sides : Peer(side) \in Sides /\ Peer(side) # side
  BY DEF Peer, Sides

LEMMA ExchangeNet ==
    ASSUME NEW side \in Sides, NEW written, DOMAIN net = Sides, Exchange(side, written)
    PROVE  /\ DOMAIN net' = Sides
           /\ net'[Peer(side)] = Tail(net[Peer(side)])
           /\ net'[side] = net[side] \o written
  BY Peers DEF Exchange

LEMMA ConcatNothing == ASSUME NEW s, IsSeq(s) PROVE s \o <<>> = s
  BY ConcatEmptySeq DEF IsSeq

\* Steps that only read, or do not use the connection.
LEMMA ReadOnly ==
    ASSUME TlsInv, NEW side \in Sides, CanRead(side), Exchange(side, <<>>),
           UNCHANGED <<out, faults>>, sec'["client"] = sec["client"]
    PROVE  DOMAIN net' = Sides /\ \A s \in Sides : WireOK(s)'
<1>1. /\ DOMAIN net' = Sides
      /\ net'[Peer(side)] = Tail(net[Peer(side)])
      /\ net'[side] = net[side] \o <<>>
      /\ net[Peer(side)] # <<>>
  BY ExchangeNet DEF TlsInv, TlsTyped, CanRead
<1>2. net'[side] = net[side]
  BY <1>1, ConcatNothing DEF TlsInv, WireOK
<1>3. ASSUME NEW s \in Sides
      PROVE  WireOK(s) /\ KeepsSeals(s) /\ IsCipher(out[s]) /\ IsCipher(out'[s])
  BY <1>3 DEF TlsInv, TlsTyped, KeepsSeals, IsCipher
<1>4. WireOK(side)'
  BY <1>2, <1>3, WireSame
<1>5. WireOK(Peer(side))'
  BY <1>1, <1>3, Peers, WireRead
<1> QED BY <1>1, <1>4, <1>5, Peers

LEMMA NoTraffic ==
    ASSUME TlsInv, UNCHANGED <<out, net, faults>>, sec'["client"] = sec["client"]
    PROVE  DOMAIN net' = Sides /\ \A s \in Sides : WireOK(s)'
<1>1. ASSUME NEW s \in Sides
      PROVE  WireOK(s) /\ KeepsSeals(s) /\ IsCipher(out[s]) /\ IsCipher(out'[s])
  BY <1>1 DEF TlsInv, TlsTyped, KeepsSeals, IsCipher
<1>2. ASSUME NEW s \in Sides PROVE WireOK(s)'
  BY <1>1, WireSame
<1> QED BY <1>2 DEF TlsInv, TlsTyped

-----------------------------------------------------------------------------
(* The actions.                                                            *)

LEMMA InitTlsInv == StreamInit => TlsInv
<1> SUFFICES ASSUME StreamInit PROVE TlsInv
  OBVIOUS
<1> USE DEF StreamInit, TlsInit
<1>1. TlsTyped
  <2>1. IsSecrets(Blank) /\ IsCipher(Inactive)
    BY DEF IsSecrets, Blank, IsCipher, Inactive
  <2>2. \A side \in Sides : sec[side] = Blank /\ out[side] = Inactive /\ partial[side] = <<>>
    OBVIOUS
  <2>3. at["server"] = "hello" /\ at["client"] = "start" /\ at \in [Sides -> ServerStages \cup ClientStages]
    BY DEF Sides, ServerStages, ClientStages
  <2>4. packet \in [Sides -> Seq(Nat)]
    OBVIOUS
  <2> QED BY <2>1, <2>2, <2>3, <2>4 DEF TlsTyped, ServerStages, ClientStages
<1>2. StagesAgree
  <2>1. \A side \in Sides : ~ Active(out[side])
    BY DEF Active, Inactive
  <2>2. at["server"] = "hello" /\ at["client"] = "start"
    OBVIOUS
  <2> QED BY <2>1, <2>2, Peers DEF StagesAgree
<1>3. ASSUME NEW side \in Sides PROVE WireOK(side)
  <2>1. net[side] = <<>>
    BY <1>3
  <2> QED BY <2>1, EmptyIsSeq DEF WireOK, InOrder
<1> QED BY <1>1, <1>2, <1>3 DEF TlsInv

\* The steps of the two goroutines around the handshake.
LEMMA CallersKeep ==
    ASSUME TlsInv, NEW g \in Callers, CallHandshake(g) \/ ReturnHandshake(g), UNCHANGED frameVars
    PROVE  TlsInv'
<1> USE DEF CallHandshake, ReturnHandshake, frameVars
<1>1. TlsTyped'
  BY DEF TlsInv, TlsTyped, IsCipher, IsSecrets, Missing, ParseHeader, Sides
<1>2. StagesAgree'
  BY DEF TlsInv, TlsTyped, StagesAgree, Active, expandKeys, masterSecret
<1>3. \A s \in Sides : WireOK(s)'
  BY NoTraffic
<1> QED BY <1>1, <1>2, <1>3 DEF TlsInv

LEMMA AcceptClientHelloKeeps ==
    ASSUME TlsInv, AcceptClientHello, UNCHANGED frameVars
    PROVE  TlsInv'
<1> DEFINE ch == readRecord("server").data[1]
           flight == <<handshakeMessage("serverHello",
                         [version |-> ch.body.version, random |-> "sr",
                          suite |-> ChooseSuite(ch.body.offer)]),
                       handshakeMessage("certificate", "cert"),
                       handshakeMessage("serverHelloDone", <<>>)>>
           rec == Record(Inactive, ch.body.version, "handshake", flight)
<1>1. /\ at["server"] = "hello"
      /\ CanRead("server")
      /\ \E suite, transcript : sec' = [sec EXCEPT !["server"] =
             [@ EXCEPT !.version = ch.body.version, !.suite = suite,
                       !.clientRandom = ch.body.random, !.serverRandom = "sr",
                       !.transcript = transcript]]
      /\ Exchange("server", <<rec>>)
      /\ at' = [at EXCEPT !["server"] = "keyExchange"]
      /\ UNCHANGED <<in, out, closed, call, faults>>
  BY DEF AcceptClientHello
<1> HIDE DEF ch, flight, rec
<1>2. DOMAIN net' = Sides /\ net'["client"] = Tail(net["client"]) /\ net["client"] # <<>>
      /\ net'["server"] = net["server"] \o <<rec>>
  BY <1>1, ExchangeNet, Peers DEF TlsInv, TlsTyped, CanRead
<1>3. /\ sec'["client"] = sec["client"] /\ DOMAIN sec' = Sides
      /\ \A side \in Sides : IsSecrets(sec'[side])
  <2>1. PICK suite, transcript : sec' = [sec EXCEPT !["server"] =
           [sec["server"] EXCEPT !.version = ch.body.version, !.suite = suite,
              !.clientRandom = ch.body.random, !.serverRandom = "sr", !.transcript = transcript]]
    BY <1>1
  <2>2. PICK s : s = [sec["server"] EXCEPT !.version = ch.body.version, !.suite = suite,
              !.clientRandom = ch.body.random, !.serverRandom = "sr", !.transcript = transcript]
    OBVIOUS
  <2>3. IsSecrets(s)
    <3>1. IsSecrets(sec["server"])
      BY Peers DEF TlsInv, TlsTyped
    <3> QED BY <2>2, <3>1 DEF IsSecrets
  <2>4. sec' = [sec EXCEPT !["server"] = s]
    BY <2>1, <2>2
  <2> QED BY <2>3, <2>4, Peers DEF TlsInv, TlsTyped
<1>4. TlsTyped'
  BY <1>1, <1>2, <1>3 DEF TlsInv, TlsTyped, IsCipher, Missing, ParseHeader, Sides,
                          ServerStages, ClientStages, frameVars
<1>5. StagesAgree'
  BY <1>1, <1>3 DEF TlsInv, TlsTyped, StagesAgree, Active, expandKeys, masterSecret, Sides
<1>6. ASSUME NEW s \in Sides
      PROVE  WireOK(s) /\ KeepsSeals(s) /\ IsCipher(out[s]) /\ IsCipher(out'[s])
  BY <1>1, <1>3, <1>6 DEF TlsInv, TlsTyped, KeepsSeals, IsCipher
<1>7. WireOK("client")'
  BY <1>1, <1>2, <1>6, Peers, WireRead
<1>8. WireOK("server")'
  <2>1. PlainRecord(rec)
    BY WrittenPlain DEF rec
  <2>2. /\ IsSeq(<<rec>>) /\ SealsLast(<<rec>>, out["server"].seq)
        /\ \A r \in ToSet(<<rec>>) : RecordOK("server", r)'
    BY <2>1, PlainOK, SingleIsSeq, Peers DEF SealsLast, PlainRecord
  <2> QED BY <1>1, <1>2, <1>6, <2>2, Peers, WireWrite
<1> QED BY <1>4, <1>5, <1>7, <1>8, Peers DEF TlsInv

LEMMA AcceptClientKeyExchangeKeeps ==
    ASSUME TlsInv, AcceptClientKeyExchange, UNCHANGED frameVars
    PROVE  TlsInv'
<1>1. PICK premaster, transcript :
      /\ at["server"] = "keyExchange"
      /\ CanRead("server")
      /\ sec' = [sec EXCEPT !["server"] =
            [sec["server"] EXCEPT !.premaster = premaster, !.transcript = transcript]]
      /\ Exchange("server", <<>>)
      /\ at' = [at EXCEPT !["server"] = "changeCipher"]
      /\ UNCHANGED <<in, out, closed, call, faults>>
  BY DEF AcceptClientKeyExchange
<1>2. /\ sec'["client"] = sec["client"] /\ DOMAIN sec' = Sides
      /\ \A side \in Sides : IsSecrets(sec'[side])
  <2>1. PICK s : s = [sec["server"] EXCEPT !.premaster = premaster, !.transcript = transcript]
    OBVIOUS
  <2>2. IsSecrets(s)
    <3>1. IsSecrets(sec["server"])
      BY Peers DEF TlsInv, TlsTyped
    <3> QED BY <2>1, <3>1 DEF IsSecrets
  <2>3. sec' = [sec EXCEPT !["server"] = s]
    BY <1>1, <2>1
  <2> QED BY <2>2, <2>3, Peers DEF TlsInv, TlsTyped
<1>3. DOMAIN net' = Sides /\ \A s \in Sides : WireOK(s)'
  BY <1>1, <1>2, Peers, ReadOnly
<1>4. TlsTyped'
  BY <1>1, <1>2, <1>3 DEF TlsInv, TlsTyped, IsCipher, Missing, ParseHeader, Sides,
                          ServerStages, ClientStages, frameVars
<1>5. StagesAgree'
  BY <1>1, <1>2 DEF TlsInv, TlsTyped, StagesAgree, Active, expandKeys, masterSecret, Sides
<1> QED BY <1>3, <1>4, <1>5 DEF TlsInv

\* A key derived by expandKeys is in use.
LEMMA KeyInUse ==
    ASSUME NEW s, NEW writer
    PROVE  Active(makeCipher(expandKeys(s, writer))) /\ IsCipher(makeCipher(expandKeys(s, writer)))
           /\ makeCipher(expandKeys(s, writer)).key = expandKeys(s, writer)
           /\ makeCipher(expandKeys(s, writer)).seq = 0
<1>1. expandKeys(s, writer) # <<>>
  BY DEF expandKeys
<1> QED BY <1>1 DEF Active, makeCipher, IsCipher

\* A cipher in use goes on in its key stream.
LEMMA Advanced ==
    ASSUME NEW cipher, IsCipher(cipher)
    PROVE  /\ IsCipher(Advance(cipher, 1))
           /\ Advance(cipher, 1).key = cipher.key
           /\ Active(Advance(cipher, 1)) <=> Active(cipher)
           /\ Active(cipher) => Advance(cipher, 1).seq = cipher.seq + 1
           /\ Advance(cipher, 1).seq >= cipher.seq
  BY DEF Advance, Active, IsCipher

LEMMA AcceptChangeCipherSpecKeeps ==
    ASSUME TlsInv, AcceptChangeCipherSpec \/ ClientChangeCipherSpec, UNCHANGED frameVars
    PROVE  TlsInv'
<1>1. PICK side \in Sides :
      /\ at[side] = "changeCipher"
      /\ CanRead(side)
      /\ in' = [in EXCEPT ![side] = makeCipher(expandKeys(sec[side], Peer(side)))]
      /\ Exchange(side, <<>>)
      /\ at' = [at EXCEPT ![side] = "finished"]
      /\ UNCHANGED <<sec, out, closed, call, faults>>
  BY Peers DEF AcceptChangeCipherSpec, ClientChangeCipherSpec
<1>2. DOMAIN net' = Sides /\ \A s \in Sides : WireOK(s)'
  BY <1>1, ReadOnly
<1>3. TlsTyped'
  BY <1>1, <1>2 DEF TlsInv, TlsTyped, IsCipher, IsSecrets, Missing, ParseHeader, Sides,
                    ServerStages, ClientStages, frameVars
<1>4. StagesAgree'
  <2>1. Active(in'[side]) /\ in'[side].key = expandKeys(sec[side], Peer(side))
    BY <1>1, KeyInUse DEF TlsInv, TlsTyped
  <2>2. /\ \A s \in Sides \ {side} : in'[s] = in[s] /\ at'[s] = at[s]
        /\ at'[side] = "finished"
    BY <1>1 DEF TlsInv, TlsTyped
  <2>3. CASE side = "server"
    BY <1>1, <2>1, <2>2, <2>3, Peers DEF TlsInv, StagesAgree, expandKeys, masterSecret, Active
  <2>4. CASE side = "client"
    BY <1>1, <2>1, <2>2, <2>4, Peers DEF TlsInv, StagesAgree, expandKeys, masterSecret, Active
  <2> QED BY <2>3, <2>4, Peers
<1> QED BY <1>2, <1>3, <1>4 DEF TlsInv

\* What readRecord lets through when a key is in use was sealed by the other side
\* for exactly this place, type and content.
LEMMA GenuineRecord ==
    ASSUME TlsInv, NEW side \in Sides, CanRead(side), Active(in[side]),
           readRecord(side).typ # "refused"
    PROVE  /\ Incoming(side) \in ToSet(net[Peer(side)])
           /\ RecordOK(Peer(side), Incoming(side))
           /\ SealOK(Peer(side), Incoming(side).seal)
           /\ Incoming(side).seal = <<in[side].key, in[side].seq, readRecord(side).typ,
                                      readRecord(side).data>>
<1> PICK r : r = Incoming(side)
  OBVIOUS
<1>1. r \in ToSet(net[Peer(side)])
  BY Peers, TailIsSeq DEF CanRead, Incoming, TlsInv, WireOK
<1>2. RecordOK(Peer(side), r)
  BY <1>1, Peers DEF TlsInv, WireOK
<1>3. MacOK(side, r) /\ readRecord(side).typ = r.typ
      /\ readRecord(side).data = IF r.seal # NoSeal /\ ~ Active(in[side]) THEN <<Garbled>> ELSE r.data
  BY DEF readRecord
<1>4. r.seal = <<in[side].key, in[side].seq, r.typ, r.data>> /\ readRecord(side).data = r.data
  BY <1>3 DEF MacOK, recordMAC
<1>5. r.seal # NoSeal
  BY <1>4 DEF NoSeal
<1>6. SealOK(Peer(side), r.seal)
  BY <1>2, <1>5 DEF RecordOK, Sealed
<1> QED BY <1>1, <1>2, <1>3, <1>4, <1>6

\* The client's Finished is the proof that it has seen what the server has seen.
LEMMA FinishedProvesAgreement ==
    ASSUME TlsInv, at["server"] = "finished", CanRead("server"),
           FinishedOK("server", readRecord("server"))
    PROVE  /\ Active(out["client"])
           /\ [sec["server"] EXCEPT !.transcript = Append(@, readRecord("server").data[1])]
                 = sec["client"]
<1>1. /\ readRecord("server").typ = "handshake"
      /\ readRecord("server").data[1].kind = "finished"
      /\ readRecord("server").data[1].body = finishedVerify(sec["server"], "client")
  BY Peers DEF FinishedOK, OneMessage
<1>2. in["server"].key = expandKeys(sec["server"], "client") /\ Active(in["server"])
  BY DEF TlsInv, StagesAgree, Active, expandKeys
<1> PICK content : content = readRecord("server").data
  OBVIOUS
<1>3. PICK seal : /\ SealOK("client", seal)
                  /\ seal = <<in["server"].key, in["server"].seq, "handshake", content>>
  BY <1>1, <1>2, Peers, GenuineRecord
<1>4. /\ Active(out["client"]) /\ in["server"].key = out["client"].key
      /\ ClientSealOK(content)
  BY <1>3 DEF SealOK
<1>5. expandKeys(sec["client"], "client") = expandKeys(sec["server"], "client")
  BY <1>2, <1>4 DEF TlsInv, StagesAgree
<1>6. content # <<Garbled>>
  BY <1>1 DEF Garbled, handshakeMessage
<1>7. PICK covered :
          /\ content = <<handshakeMessage("finished",
                            <<masterSecret(sec["client"]), covered, "client">>)>>
          /\ sec["client"].transcript = Append(covered, content[1])
  BY <1>4, <1>6 DEF ClientSealOK
<1>8. content[1].body = <<masterSecret(sec["client"]), covered, "client">>
  BY <1>7 DEF handshakeMessage
<1>9. covered = sec["server"].transcript
  BY <1>1, <1>8 DEF finishedVerify
<1>10. /\ sec["client"].suite = sec["server"].suite
       /\ masterSecret(sec["client"]) = masterSecret(sec["server"])
  BY <1>5 DEF expandKeys
<1>11. /\ sec["client"].version = sec["server"].version
       /\ sec["client"].premaster = sec["server"].premaster
       /\ sec["client"].clientRandom = sec["server"].clientRandom
       /\ sec["client"].serverRandom = sec["server"].serverRandom
  BY <1>10 DEF masterSecret
<1>12. IsSecrets(sec["server"]) /\ IsSecrets(sec["client"])
  BY Peers DEF TlsInv, TlsTyped
<1>13. [sec["server"] EXCEPT !.transcript = Append(@, content[1])] = sec["client"]
  <2> PICK tr : tr = Append(sec["server"].transcript, content[1])
    OBVIOUS
  <2>1. sec["client"].transcript = tr
    BY <1>7, <1>9
  <2>2. [sec["server"] EXCEPT !.transcript = tr] = sec["client"]
    BY <1>10, <1>11, <1>12, <2>1 DEF IsSecrets
  <2> QED BY <2>2
<1> QED BY <1>4, <1>13

LEMMA AcceptFinishedKeeps ==
    ASSUME TlsInv, AcceptFinished, UNCHANGED frameVars
    PROVE  TlsInv'
<1>a. PICK agreed : agreed = [sec["server"] EXCEPT !.transcript = Append(@, readRecord("server").data[1])]
  OBVIOUS
<1>b. PICK cipher : cipher = makeCipher(expandKeys(agreed, "server"))
  OBVIOUS
<1>c. PICK ccs : ccs = Record(Inactive, agreed.version, "changeCipherSpec", ChangeCipherSpec)
  OBVIOUS
<1>d. PICK data : data = <<handshakeMessage("finished", finishedVerify(agreed, "server"))>>
  OBVIOUS
<1>e. PICK fin : fin = Record(cipher, agreed.version, "handshake", data)
  OBVIOUS
<1>1. /\ at["server"] = "finished"
      /\ CanRead("server")
      /\ FinishedOK("server", readRecord("server"))
      /\ sec' = [sec EXCEPT !["server"] = agreed]
      /\ \E c : in' = [in EXCEPT !["server"] = c]
      /\ Exchange("server", <<ccs, fin>>)
      /\ out' = [out EXCEPT !["server"] = Advance(cipher, 1)]
      /\ at' = [at EXCEPT !["server"] = "ready"]
      /\ UNCHANGED <<closed, call, faults>>
  BY <1>a, <1>b, <1>c, <1>d, <1>e DEF AcceptFinished
<1>2. Active(out["client"]) /\ agreed = sec["client"]
  BY <1>1, <1>a, FinishedProvesAgreement
<1>3. /\ Active(cipher) /\ IsCipher(cipher) /\ cipher.seq = 0
  BY <1>b, KeyInUse
<1>4. PlainRecord(ccs)
  BY <1>c, WrittenPlain
<1>5. /\ IsRecord(fin) /\ fin.typ = "handshake"
      /\ fin.seal = <<cipher.key, 0, "handshake", data>>
  BY <1>e, <1>3, RecordShape
<1> DEFINE written == <<ccs, fin>>
<1>6. /\ IsCipher(Advance(cipher, 1)) /\ Active(Advance(cipher, 1))
      /\ Advance(cipher, 1).key = cipher.key /\ Advance(cipher, 1).seq = 1
  BY <1>3, Advanced
<1>7. /\ out'["server"] = Advance(cipher, 1) /\ out'["client"] = out["client"]
      /\ DOMAIN out' = Sides
      /\ sec'["server"] = sec["client"] /\ sec'["client"] = sec["client"] /\ DOMAIN sec' = Sides
      /\ at'["server"] = "ready" /\ at'["client"] = at["client"]
      /\ in'["client"] = in["client"] /\ DOMAIN in' = Sides
      /\ DOMAIN net' = Sides
      /\ net'["client"] = Tail(net["client"]) /\ net["client"] # <<>>
      /\ net'["server"] = net["server"] \o written
  BY <1>1, <1>2, ExchangeNet, Peers DEF TlsInv, TlsTyped, CanRead
<1>8. TlsTyped'
  <2>1. \A side \in Sides : IsCipher(out'[side]) /\ IsSecrets(sec'[side])
    BY <1>6, <1>7, Peers DEF TlsInv, TlsTyped
  <2>2. at' \in [Sides -> ServerStages \cup ClientStages] /\ at'["server"] \in ServerStages
        /\ at'["client"] \in ClientStages
    BY <1>1, <1>7 DEF TlsInv, TlsTyped, ServerStages
  <2> QED BY <1>1, <1>7, <2>1, <2>2 DEF TlsInv, TlsTyped, Missing, ParseHeader, frameVars
<1>9. StagesAgree'
  <2>1. Active(out'["server"]) /\ Active(out'["client"])
    BY <1>2, <1>6, <1>7
  <2>2. UNCHANGED call
    BY <1>1
  <2> QED BY <1>7, <2>1, <2>2 DEF TlsInv, StagesAgree, expandKeys, masterSecret, Active
<1>10. ASSUME NEW s \in Sides
       PROVE  WireOK(s) /\ KeepsSeals(s) /\ IsCipher(out[s]) /\ IsCipher(out'[s])
  <2>1. KeepsSeals("server")
    BY <1>1 DEF TlsInv, StagesAgree, KeepsSeals
  <2>2. KeepsSeals("client")
    BY <1>7, Peers DEF TlsInv, TlsTyped, IsCipher, KeepsSeals
  <2> QED BY <1>8, <1>10, <2>1, <2>2, Peers DEF TlsInv, TlsTyped
<1>11. WireOK("client")'
  BY <1>1, <1>7, <1>10, Peers, WireRead
<1>12. WireOK("server")'
  <2>1. RecordOK("server", ccs)'
    BY <1>4, PlainOK, Peers
  <2>2. RecordOK("server", fin)'
    <3>1. fin.seal[1] = cipher.key /\ fin.seal[2] = 0
          /\ fin.seal = <<fin.seal[1], fin.seal[2], fin.seal[3], fin.seal[4]>>
      BY <1>5
    <3>2. SealOK("server", fin.seal)'
      BY <1>6, <1>7, <3>1 DEF SealOK, Active
    <3> QED BY <1>5, <3>2 DEF RecordOK, IsRecord
  <2>3. written \in Seq({ccs, fin}) /\ ToSet(written) \subseteq {ccs, fin}
    BY DEF ToSet
  <2>4. IsSeq(written)
    BY <2>3, SeqIsSeq
  <2>5. SealsLast(written, 0)
    BY <1>4, <1>5 DEF SealsLast, PlainRecord
  <2>6. ~ Active(out["server"])
    BY <1>1 DEF TlsInv, StagesAgree
  <2> HIDE DEF written
  <2> QED BY <1>1, <1>7, <1>10, <2>1, <2>2, <2>3, <2>4, <2>5, <2>6, Peers, WireWrite
<1> QED BY <1>8, <1>9, <1>11, <1>12, Peers DEF TlsInv

LEMMA RefuseKeeps ==
    ASSUME TlsInv, RefuseHandshake \/ RefuseServer, UNCHANGED frameVars
    PROVE  TlsInv'
<1>1. PICK side \in Sides :
      /\ at[side] # "ready"
      /\ at' = [at EXCEPT ![side] = "failed"]
      /\ closed' = closed \/ closed' = closed \cup {side}
      /\ UNCHANGED <<sec, in, out, call, faults>>
      /\ UNCHANGED net \/ (CanRead(side) /\ Exchange(side, <<>>))
  BY Peers DEF RefuseHandshake, RefuseServer, Refuse, Fail
<1>2. DOMAIN net' = Sides /\ \A s \in Sides : WireOK(s)'
  BY <1>1, ReadOnly, NoTraffic
<1>3. TlsTyped'
  BY <1>1, <1>2 DEF TlsInv, TlsTyped, IsCipher, IsSecrets, Missing, ParseHeader, Sides,
                    ServerStages, ClientStages, frameVars
<1>4. StagesAgree'
  <2>1. at'[side] = "failed" /\ \A s \in Sides \ {side} : at'[s] = at[s]
    BY <1>1 DEF TlsInv, TlsTyped
  <2>2. CASE side = "server"
    BY <1>1, <2>1, <2>2, Peers DEF TlsInv, StagesAgree, expandKeys, masterSecret, Active
  <2>3. CASE side = "client"
    BY <1>1, <2>1, <2>3, Peers DEF TlsInv, StagesAgree, expandKeys, masterSecret, Active
  <2> QED BY <2>2, <2>3, Peers
<1> QED BY <1>2, <1>3, <1>4 DEF TlsInv

LEMMA ClientFinishedKeeps ==
    ASSUME TlsInv, ClientFinished, UNCHANGED frameVars
    PROVE  TlsInv'
<1>1. PICK cipher :
      /\ at["client"] = "finished"
      /\ CanRead("client")
      /\ readRecord("client").typ = "handshake"
      /\ in' = [in EXCEPT !["client"] = cipher]
      /\ Exchange("client", <<>>)
      /\ at' = [at EXCEPT !["client"] = "ready"]
      /\ UNCHANGED <<sec, out, closed, call, faults>>
  BY DEF ClientFinished, FinishedOK, OneMessage
<1>2. DOMAIN net' = Sides /\ \A s \in Sides : WireOK(s)'
  BY <1>1, Peers, ReadOnly
<1>3. TlsTyped'
  BY <1>1, <1>2 DEF TlsInv, TlsTyped, IsCipher, IsSecrets, Missing, ParseHeader, Sides,
                    ServerStages, ClientStages, frameVars
<1>4. at["server"] = "ready"
  <2>1. Active(in["client"])
    BY <1>1 DEF TlsInv, StagesAgree
  <2>2. SealOK("server", Incoming("client").seal)
    BY <1>1, <2>1, Peers, GenuineRecord
  <2> QED BY <2>2 DEF SealOK, TlsInv, StagesAgree
<1>5. StagesAgree'
  BY <1>1, <1>4, Peers DEF TlsInv, TlsTyped, StagesAgree, expandKeys, masterSecret, Active
<1> QED BY <1>2, <1>3, <1>5 DEF TlsInv

LEMMA HangUpKeeps ==
    ASSUME TlsInv, NEW side \in Sides, closed' = closed \cup {side},
           UNCHANGED <<at, sec, in, out, net, call, faults>>, UNCHANGED frameVars
    PROVE  TlsInv'
<1>1. \A s \in Sides : WireOK(s)'
  BY NoTraffic
<1>2. TlsTyped'
  BY DEF TlsInv, TlsTyped, IsCipher, IsSecrets, Missing, ParseHeader, frameVars
<1>3. StagesAgree'
  BY DEF TlsInv, StagesAgree, expandKeys, masterSecret, Active
<1> QED BY <1>1, <1>2, <1>3 DEF TlsInv

LEMMA ClientHelloKeeps ==
    ASSUME TlsInv, ClientHello, UNCHANGED frameVars
    PROVE  TlsInv'
<1>1. PICK rec, version, transcript, data :
      /\ at["client"] = "start"
      /\ rec = Record(Inactive, hello.recordVersion, "handshake", data)
      /\ net' = [net EXCEPT !["client"] = Append(net["client"], rec)]
      /\ sec' = [sec EXCEPT !["client"] =
            [sec["client"] EXCEPT !.version = version, !.clientRandom = "cr",
                                  !.transcript = transcript]]
      /\ at' = [at EXCEPT !["client"] = "flight"]
      /\ UNCHANGED <<in, out, closed, call, faults>>
  BY DEF ClientHello
<1>2. PICK s : s = [sec["client"] EXCEPT !.version = version, !.clientRandom = "cr",
                                         !.transcript = transcript]
  OBVIOUS
<1>3. /\ sec'["client"] = s /\ sec'["server"] = sec["server"] /\ DOMAIN sec' = Sides
      /\ IsSecrets(s) /\ \A side \in Sides : IsSecrets(sec'[side])
  <2>1. IsSecrets(s)
    <3>1. IsSecrets(sec["client"])
      BY Peers DEF TlsInv, TlsTyped
    <3> QED BY <1>2, <3>1 DEF IsSecrets
  <2>2. sec' = [sec EXCEPT !["client"] = s]
    BY <1>1, <1>2
  <2> QED BY <2>1, <2>2, Peers DEF TlsInv, TlsTyped
<1>4. /\ DOMAIN net' = Sides /\ net'["server"] = net["server"]
      /\ net'["client"] = net["client"] \o <<rec>>
  <2>1. Append(net["client"], rec) = net["client"] \o <<rec>>
    <3>1. IsSeq(net["client"])
      BY Peers DEF TlsInv, WireOK
    <3>2. net["client"] \in Seq(ToSet(net["client"]) \cup {rec})
      BY <3>1, SeqMonotonic DEF IsSeq
    <3> QED BY <3>2, AppendIsConcat
  <2> QED BY <1>1, <2>1, Peers DEF TlsInv, TlsTyped
<1>5. TlsTyped'
  BY <1>1, <1>3, <1>4 DEF TlsInv, TlsTyped, IsCipher, Missing, ParseHeader, Sides,
                          ServerStages, ClientStages, frameVars
<1>6. ~ Active(out["client"]) /\ at["server"] # "ready" /\ ~ Active(out["server"])
  BY <1>1 DEF TlsInv, StagesAgree
<1>7. StagesAgree'
  BY <1>1, <1>3, <1>6, Peers DEF TlsInv, TlsTyped, StagesAgree, expandKeys, masterSecret, Active
<1>8. ASSUME NEW x \in Sides
      PROVE  WireOK(x) /\ KeepsSeals(x) /\ IsCipher(out[x]) /\ IsCipher(out'[x])
  BY <1>1, <1>6, <1>8, Peers DEF TlsInv, TlsTyped, KeepsSeals, IsCipher
<1>9. WireOK("server")'
  BY <1>1, <1>4, <1>8, Peers, WireSame
<1>10. WireOK("client")'
  <2>1. PlainRecord(rec)
    BY <1>1, WrittenPlain
  <2>2. /\ IsSeq(<<rec>>) /\ SealsLast(<<rec>>, out["client"].seq)
        /\ \A r \in ToSet(<<rec>>) : RecordOK("client", r)'
    BY <2>1, PlainOK, SingleIsSeq, Peers DEF SealsLast, PlainRecord
  <2> QED BY <1>1, <1>4, <1>8, <2>2, Peers, WireWrite
<1> QED BY <1>5, <1>7, <1>9, <1>10, Peers DEF TlsInv

\* The client's flight: everything in the clear but its Finished at the end.
LEMMA ClientFlightKeeps ==
    ASSUME TlsInv, ClientFlight, UNCHANGED frameVars
    PROVE  TlsInv'
<1>a. PICK ckx : ckx = handshakeMessage("clientKeyExchange",
                          [cert |-> readRecord("client").data[2].body, premaster |-> "pm"])
  OBVIOUS
<1>b. PICK agreed : agreed =
          [sec["client"] EXCEPT !.suite = readRecord("client").data[1].body.suite,
             !.serverRandom = readRecord("client").data[1].body.random, !.premaster = "pm",
             !.transcript = @ \o readRecord("client").data \o <<ckx>>]
  OBVIOUS
<1>c. PICK cipher : cipher = makeCipher(expandKeys(agreed, "client"))
  OBVIOUS
<1>d. PICK finished : finished = handshakeMessage("finished", finishedVerify(agreed, "client"))
  OBVIOUS
<1>e. PICK s : s = [agreed EXCEPT !.transcript = Append(@, finished)]
  OBVIOUS
<1>f. PICK flight : flight = KeyExchangeRecords(agreed.version, ckx)
  OBVIOUS
<1>g. PICK ccs : ccs = Record(Inactive, agreed.version, "changeCipherSpec", ChangeCipherSpec)
  OBVIOUS
<1>h. PICK fin : fin = Record(cipher, agreed.version, "handshake", <<finished>>)
  OBVIOUS
<1>1. /\ at["client"] = "flight"
      /\ CanRead("client")
      /\ Exchange("client", flight \o <<ccs, fin>>)
      /\ out' = [out EXCEPT !["client"] = Advance(cipher, 1)]
      /\ sec' = [sec EXCEPT !["client"] = s]
      /\ at' = [at EXCEPT !["client"] = "changeCipher"]
      /\ UNCHANGED <<in, closed, call, faults>>
  BY <1>a, <1>b, <1>c, <1>d, <1>e, <1>f, <1>g, <1>h DEF ClientFlight
<1>2. /\ IsSecrets(s)
      /\ masterSecret(s) = masterSecret(agreed) /\ expandKeys(s, "client") = expandKeys(agreed, "client")
      /\ s.transcript = Append(agreed.transcript, finished)
  <2>1. IsSecrets(agreed)
    <3>1. IsSecrets(sec["client"])
      BY Peers DEF TlsInv, TlsTyped
    <3> PICK a, b, c : agreed = [sec["client"] EXCEPT !.suite = a, !.serverRandom = b,
                                    !.premaster = "pm", !.transcript = c]
      BY <1>b
    <3> QED BY <3>1 DEF IsSecrets
  <2>2. PICK tr : tr = Append(agreed.transcript, finished)
    OBVIOUS
  <2>3. s = [agreed EXCEPT !.transcript = tr]
    BY <1>e, <2>2
  <2>4. IsSecrets(s) /\ s.transcript = tr
    BY <2>1, <2>3 DEF IsSecrets
  <2>5. masterSecret(s) = masterSecret(agreed) /\ s.suite = agreed.suite
    BY <2>1, <2>3 DEF IsSecrets, masterSecret
  <2> QED BY <2>2, <2>4, <2>5 DEF expandKeys
<1>3. /\ Active(cipher) /\ IsCipher(cipher) /\ cipher.seq = 0
      /\ cipher.key = expandKeys(agreed, "client")
  BY <1>c, KeyInUse
<1>4. /\ IsCipher(Advance(cipher, 1)) /\ Active(Advance(cipher, 1))
      /\ Advance(cipher, 1).key = cipher.key /\ Advance(cipher, 1).seq = 1
  BY <1>3, Advanced
<1>5. PlainRecord(ccs)
  BY <1>g, WrittenPlain
<1>6. /\ IsRecord(fin) /\ fin.typ = "handshake"
      /\ fin.seal = <<cipher.key, 0, "handshake", <<finished>>>>
  <2> PICK data : data = <<finished>>
    OBVIOUS
  <2>1. fin = Record(cipher, agreed.version, "handshake", data)
    BY <1>h
  <2>2. IsRecord(fin) /\ fin.typ = "handshake" /\ fin.seal = <<cipher.key, 0, "handshake", data>>
    BY <1>3, <2>1, RecordShape
  <2> QED BY <2>2
<1>7. IsSeq(flight) /\ \A r \in ToSet(flight) : PlainRecord(r)
  <2>1. CASE hello.split
    <3>1. PICK g : g = Record(Inactive, agreed.version, "handshake", <<Garbled>>)
      OBVIOUS
    <3>2. flight = <<g, g>> /\ PlainRecord(g)
      BY <1>f, <2>1, <3>1, WrittenPlain DEF KeyExchangeRecords
    <3>3. flight \in Seq({g})
      BY <3>2
    <3>4. IsSeq(flight) /\ ToSet(flight) \subseteq {g}
      BY <3>3, SeqIsSeq
    <3> QED BY <3>2, <3>4
  <2>2. CASE ~ hello.split
    <3>1. PICK g : g = Record(Inactive, agreed.version, "handshake", <<ckx>>)
      OBVIOUS
    <3>2. flight = <<g>> /\ PlainRecord(g)
      BY <1>f, <2>2, <3>1, WrittenPlain DEF KeyExchangeRecords
    <3>3. flight \in Seq({g})
      BY <3>2
    <3>4. IsSeq(flight) /\ ToSet(flight) \subseteq {g}
      BY <3>3, SeqIsSeq
    <3> QED BY <3>2, <3>4
  <2> QED BY <2>1, <2>2
<1>8. PICK written : written = flight \o <<ccs, fin>>
  OBVIOUS
<1>9. /\ IsSeq(written) /\ SealsLast(written, 0)
      /\ \A r \in ToSet(written) : r = fin \/ PlainRecord(r)
  <2>1. PICK ends : ends = <<ccs, fin>>
    OBVIOUS
  <2>2. IsSeq(ends) /\ ToSet(ends) \subseteq {ccs, fin} /\ Len(ends) = 2
        /\ ends[1] = ccs /\ ends[2] = fin
    <3>1. ends \in Seq({ccs, fin})
      BY <2>1
    <3> QED BY <2>1, <3>1, SeqIsSeq
  <2>3. /\ IsSeq(written)
        /\ ToSet(written) \subseteq ToSet(flight) \cup ToSet(ends)
        /\ Len(written) = Len(flight) + 2
        /\ \A i \in 1..(Len(flight) + 2) :
              written[i] = IF i <= Len(flight) THEN flight[i] ELSE ends[i - Len(flight)]
    BY <1>7, <1>8, <2>1, <2>2, ConcatIsSeq
  <2>4. ASSUME NEW j \in 1..Len(written), Sealed(written[j])
        PROVE  j = Len(written) /\ written[j] = fin
    <3>1. Len(flight) \in Nat /\ \A i \in 1..Len(flight) : ~ Sealed(flight[i])
      BY <1>7, IsSeqFacts DEF PlainRecord
    <3>2. ~ Sealed(ends[1])
      BY <1>5, <2>2 DEF PlainRecord
    <3> HIDE DEF Sealed
    <3>3. ~ (j <= Len(flight))
      BY <2>3, <2>4, <3>1
    <3>4. written[j] = ends[j - Len(flight)] /\ j - Len(flight) \in 1..2
      BY <2>3, <3>1, <3>3
    <3>5. j - Len(flight) = 2
      BY <2>4, <3>2, <3>4
    <3> QED BY <2>2, <2>3, <3>1, <3>4, <3>5
  <2>5. fin.seal[2] = 0
    BY <1>6
  <2> QED BY <1>5, <1>7, <2>2, <2>3, <2>4, <2>5 DEF SealsLast
<1>10. /\ out'["client"] = Advance(cipher, 1) /\ out'["server"] = out["server"] /\ DOMAIN out' = Sides
       /\ sec'["client"] = s /\ sec'["server"] = sec["server"] /\ DOMAIN sec' = Sides
       /\ at'["client"] = "changeCipher" /\ at'["server"] = at["server"]
       /\ DOMAIN net' = Sides
       /\ net'["server"] = Tail(net["server"]) /\ net["server"] # <<>>
       /\ net'["client"] = net["client"] \o written
  BY <1>1, <1>8, ExchangeNet, Peers DEF TlsInv, TlsTyped, CanRead
<1>11. TlsTyped'
  <2>1. \A side \in Sides : IsCipher(out'[side]) /\ IsSecrets(sec'[side])
    BY <1>2, <1>4, <1>10, Peers DEF TlsInv, TlsTyped
  <2>2. at' \in [Sides -> ServerStages \cup ClientStages] /\ at'["server"] \in ServerStages
        /\ at'["client"] \in ClientStages
    BY <1>1, <1>10 DEF TlsInv, TlsTyped, ClientStages
  <2> QED BY <1>1, <1>10, <2>1, <2>2 DEF TlsInv, TlsTyped, Missing, ParseHeader, frameVars
<1>12. ~ Active(out["client"]) /\ at["server"] # "ready" /\ ~ Active(out["server"])
  BY <1>1 DEF TlsInv, StagesAgree
<1>13. StagesAgree'
  <2>1. Active(out'["client"]) /\ out'["client"].key = expandKeys(sec'["client"], "client")
        /\ ~ Active(out'["server"])
    BY <1>2, <1>3, <1>4, <1>10, <1>12
  <2> QED BY <1>1, <1>10, <1>12, <2>1 DEF TlsInv, StagesAgree, expandKeys, masterSecret, Active
<1>14. ASSUME NEW x \in Sides
       PROVE  WireOK(x) /\ KeepsSeals(x) /\ IsCipher(out[x]) /\ IsCipher(out'[x])
  BY <1>11, <1>12, <1>14, Peers DEF TlsInv, TlsTyped, KeepsSeals
<1>15. WireOK("server")'
  BY <1>1, <1>10, <1>14, Peers, WireRead
<1>16. RecordOK("client", fin)'
  <2>1. /\ fin.seal[1] = cipher.key /\ fin.seal[2] = 0 /\ fin.seal[3] = "handshake"
        /\ fin.seal[4] = <<finished>>
        /\ fin.seal = <<fin.seal[1], fin.seal[2], fin.seal[3], fin.seal[4]>>
    BY <1>6
  <2>2. ClientSealOK(<<finished>>)'
    <3>1. finished = handshakeMessage("finished",
                        <<masterSecret(s), agreed.transcript, "client">>)
      BY <1>2, <1>d DEF finishedVerify
    <3>2. <<finished>>[1] = finished
      OBVIOUS
    <3> QED BY <1>2, <1>10, <3>1, <3>2 DEF ClientSealOK
  <2>3. SealOK("client", fin.seal)'
    BY <1>4, <1>10, <2>1, <2>2 DEF SealOK, Active
  <2> QED BY <1>6, <2>3 DEF RecordOK, IsRecord
<1>17. WireOK("client")'
  <2>1. \A r \in ToSet(written) : RecordOK("client", r)'
    BY <1>9, <1>16, PlainOK, Peers
  <2> QED BY <1>1, <1>9, <1>10, <1>12, <1>14, <2>1, Peers, WireWrite
<1> QED BY <1>11, <1>13, <1>15, <1>17, Peers DEF TlsInv

\* Whatever happens to a record on its way, its seal stays what it was.
LEMMA DamagedOK ==
    ASSUME NEW side \in Sides, NEW r, RecordOK(side, r), NEW d \in DamagedRecords(r)
    PROVE  RecordOK(side, d)
<1>1. IsRecord(r)
  BY DEF RecordOK
<1>2. CASE r.typ = "applicationData"
  <2>1. r.data \in Seq(Nat) /\ Len(r.data) <= MaxFragment
    BY <1>2 DEF RecordOK
  <2>2. d = [r EXCEPT !.data[1] = r.data[1] + 1]
    BY <1>2 DEF DamagedRecords
  <2>3. PICK data : data = [r.data EXCEPT ![1] = r.data[1] + 1]
    OBVIOUS
  <2>4. data \in Seq(Nat) /\ Len(data) = Len(r.data)
    <3> PICK old : old = r.data
      OBVIOUS
    <3>1. old \in Seq(Nat) /\ Len(old) \in Nat /\ DOMAIN old = 1..Len(old)
      BY <2>1, LenProperties
    <3>2. data = [old EXCEPT ![1] = old[1] + 1]
      BY <2>3
    <3>3. CASE 1 \in DOMAIN old
      <4>1. old[1] + 1 \in Nat
        BY <3>1, <3>3, ElementOfSeq
      <4> QED BY <3>1, <3>2, <3>3, <4>1, ExceptSeq
    <3>4. CASE 1 \notin DOMAIN old
      <4>1. data = old
        BY <3>1, <3>2, <3>4
      <4> QED BY <3>1, <4>1
    <3> QED BY <3>3, <3>4
  <2>5. d = [r EXCEPT !.data = data]
    BY <2>2, <2>3
  <2>6. IsRecord(d) /\ d.typ = r.typ /\ d.seal = r.seal /\ d.data = data
    BY <1>1, <2>5 DEF IsRecord
  <2> QED BY <2>1, <2>4, <2>6 DEF RecordOK, Sealed
<1>3. CASE r.typ # "applicationData"
  <2>1. \E data : d = [r EXCEPT !.data = data]
    BY <1>3 DEF DamagedRecords
  <2>2. IsRecord(d) /\ d.typ = r.typ /\ d.seal = r.seal
    BY <1>1, <2>1 DEF IsRecord
  <2> QED BY <1>3, <2>2 DEF RecordOK, Sealed
<1> QED BY <1>2, <1>3

LEMMA TransitKeeps ==
    ASSUME TlsInv, Transit, UNCHANGED frameVars
    PROVE  TlsInv'
<1>1. PICK side \in Sides : DamageRecord(side) \/ LoseRecord(side) \/ RepeatRecord(side) \/ SwapRecords(side)
  BY DEF Transit
<1>a. PICK s : s = net[side]
  OBVIOUS
<1>2. IsSeq(s) /\ \A r \in ToSet(s) : RecordOK(side, r)
  BY <1>a DEF TlsInv, WireOK
<1>3. PICK records :
        /\ Suffers(side, records)
        /\ IsSeq(records)
        /\ \A r \in ToSet(records) : RecordOK(side, r)
  <2>1. CASE DamageRecord(side)
    <3>a. PICK i \in DOMAIN s : \E r \in DamagedRecords(s[i]) : Suffers(side, [s EXCEPT ![i] = r])
      BY <1>a, <2>1 DEF DamageRecord
    <3>1. PICK r \in DamagedRecords(s[i]) : Suffers(side, [s EXCEPT ![i] = r])
      BY <3>a
    <3>2. RecordOK(side, r)
      <4>1. RecordOK(side, s[i])
        BY <1>2, IsSeqFacts
      <4> QED BY <3>1, <4>1, DamagedOK
    <3>3. IsSeq([s EXCEPT ![i] = r]) /\ ToSet([s EXCEPT ![i] = r]) \subseteq ToSet(s) \cup {r}
      BY <1>2, ChangedIsSeq
    <3>4. PICK t : t = [s EXCEPT ![i] = r]
      OBVIOUS
    <3> QED BY <1>2, <3>1, <3>2, <3>3, <3>4
  <2>2. CASE LoseRecord(side)
    <3>1. PICK i \in DOMAIN s : Suffers(side, RemoveAt(s, i))
      BY <1>a, <2>2 DEF LoseRecord
    <3>2. IsSeq(RemoveAt(s, i)) /\ ToSet(RemoveAt(s, i)) \subseteq ToSet(s)
      BY <1>2, LostIsSeq
    <3> QED BY <1>2, <3>1, <3>2
  <2>3. CASE RepeatRecord(side)
    <3>1. PICK i \in DOMAIN s : Suffers(side, InsertAt(s, i, s[i]))
      BY <1>a, <2>3 DEF RepeatRecord
    <3>2. IsSeq(InsertAt(s, i, s[i])) /\ ToSet(InsertAt(s, i, s[i])) \subseteq ToSet(s)
      BY <1>2, RepeatedIsSeq
    <3> QED BY <1>2, <3>1, <3>2
  <2>4. CASE SwapRecords(side)
    <3>1. PICK i \in 1..(Len(s) - 1) : Suffers(side, [s EXCEPT ![i] = s[i + 1], ![i + 1] = s[i]])
      BY <1>a, <2>4 DEF SwapRecords
    <3>2. /\ DOMAIN s = 1..Len(s) /\ Len(s) \in Nat
          /\ i \in DOMAIN s /\ i + 1 \in DOMAIN s
          /\ s[i] \in ToSet(s) /\ s[i + 1] \in ToSet(s)
      <4>1. DOMAIN s = 1..Len(s) /\ Len(s) \in Nat /\ \A k \in 1..Len(s) : s[k] \in ToSet(s)
        BY <1>2, IsSeqFacts
      <4>2. i \in 1..Len(s) /\ i + 1 \in 1..Len(s)
        BY <4>1
      <4> QED BY <4>1, <4>2
    <3>b. PICK e, f, j : e = s[i + 1] /\ f = s[i] /\ j = i + 1
      OBVIOUS
    <3>3. PICK t : t = [s EXCEPT ![i] = e]
      OBVIOUS
    <3>c. e \in ToSet(s) /\ f \in ToSet(s) /\ i \in DOMAIN s /\ j \in DOMAIN s
      BY <3>2, <3>b
    <3>4. IsSeq(t) /\ ToSet(t) \subseteq ToSet(s) /\ DOMAIN t = DOMAIN s
      BY <1>2, <3>3, <3>c, ChangedIsSeq
    <3>5. PICK u : u = [t EXCEPT ![j] = f]
      OBVIOUS
    <3>6. IsSeq(u) /\ ToSet(u) \subseteq ToSet(s)
      <4>1. IsSeq(t) /\ j \in DOMAIN t
        BY <3>4, <3>c
      <4>2. IsSeq(u) /\ ToSet(u) \subseteq ToSet(t) \cup {f}
        BY <3>5, <4>1, ChangedIsSeq
      <4> QED BY <3>4, <3>c, <4>2
    <3>7. Suffers(side, u)
      BY <3>1, <3>3, <3>5, <3>b
    <3> QED BY <1>2, <3>6, <3>7
  <2> QED BY <1>1, <2>1, <2>2, <2>3, <2>4
<1>4. /\ faults' = faults + 1
      /\ net' = [net EXCEPT ![side] = records]
      /\ UNCHANGED <<at, sec, in, out, closed, call>>
  BY <1>3 DEF Suffers
<1>5. net'[side] = records /\ DOMAIN net' = Sides /\ \A x \in Sides \ {side} : net'[x] = net[x]
  BY <1>4 DEF TlsInv, TlsTyped
<1>6. TlsTyped'
  BY <1>4, <1>5 DEF TlsInv, TlsTyped, IsCipher, IsSecrets, Missing, ParseHeader, frameVars
<1>7. StagesAgree'
  BY <1>4 DEF TlsInv, StagesAgree, expandKeys, masterSecret, Active
<1>8. ASSUME NEW x \in Sides PROVE WireOK(x)'
  <2>1. /\ WireOK(x) /\ KeepsSeals(x) /\ IsCipher(out[x]) /\ IsCipher(out'[x])
        /\ faults' # 0 /\ faults # faults'
    BY <1>4 DEF TlsInv, TlsTyped, KeepsSeals, IsCipher
  <2>2. CASE x = side
    <3>1. \A r \in ToSet(net'[x]) : RecordOK(x, r)'
      BY <1>3, <1>5, <2>1, <2>2, RecordKept
    <3> QED BY <1>3, <1>5, <2>1, <2>2, <3>1, WireKept
  <2>3. CASE x # side
    <3>1. net'[x] = net[x] /\ IsSeq(net'[x])
      BY <1>5, <2>1, <2>3 DEF WireOK
    <3> QED BY <2>1, <3>1, WireKept
  <2> QED BY <2>2, <2>3
<1> QED BY <1>6, <1>7, <1>8 DEF TlsInv

\* A side that uses the connection has a key to write with.
LEMMA WriterHasKey ==
    ASSUME TlsInv, NEW side \in Sides, MayWrite(side)
    PROVE  Active(out[side])
<1>1. CASE side = "client"
  BY <1>1 DEF MayWrite, Handshaken, TlsInv, StagesAgree
<1>2. CASE side = "server"
  <2>1. call["writer"] = "through"
    BY <1>2 DEF MayWrite
  <2> QED BY <1>2, <2>1 DEF TlsInv, StagesAgree, Callers
<1> QED BY <1>1, <1>2, Peers

\* One more sealed record of a side that has a key.
LEMMA SealedWriteKeeps ==
    ASSUME TlsInv, NEW side \in Sides, Active(out[side]),
           NEW typ \in {"applicationData", "alert", "handshake"}, NEW data,
           NEW version,
           typ = "applicationData" => data \in Seq(Nat) /\ Len(data) <= MaxFragment,
           typ = "handshake" => data = <<Garbled>>,
           net' = [net EXCEPT ![side] = Append(net[side], Record(out[side], version, typ, data))],
           out' = [out EXCEPT ![side] = Advance(out[side], 1)],
           UNCHANGED <<sec, faults>>
    PROVE  /\ DOMAIN net' = Sides /\ \A s \in Sides : WireOK(s)'
           /\ DOMAIN out' = Sides /\ \A s \in Sides : IsCipher(out'[s])
           /\ \A s \in Sides : out'[s].key = out[s].key
<1>1. PICK c : c = out[side]
  OBVIOUS
<1>2. Active(c) /\ IsCipher(c)
  BY <1>1 DEF TlsInv, TlsTyped
<1>3. PICK rec : rec = Record(c, version, typ, data)
  OBVIOUS
<1>4. /\ IsCipher(Advance(c, 1)) /\ Active(Advance(c, 1))
      /\ Advance(c, 1).key = c.key /\ Advance(c, 1).seq = c.seq + 1
  BY <1>2, Advanced
<1>5. /\ IsRecord(rec) /\ rec.typ = typ /\ rec.data = data
      /\ Sealed(rec) /\ rec.seal = <<c.key, c.seq, typ, data>>
  BY <1>2, <1>3, RecordShape
<1>6. /\ net'[side] = Append(net[side], rec) /\ DOMAIN net' = Sides
      /\ \A s \in Sides \ {side} : net'[s] = net[s] /\ out'[s] = out[s]
      /\ out'[side] = Advance(c, 1) /\ DOMAIN out' = Sides
  BY <1>1, <1>3 DEF TlsInv, TlsTyped
<1>7. /\ \A s \in Sides : IsCipher(out[s]) /\ IsCipher(out'[s]) /\ out'[s].key = out[s].key
  BY <1>1, <1>4, <1>6 DEF TlsInv, TlsTyped
<1>8. \A s \in Sides : WireOK(s) /\ KeepsSeals(s)
  <2>1. KeepsSeals(side)
    <3>1. c.seq \in Nat
      BY <1>2 DEF IsCipher
    <3>2. c.seq + 1 >= c.seq
      BY <3>1
    <3> QED BY <1>1, <1>4, <1>6, <3>2 DEF KeepsSeals
  <2>2. ASSUME NEW s \in Sides, s # side PROVE KeepsSeals(s)
    <3>1. out'[s] = out[s] /\ out[s].seq \in Nat
      BY <1>6, <1>7, <2>2 DEF IsCipher
    <3> QED BY <3>1 DEF KeepsSeals
  <2> QED BY <2>1, <2>2 DEF TlsInv
<1>9. RecordOK(side, rec)'
  <2>1. /\ rec.seal[1] = c.key /\ rec.seal[2] = c.seq /\ rec.seal[3] = typ /\ rec.seal[4] = data
        /\ rec.seal = <<rec.seal[1], rec.seal[2], rec.seal[3], rec.seal[4]>>
    BY <1>5
  <2>2. rec.seal[2] \in Nat /\ rec.seal[2] < out'[side].seq
    <3>1. c.seq \in Nat /\ c.seq < c.seq + 1
      BY <1>2 DEF IsCipher
    <3> QED BY <1>4, <1>6, <2>1, <3>1
  <2>3. typ = "handshake" => ClientSealOK(data)'
    BY DEF ClientSealOK
  <2>4. SealOK(side, rec.seal)'
    BY <1>4, <1>6, <2>1, <2>2, <2>3 DEF SealOK, Active
  <2> QED BY <1>5, <2>4 DEF RecordOK, IsRecord, Sealed
<1>10. WireOK(side)'
  <2>1. net'[side] = net[side] \o <<rec>>
    <3>1. net[side] \in Seq(ToSet(net[side]) \cup {rec})
      BY <1>8, SeqMonotonic DEF WireOK, IsSeq
    <3> QED BY <1>6, <3>1, AppendIsConcat
  <2>2. IsSeq(<<rec>>) /\ \A r \in ToSet(<<rec>>) : RecordOK(side, r)'
    BY <1>9, SingleIsSeq
  <2>3. SealsLast(<<rec>>, out[side].seq)
    <3>1. rec.seal[2] = out[side].seq
      BY <1>1, <1>5
    <3> QED BY <3>1 DEF SealsLast
  <2> QED BY <1>7, <1>8, <2>1, <2>2, <2>3, WireWrite
<1>11. ASSUME NEW s \in Sides, s # side PROVE WireOK(s)'
  BY <1>6, <1>7, <1>8, <1>11, WireSame
<1> QED BY <1>6, <1>7, <1>10, <1>11

\* What Conn.Write puts into one record, and what is left.
LEMMA PieceFits ==
    ASSUME TlsInv, NEW side \in Sides
    PROVE  /\ Piece(side) \in Seq(Nat) /\ Len(Piece(side)) <= MaxFragment
           /\ SubSeq(packet[side], Len(Piece(side)) + 1, Len(packet[side])) \in Seq(Nat)
<1>1. packet[side] \in Seq(Nat) /\ Len(packet[side]) \in Nat /\ MaxFragment \in Nat
  BY StreamAssumption, LenProperties DEF TlsInv, TlsTyped
<1>2. PICK n : n = IF Len(packet[side]) < MaxFragment THEN Len(packet[side]) ELSE MaxFragment
  OBVIOUS
<1>3. n \in Nat /\ n \in 0..Len(packet[side]) /\ n <= MaxFragment
  BY <1>1, <1>2
<1>4. Piece(side) = SubSeq(packet[side], 1, n)
  BY <1>2 DEF Piece
<1>5. Piece(side) \in Seq(Nat) /\ Len(Piece(side)) = n
  BY <1>1, <1>3, <1>4, SubSeqProperties
<1>6. SubSeq(packet[side], n + 1, Len(packet[side])) \in Seq(Nat)
  BY <1>1, <1>3, SubSeqProperties
<1> QED BY <1>3, <1>5, <1>6

LEMMA WriteRecordKeeps ==
    ASSUME TlsInv, NEW side \in Sides, WriteRecord(side)
    PROVE  TlsInv'
<1>a. PICK piece : piece = Piece(side)
  OBVIOUS
<1>1. /\ MayWrite(side)
      /\ net' = [net EXCEPT ![side] =
             Append(net[side], Record(out[side], sec[side].version, "applicationData", piece))]
      /\ out' = [out EXCEPT ![side] = Advance(out[side], 1)]
      /\ packet' = [packet EXCEPT ![side] = SubSeq(packet[side], Len(piece) + 1, Len(packet[side]))]
      /\ UNCHANGED <<at, sec, in, closed, call, faults, partial>>
  BY <1>a DEF WriteRecord
<1>2. /\ piece \in Seq(Nat) /\ Len(piece) <= MaxFragment
      /\ SubSeq(packet[side], Len(piece) + 1, Len(packet[side])) \in Seq(Nat)
  BY <1>a, PieceFits
<1>3. Active(out[side])
  BY <1>1, WriterHasKey
<1>4. PICK version : version = sec[side].version
  OBVIOUS
<1>5. /\ DOMAIN net' = Sides /\ \A s \in Sides : WireOK(s)'
      /\ DOMAIN out' = Sides /\ \A s \in Sides : IsCipher(out'[s])
      /\ \A s \in Sides : out'[s].key = out[s].key
  BY <1>1, <1>2, <1>3, <1>4, SealedWriteKeeps
<1>6. TlsTyped'
  <2>1. packet' \in [Sides -> Seq(Nat)]
    BY <1>1, <1>2 DEF TlsInv, TlsTyped
  <2> QED BY <1>1, <1>5, <2>1 DEF TlsInv, TlsTyped, IsSecrets, Missing, ParseHeader
<1>7. StagesAgree'
  BY <1>1, <1>5, Peers DEF TlsInv, StagesAgree, expandKeys, masterSecret, Active
<1> QED BY <1>5, <1>6, <1>7 DEF TlsInv

LEMMA ClientNoticeKeeps ==
    ASSUME TlsInv, ClientNotice
    PROVE  TlsInv'
<1>1. PICK typ \in {"alert", "handshake"} :
      /\ Handshaken("client")
      /\ net' = [net EXCEPT !["client"] =
             Append(net["client"], Record(out["client"], sec["client"].version, typ, <<Garbled>>))]
      /\ out' = [out EXCEPT !["client"] = Advance(out["client"], 1)]
      /\ closed' = closed \cup {"client"}
      /\ UNCHANGED <<at, sec, in, call, faults, frameVars>>
  BY DEF ClientNotice
<1>2. PICK data, version : data = <<Garbled>> /\ version = sec["client"].version
  OBVIOUS
<1>3. Active(out["client"])
  BY <1>1 DEF Handshaken, TlsInv, StagesAgree
<1>4. /\ DOMAIN net' = Sides /\ \A s \in Sides : WireOK(s)'
      /\ DOMAIN out' = Sides /\ \A s \in Sides : IsCipher(out'[s])
      /\ \A s \in Sides : out'[s].key = out[s].key
  <2>1. /\ typ \in {"applicationData", "alert", "handshake"}
        /\ typ = "applicationData" => data \in Seq(Nat) /\ Len(data) <= MaxFragment
        /\ typ = "handshake" => data = <<Garbled>>
        /\ net' = [net EXCEPT !["client"] =
              Append(net["client"], Record(out["client"], version, typ, data))]
    BY <1>1, <1>2
  <2> QED BY <1>1, <1>3, <2>1, Peers, SealedWriteKeeps
<1>5. TlsTyped'
  BY <1>1, <1>4, Peers DEF TlsInv, TlsTyped, IsSecrets, Missing, ParseHeader, frameVars
<1>6. StagesAgree'
  BY <1>1, <1>4, Peers DEF TlsInv, StagesAgree, expandKeys, masterSecret, Active
<1> QED BY <1>4, <1>5, <1>6 DEF TlsInv

\* Steps of the reader, and the start of a frame.
LEMMA StreamReadKeeps ==
    ASSUME TlsInv, NEW side \in Sides, ReadRecord(side) \/ ReadPiece(side) \/ WriteFrame(side)
    PROVE  TlsInv'
<1>1. UNCHANGED <<at, sec, out, closed, call, faults>>
  BY DEF ReadRecord, ReadPiece, WriteFrame, tlsVars
<1>2. DOMAIN net' = Sides /\ \A s \in Sides : WireOK(s)'
  <2>1. CASE ReadRecord(side)
    BY <1>1, <2>1, ReadOnly DEF ReadRecord
  <2>2. CASE ReadPiece(side) \/ WriteFrame(side)
    BY <1>1, <2>2, NoTraffic DEF ReadPiece, WriteFrame, tlsVars
  <2> QED BY <2>1, <2>2
<1>3. packet' \in [Sides -> Seq(Nat)]
  <2>1. CASE WriteFrame(side)
    <3>1. PICK f \in Frames :
            packet' = [packet EXCEPT ![side] = packet[side] \o (MarshalBinary(f) \o f.payload)]
      BY <2>1 DEF WriteFrame
    <3>2. f.id \in Nat /\ f.payload \in Seq(Nat) /\ SizeLimit \in Nat
      BY StreamAssumption
    <3>3. MarshalBinary(f) \in Seq(Nat)
      <4>1. Len(f.payload) \in Nat
        BY <3>2, LenProperties
      <4>2. Len(f.payload) % (SizeLimit + 1) \in Nat
        <5> PICK n, d : n = Len(f.payload) /\ d = SizeLimit + 1
          OBVIOUS
        <5>1. n \in Nat /\ d \in Nat /\ d > 0
          BY <3>2, <4>1
        <5>2. n % d \in Nat
          BY <5>1
        <5> QED BY <5>2
      <4>3. PICK size, id : size = Len(f.payload) % (SizeLimit + 1) /\ id = f.id
        OBVIOUS
      <4>4. size \in Nat /\ id \in Nat /\ MarshalBinary(f) = <<size, id>>
        BY <3>2, <4>2, <4>3 DEF MarshalBinary
      <4> QED BY <4>4
    <3>4. MarshalBinary(f) \o f.payload \in Seq(Nat)
      BY <3>2, <3>3, ConcatProperties
    <3>5. packet[side] \in Seq(Nat) /\ packet \in [Sides -> Seq(Nat)]
      BY DEF TlsInv, TlsTyped
    <3>6. packet[side] \o (MarshalBinary(f) \o f.payload) \in Seq(Nat)
      BY <3>4, <3>5, ConcatProperties
    <3> QED BY <3>1, <3>5, <3>6
  <2>2. CASE ReadRecord(side) \/ ReadPiece(side)
    BY <2>2 DEF ReadRecord, ReadPiece, TlsInv, TlsTyped
  <2> QED BY <2>1, <2>2
<1>4. /\ DOMAIN in' = Sides /\ DOMAIN partial' = Sides
      /\ \A s \in Sides : partial'[s] # <<>> => Missing(partial'[s]) > 0
  <2>1. CASE ReadPiece(side)
    <3>1. PICK b : b = partial[side] \o SubSeq(readBuf[side], 1, Take(side))
      OBVIOUS
    <3>2. /\ UNCHANGED in
          /\ \/ Missing(b) > 0 /\ partial' = [partial EXCEPT ![side] = b]
             \/ partial' = [partial EXCEPT ![side] = <<>>]
      BY <2>1, <3>1 DEF ReadPiece, tlsVars
    <3> QED BY <3>2 DEF TlsInv, TlsTyped
  <2>2. CASE ReadRecord(side)
    BY <2>2 DEF ReadRecord, TlsInv, TlsTyped
  <2>3. CASE WriteFrame(side)
    BY <2>3 DEF WriteFrame, tlsVars, TlsInv, TlsTyped
  <2> QED BY <2>1, <2>2, <2>3
<1>5. TlsTyped'
  BY <1>1, <1>2, <1>3, <1>4 DEF TlsInv, TlsTyped, IsSecrets, IsCipher, Missing, ParseHeader
<1>6. StagesAgree'
  <2>1. /\ at["client"] = "finished" => in'["client"] = in["client"]
        /\ at["server"] = "finished" => in'["server"] = in["server"]
    <3>1. CASE ReadRecord(side)
      <4>1. at[side] # "finished"
        BY <3>1, Peers DEF ReadRecord, MayRead, Handshaken, TlsInv, StagesAgree, Callers
      <4> QED BY <3>1, <4>1, Peers DEF ReadRecord, TlsInv, TlsTyped
    <3>2. CASE ReadPiece(side) \/ WriteFrame(side)
      BY <3>2 DEF ReadPiece, WriteFrame, tlsVars
    <3> QED BY <3>1, <3>2
  <2> QED BY <1>1, <2>1 DEF TlsInv, StagesAgree, expandKeys, masterSecret, Active
<1> QED BY <1>2, <1>5, <1>6 DEF TlsInv

LEMMA TlsInvStep == TlsInv /\ [StreamNext]_streamVars => TlsInv'
<1> SUFFICES ASSUME TlsInv, [StreamNext]_streamVars PROVE TlsInv'
  OBVIOUS
<1>1. CASE UNCHANGED streamVars
  <2>1. \A s \in Sides : WireOK(s)'
    BY <1>1, NoTraffic DEF streamVars, tlsVars
  <2>2. TlsTyped'
    BY <1>1 DEF TlsInv, TlsTyped, IsSecrets, IsCipher, Missing, ParseHeader, streamVars,
                tlsVars, frameVars
  <2>3. StagesAgree'
    BY <1>1 DEF TlsInv, StagesAgree, expandKeys, masterSecret, Active, streamVars, tlsVars
  <2> QED BY <2>1, <2>2, <2>3 DEF TlsInv
<1>2. CASE Call
  BY <1>2, CallersKeep DEF Call, Callers
<1>3. CASE ServerHandshake /\ UNCHANGED frameVars
  BY <1>3, CallersKeep, AcceptClientHelloKeeps, AcceptClientKeyExchangeKeeps,
     AcceptChangeCipherSpecKeeps, AcceptFinishedKeeps, RefuseKeeps DEF ServerHandshake
<1>4. CASE ClientHandshake /\ UNCHANGED frameVars
  BY <1>4, ClientHelloKeeps, ClientFlightKeeps, AcceptChangeCipherSpecKeeps,
     ClientFinishedKeeps, RefuseKeeps DEF ClientHandshake
<1>5. CASE HangUp /\ UNCHANGED frameVars
  BY <1>5, HangUpKeeps, Peers DEF HangUp
<1>6. CASE Transit /\ UNCHANGED frameVars
  BY <1>6, TransitKeeps
<1>7. ASSUME NEW side \in Sides, Stream(side) PROVE TlsInv'
  <2>1. CASE WriteRecordFails(side) \/ ReadFails(side)
    BY <2>1, HangUpKeeps DEF WriteRecordFails, ReadFails, Shut
  <2> QED BY <1>7, <2>1, WriteRecordKeeps, StreamReadKeeps DEF Stream
<1>8. CASE RefuseFrame
  BY <1>8, HangUpKeeps, Peers DEF RefuseFrame, Shut
<1>9. CASE ClientNotice
  BY <1>9, ClientNoticeKeeps
<1> QED BY <1>1, <1>2, <1>3, <1>4, <1>5, <1>6, <1>7, <1>8, <1>9 DEF StreamNext

-----------------------------------------------------------------------------
(* The theorems.                                                           *)

\* The inductive invariant of a connection: every seal on its way was made by the
\* side that writes there, with the key it has, and the stages of the two sides
\* fit together.
THEOREM TlsInvariant == StreamSpec => []TlsInv
  BY InitTlsInv, TlsInvStep, PTL DEF StreamSpec

\* Stages, calls and sizes of records are what they may be, and a frame is handed
\* over as soon as it is complete, for any frames and any limits
\* (conn.go:58-123, frame.go:43-72).
THEOREM StreamTyped == StreamSpec => []StreamTypeOK
<1>1. TlsInv => StreamTypeOK
  <2> SUFFICES ASSUME TlsInv PROVE StreamTypeOK
    OBVIOUS
  <2>1. ASSUME NEW side \in Sides, NEW r \in ToSet(net[side]), r.typ = "applicationData"
        PROVE  Len(r.data) <= MaxFragment
    BY <2>1 DEF TlsInv, WireOK, RecordOK
  <2> QED BY <2>1 DEF TlsInv, TlsTyped, StreamTypeOK, ServerStages, ClientStages
<1> QED BY <1>1, TlsInvariant, PTL

\* Whatever is damaged, lost, repeated or swapped on the way, a side that completes
\* its handshake has settled on the same version, suite, secrets and messages as
\* the other one (conn.go:159-192, 324-340).
THEOREM TlsAgreement == StreamSpec => []Agreement
<1>1. TlsInv => Agreement
  <2> SUFFICES ASSUME TlsInv, NEW side \in Sides, Handshaken(side)
               PROVE  sec["server"] = sec["client"]
    BY DEF Agreement
  <2>1. at["server"] = "ready"
    BY Peers DEF Handshaken, TlsInv, StagesAgree
  <2> QED BY <2>1 DEF TlsInv, StagesAgree
<1> QED BY <1>1, TlsInvariant, PTL

\* Nothing but handshake messages leaves in the clear, and no place of the key
\* stream is used for two records (conn.go:42-45, 94-98, 442-446).
THEOREM TlsDataSealed == StreamSpec => []DataSealed
<1>1. TlsInv => DataSealed
  <2> SUFFICES ASSUME TlsInv, NEW side \in Sides, NEW i \in DOMAIN net[side]
               PROVE  /\ net[side][i].typ \notin {"handshake", "changeCipherSpec"}
                            => net[side][i].seal # NoSeal
                      /\ faults = 0 => \A j \in DOMAIN net[side] \ {i} :
                            net[side][i].seal # NoSeal /\ net[side][j].seal # NoSeal
                              => Place(net[side][i]) # Place(net[side][j])
    BY DEF DataSealed
  <2> PICK s : s = net[side]
    OBVIOUS
  <2>1. /\ IsSeq(s) /\ \A r \in ToSet(s) : RecordOK(side, r)
        /\ faults = 0 => InOrder(s)
    BY DEF TlsInv, WireOK
  <2>2. DOMAIN s = 1..Len(s) /\ Len(s) \in Nat /\ \A k \in DOMAIN s : RecordOK(side, s[k])
    BY <2>1, IsSeqFacts
  <2>3. s[i].typ \notin {"handshake", "changeCipherSpec"} => Sealed(s[i])
    BY <2>2 DEF RecordOK
  <2>4. ASSUME faults = 0, NEW j \in DOMAIN s \ {i}, Sealed(s[i]), Sealed(s[j])
        PROVE  Place(s[i]) # Place(s[j])
    <3>1. s[i].seal[2] \in Nat /\ s[j].seal[2] \in Nat
      BY <2>2, <2>4 DEF RecordOK, SealOK
    <3>2. s[i].seal[2] # s[j].seal[2]
      <4> PICK m, n : m = s[i].seal[2] /\ n = s[j].seal[2]
        OBVIOUS
      <4>1. CASE i < j
        <5>1. m < n
          BY <2>1, <2>4, <4>1 DEF InOrder
        <5> QED BY <3>1, <5>1
      <4>2. CASE j < i
        <5>1. n < m
          BY <2>1, <2>4, <4>2 DEF InOrder
        <5> QED BY <3>1, <5>1
      <4>3. i < j \/ j < i
        BY <2>2
      <4> QED BY <4>1, <4>2, <4>3
    <3> QED BY <3>2 DEF Place
  <2> QED BY <2>3, <2>4 DEF Sealed
<1> QED BY <1>1, TlsInvariant, PTL

-----------------------------------------------------------------------------
(* A stream of bytes, and the pieces it is cut into.                       *)

\* The piece of the stream from place a to place b.
Spans(s, bytes, a, b) ==
    /\ s \in Seq(Nat)
    /\ a \in Nat
    /\ b = a + Len(s)
    /\ \A j \in 1..Len(s) : s[j] = bytes[a + j]

LEMMA SpansNothing ==
    ASSUME NEW bytes, NEW a \in Nat
    PROVE  Spans(<<>>, bytes, a, a)
  BY DEF Spans

LEMMA SpansLength ==
    ASSUME NEW s, NEW bytes, NEW a, NEW b, Spans(s, bytes, a, b)
    PROVE  Len(s) \in Nat /\ a \in Nat /\ b \in Nat /\ Len(s) = b - a /\ a <= b
<1>1. Len(s) \in Nat
  BY LenProperties DEF Spans
<1> QED BY <1>1 DEF Spans

LEMMA SpansJoin ==
    ASSUME NEW s, NEW t, NEW bytes, NEW a, NEW b, NEW c,
           Spans(s, bytes, a, b), Spans(t, bytes, b, c)
    PROVE  Spans(s \o t, bytes, a, c)
<1>1. /\ s \in Seq(Nat) /\ t \in Seq(Nat) /\ a \in Nat /\ b = a + Len(s) /\ c = b + Len(t)
      /\ Len(s) \in Nat /\ Len(t) \in Nat
      /\ \A j \in 1..Len(s) : s[j] = bytes[a + j]
      /\ \A j \in 1..Len(t) : t[j] = bytes[b + j]
  BY LenProperties DEF Spans
<1>2. /\ s \o t \in Seq(Nat) /\ Len(s \o t) = Len(s) + Len(t)
      /\ \A i \in 1..(Len(s) + Len(t)) :
            (s \o t)[i] = IF i <= Len(s) THEN s[i] ELSE t[i - Len(s)]
  BY <1>1, ConcatProperties
<1>3. PICK u : u = s \o t
  OBVIOUS
<1>4. ASSUME NEW j \in 1..(Len(s) + Len(t)) PROVE u[j] = bytes[a + j]
  <2>1. CASE j <= Len(s)
    BY <1>1, <1>2, <1>3, <2>1
  <2>2. CASE j > Len(s)
    <3>1. j - Len(s) \in 1..Len(t) /\ b + (j - Len(s)) = a + j
      BY <1>1, <2>2
    <3>2. u[j] = t[j - Len(s)]
      BY <1>1, <1>2, <1>3, <2>2
    <3> QED BY <1>1, <3>1, <3>2
  <2> QED BY <1>1, <2>1, <2>2
<1> QED BY <1>1, <1>2, <1>3, <1>4 DEF Spans

LEMMA SpansCut ==
    ASSUME NEW s, NEW bytes, NEW a, NEW b, Spans(s, bytes, a, b), NEW n \in 0..Len(s)
    PROVE  /\ Spans(SubSeq(s, 1, n), bytes, a, a + n)
           /\ Spans(SubSeq(s, n + 1, Len(s)), bytes, a + n, b)
           /\ Len(SubSeq(s, 1, n)) = n
<1>1. /\ s \in Seq(Nat) /\ a \in Nat /\ b = a + Len(s) /\ Len(s) \in Nat
      /\ \A j \in 1..Len(s) : s[j] = bytes[a + j]
  BY LenProperties DEF Spans
<1>2. /\ SubSeq(s, 1, n) \in Seq(Nat) /\ Len(SubSeq(s, 1, n)) = n
      /\ \A i \in 1..n : SubSeq(s, 1, n)[i] = s[i]
  BY <1>1, SubSeqProperties
<1>3. /\ SubSeq(s, n + 1, Len(s)) \in Seq(Nat) /\ Len(SubSeq(s, n + 1, Len(s))) = Len(s) - n
      /\ \A i \in 1..(Len(s) - n) : SubSeq(s, n + 1, Len(s))[i] = s[n + i]
  <2>1. n \in Nat /\ n <= Len(s)
    BY <1>1
  <2> PICK m, k : m = n + 1 /\ k = Len(s)
    OBVIOUS
  <2>2. m \in Int /\ k \in Int /\ \A i \in m..k : s[i] \in Nat
    BY <1>1, <2>1
  <2>3. /\ SubSeq(s, m, k) \in Seq(Nat)
        /\ Len(SubSeq(s, m, k)) = IF m <= k THEN k - m + 1 ELSE 0
        /\ \A i \in 1..(k - m + 1) : SubSeq(s, m, k)[i] = s[m + i - 1]
    BY <2>2, SubSeqProperties
  <2>4. Len(SubSeq(s, m, k)) = Len(s) - n
    BY <1>1, <2>1, <2>3
  <2>5. ASSUME NEW i \in 1..(Len(s) - n) PROVE SubSeq(s, m, k)[i] = s[n + i]
    <3>1. i \in 1..(k - m + 1) /\ m + i - 1 = n + i
      BY <1>1, <2>1
    <3> QED BY <2>3, <3>1
  <2> QED BY <2>3, <2>4, <2>5
<1>4. ASSUME NEW i \in 1..(Len(s) - n) PROVE s[n + i] = bytes[a + n + i]
  <2>1. n + i \in 1..Len(s) /\ a + (n + i) = a + n + i
    BY <1>1
  <2> QED BY <1>1, <2>1
<1>5. n \in Nat /\ a + n \in Nat /\ b = (a + n) + (Len(s) - n) /\ \A i \in 1..n : i \in 1..Len(s)
  BY <1>1
<1>6. Spans(SubSeq(s, 1, n), bytes, a, a + n)
  BY <1>1, <1>2, <1>5 DEF Spans
<1>7. PICK u : u = SubSeq(s, n + 1, Len(s))
  OBVIOUS
<1>8. Spans(u, bytes, a + n, b)
  <2>1. u \in Seq(Nat) /\ Len(u) = Len(s) - n /\ \A i \in 1..Len(u) : u[i] = s[n + i]
    BY <1>3, <1>7
  <2>2. \A i \in 1..Len(u) : u[i] = bytes[a + n + i]
    BY <1>4, <2>1
  <2> QED BY <1>5, <2>1, <2>2 DEF Spans
<1> QED BY <1>2, <1>6, <1>7, <1>8

\* What is written later changes nothing.
LEMMA SpansStill ==
    ASSUME NEW s, NEW bytes, NEW more, NEW a, NEW b, Spans(s, bytes, a, b),
           \A i \in 1..b : more[i] = bytes[i]
    PROVE  Spans(s, more, a, b)
<1>1. Len(s) \in Nat /\ a \in Nat
  BY SpansLength
<1>2. \A j \in 1..Len(s) : a + j \in 1..b
  BY <1>1 DEF Spans
<1> QED BY <1>2 DEF Spans

LEMMA SpansSame ==
    ASSUME NEW s, NEW t, NEW bytes, NEW a, NEW b, Spans(s, bytes, a, b), Spans(t, bytes, a, b)
    PROVE  s = t
<1>1. Len(s) = Len(t) /\ Len(s) \in Nat
  BY SpansLength
<1> QED BY <1>1, SeqEqual DEF Spans

-----------------------------------------------------------------------------
(* One direction of a connection.                                          *)

\* A frame as it is written.
Image(f) == MarshalBinary(f) \o f.payload

Sendable == {f \in Frames : Framable(f)}

\* There is one stream of bytes: the frames that were sent, each from its first
\* byte on, are cut into records, of which the seals on their way are some, and
\* what the reader has was cut from the same places.  Its next frame is there up
\* to pos, its buffer holds what follows, up to the end of the last record read.
\*   pk, q, fs: what is left to write, the next sequence number, the frames sent
\*   seals:     the seals of the records on their way
\*   g, pt, rb, n: how many frames were read, what there is of the next one, the
\*              read buffer, the sequence number that is expected
CarriedBy(bytes, first, cut, pos, pk, q, fs, seals, g, pt, rb, n) ==
    /\ cut[0] = 0 /\ cut[1] = 0
    /\ \A m \in 0..q : cut[m] <= cut[q]
    /\ \A i \in 1..(Len(fs) + 1) : first[i] <= first[Len(fs) + 1]
    /\ \A i \in 1..Len(fs) : Spans(Image(fs[i]), bytes, first[i], first[i + 1])
    /\ Spans(pk, bytes, cut[q], first[Len(fs) + 1])
    /\ \A seal \in seals :
          seal # NoSeal /\ seal[3] = "applicationData"
            => Spans(seal[4], bytes, cut[seal[2]], cut[seal[2] + 1])
    /\ Spans(rb, bytes, pos, cut[n])
    /\ Spans(pt, bytes, first[g + 1], pos)

Numbered(q, fs, seals, g, n) ==
    /\ q \in Nat
    /\ n \in 0..q
    /\ fs \in Seq(Sendable)
    /\ g \in 0..Len(fs)
    /\ \A seal \in seals : seal # NoSeal => seal[2] \in Nat /\ seal[2] < q

Carried(pk, q, fs, seals, g, pt, rb, n) ==
    /\ Numbered(q, fs, seals, g, n)
    /\ \E bytes, first, cut \in [Nat -> Nat], pos \in Nat :
          CarriedBy(bytes, first, cut, pos, pk, q, fs, seals, g, pt, rb, n)

\* Nothing has been written.
LEMMA CarriedAtFirst == Carried(<<>>, 0, <<>>, {}, 0, <<>>, <<>>, 0)
<1>1. Numbered(0, <<>>, {}, 0, 0)
  BY DEF Numbered
<1> PICK zero : zero = [i \in Nat |-> 0]
  OBVIOUS
<1>2. zero \in [Nat -> Nat] /\ zero[0] = 0 /\ zero[1] = 0
  OBVIOUS
<1>3. Len(<<>>) = 0 /\ Spans(<<>>, zero, 0, 0)
  BY SpansNothing
<1>4. CarriedBy(zero, zero, zero, 0, <<>>, 0, <<>>, {}, 0, <<>>, <<>>, 0)
  BY <1>2, <1>3 DEF CarriedBy
<1> QED BY <1>1, <1>2, <1>4 DEF Carried

\* Steps that write and read no byte of a frame: seals stay, vanish, or are those
\* of other records, and either side may take up its cipher.
LEMMA CarriedOn ==
    ASSUME NEW pk, NEW q, NEW fs, NEW seals, NEW g, NEW pt, NEW rb, NEW n,
           Carried(pk, q, fs, seals, g, pt, rb, n),
           NEW q2 \in Nat, NEW n2 \in Nat, NEW others,
           q2 = q \/ (q = 0 /\ q2 = 1),
           n2 = n \/ (n = 0 /\ n2 = 1 /\ q2 # 0),
           \A seal \in others : \/ seal \in seals
                                \/ seal = NoSeal
                                \/ seal[3] # "applicationData" /\ seal[2] \in Nat /\ seal[2] < q2
    PROVE  Carried(pk, q2, fs, others, g, pt, rb, n2)
<1>1. PICK bytes, first, cut \in [Nat -> Nat], pos \in Nat :
        CarriedBy(bytes, first, cut, pos, pk, q, fs, seals, g, pt, rb, n)
  BY DEF Carried
<1>2. q \in Nat /\ n \in 0..q
  BY DEF Carried, Numbered
<1>3. q <= q2 /\ n2 \in 0..q2
  BY <1>2
<1>4. Numbered(q2, fs, others, g, n2)
  <2>1. ASSUME NEW seal \in others, seal # NoSeal PROVE seal[2] \in Nat /\ seal[2] < q2
    <3>1. CASE seal \in seals
      <4>1. seal[2] \in Nat /\ seal[2] < q
        BY <2>1, <3>1 DEF Carried, Numbered
      <4>2. PICK m \in Nat : m = seal[2]
        BY <4>1
      <4>3. m < q2
        BY <1>2, <1>3, <4>1, <4>2
      <4> QED BY <4>2, <4>3
    <3> QED BY <2>1, <3>1
  <2> QED BY <1>3, <2>1 DEF Carried, Numbered
<1>5. cut[0] = 0 /\ cut[1] = 0
  BY <1>1 DEF CarriedBy
<1>6. cut[q2] = cut[q] /\ cut[n2] = cut[n]
  BY <1>5
<1>7. ASSUME NEW m \in 0..q2 PROVE cut[m] <= cut[q2]
  <2>1. CASE q2 = q
    BY <1>1, <2>1 DEF CarriedBy
  <2>2. CASE q = 0 /\ q2 = 1
    <3>1. m = 0 \/ m = 1
      BY <2>2
    <3> QED BY <1>5, <2>2, <3>1
  <2> QED BY <2>1, <2>2
<1>8. CarriedBy(bytes, first, cut, pos, pk, q2, fs, others, g, pt, rb, n2)
  BY <1>1, <1>6, <1>7 DEF CarriedBy
<1> QED BY <1>1, <1>4, <1>8 DEF Carried

\* What a frame looks like on the wire.
LEMMA ImageOf ==
    ASSUME NEW f \in Sendable
    PROVE  /\ f = [id |-> f.id, payload |-> f.payload]
           /\ f.payload \in Seq(Nat) /\ Len(f.payload) \in Nat
           /\ Image(f) \in Seq(Nat) /\ Len(Image(f)) = Len(f.payload) + 2
           /\ Image(f)[1] = Len(f.payload) /\ Image(f)[2] = f.id
           /\ SubSeq(Image(f), 3, Len(Image(f))) = f.payload
<1>1. /\ f \in [id : Nat, payload : Seq(Nat)] /\ SizeLimit \in Nat
      /\ Len(f.payload) <= SizeLimit
  BY StreamAssumption DEF Sendable, Framable
<1>2. f = [id |-> f.id, payload |-> f.payload] /\ f.id \in Nat /\ f.payload \in Seq(Nat)
  BY <1>1
<1> PICK p, n : p = f.payload /\ n = Len(p)
  OBVIOUS
<1>3. p \in Seq(Nat) /\ n \in Nat /\ n <= SizeLimit
  BY <1>1, <1>2, LenProperties
<1>4. n % (SizeLimit + 1) = n
  BY <1>1, <1>3
<1> PICK h : h = <<n, f.id>>
  OBVIOUS
<1>5. Image(f) = h \o p
  BY <1>4 DEF Image, MarshalBinary
<1>6. h \in Seq(Nat) /\ Len(h) = 2 /\ h[1] = n /\ h[2] = f.id
  BY <1>2, <1>3
<1> PICK u : u = h \o p
  OBVIOUS
<1>7. /\ u \in Seq(Nat) /\ Len(u) = 2 + n
      /\ \A i \in 1..(2 + n) : u[i] = IF i <= 2 THEN h[i] ELSE p[i - 2]
  BY <1>3, <1>6, ConcatProperties
<1>8. u[1] = n /\ u[2] = f.id
  <2>1. 1 \in 1..(2 + n) /\ 2 \in 1..(2 + n)
    BY <1>3
  <2> QED BY <1>6, <1>7, <2>1
<1>9. SubSeq(u, 3, 2 + n) = p
  <2>1. \A i \in 3..(2 + n) : u[i] \in Nat
    BY <1>3, <1>7, ElementOfSeq
  <2> PICK v, m : v = SubSeq(u, 3, m) /\ m = 2 + n
    OBVIOUS
  <2>2. m \in Int /\ (3 <= m => m - 3 + 1 = n) /\ (~ 3 <= m => n = 0) /\ m - 3 + 1 = n
    BY <1>3
  <2>3. /\ v \in Seq(Nat) /\ Len(v) = n
        /\ \A i \in 1..n : v[i] = u[3 + i - 1]
    BY <2>1, <2>2, SubSeqProperties
  <2>4. ASSUME NEW i \in 1..n PROVE v[i] = p[i]
    <3>1. 3 + i - 1 \in 1..(2 + n) /\ ~ (3 + i - 1 <= 2) /\ (3 + i - 1) - 2 = i
      BY <1>3
    <3> QED BY <1>7, <2>3, <3>1
  <2>5. v = p
    BY <1>3, <2>3, <2>4, SeqEqual
  <2> QED BY <2>5
<1> QED BY <1>2, <1>3, <1>5, <1>7, <1>8, <1>9

\* The places of a direction are in order.
LEMMA CarriedPlaces ==
    ASSUME NEW pk, NEW q, NEW fs, NEW seals, NEW g, NEW pt, NEW rb, NEW n,
           NEW bytes, NEW first \in [Nat -> Nat], NEW cut \in [Nat -> Nat], NEW pos \in Nat,
           Numbered(q, fs, seals, g, n),
           CarriedBy(bytes, first, cut, pos, pk, q, fs, seals, g, pt, rb, n)
    PROVE  /\ q \in Nat /\ n \in Nat /\ n \in 0..q
           /\ Len(fs) \in Nat /\ g \in Nat /\ g <= Len(fs)
           /\ first[g + 1] <= pos
           /\ pos <= cut[n]
           /\ \A m \in 0..q : cut[m] <= first[Len(fs) + 1]
           /\ \A seal \in seals : seal # NoSeal =>
                 seal[2] \in Nat /\ seal[2] \in 0..q /\ seal[2] + 1 \in 0..q
<1>1. q \in Nat /\ n \in 0..q /\ Len(fs) \in Nat /\ g \in 0..Len(fs)
  BY LenProperties DEF Numbered
<1>2. n \in Nat /\ g \in Nat /\ g <= Len(fs)
  BY <1>1
<1>3. first[g + 1] <= pos
  BY SpansLength DEF CarriedBy
<1>4. pos <= cut[n]
  BY SpansLength DEF CarriedBy
<1>5. cut[q] <= first[Len(fs) + 1]
  BY SpansLength DEF CarriedBy
<1>6. ASSUME NEW m \in 0..q PROVE cut[m] <= first[Len(fs) + 1]
  <2>1. cut[m] <= cut[q]
    BY DEF CarriedBy
  <2>0. m \in Nat /\ Len(fs) + 1 \in Nat
    BY <1>1
  <2>a. cut[m] \in Nat /\ cut[q] \in Nat /\ first[Len(fs) + 1] \in Nat
    BY <1>1, <2>0
  <2>2. PICK a, b, c \in Nat : a = cut[m] /\ b = cut[q] /\ c = first[Len(fs) + 1]
    BY <2>a
  <2>3. a <= b /\ b <= c
    BY <1>5, <2>1, <2>2
  <2>4. a <= c
    BY <2>3
  <2> QED BY <2>2, <2>4
<1>7. ASSUME NEW seal \in seals, seal # NoSeal
      PROVE  seal[2] \in Nat /\ seal[2] \in 0..q /\ seal[2] + 1 \in 0..q
  <2>1. seal[2] \in Nat /\ seal[2] < q
    BY <1>7 DEF Numbered
  <2>2. PICK m \in Nat : m = seal[2]
    BY <2>1
  <2>3. m < q
    BY <2>1, <2>2
  <2>4. m \in 0..q /\ m + 1 \in 0..q
    BY <1>1, <2>3
  <2> QED BY <2>2, <2>4
<1> QED BY <1>1, <1>2, <1>3, <1>4, <1>6, <1>7


\* legacyfire.Write begins: the stream goes on with the image of the frame, after
\* what is still unwritten.
LEMMA CarriedFrame ==
    ASSUME NEW pk, NEW q, NEW fs, NEW seals, NEW g, NEW pt, NEW rb, NEW n, NEW f \in Sendable,
           Carried(pk, q, fs, seals, g, pt, rb, n)
    PROVE  Carried(pk \o Image(f), q, Append(fs, f), seals, g, pt, rb, n)
<1>1. PICK bytes, first, cut \in [Nat -> Nat], pos \in Nat :
        CarriedBy(bytes, first, cut, pos, pk, q, fs, seals, g, pt, rb, n)
  BY DEF Carried
<1>2. Numbered(q, fs, seals, g, n)
  BY DEF Carried
<1>3. /\ q \in Nat /\ n \in Nat /\ n \in 0..q
      /\ Len(fs) \in Nat /\ g \in Nat /\ g <= Len(fs)
      /\ first[g + 1] <= pos
      /\ pos <= cut[n]
      /\ \A m \in 0..q : cut[m] <= first[Len(fs) + 1]
      /\ \A seal \in seals : seal # NoSeal =>
            seal[2] \in Nat /\ seal[2] \in 0..q /\ seal[2] + 1 \in 0..q
  BY <1>1, <1>2, CarriedPlaces
<1>4. PICK k \in Nat : k = Len(fs)
  BY <1>3
<1>5. PICK total \in Nat : total = first[k + 1]
  OBVIOUS
<1>6. PICK img \in Seq(Nat) : img = Image(f)
  BY ImageOf
<1>7. PICK size \in Nat : size = Len(img)
  BY LenProperties
<1>8. PICK gs : gs = Append(fs, f)
  OBVIOUS
<1>9. /\ Len(gs) = k + 1 /\ gs[k + 1] = f /\ gs \in Seq(Sendable)
      /\ \A i \in 1..k : gs[i] = fs[i]
  BY <1>2, <1>4, <1>8, AppendProperties DEF Numbered
<1>10. Numbered(q, gs, seals, g, n)
  <2>1. g <= k
    BY <1>3, <1>4
  <2>2. g \in 0..(k + 1)
    BY <1>3, <2>1
  <2> QED BY <1>2, <1>9, <2>2 DEF Numbered
<1>11. PICK more : more = [i \in Nat |-> IF i \in (total + 1)..(total + size) THEN img[i - total]
                                         ELSE bytes[i]]
  OBVIOUS
<1>12. more \in [Nat -> Nat]
  <2>1. ASSUME NEW i \in Nat, i \in (total + 1)..(total + size) PROVE img[i - total] \in Nat
    <3>1. i - total \in 1..size
      BY <2>1
    <3> QED BY <1>7, <3>1, ElementOfSeq
  <2> QED BY <1>11, <2>1
<1>13. ASSUME NEW b \in Nat, b <= total PROVE \A i \in 1..b : more[i] = bytes[i]
  BY <1>11, <1>13
<1>14. PICK begin : begin = [first EXCEPT ![k + 2] = total + size]
  OBVIOUS
<1>15. /\ begin \in [Nat -> Nat] /\ begin[k + 2] = total + size
       /\ \A i \in 1..(k + 1) : begin[i] = first[i]
  <2>1. PICK j, e \in Nat : j = k + 2 /\ e = total + size
    OBVIOUS
  <2>2. begin = [first EXCEPT ![j] = e]
    BY <1>14, <2>1
  <2>3. begin \in [Nat -> Nat] /\ begin[j] = e /\ \A i \in Nat \ {j} : begin[i] = first[i]
    BY <2>2
  <2>4. \A i \in 1..(k + 1) : i \in Nat /\ i # k + 2
    OBVIOUS
  <2> QED BY <2>1, <2>3, <2>4
<1>16. Spans(img, more, total, total + size)
  <2>1. ASSUME NEW j \in 1..size PROVE img[j] = more[total + j]
    <3>1. total + j \in Nat /\ total + j \in (total + 1)..(total + size) /\ (total + j) - total = j
      OBVIOUS
    <3> QED BY <1>11, <3>1
  <2> QED BY <1>7, <2>1 DEF Spans
<1>17. \A i \in 1..(k + 2) : begin[i] <= begin[k + 2]
  <2>1. ASSUME NEW i \in 1..(k + 1) PROVE begin[i] <= total + size
    <3>1. first[i] <= total
      BY <1>1, <1>4, <1>5 DEF CarriedBy
    <3>2. PICK a \in Nat : a = first[i]
      OBVIOUS
    <3>3. a <= total
      BY <3>1, <3>2
    <3>4. a <= total + size
      BY <3>3
    <3> QED BY <1>15, <3>2, <3>4
  <2>2. \A i \in 1..(k + 2) : i \in 1..(k + 1) \/ i = k + 2
    OBVIOUS
  <2>3. total + size <= total + size
    OBVIOUS
  <2> QED BY <1>15, <2>1, <2>2, <2>3
<1>18. ASSUME NEW i \in 1..(k + 1) PROVE Spans(Image(gs[i]), more, begin[i], begin[i + 1])
  <2>1. CASE i \in 1..k
    <3>1. i + 1 \in 1..(k + 1) /\ i + 1 \in Nat
      BY <2>1
    <3>2. Spans(Image(fs[i]), bytes, first[i], first[i + 1]) /\ first[i + 1] <= total
      BY <1>1, <1>4, <1>5, <2>1, <3>1 DEF CarriedBy
    <3>3. first[i + 1] \in Nat
      BY <3>1
    <3>4. Spans(Image(fs[i]), more, first[i], first[i + 1])
      BY <1>13, <3>2, <3>3, SpansStill
    <3>5. begin[i] = first[i] /\ begin[i + 1] = first[i + 1] /\ gs[i] = fs[i]
      BY <1>9, <1>15, <2>1, <3>1
    <3> QED BY <3>4, <3>5
  <2>2. CASE i = k + 1
    <3>0. k + 1 \in 1..(k + 1)
      OBVIOUS
    <3>1. begin[k + 1] = total /\ begin[k + 2] = total + size /\ gs[k + 1] = f
      BY <1>5, <1>9, <1>15, <3>0
    <3>2. k + 1 + 1 = k + 2
      OBVIOUS
    <3>3. Spans(Image(gs[k + 1]), more, begin[k + 1], begin[k + 1 + 1])
      BY <1>6, <1>16, <3>1, <3>2
    <3> QED BY <2>2, <3>3
  <2>3. i \in 1..k \/ i = k + 1
    OBVIOUS
  <2> QED BY <2>1, <2>2, <2>3
<1>19. Spans(pk \o Image(f), more, cut[q], begin[k + 2])
  <2>1. Spans(pk, bytes, cut[q], total)
    BY <1>1, <1>4, <1>5 DEF CarriedBy
  <2>2. Spans(pk, more, cut[q], total)
    <3>1. total <= total
      OBVIOUS
    <3>2. \A i \in 1..total : more[i] = bytes[i]
      BY <1>13, <3>1
    <3> QED BY <2>1, <3>2, SpansStill
  <2>3. Spans(pk \o img, more, cut[q], total + size)
    BY <1>16, <2>2, SpansJoin
  <2> QED BY <1>6, <1>15, <2>3
<1>20. ASSUME NEW seal \in seals, seal # NoSeal, seal[3] = "applicationData"
       PROVE  Spans(seal[4], more, cut[seal[2]], cut[seal[2] + 1])
  <2>1. /\ seal[2] \in Nat /\ seal[2] + 1 \in 0..q
        /\ Spans(seal[4], bytes, cut[seal[2]], cut[seal[2] + 1])
    BY <1>1, <1>3, <1>20 DEF CarriedBy
  <2>2. PICK a, b, data : a = cut[seal[2]] /\ b = cut[seal[2] + 1] /\ data = seal[4]
    OBVIOUS
  <2>3. b <= total
    BY <1>3, <1>4, <1>5, <2>1, <2>2
  <2>4. Spans(data, bytes, a, b)
    BY <2>1, <2>2
  <2>5. b \in Nat
    BY <2>4, SpansLength
  <2>6. Spans(data, more, a, b)
    BY <1>13, <2>3, <2>4, <2>5, SpansStill
  <2> QED BY <2>2, <2>6
<1>21. cut[n] <= total /\ cut[n] \in Nat
  BY <1>3, <1>4, <1>5
<1>22. Spans(rb, more, pos, cut[n])
  <2>1. Spans(rb, bytes, pos, cut[n])
    BY <1>1 DEF CarriedBy
  <2> QED BY <1>13, <1>21, <2>1, SpansStill
<1>23. Spans(pt, more, begin[g + 1], pos)
  <2>1. Spans(pt, bytes, first[g + 1], pos)
    BY <1>1 DEF CarriedBy
  <2>2. PICK a \in Nat : a = cut[n]
    BY <1>21
  <2>3. pos <= a /\ a <= total
    BY <1>3, <1>21, <2>2
  <2>4. pos <= total
    BY <2>3
  <2>5. Spans(pt, more, first[g + 1], pos)
    BY <1>13, <2>1, <2>4, SpansStill
  <2>6. g <= k
    BY <1>3, <1>4
  <2>7. g + 1 \in 1..(k + 1)
    BY <1>3, <2>6
  <2> QED BY <1>15, <2>5, <2>7
<1>24. CarriedBy(more, begin, cut, pos, pk \o Image(f), q, gs, seals, g, pt, rb, n)
  <2>1. Len(gs) + 1 = k + 2 /\ Len(gs) = k + 1
    BY <1>9
  <2>2. cut[0] = 0 /\ cut[1] = 0 /\ \A m \in 0..q : cut[m] <= cut[q]
    BY <1>1 DEF CarriedBy
  <2> QED BY <1>17, <1>18, <1>19, <1>20, <1>22, <1>23, <2>1, <2>2 DEF CarriedBy
<1> QED BY <1>8, <1>10, <1>12, <1>15, <1>24 DEF Carried

\* One more record of a writer that has a key, with the first c bytes of the packet,
\* or with something that is not application data, and then c is 0.
LEMMA CarriedRecord ==
    ASSUME NEW pk, NEW q, NEW fs, NEW seals, NEW g, NEW pt, NEW rb, NEW n,
           Carried(pk, q, fs, seals, g, pt, rb, n), q # 0,
           NEW c \in 0..Len(pk), NEW others,
           \A seal \in others :
              \/ seal \in seals
              \/ seal[2] = q /\ (seal[3] = "applicationData" => seal[4] = SubSeq(pk, 1, c))
    PROVE  Carried(SubSeq(pk, c + 1, Len(pk)), q + 1, fs, others, g, pt, rb, n)
<1>1. PICK bytes, first, cut \in [Nat -> Nat], pos \in Nat :
        CarriedBy(bytes, first, cut, pos, pk, q, fs, seals, g, pt, rb, n)
  BY DEF Carried
<1>2. Numbered(q, fs, seals, g, n)
  BY DEF Carried
<1>3. /\ q \in Nat /\ n \in Nat /\ n \in 0..q
      /\ \A seal \in seals : seal # NoSeal =>
            seal[2] \in Nat /\ seal[2] \in 0..q /\ seal[2] + 1 \in 0..q
  BY <1>1, <1>2, CarriedPlaces
<1>4. PICK a, total \in Nat : a = cut[q] /\ total = first[Len(fs) + 1]
  <2>1. Len(fs) + 1 \in Nat
    BY <1>1, <1>2, CarriedPlaces
  <2> QED BY <1>3, <2>1
<1>5. Spans(pk, bytes, a, total)
  BY <1>1, <1>4 DEF CarriedBy
<1>6. c \in Nat
  BY <1>5, SpansLength
<1>7. /\ Spans(SubSeq(pk, 1, c), bytes, a, a + c)
      /\ Spans(SubSeq(pk, c + 1, Len(pk)), bytes, a + c, total)
  BY <1>5, SpansCut
<1>8. PICK places : places = [cut EXCEPT ![q + 1] = a + c]
  OBVIOUS
<1>9. /\ places \in [Nat -> Nat] /\ places[q + 1] = a + c
      /\ \A m \in 0..q : places[m] = cut[m]
  <2>0. q \in Nat
    BY <1>3
  <2>1. PICK j, e \in Nat : j = q + 1 /\ e = a + c
    BY <1>6, <2>0
  <2>2. places = [cut EXCEPT ![j] = e]
    BY <1>8, <2>1
  <2>3. places \in [Nat -> Nat] /\ places[j] = e /\ \A i \in Nat \ {j} : places[i] = cut[i]
    BY <2>2
  <2>4. \A i \in 0..q : i \in Nat /\ i # q + 1
    BY <1>3
  <2> QED BY <2>1, <2>3, <2>4
<1>10. Numbered(q + 1, fs, others, g, n)
  <2>1. q + 1 \in Nat /\ n \in 0..(q + 1) /\ q < q + 1
    BY <1>3
  <2>2. ASSUME NEW seal \in others, seal # NoSeal PROVE seal[2] \in Nat /\ seal[2] < q + 1
    <3>1. CASE seal \in seals
      <4>1. seal[2] \in Nat /\ seal[2] < q
        BY <1>2, <2>2, <3>1 DEF Numbered
      <4>2. PICK m \in Nat : m = seal[2]
        BY <4>1
      <4>3. m < q
        BY <4>1, <4>2
      <4>4. m < q + 1
        BY <1>3, <4>3
      <4> QED BY <4>2, <4>4
    <3>2. CASE seal[2] = q
      BY <1>3, <2>1, <3>2
    <3> QED BY <3>1, <3>2
  <2> QED BY <1>2, <2>1, <2>2 DEF Numbered
<1>11. ASSUME NEW m \in 0..(q + 1) PROVE places[m] <= a + c
  <2>1. CASE m \in 0..q
    <3>1. places[m] = cut[m] /\ cut[m] <= a
      BY <1>1, <1>4, <1>9, <2>1 DEF CarriedBy
    <3>0. m \in Nat
      BY <1>3, <2>1
    <3>2. PICK b \in Nat : b = places[m]
      BY <1>9, <3>0
    <3>3. b <= a
      BY <3>1, <3>2
    <3>4. b <= a + c
      BY <1>6, <3>3
    <3> QED BY <3>2, <3>4
  <2>2. CASE m = q + 1
    <3>1. a + c <= a + c
      BY <1>6
    <3> QED BY <1>9, <2>2, <3>1
  <2>3. m \in 0..q \/ m = q + 1
    BY <1>3
  <2> QED BY <2>1, <2>2, <2>3
<1>12. ASSUME NEW seal \in others, seal # NoSeal, seal[3] = "applicationData"
       PROVE  Spans(seal[4], bytes, places[seal[2]], places[seal[2] + 1])
  <2>1. CASE seal \in seals
    <3>1. /\ seal[2] \in 0..q /\ seal[2] + 1 \in 0..q
          /\ Spans(seal[4], bytes, cut[seal[2]], cut[seal[2] + 1])
      BY <1>1, <1>3, <1>12, <2>1 DEF CarriedBy
    <3>2. places[seal[2]] = cut[seal[2]] /\ places[seal[2] + 1] = cut[seal[2] + 1]
      BY <1>9, <3>1
    <3> QED BY <3>1, <3>2
  <2>2. CASE seal[2] = q /\ seal[4] = SubSeq(pk, 1, c)
    <3>1. places[q] = a /\ places[q + 1] = a + c
      BY <1>3, <1>4, <1>9
    <3> QED BY <1>7, <2>2, <3>1
  <2> QED BY <1>12, <2>1, <2>2
<1>13. CarriedBy(bytes, first, places, pos, SubSeq(pk, c + 1, Len(pk)), q + 1, fs, others, g, pt, rb, n)
  <2>1. places[0] = 0 /\ places[1] = 0
    <3>1. 0 \in 0..q /\ 1 \in 0..q
      BY <1>3
    <3> QED BY <1>1, <1>9, <3>1 DEF CarriedBy
  <2>2. places[n] = cut[n]
    BY <1>3, <1>9
  <2>3. /\ Spans(rb, bytes, pos, places[n])
        /\ Spans(SubSeq(pk, c + 1, Len(pk)), bytes, places[q + 1], first[Len(fs) + 1])
    BY <1>1, <1>4, <1>7, <1>9, <2>2 DEF CarriedBy
  <2>4. \A m \in 0..(q + 1) : places[m] <= places[q + 1]
    BY <1>9, <1>11
  <2>5. /\ \A i \in 1..(Len(fs) + 1) : first[i] <= first[Len(fs) + 1]
        /\ \A i \in 1..Len(fs) : Spans(Image(fs[i]), bytes, first[i], first[i + 1])
        /\ Spans(pt, bytes, first[g + 1], pos)
    BY <1>1 DEF CarriedBy
  <2> QED BY <1>12, <2>1, <2>3, <2>4, <2>5 DEF CarriedBy
<1> QED BY <1>9, <1>10, <1>13 DEF Carried

\* Conn.Read takes the record that was sealed for the place it has reached.
LEMMA CarriedRead ==
    ASSUME NEW pk, NEW q, NEW fs, NEW seals, NEW g, NEW pt, NEW n,
           Carried(pk, q, fs, seals, g, pt, <<>>, n),
           NEW seal \in seals, seal # NoSeal, seal[3] = "applicationData", seal[2] = n,
           NEW others, others \subseteq seals
    PROVE  Carried(pk, q, fs, others, g, pt, seal[4], n + 1)
<1>1. PICK bytes, first, cut \in [Nat -> Nat], pos \in Nat :
        CarriedBy(bytes, first, cut, pos, pk, q, fs, seals, g, pt, <<>>, n)
  BY DEF Carried
<1>2. Numbered(q, fs, seals, g, n)
  BY DEF Carried
<1>3. n \in Nat /\ n + 1 \in 0..q
  BY <1>1, <1>2, CarriedPlaces
<1>4. Numbered(q, fs, others, g, n + 1)
  BY <1>2, <1>3 DEF Numbered
<1>5. pos = cut[n]
  <2>1. Spans(<<>>, bytes, pos, cut[n])
    BY <1>1 DEF CarriedBy
  <2>2. cut[n] = pos + Len(<<>>) /\ Len(<<>>) = 0
    BY <2>1 DEF Spans
  <2>3. PICK b \in Nat : b = cut[n]
    BY <1>3
  <2>4. b = pos + 0
    BY <2>2, <2>3
  <2>5. b = pos
    BY <2>4
  <2> QED BY <2>3, <2>5
<1>6. Spans(seal[4], bytes, pos, cut[n + 1])
  BY <1>1, <1>5 DEF CarriedBy
<1>7. CarriedBy(bytes, first, cut, pos, pk, q, fs, others, g, pt, seal[4], n + 1)
  BY <1>1, <1>6 DEF CarriedBy
<1> QED BY <1>1, <1>4, <1>7 DEF Carried

\* Header and payload: how much of a frame is missing while it is read.
LEMMA MissingOf ==
    ASSUME NEW f \in Sendable, NEW bytes, NEW a, NEW b, NEW z, NEW s,
           Spans(s, bytes, a, b), Spans(Image(f), bytes, a, z)
    PROVE  /\ Len(f.payload) \in Nat /\ Len(s) \in Nat
           /\ Missing(s) = IF Len(s) < 2 THEN 2 - Len(s) ELSE 2 + Len(f.payload) - Len(s)
<1>1. Len(s) \in Nat
  BY SpansLength
<1>2. Len(f.payload) \in Nat /\ Len(Image(f)) = Len(f.payload) + 2 /\ Image(f)[1] = Len(f.payload)
  BY ImageOf
<1>3. PICK size \in Nat : size = Len(f.payload)
  BY <1>2
<1>4. Len(Image(f)) = size + 2 /\ Image(f)[1] = size
  BY <1>2, <1>3
<1>5. bytes[a + 1] = size
  <2>1. 1 \in 1..(size + 2)
    OBVIOUS
  <2> QED BY <1>4, <2>1 DEF Spans
<1>6. ASSUME ~ Len(s) < 2 PROVE s[1] = size
  <2>1. 1 \in 1..Len(s)
    BY <1>1, <1>6
  <2> QED BY <1>5, <2>1 DEF Spans
<1>7. Missing(s) = IF Len(s) < 2 THEN 2 - Len(s) ELSE 2 + s[1] - Len(s)
  BY DEF Missing, HeaderSize, ParseHeader
<1> QED BY <1>1, <1>3, <1>6, <1>7

\* How much is read at once, and that it never passes the end of the frame.
LEMMA ReadsInFrame ==
    ASSUME NEW size \in Nat, NEW lp \in Nat, NEW lr \in Nat, lr # 0, NEW m,
           m = IF lp < 2 THEN 2 - lp ELSE 2 + size - lp, m > 0,
           NEW take, take = IF m < lr THEN m ELSE lr
    PROVE  /\ take \in 1..lr
           /\ lp + take <= 2 + size
           /\ lp + take >= 2 /\ 2 + size - (lp + take) <= 0 => lp + take = 2 + size
  OBVIOUS

\* io.ReadFull goes on, within the frame that is being read, and Read returns the
\* frame that was sent.
LEMMA CarriedPiece ==
    ASSUME NEW pk, NEW q, NEW fs, NEW seals, NEW g, NEW pt, NEW rb, NEW n,
           Carried(pk, q, fs, seals, g, pt, rb, n), rb # <<>>,
           pt # <<>> => Missing(pt) > 0,
           NEW take, NEW b
    PROVE  /\ take = IF Missing(pt) < Len(rb) THEN Missing(pt) ELSE Len(rb)
           /\ b = pt \o SubSeq(rb, 1, take)
           => /\ Missing(b) > 0 =>
                   Carried(pk, q, fs, seals, g, b, SubSeq(rb, take + 1, Len(rb)), n)
              /\ Missing(b) <= 0 =>
                   /\ g \in Nat /\ g < Len(fs)
                   /\ FrameOf(b) = fs[g + 1]
                   /\ Carried(pk, q, fs, seals, g + 1, <<>>, SubSeq(rb, take + 1, Len(rb)), n)
<1>0. HAVE /\ take = IF Missing(pt) < Len(rb) THEN Missing(pt) ELSE Len(rb)
           /\ b = pt \o SubSeq(rb, 1, take)
<1>1. PICK bytes, first, cut \in [Nat -> Nat], pos \in Nat :
        CarriedBy(bytes, first, cut, pos, pk, q, fs, seals, g, pt, rb, n)
  BY DEF Carried
<1>2. Numbered(q, fs, seals, g, n)
  BY DEF Carried
<1>3. /\ q \in Nat /\ n \in Nat /\ n \in 0..q
      /\ Len(fs) \in Nat /\ g \in Nat /\ g <= Len(fs)
      /\ \A m \in 0..q : cut[m] <= first[Len(fs) + 1]
  BY <1>1, <1>2, CarriedPlaces
<1>4. PICK k \in Nat : k = Len(fs)
  BY <1>3
<1>a. g \in Nat /\ n \in Nat
  BY <1>3
<1>b. g + 1 \in Nat /\ k + 1 \in Nat
  BY <1>a
<1>5. PICK a, total, last \in Nat : a = first[g + 1] /\ total = first[k + 1] /\ last = cut[n]
  BY <1>a, <1>b
<1>6. Spans(pt, bytes, a, pos) /\ Spans(rb, bytes, pos, last)
  BY <1>1, <1>5 DEF CarriedBy
<1>7. Len(pt) \in Nat /\ Len(rb) \in Nat /\ pt \in Seq(Nat) /\ rb \in Seq(Nat)
  <2>1. Len(pt) \in Nat /\ Len(rb) \in Nat
    BY <1>6, SpansLength
  <2> QED BY <1>6, <2>1 DEF Spans
<1>8. PICK lp, lr \in Nat : lp = Len(pt) /\ lr = Len(rb)
  BY <1>7
<1>9. lr # 0
  BY <1>7, <1>8, EmptySeq
<1>10. pos = a + lp /\ last = pos + lr
  BY <1>6, <1>8 DEF Spans
<1>11. last <= total /\ g <= k
  BY <1>3, <1>4, <1>5
<1>12. g < k
  <2>1. g = k => a = total
    BY <1>5
  <2>2. a # total
    BY <1>9, <1>10, <1>11
  <2>3. g # k
    BY <2>1, <2>2
  <2> QED BY <1>3, <1>11, <2>3
<1>13. g + 1 \in 1..k /\ g + 1 + 1 \in Nat
  BY <1>3, <1>12
<1>14. PICK f : f = fs[g + 1]
  OBVIOUS
<1>15. f \in Sendable
  BY <1>2, <1>4, <1>13, <1>14, ElementOfSeq DEF Numbered
<1>16. PICK z \in Nat : z = first[g + 1 + 1]
  BY <1>13
<1>17. Spans(Image(f), bytes, a, z)
  BY <1>1, <1>4, <1>5, <1>13, <1>14, <1>16 DEF CarriedBy
<1>18. PICK size \in Nat : size = Len(f.payload)
  BY <1>15, ImageOf
<1>19. PICK m : m = Missing(pt)
  OBVIOUS
<1>20. m = IF lp < 2 THEN 2 - lp ELSE 2 + size - lp
  BY <1>6, <1>8, <1>15, <1>17, <1>18, <1>19, MissingOf
<1>21. m > 0
  <2>1. CASE lp < 2
    BY <1>20, <2>1
  <2>2. CASE ~ lp < 2
    <3>1. lp # 0
      BY <2>2
    <3>2. pt # <<>>
      BY <1>7, <1>8, <3>1, EmptySeq
    <3> QED BY <1>19, <3>2
  <2> QED BY <2>1, <2>2
<1>22. take = IF m < lr THEN m ELSE lr
  BY <1>0, <1>8, <1>19
<1>23. /\ take \in 1..lr
       /\ lp + take <= 2 + size
       /\ lp + take >= 2 /\ 2 + size - (lp + take) <= 0 => lp + take = 2 + size
  <2>2. \A mm, tt : /\ mm = (IF lp < 2 THEN 2 - lp ELSE 2 + size - lp) /\ mm > 0
                    /\ tt = (IF mm < lr THEN mm ELSE lr)
          => /\ tt \in 1..lr
             /\ lp + tt <= 2 + size
             /\ lp + tt >= 2 /\ 2 + size - (lp + tt) <= 0 => lp + tt = 2 + size
    BY <1>9, ReadsInFrame
  <2> QED BY <1>20, <1>21, <1>22, <2>2, Zenon
<1>24. PICK t \in Nat : t = take
  BY <1>23
<1>25. t \in 1..lr /\ t \in 0..lr /\ pos + t \in Nat
  BY <1>23, <1>24
<1>26. PICK rest : rest = SubSeq(rb, take + 1, Len(rb))
  OBVIOUS
<1>27. Spans(SubSeq(rb, 1, t), bytes, pos, pos + t) /\ Spans(rest, bytes, pos + t, last)
  BY <1>6, <1>8, <1>24, <1>25, <1>26, SpansCut
<1>28. Spans(b, bytes, a, pos + t)
  BY <1>0, <1>6, <1>24, <1>27, SpansJoin
<1>29. Len(b) = lp + t
  <2>1. Len(b) \in Nat /\ pos + t = a + Len(b)
    BY <1>28, SpansLength DEF Spans
  <2>2. PICK l \in Nat : l = Len(b)
    BY <2>1
  <2>3. pos + t = a + l
    BY <2>1, <2>2
  <2>4. l = lp + t
    BY <1>10, <2>3
  <2> QED BY <2>2, <2>4
<1>30. PICK l \in Nat : l = Len(b) /\ l = lp + t
  BY <1>29
<1>31. Missing(b) = IF l < 2 THEN 2 - l ELSE 2 + size - l
  BY <1>15, <1>17, <1>18, <1>28, <1>30, MissingOf
<1>32. Spans(rest, bytes, pos + t, cut[n])
  BY <1>5, <1>27
<1>33. ASSUME Missing(b) > 0 PROVE Carried(pk, q, fs, seals, g, b, rest, n)
  <2>1. Spans(b, bytes, first[g + 1], pos + t)
    BY <1>5, <1>28
  <2>2. CarriedBy(bytes, first, cut, pos + t, pk, q, fs, seals, g, b, rest, n)
    BY <1>1, <1>32, <2>1 DEF CarriedBy
  <2> QED BY <1>2, <1>25, <2>2 DEF Carried
<1>34. ASSUME Missing(b) <= 0
       PROVE  FrameOf(b) = f /\ Carried(pk, q, fs, seals, g + 1, <<>>, rest, n)
  <2>1. l = 2 + size
    <3>1. PICK d : d = Missing(b)
      OBVIOUS
    <3>2. d <= 0 /\ d = IF l < 2 THEN 2 - l ELSE 2 + size - l
      BY <1>31, <1>34, <3>1
    <3>3. l <= 2 + size
      BY <1>23, <1>24, <1>30
    <3> QED BY <3>2, <3>3
  <2>2. Len(Image(f)) = size + 2
    BY <1>15, <1>18, ImageOf
  <2>3. z = a + (size + 2)
    BY <1>17, <2>2 DEF Spans
  <2>4. pos + t = z
    BY <1>10, <1>30, <2>1, <2>3
  <2>5. b = Image(f)
    BY <1>17, <1>28, <2>4, SpansSame
  <2>6. FrameOf(b) = f
    <3>1. FrameOf(b) = [id |-> b[2], payload |-> SubSeq(b, 3, Len(b))]
      BY DEF FrameOf, ParseHeader, HeaderSize
    <3>2. b[2] = f.id /\ SubSeq(b, 3, Len(b)) = f.payload /\ f = [id |-> f.id, payload |-> f.payload]
      BY <1>15, <2>5, ImageOf
    <3> QED BY <3>1, <3>2
  <2>7. Spans(<<>>, bytes, first[g + 1 + 1], z)
    BY <1>16, SpansNothing
  <2>8. Spans(rest, bytes, z, cut[n])
    BY <1>32, <2>4
  <2>9. CarriedBy(bytes, first, cut, z, pk, q, fs, seals, g + 1, <<>>, rest, n)
    BY <1>1, <2>7, <2>8 DEF CarriedBy
  <2>10. g + 1 \in 0..k
    BY <1>3, <1>12
  <2>11. Numbered(q, fs, seals, g + 1, n)
    BY <1>2, <1>4, <2>10 DEF Numbered
  <2> QED BY <2>6, <2>9, <2>11 DEF Carried
<1> QED BY <1>3, <1>4, <1>12, <1>14, <1>26, <1>33, <1>34

-----------------------------------------------------------------------------
(* The stream in both directions of a connection.                          *)

\* The seals of the records a side has written that are still on their way.
SealsOf(side) == {r.seal : r \in ToSet(net[side])}

\* The sequence number of the next record of application data, for a reader.
NextPlace(side) == IF at[side] = "ready" THEN in[side].seq ELSE 0

CarriedFrom(side) ==
    Carried(packet[side], out[side].seq, sent[side], SealsOf(side), Len(got[Peer(side)]),
            partial[Peer(side)], readBuf[Peer(side)], NextPlace(Peer(side)))

\* The Finished message takes the first place under a new key.
CiphersOK ==
    \A side \in Sides :
        /\ IsCipher(in[side])
        /\ Active(out[side]) <=> out[side].seq # 0
        /\ at[side] = "finished" => Active(in[side]) /\ in[side].seq = 0
        /\ at[side] = "ready" => Active(in[side])

FramesTyped ==
    /\ DOMAIN readBuf = Sides
    /\ DOMAIN sent = Sides
    /\ DOMAIN got = Sides
    /\ \A side \in Sides : got[side] \in Seq(Sendable)

FrameInv == TlsInv /\ CiphersOK /\ FramesTyped /\ \A side \in Sides : CarriedFrom(side)

\* What a step adds to the wire is nothing, or not application data.
NoNewData(side) ==
    \A seal \in SealsOf(side)' :
        seal \in SealsOf(side) \/ seal = NoSeal \/ seal[3] # "applicationData"

LEMMA SealsSame ==
    ASSUME NEW side \in Sides, net'[side] = net[side]
    PROVE  NoNewData(side) /\ SealsOf(side)' = SealsOf(side)
  BY DEF NoNewData, SealsOf

LEMMA SealsRead ==
    ASSUME NEW side \in Sides, IsSeq(net[side]), net[side] # <<>>, net'[side] = Tail(net[side])
    PROVE  NoNewData(side) /\ SealsOf(side)' \subseteq SealsOf(side)
<1>1. ToSet(net'[side]) \subseteq ToSet(net[side])
  BY TailIsSeq
<1> QED BY <1>1 DEF NoNewData, SealsOf

LEMMA SealsWritten ==
    ASSUME NEW side \in Sides, NEW t, IsSeq(net[side]), IsSeq(t), net'[side] = net[side] \o t,
           \A r \in ToSet(t) : r.seal = NoSeal \/ r.seal[3] # "applicationData"
    PROVE  NoNewData(side)
<1>1. ToSet(net'[side]) \subseteq ToSet(net[side]) \cup ToSet(t)
  BY ConcatIsSeq
<1> QED BY <1>1 DEF NoNewData, SealsOf

\* A step that writes and reads no byte of a frame.
QuietFor(side) ==
    /\ NoNewData(side)
    /\ \/ out'[side].seq = out[side].seq
       \/ out[side].seq = 0 /\ out'[side].seq = 1
    /\ \/ NextPlace(Peer(side))' = NextPlace(Peer(side))
       \/ NextPlace(Peer(side)) = 0 /\ NextPlace(Peer(side))' = 1 /\ out'[side].seq # 0

LEMMA QuietKeeps ==
    ASSUME FrameInv, TlsInv', CiphersOK', UNCHANGED frameVars, \A side \in Sides : QuietFor(side)
    PROVE  FrameInv'
<1>1. FramesTyped'
  BY DEF FrameInv, FramesTyped, frameVars
<1>2. ASSUME NEW side \in Sides PROVE CarriedFrom(side)'
  <2>1. PICK p : p = Peer(side)
    OBVIOUS
  <2>2. p \in Sides
    BY <2>1, Peers
  <2>3. PICK q, q2, n, n2 : /\ q = out[side].seq /\ q2 = out'[side].seq
                            /\ n = NextPlace(p) /\ n2 = NextPlace(p)'
    OBVIOUS
  <2>4. q2 \in Nat /\ n2 \in Nat
    <3>1. IsCipher(out'[side]) /\ IsCipher(in'[p])
      BY <2>2 DEF TlsInv, TlsTyped, CiphersOK
    <3> QED BY <2>3, <3>1 DEF IsCipher, NextPlace
  <2>5. (q2 = q \/ (q = 0 /\ q2 = 1)) /\ (n2 = n \/ (n = 0 /\ n2 = 1 /\ q2 # 0))
    BY <2>1, <2>3 DEF QuietFor
  <2>6. ASSUME NEW seal \in SealsOf(side)'
        PROVE  \/ seal \in SealsOf(side)
               \/ seal = NoSeal
               \/ seal[3] # "applicationData" /\ seal[2] \in Nat /\ seal[2] < q2
    <3>1. seal \in SealsOf(side) \/ seal = NoSeal \/ seal[3] # "applicationData"
      BY <2>6 DEF QuietFor, NoNewData
    <3>2. PICK r \in ToSet(net'[side]) : r.seal = seal
      BY <2>6 DEF SealsOf
    <3>3. seal # NoSeal => SealOK(side, seal)'
      BY <3>2 DEF TlsInv, WireOK, RecordOK, Sealed
    <3>4. seal # NoSeal => seal[2] \in Nat /\ seal[2] < out'[side].seq
      BY <3>3 DEF SealOK
    <3> QED BY <2>3, <3>1, <3>4
  <2>7. PICK pk, fs, g, pt, rb : /\ pk = packet[side] /\ fs = sent[side] /\ g = Len(got[p])
                                 /\ pt = partial[p] /\ rb = readBuf[p]
    OBVIOUS
  <2>8. PICK seals, others : seals = SealsOf(side) /\ others = SealsOf(side)'
    OBVIOUS
  <2>9. Carried(pk, q, fs, seals, g, pt, rb, n)
    BY <2>1, <2>3, <2>7, <2>8 DEF FrameInv, CarriedFrom
  <2>10. Carried(pk, q2, fs, others, g, pt, rb, n2)
    BY <2>4, <2>5, <2>6, <2>8, <2>9, CarriedOn
  <2> QED BY <2>1, <2>3, <2>7, <2>8, <2>10 DEF CarriedFrom, frameVars
<1> QED BY <1>1, <1>2 DEF FrameInv

LEMMA InitFrameInv == StreamInit => FrameInv
<1> SUFFICES ASSUME StreamInit PROVE FrameInv
  OBVIOUS
<1>1. TlsInv
  BY InitTlsInv
<1>2. CiphersOK
  <2>1. \A side \in Sides : in[side] = Inactive /\ out[side] = Inactive /\ at[side] \in {"hello", "start"}
    BY DEF StreamInit, TlsInit, Sides
  <2>2. IsCipher(Inactive) /\ ~ Active(Inactive) /\ Inactive.seq = 0
    BY DEF IsCipher, Inactive, Active
  <2> QED BY <2>1, <2>2 DEF CiphersOK
<1>3. FramesTyped
  BY DEF StreamInit, FramesTyped
<1>4. ASSUME NEW side \in Sides PROVE CarriedFrom(side)
  <2>1. Peer(side) \in Sides
    BY Peers
  <2>2. /\ packet[side] = <<>> /\ sent[side] = <<>> /\ got[Peer(side)] = <<>>
        /\ partial[Peer(side)] = <<>> /\ readBuf[Peer(side)] = <<>>
    BY <2>1 DEF StreamInit
  <2>3. out[side].seq = 0 /\ net[side] = <<>> /\ at[Peer(side)] # "ready"
    BY <2>1 DEF StreamInit, TlsInit, Inactive, Sides
  <2>4. SealsOf(side) = {}
    BY <2>3, EmptyIsSeq DEF SealsOf
  <2>5. NextPlace(Peer(side)) = 0 /\ Len(<<>>) = 0
    BY <2>3 DEF NextPlace
  <2> QED BY <2>2, <2>3, <2>4, <2>5, CarriedAtFirst DEF CarriedFrom
<1> QED BY <1>1, <1>2, <1>3, <1>4 DEF FrameInv

\* Steps that use neither cipher, net nor stage.
LEMMA IdleKeeps ==
    ASSUME FrameInv, TlsInv', UNCHANGED <<at, in, out, net>>, UNCHANGED frameVars
    PROVE  FrameInv'
<1>1. CiphersOK'
  BY DEF FrameInv, CiphersOK, IsCipher, Active
<1>2. ASSUME NEW side \in Sides PROVE QuietFor(side)
  <2>1. NextPlace(Peer(side))' = NextPlace(Peer(side))
    BY DEF NextPlace
  <2> QED BY <2>1, SealsSame DEF QuietFor
<1> QED BY <1>1, <1>2, QuietKeeps

\* What the net of each side may become when one side reads and writes.
LEMMA TrafficIsQuiet ==
    ASSUME TlsInv, NEW side \in Sides, NEW t, IsSeq(t),
           \A r \in ToSet(t) : r.seal = NoSeal \/ r.seal[3] # "applicationData",
           \/ UNCHANGED net
           \/ CanRead(side) /\ Exchange(side, t)
    PROVE  \A s \in Sides : NoNewData(s)
<1>1. CASE UNCHANGED net
  BY <1>1, SealsSame
<1>2. CASE CanRead(side) /\ Exchange(side, t)
  <2>1. /\ net'[Peer(side)] = Tail(net[Peer(side)]) /\ net'[side] = net[side] \o t
        /\ net[Peer(side)] # <<>> /\ Peer(side) \in Sides
    BY <1>2, ExchangeNet, Peers DEF TlsInv, TlsTyped, CanRead
  <2>2. IsSeq(net[side]) /\ IsSeq(net[Peer(side)])
    BY <2>1 DEF TlsInv, WireOK
  <2>3. NoNewData(Peer(side))
    BY <2>1, <2>2, SealsRead
  <2>4. NoNewData(side)
    BY <2>1, <2>2, SealsWritten
  <2> QED BY <2>3, <2>4, Peers
<1> QED BY <1>1, <1>2

\* A step of the handshake that changes no cipher.
LEMMA StageKeeps ==
    ASSUME FrameInv, TlsInv', NEW side \in Sides, at[side] # "ready",
           NEW stage, stage \notin {"finished", "ready"},
           at' = [at EXCEPT ![side] = stage], UNCHANGED <<in, out>>, UNCHANGED frameVars,
           \A s \in Sides : NoNewData(s)
    PROVE  FrameInv'
<1>1. at'[side] = stage /\ \A s \in Sides \ {side} : at'[s] = at[s]
  BY DEF FrameInv, TlsInv, TlsTyped
<1>2. CiphersOK'
  BY <1>1 DEF FrameInv, CiphersOK, IsCipher, Active
<1>3. ASSUME NEW s \in Sides PROVE NextPlace(s)' = NextPlace(s)
  BY <1>1 DEF NextPlace
<1>4. ASSUME NEW s \in Sides PROVE QuietFor(s)
  BY <1>3, Peers DEF QuietFor
<1> QED BY <1>2, <1>4, QuietKeeps

LEMMA PlainIsQuiet ==
    ASSUME NEW r, PlainRecord(r)
    PROVE  IsSeq(<<r>>) /\ \A x \in ToSet(<<r>>) : x.seal = NoSeal \/ x.seal[3] # "applicationData"
  BY SingleIsSeq DEF PlainRecord, Sealed

LEMMA FrameClientHello ==
    ASSUME FrameInv, TlsInv', AcceptClientHello \/ ClientHello, UNCHANGED frameVars
    PROVE  FrameInv'
<1>1. CASE AcceptClientHello
  <2>1. PICK version, flight :
        /\ at["server"] = "hello"
        /\ CanRead("server")
        /\ Exchange("server", <<Record(Inactive, version, "handshake", flight)>>)
        /\ at' = [at EXCEPT !["server"] = "keyExchange"]
        /\ UNCHANGED <<in, out>>
    BY <1>1 DEF AcceptClientHello
  <2>2. PICK r : r = Record(Inactive, version, "handshake", flight)
    OBVIOUS
  <2>3. PlainRecord(r)
    BY <2>2, WrittenPlain
  <2>4. PICK t : t = <<r>>
    OBVIOUS
  <2>5. IsSeq(t) /\ \A x \in ToSet(t) : x.seal = NoSeal \/ x.seal[3] # "applicationData"
    BY <2>3, <2>4, PlainIsQuiet
  <2>6. \A s \in Sides : NoNewData(s)
    BY <2>1, <2>2, <2>4, <2>5, Peers, TrafficIsQuiet DEF FrameInv
  <2> QED BY <2>1, <2>6, Peers, StageKeeps
<1>2. CASE ClientHello
  <2>1. PICK version, data :
        /\ at["client"] = "start"
        /\ net' = [net EXCEPT !["client"] =
              Append(net["client"], Record(Inactive, version, "handshake", data))]
        /\ at' = [at EXCEPT !["client"] = "flight"]
        /\ UNCHANGED <<in, out>>
    BY <1>2 DEF ClientHello
  <2>2. PICK r : r = Record(Inactive, version, "handshake", data)
    OBVIOUS
  <2>3. PlainRecord(r)
    BY <2>2, WrittenPlain
  <2>4. net'["client"] = Append(net["client"], r) /\ net'["server"] = net["server"]
    BY <2>1, <2>2 DEF FrameInv, TlsInv, TlsTyped, Sides
  <2>5. ToSet(net'["client"]) = ToSet(net["client"]) \cup {r}
    BY <2>4, AppendSet, Peers DEF FrameInv, TlsInv, WireOK
  <2>6. NoNewData("client")
    BY <2>3, <2>5 DEF NoNewData, SealsOf, PlainRecord, Sealed
  <2>7. NoNewData("server")
    BY <2>4, SealsSame, Peers
  <2>8. \A s \in Sides : NoNewData(s)
    BY <2>6, <2>7, Peers
  <2>9. PICK side \in Sides, stage \in ClientStages : side = "client" /\ stage = "flight"
    BY Peers DEF ClientStages
  <2>10. /\ at[side] # "ready" /\ stage \notin {"finished", "ready"}
         /\ at' = [at EXCEPT ![side] = stage] /\ UNCHANGED <<in, out>>
    BY <2>1, <2>9
  <2> QED BY <2>8, <2>10, StageKeeps
<1> QED BY <1>1, <1>2

LEMMA FrameReads ==
    ASSUME FrameInv, TlsInv', AcceptClientKeyExchange \/ RefuseHandshake \/ RefuseServer,
           UNCHANGED frameVars
    PROVE  FrameInv'
<1>1. PICK side \in Sides, stage \in {"changeCipher", "failed"} :
      /\ at[side] # "ready"
      /\ at' = [at EXCEPT ![side] = stage]
      /\ UNCHANGED <<in, out>>
      /\ UNCHANGED net \/ (CanRead(side) /\ Exchange(side, <<>>))
  BY Peers DEF AcceptClientKeyExchange, RefuseHandshake, RefuseServer, Refuse, Fail
<1>2. \A s \in Sides : NoNewData(s)
  BY <1>1, EmptyIsSeq, TrafficIsQuiet DEF FrameInv
<1> QED BY <1>1, <1>2, StageKeeps

LEMMA FrameChangeCipher ==
    ASSUME FrameInv, TlsInv', AcceptChangeCipherSpec \/ ClientChangeCipherSpec, UNCHANGED frameVars
    PROVE  FrameInv'
<1>1. PICK side \in Sides :
      /\ at[side] = "changeCipher"
      /\ CanRead(side)
      /\ in' = [in EXCEPT ![side] = makeCipher(expandKeys(sec[side], Peer(side)))]
      /\ Exchange(side, <<>>)
      /\ at' = [at EXCEPT ![side] = "finished"]
      /\ UNCHANGED out
  BY Peers DEF AcceptChangeCipherSpec, ClientChangeCipherSpec
<1>2. \A s \in Sides : NoNewData(s)
  BY <1>1, EmptyIsSeq, TrafficIsQuiet DEF FrameInv
<1>3. /\ Active(in'[side]) /\ IsCipher(in'[side]) /\ in'[side].seq = 0
      /\ \A s \in Sides \ {side} : in'[s] = in[s] /\ at'[s] = at[s]
      /\ at'[side] = "finished"
  BY <1>1, KeyInUse DEF FrameInv, TlsInv, TlsTyped
<1>4. CiphersOK'
  <2>1. ASSUME NEW s \in Sides, s # side
        PROVE  /\ IsCipher(in'[s])
               /\ at'[s] = "finished" => Active(in'[s]) /\ in'[s].seq = 0
               /\ at'[s] = "ready" => Active(in'[s])
    BY <1>3, <2>1 DEF FrameInv, CiphersOK
  <2> QED BY <1>1, <1>3, <2>1 DEF FrameInv, CiphersOK, Active
<1>5. ASSUME NEW s \in Sides PROVE NextPlace(s)' = NextPlace(s)
  BY <1>1, <1>3 DEF NextPlace
<1>6. ASSUME NEW s \in Sides PROVE QuietFor(s)
  BY <1>1, <1>2, <1>5, Peers DEF QuietFor
<1> QED BY <1>4, <1>6, QuietKeeps

\* The Finished of the other side: the reader has reached its first frame.
LEMMA FrameFinished ==
    ASSUME FrameInv, TlsInv', AcceptFinished \/ ClientFinished, UNCHANGED frameVars
    PROVE  FrameInv'
<1>1. PICK side \in Sides :
      /\ at[side] = "finished"
      /\ in' = [in EXCEPT ![side] = Advance(in[side], 1)]
      /\ at' = [at EXCEPT ![side] = "ready"]
      /\ out' = out \/ \E c : /\ side = "server" /\ out' = [out EXCEPT ![side] = c]
                              /\ Active(c) /\ IsCipher(c) /\ c.seq = 1
      /\ \A s \in Sides : NoNewData(s)
  <2>1. CASE ClientFinished
    <3>1. CanRead("client") /\ Exchange("client", <<>>)
      BY <2>1 DEF ClientFinished
    <3>2. \A s \in Sides : NoNewData(s)
      BY <3>1, EmptyIsSeq, TrafficIsQuiet, Peers DEF FrameInv
    <3> QED BY <2>1, <3>2, Peers DEF ClientFinished
  <2>2. CASE AcceptFinished
    <3>1. PICK agreed, data, ccs, cipher :
          /\ cipher = makeCipher(expandKeys(agreed, "server"))
          /\ ccs = Record(Inactive, agreed.version, "changeCipherSpec", ChangeCipherSpec)
          /\ at["server"] = "finished"
          /\ CanRead("server")
          /\ in' = [in EXCEPT !["server"] = Advance(in["server"], 1)]
          /\ Exchange("server", <<ccs, Record(cipher, agreed.version, "handshake", data)>>)
          /\ out' = [out EXCEPT !["server"] = Advance(cipher, 1)]
          /\ at' = [at EXCEPT !["server"] = "ready"]
      BY <2>2 DEF AcceptFinished
    <3>2. Active(cipher) /\ IsCipher(cipher) /\ cipher.seq = 0
      BY <3>1, KeyInUse
    <3>3. PICK c : c = Advance(cipher, 1)
      OBVIOUS
    <3>4. Active(c) /\ IsCipher(c) /\ c.seq = 1
      BY <3>2, <3>3, Advanced
    <3>5. PICK fin : fin = Record(cipher, agreed.version, "handshake", data)
      OBVIOUS
    <3>6. PlainRecord(ccs)
      BY <3>1, WrittenPlain
    <3>7. fin.seal = <<cipher.key, cipher.seq, "handshake", data>>
      BY <3>2, <3>5, RecordShape
    <3>8. fin.seal[3] = "handshake"
      BY <3>7
    <3>9. PICK t : t = <<ccs, fin>>
      OBVIOUS
    <3>10. t \in Seq({ccs, fin})
      BY <3>9
    <3>11. IsSeq(t) /\ ToSet(t) \subseteq {ccs, fin}
      BY <3>10, SeqIsSeq
    <3>12. \A r \in ToSet(t) : r.seal = NoSeal \/ r.seal[3] # "applicationData"
      BY <3>6, <3>8, <3>11 DEF PlainRecord, Sealed
    <3>13. \A s \in Sides : NoNewData(s)
      BY <3>1, <3>5, <3>9, <3>11, <3>12, Peers, TrafficIsQuiet DEF FrameInv
    <3> QED BY <3>1, <3>3, <3>4, <3>13, Peers
  <2> QED BY <2>1, <2>2
<1>2. Active(in[side]) /\ in[side].seq = 0 /\ IsCipher(in[side])
  BY <1>1 DEF FrameInv, CiphersOK
<1>3. Active(Advance(in[side], 1)) /\ IsCipher(Advance(in[side], 1)) /\ Advance(in[side], 1).seq = 1
  <2>1. PICK c : c = in[side]
    OBVIOUS
  <2>2. Active(Advance(c, 1)) /\ IsCipher(Advance(c, 1)) /\ Advance(c, 1).seq = 0 + 1
    BY <1>2, <2>1, Advanced
  <2> QED BY <2>1, <2>2
<1>4. /\ Active(in'[side]) /\ IsCipher(in'[side]) /\ in'[side].seq = 1
      /\ \A s \in Sides \ {side} : in'[s] = in[s] /\ at'[s] = at[s]
      /\ at'[side] = "ready"
  BY <1>1, <1>3 DEF FrameInv, TlsInv, TlsTyped
<1>5. ASSUME NEW s \in Sides
      PROVE  /\ Active(out'[s]) <=> out'[s].seq # 0
             /\ \/ out'[s].seq = out[s].seq
                \/ out[s].seq = 0 /\ out'[s].seq = 1
  <2>1. CASE out'[s] = out[s]
    BY <2>1 DEF FrameInv, CiphersOK
  <2>2. CASE out'[s] # out[s]
    <3>1. s = "server" /\ side = "server" /\ Active(out'[s]) /\ out'[s].seq = 1
      BY <1>1, <2>2 DEF FrameInv, TlsInv, TlsTyped
    <3>2. ~ Active(out[s])
      BY <1>1, <3>1 DEF FrameInv, TlsInv, StagesAgree
    <3> QED BY <3>1, <3>2 DEF FrameInv, CiphersOK
  <2> QED BY <2>1, <2>2
<1>6. CiphersOK'
  <2>1. ASSUME NEW s \in Sides, s # side
        PROVE  /\ IsCipher(in'[s])
               /\ at'[s] = "finished" => Active(in'[s]) /\ in'[s].seq = 0
               /\ at'[s] = "ready" => Active(in'[s])
    BY <1>4, <2>1 DEF FrameInv, CiphersOK
  <2> QED BY <1>4, <1>5, <2>1 DEF CiphersOK
<1>7. out'[Peer(side)].seq # 0
  <2>1. Active(out'[Peer(side)])
    BY <1>4, Peers DEF TlsInv, StagesAgree
  <2> QED BY <1>5, <2>1, Peers
<1>8. ASSUME NEW s \in Sides PROVE QuietFor(s)
  <2>1. CASE Peer(s) = side
    <3>1. NextPlace(side) = 0 /\ NextPlace(side)' = 1 /\ s = Peer(side)
      BY <1>1, <1>4, <2>1, Peers DEF NextPlace
    <3> QED BY <1>1, <1>5, <1>7, <2>1, <3>1 DEF QuietFor
  <2>2. CASE Peer(s) # side
    <3>1. NextPlace(Peer(s))' = NextPlace(Peer(s))
      BY <1>4, <2>2, Peers DEF NextPlace
    <3> QED BY <1>1, <1>5, <3>1 DEF QuietFor
  <2> QED BY <2>1, <2>2
<1> QED BY <1>6, <1>8, QuietKeeps

\* The client's flight: its Finished takes the first place of its key.
LEMMA FrameClientFlight ==
    ASSUME FrameInv, TlsInv', ClientFlight, UNCHANGED frameVars
    PROVE  FrameInv'
<1>1. PICK version, ckx, finished, key :
      /\ at["client"] = "flight"
      /\ CanRead("client")
      /\ Exchange("client",
           KeyExchangeRecords(version, ckx)
           \o <<Record(Inactive, version, "changeCipherSpec", ChangeCipherSpec),
                Record(makeCipher(key), version, "handshake", <<finished>>)>>)
      /\ out' = [out EXCEPT !["client"] = Advance(makeCipher(key), 1)]
      /\ key # <<>>
      /\ at' = [at EXCEPT !["client"] = "changeCipher"]
      /\ UNCHANGED in
  BY DEF ClientFlight, expandKeys
<1>2. PICK cipher : cipher = makeCipher(key)
  OBVIOUS
<1>3. Active(cipher) /\ IsCipher(cipher) /\ cipher.seq = 0
  BY <1>1, <1>2 DEF makeCipher, Active, IsCipher
<1>4. Active(Advance(cipher, 1)) /\ IsCipher(Advance(cipher, 1)) /\ Advance(cipher, 1).seq = 1
  BY <1>3, Advanced
<1>5. PICK flight : flight = KeyExchangeRecords(version, ckx)
  OBVIOUS
<1>6. IsSeq(flight) /\ \A r \in ToSet(flight) : PlainRecord(r)
  <2>1. PICK data : flight = <<Record(Inactive, version, "handshake", data)>>
                    \/ flight = <<Record(Inactive, version, "handshake", data),
                                  Record(Inactive, version, "handshake", data)>>
    BY <1>5 DEF KeyExchangeRecords
  <2>2. PICK r : r = Record(Inactive, version, "handshake", data)
    OBVIOUS
  <2>3. PlainRecord(r)
    BY <2>2, WrittenPlain
  <2>4. flight = <<r>> \/ flight = <<r, r>>
    BY <2>1, <2>2
  <2>5. flight \in Seq({r})
    <3>1. CASE flight = <<r>>
      BY <3>1
    <3>2. CASE flight = <<r, r>>
      BY <3>2
    <3> QED BY <2>4, <3>1, <3>2
  <2>6. IsSeq(flight) /\ ToSet(flight) \subseteq {r}
    BY <2>5, SeqIsSeq
  <2> QED BY <2>3, <2>6
<1>7. PICK ccs, fin : /\ ccs = Record(Inactive, version, "changeCipherSpec", ChangeCipherSpec)
                      /\ fin = Record(cipher, version, "handshake", <<finished>>)
  OBVIOUS
<1>8. PlainRecord(ccs)
  BY <1>7, WrittenPlain
<1>9. fin.seal[3] = "handshake"
  <2>1. PICK data : data = <<finished>>
    OBVIOUS
  <2>2. fin = Record(cipher, version, "handshake", data)
    BY <1>7, <2>1
  <2>3. fin.seal = <<cipher.key, cipher.seq, "handshake", data>>
    BY <1>3, <2>2, RecordShape
  <2> QED BY <2>3
<1>10. PICK ends, t : ends = <<ccs, fin>> /\ t = flight \o ends
  OBVIOUS
<1>11. ends \in Seq({ccs, fin})
  BY <1>10
<1>12. IsSeq(ends) /\ ToSet(ends) \subseteq {ccs, fin}
  BY <1>11, SeqIsSeq
<1>13. IsSeq(t) /\ ToSet(t) \subseteq ToSet(flight) \cup {ccs, fin}
  BY <1>6, <1>10, <1>12, ConcatIsSeq
<1>14. \A r \in ToSet(t) : r.seal = NoSeal \/ r.seal[3] # "applicationData"
  BY <1>6, <1>8, <1>9, <1>13 DEF PlainRecord, Sealed
<1>15. CanRead("client") /\ Exchange("client", t)
  BY <1>1, <1>2, <1>5, <1>7, <1>10
<1>16. \A s \in Sides : NoNewData(s)
  BY <1>13, <1>14, <1>15, Peers, TrafficIsQuiet DEF FrameInv
<1>17. /\ out'["client"] = Advance(cipher, 1) /\ out'["server"] = out["server"]
       /\ at'["client"] = "changeCipher" /\ at'["server"] = at["server"]
  BY <1>1, <1>2 DEF FrameInv, TlsInv, TlsTyped, Sides
<1>18. out["client"].seq = 0
  <2>1. ~ Active(out["client"])
    BY <1>1 DEF FrameInv, TlsInv, StagesAgree
  <2> QED BY <2>1, Peers DEF FrameInv, CiphersOK
<1>19. CiphersOK'
  <2>1. ASSUME NEW s \in Sides
        PROVE  /\ IsCipher(in'[s])
               /\ at'[s] = "finished" => Active(in'[s]) /\ in'[s].seq = 0
               /\ at'[s] = "ready" => Active(in'[s])
    BY <1>1, <1>17, Peers DEF FrameInv, CiphersOK
  <2>2. ASSUME NEW s \in Sides PROVE Active(out'[s]) <=> out'[s].seq # 0
    BY <1>4, <1>17, Peers DEF FrameInv, CiphersOK
  <2> QED BY <2>1, <2>2 DEF CiphersOK
<1>20. ASSUME NEW s \in Sides PROVE NextPlace(s)' = NextPlace(s)
  BY <1>1, <1>17, Peers DEF NextPlace
<1>21. ASSUME NEW s \in Sides PROVE out'[s].seq = out[s].seq \/ (out[s].seq = 0 /\ out'[s].seq = 1)
  BY <1>4, <1>17, <1>18, Peers
<1>22. ASSUME NEW s \in Sides PROVE QuietFor(s)
  BY <1>16, <1>20, <1>21, Peers DEF QuietFor
<1> QED BY <1>19, <1>22, QuietKeeps

\* In transit records are changed, left out, repeated and swapped: no seal is made.
LEMMA DamagedSeal ==
    ASSUME NEW r, IsRecord(r), NEW d \in DamagedRecords(r)
    PROVE  d.seal = r.seal
<1>1. CASE r.typ = "applicationData"
  <2>1. d = [r EXCEPT !.data[1] = r.data[1] + 1]
    BY <1>1 DEF DamagedRecords
  <2>2. PICK data : data = [r.data EXCEPT ![1] = r.data[1] + 1]
    OBVIOUS
  <2>3. d = [r EXCEPT !.data = data]
    BY <2>1, <2>2
  <2> QED BY <2>3 DEF IsRecord
<1>2. CASE r.typ # "applicationData"
  <2>1. \E data : d = [r EXCEPT !.data = data]
    BY <1>2 DEF DamagedRecords
  <2> QED BY <2>1 DEF IsRecord
<1> QED BY <1>1, <1>2

LEMMA FrameTransit ==
    ASSUME FrameInv, TlsInv', Transit, UNCHANGED frameVars
    PROVE  FrameInv'
<1>1. PICK side \in Sides : DamageRecord(side) \/ LoseRecord(side) \/ RepeatRecord(side) \/ SwapRecords(side)
  BY DEF Transit
<1>a. PICK s : s = net[side]
  OBVIOUS
<1>2. IsSeq(s) /\ \A r \in ToSet(s) : IsRecord(r)
  BY <1>a DEF FrameInv, TlsInv, WireOK, RecordOK
<1>3. PICK records :
        /\ Suffers(side, records)
        /\ \A r \in ToSet(records) : \E x \in ToSet(s) : r.seal = x.seal
  <2>1. CASE DamageRecord(side)
    <3>a. PICK i \in DOMAIN s : \E r \in DamagedRecords(s[i]) : Suffers(side, [s EXCEPT ![i] = r])
      BY <1>a, <2>1 DEF DamageRecord
    <3>1. PICK r \in DamagedRecords(s[i]) : Suffers(side, [s EXCEPT ![i] = r])
      BY <3>a
    <3>b. s[i] \in ToSet(s)
      BY <1>2, IsSeqFacts
    <3>2. r.seal = s[i].seal
      BY <1>2, <3>1, <3>b, DamagedSeal
    <3>3. ToSet([s EXCEPT ![i] = r]) \subseteq ToSet(s) \cup {r}
      BY <1>2, ChangedIsSeq
    <3>4. PICK t : t = [s EXCEPT ![i] = r]
      OBVIOUS
    <3> QED BY <3>1, <3>2, <3>3, <3>4, <3>b
  <2>2. CASE LoseRecord(side)
    <3>1. PICK i \in DOMAIN s : Suffers(side, RemoveAt(s, i))
      BY <1>a, <2>2 DEF LoseRecord
    <3>2. ToSet(RemoveAt(s, i)) \subseteq ToSet(s)
      BY <1>2, LostIsSeq
    <3> QED BY <3>1, <3>2
  <2>3. CASE RepeatRecord(side)
    <3>1. PICK i \in DOMAIN s : Suffers(side, InsertAt(s, i, s[i]))
      BY <1>a, <2>3 DEF RepeatRecord
    <3>2. ToSet(InsertAt(s, i, s[i])) \subseteq ToSet(s)
      BY <1>2, RepeatedIsSeq
    <3> QED BY <3>1, <3>2
  <2>4. CASE SwapRecords(side)
    <3>1. PICK i \in 1..(Len(s) - 1) : Suffers(side, [s EXCEPT ![i] = s[i + 1], ![i + 1] = s[i]])
      BY <1>a, <2>4 DEF SwapRecords
    <3>2. DOMAIN s = 1..Len(s) /\ Len(s) \in Nat /\ \A k \in 1..Len(s) : s[k] \in ToSet(s)
      BY <1>2, IsSeqFacts
    <3>3. i \in 1..Len(s) /\ i + 1 \in 1..Len(s)
      BY <3>2
    <3>4. PICK e, f, j : e = s[i + 1] /\ f = s[i] /\ j = i + 1
      OBVIOUS
    <3>5. e \in ToSet(s) /\ f \in ToSet(s) /\ i \in DOMAIN s /\ j \in DOMAIN s
      BY <3>2, <3>3, <3>4
    <3>6. PICK t : t = [s EXCEPT ![i] = e]
      OBVIOUS
    <3>7. IsSeq(t) /\ ToSet(t) \subseteq ToSet(s) /\ DOMAIN t = DOMAIN s
      BY <1>2, <3>5, <3>6, ChangedIsSeq
    <3>8. PICK u : u = [t EXCEPT ![j] = f]
      OBVIOUS
    <3>9. ToSet(u) \subseteq ToSet(s)
      <4>1. ToSet(u) \subseteq ToSet(t) \cup {f}
        BY <3>5, <3>7, <3>8, ChangedIsSeq
      <4> QED BY <3>5, <3>7, <4>1
    <3>10. Suffers(side, u)
      BY <3>1, <3>4, <3>6, <3>8
    <3> QED BY <3>9, <3>10
  <2> QED BY <1>1, <2>1, <2>2, <2>3, <2>4
<1>4. net' = [net EXCEPT ![side] = records] /\ UNCHANGED <<at, in, out>>
  BY <1>3 DEF Suffers
<1>5. net'[side] = records /\ \A x \in Sides \ {side} : net'[x] = net[x]
  BY <1>4 DEF FrameInv, TlsInv, TlsTyped
<1>6. ASSUME NEW x \in Sides PROVE NoNewData(x)
  <2>1. CASE x = side
    <3>1. SealsOf(x)' \subseteq SealsOf(x)
      BY <1>3, <1>5, <1>a, <2>1 DEF SealsOf
    <3> QED BY <3>1 DEF NoNewData
  <2>2. CASE x # side
    BY <1>5, <2>2, SealsSame
  <2> QED BY <2>1, <2>2
<1>7. CiphersOK'
  BY <1>4 DEF FrameInv, CiphersOK, IsCipher, Active
<1>8. ASSUME NEW x \in Sides PROVE QuietFor(x)
  <2>1. NextPlace(Peer(x))' = NextPlace(Peer(x))
    BY <1>4 DEF NextPlace
  <2> QED BY <1>4, <1>6, <2>1 DEF QuietFor
<1> QED BY <1>7, <1>8, QuietKeeps

\* A direction no step has touched.
LEMMA CarriedSame ==
    ASSUME NEW side \in Sides, CarriedFrom(side),
           packet'[side] = packet[side], out'[side].seq = out[side].seq, sent'[side] = sent[side],
           SealsOf(side)' = SealsOf(side), got'[Peer(side)] = got[Peer(side)],
           partial'[Peer(side)] = partial[Peer(side)], readBuf'[Peer(side)] = readBuf[Peer(side)],
           NextPlace(Peer(side))' = NextPlace(Peer(side))
    PROVE  CarriedFrom(side)'
  BY DEF CarriedFrom

\* legacyfire.Write begins with a frame that fits.
LEMMA FrameWriteFrame ==
    ASSUME FrameInv, TlsInv', NEW side \in Sides, WriteFrame(side)
    PROVE  /\ FrameInv'
           /\ got' = got
           /\ \E f \in Sendable : sent' = [sent EXCEPT ![side] = Append(sent[side], f)]
<1>1. PICK f \in Frames :
      /\ Framable(f)
      /\ packet' = [packet EXCEPT ![side] = packet[side] \o Image(f)]
      /\ sent' = [sent EXCEPT ![side] = Append(sent[side], f)]
      /\ UNCHANGED <<at, in, out, net, readBuf, partial, got>>
  BY DEF WriteFrame, tlsVars, Image
<1>2. f \in Sendable
  BY <1>1 DEF Sendable
<1>3. CiphersOK'
  BY <1>1 DEF FrameInv, CiphersOK, IsCipher, Active
<1>4. FramesTyped'
  BY <1>1 DEF FrameInv, FramesTyped
<1>5. \A s \in Sides : NextPlace(s)' = NextPlace(s) /\ SealsOf(s)' = SealsOf(s)
  BY <1>1 DEF NextPlace, SealsOf
<1>6. /\ packet'[side] = packet[side] \o Image(f) /\ sent'[side] = Append(sent[side], f)
      /\ \A s \in Sides \ {side} : packet'[s] = packet[s] /\ sent'[s] = sent[s]
  BY <1>1 DEF FrameInv, TlsInv, TlsTyped, FramesTyped
<1>7. CarriedFrom(side)'
  <2>1. Carried(packet[side], out[side].seq, sent[side], SealsOf(side), Len(got[Peer(side)]),
                partial[Peer(side)], readBuf[Peer(side)], NextPlace(Peer(side)))
    BY <1>1 DEF FrameInv, CarriedFrom
  <2>2. Carried(packet[side] \o Image(f), out[side].seq, Append(sent[side], f), SealsOf(side),
                Len(got[Peer(side)]), partial[Peer(side)], readBuf[Peer(side)],
                NextPlace(Peer(side)))
    BY <1>2, <2>1, CarriedFrame
  <2> QED BY <1>1, <1>5, <1>6, <2>2, Peers DEF CarriedFrom
<1>8. ASSUME NEW s \in Sides, s # side PROVE CarriedFrom(s)'
  BY <1>1, <1>5, <1>6, <1>8, Peers, CarriedSame DEF FrameInv
<1> QED BY <1>1, <1>2, <1>3, <1>4, <1>7, <1>8 DEF FrameInv

\* One more sealed record of this side, with the first c bytes of what is left of
\* its frame, or with none of them and something else.
LEMMA SealedRecordCarried ==
    ASSUME FrameInv, TlsInv', NEW side \in Sides, Active(out[side]),
           NEW version, NEW typ, NEW data, NEW c \in 0..Len(packet[side]),
           net' = [net EXCEPT ![side] = Append(net[side], Record(out[side], version, typ, data))],
           out' = [out EXCEPT ![side] = Advance(out[side], 1)],
           typ = "applicationData" => data = SubSeq(packet[side], 1, c),
           packet' = [packet EXCEPT ![side] =
                        SubSeq(packet[side], c + 1, Len(packet[side]))],
           UNCHANGED <<at, in, sent, got, partial, readBuf>>
    PROVE  FrameInv'
<1>1. PICK k : k = out[side]
  OBVIOUS
<1>2. Active(k) /\ IsCipher(k) /\ k.seq \in Nat /\ k.seq # 0
  BY <1>1 DEF FrameInv, CiphersOK, TlsInv, TlsTyped, IsCipher
<1>3. /\ IsCipher(Advance(k, 1)) /\ Active(Advance(k, 1)) /\ Advance(k, 1).seq = k.seq + 1
  BY <1>2, Advanced
<1>4. PICK rec : rec = Record(k, version, typ, data)
  OBVIOUS
<1>5. rec.seal = <<k.key, k.seq, typ, data>>
  BY <1>2, <1>4, RecordShape
<1>6. rec.seal[2] = k.seq /\ rec.seal[3] = typ /\ rec.seal[4] = data
  BY <1>5
<1>7. /\ net'[side] = Append(net[side], rec) /\ out'[side] = Advance(k, 1)
      /\ packet'[side] = SubSeq(packet[side], c + 1, Len(packet[side]))
      /\ \A s \in Sides \ {side} : net'[s] = net[s] /\ out'[s] = out[s] /\ packet'[s] = packet[s]
  BY <1>1, <1>4 DEF FrameInv, TlsInv, TlsTyped
<1>8. ToSet(net'[side]) = ToSet(net[side]) \cup {rec}
  BY <1>7, AppendSet DEF FrameInv, TlsInv, WireOK
<1>9. ASSUME NEW seal \in SealsOf(side)' PROVE seal \in SealsOf(side) \/ seal = rec.seal
  BY <1>8, <1>9 DEF SealsOf
<1>10. \A s \in Sides : NextPlace(s)' = NextPlace(s)
  BY DEF NextPlace
<1>11. CiphersOK'
  <2>1. ASSUME NEW s \in Sides PROVE Active(out'[s]) <=> out'[s].seq # 0
    <3>1. CASE s = side
      <4>1. k.seq + 1 # 0
        BY <1>2
      <4> QED BY <1>3, <1>7, <3>1, <4>1
    <3>2. CASE s # side
      BY <1>7, <3>2 DEF FrameInv, CiphersOK
    <3> QED BY <3>1, <3>2
  <2> QED BY <2>1 DEF FrameInv, CiphersOK, IsCipher, Active
<1>12. FramesTyped'
  BY DEF FrameInv, FramesTyped
<1>13. CarriedFrom(side)'
  <2>1. PICK pk, q, fs, g, pt, rb, n :
        /\ pk = packet[side] /\ q = k.seq /\ fs = sent[side] /\ g = Len(got[Peer(side)])
        /\ pt = partial[Peer(side)] /\ rb = readBuf[Peer(side)] /\ n = NextPlace(Peer(side))
    OBVIOUS
  <2>2. PICK seals, others : seals = SealsOf(side) /\ others = SealsOf(side)'
    OBVIOUS
  <2>3. Carried(pk, q, fs, seals, g, pt, rb, n)
    BY <1>1, <2>1, <2>2 DEF FrameInv, CarriedFrom
  <2>4. \A seal \in others :
           \/ seal \in seals
           \/ seal[2] = q /\ (seal[3] = "applicationData" => seal[4] = SubSeq(pk, 1, c))
    BY <1>6, <1>9, <2>1, <2>2
  <2>5. q # 0 /\ c \in 0..Len(pk)
    BY <1>2, <2>1
  <2>6. Carried(SubSeq(pk, c + 1, Len(pk)), q + 1, fs, others, g, pt, rb, n)
    BY <2>3, <2>4, <2>5, CarriedRecord
  <2>7. packet'[side] = SubSeq(pk, c + 1, Len(pk)) /\ out'[side].seq = q + 1
    BY <1>3, <1>7, <2>1
  <2> QED BY <1>10, <2>1, <2>2, <2>6, <2>7, Peers DEF CarriedFrom
<1>14. ASSUME NEW s \in Sides, s # side PROVE CarriedFrom(s)'
  <2>1. SealsOf(s)' = SealsOf(s)
    BY <1>7, <1>14, SealsSame
  <2> QED BY <1>7, <1>10, <1>14, <2>1, Peers, CarriedSame DEF FrameInv
<1> QED BY <1>11, <1>12, <1>13, <1>14 DEF FrameInv

LEMMA FrameWriteRecord ==
    ASSUME FrameInv, TlsInv', NEW side \in Sides, WriteRecord(side)
    PROVE  FrameInv'
<1>1. /\ MayWrite(side)
      /\ net' = [net EXCEPT ![side] =
             Append(net[side], Record(out[side], sec[side].version, "applicationData", Piece(side)))]
      /\ out' = [out EXCEPT ![side] = Advance(out[side], 1)]
      /\ packet' = [packet EXCEPT ![side] =
             SubSeq(packet[side], Len(Piece(side)) + 1, Len(packet[side]))]
      /\ UNCHANGED <<at, in, sent, got, partial, readBuf>>
  BY DEF WriteRecord
<1>2. Active(out[side])
  BY <1>1, WriterHasKey DEF FrameInv
<1>3. packet[side] \in Seq(Nat) /\ Len(packet[side]) \in Nat /\ MaxFragment \in Nat
  BY StreamAssumption, LenProperties DEF FrameInv, TlsInv, TlsTyped
<1>4. PICK c : c = IF Len(packet[side]) < MaxFragment THEN Len(packet[side]) ELSE MaxFragment
  OBVIOUS
<1>5. c \in 0..Len(packet[side])
  BY <1>3, <1>4
<1>6. Piece(side) = SubSeq(packet[side], 1, c) /\ Len(Piece(side)) = c
  <2>1. Piece(side) = SubSeq(packet[side], 1, c)
    BY <1>4 DEF Piece
  <2>2. PICK pk : pk = packet[side]
    OBVIOUS
  <2>3. Spans(pk, pk, 0, Len(pk)) /\ c \in 0..Len(pk)
    BY <1>3, <1>5, <2>2 DEF Spans
  <2>4. Len(SubSeq(pk, 1, c)) = c
    BY <2>3, SpansCut
  <2> QED BY <2>1, <2>2, <2>4
<1>7. PICK version, typ, data :
        version = sec[side].version /\ typ = "applicationData" /\ data = Piece(side)
  OBVIOUS
<1>8. /\ net' = [net EXCEPT ![side] = Append(net[side], Record(out[side], version, typ, data))]
      /\ packet' = [packet EXCEPT ![side] = SubSeq(packet[side], c + 1, Len(packet[side]))]
      /\ typ = "applicationData" => data = SubSeq(packet[side], 1, c)
  BY <1>1, <1>6, <1>7
<1>9. out' = [out EXCEPT ![side] = Advance(out[side], 1)]
      /\ UNCHANGED <<at, in, sent, got, partial, readBuf>>
  BY <1>1
<1> QED BY <1>2, <1>5, <1>8, <1>9, SealedRecordCarried

LEMMA FrameClientNotice ==
    ASSUME FrameInv, TlsInv', ClientNotice
    PROVE  FrameInv'
<1>1. PICK typ \in {"alert", "handshake"} :
      /\ Handshaken("client")
      /\ packet["client"] = <<>>
      /\ net' = [net EXCEPT !["client"] =
             Append(net["client"], Record(out["client"], sec["client"].version, typ, <<Garbled>>))]
      /\ out' = [out EXCEPT !["client"] = Advance(out["client"], 1)]
      /\ UNCHANGED <<at, in, frameVars>>
  BY DEF ClientNotice
<1>2. Active(out["client"])
  BY <1>1 DEF Handshaken, FrameInv, TlsInv, StagesAgree
<1>a. PICK version, data : version = sec["client"].version /\ data = <<Garbled>>
  OBVIOUS
<1>3. PICK side \in Sides, c \in Nat : side = "client" /\ c = 0
  BY Peers
<1>4. SubSeq(<<>>, 1, 0) = <<>> /\ Len(<<>>) = 0
  BY SubSeqEmpty
<1>5. c \in 0..Len(packet[side]) /\ SubSeq(packet[side], c + 1, Len(packet[side])) = packet[side]
  <2>1. packet[side] = <<>> /\ Len(packet[side]) = 0
    BY <1>1, <1>3, <1>4
  <2>2. c + 1 = 1 /\ c \in 0..0
    BY <1>3
  <2>3. SubSeq(packet[side], c + 1, Len(packet[side])) = SubSeq(<<>>, 1, 0)
    BY <2>1, <2>2, Zenon
  <2> QED BY <1>4, <2>1, <2>2, <2>3
<1>6. packet' = [packet EXCEPT ![side] = SubSeq(packet[side], c + 1, Len(packet[side]))]
  <2>1. packet' = packet /\ packet \in [Sides -> Seq(Nat)]
    BY <1>1 DEF frameVars, FrameInv, TlsInv, TlsTyped
  <2>2. packet = [packet EXCEPT ![side] = packet[side]]
    BY <2>1
  <2> QED BY <1>5, <2>1, <2>2
<1>7. /\ Active(out[side]) /\ typ # "applicationData"
      /\ net' = [net EXCEPT ![side] = Append(net[side], Record(out[side], version, typ, data))]
      /\ out' = [out EXCEPT ![side] = Advance(out[side], 1)]
      /\ UNCHANGED <<at, in, sent, got, partial, readBuf>>
  BY <1>1, <1>2, <1>3, <1>a DEF frameVars
<1> QED BY <1>5, <1>6, <1>7, SealedRecordCarried

\* Conn.Read: the record at the head is the one sealed for the reader's place.
LEMMA FrameReadRecord ==
    ASSUME FrameInv, TlsInv', NEW side \in Sides, ReadRecord(side)
    PROVE  FrameInv'
<1>1. /\ MayRead(side)
      /\ readBuf[side] = <<>>
      /\ CanRead(side)
      /\ readRecord(side).typ = "applicationData"
      /\ readBuf' = [readBuf EXCEPT ![side] = readRecord(side).data]
      /\ in' = [in EXCEPT ![side] = Advance(in[side], 1)]
      /\ Exchange(side, <<>>)
      /\ UNCHANGED <<at, out, packet, partial, sent, got>>
  BY DEF ReadRecord
<1>2. at[side] = "ready"
  BY <1>1, Peers DEF MayRead, Handshaken, FrameInv, TlsInv, StagesAgree, Callers
<1>3. Active(in[side]) /\ IsCipher(in[side])
  BY <1>2 DEF FrameInv, CiphersOK
<1>4. PICK k : k = in[side]
  OBVIOUS
<1>5. IsCipher(Advance(k, 1)) /\ Active(Advance(k, 1)) /\ Advance(k, 1).seq = k.seq + 1
  BY <1>3, <1>4, Advanced
<1>6. PICK w : w = Peer(side)
  OBVIOUS
<1>7. w \in Sides /\ Peer(w) = side /\ w # side
  BY <1>6, Peers
<1>8. PICK seal : seal = Incoming(side).seal
  OBVIOUS
<1>9. /\ seal \in SealsOf(w)
      /\ seal = <<k.key, k.seq, "applicationData", readRecord(side).data>>
  <2>1. /\ Incoming(side) \in ToSet(net[Peer(side)])
        /\ Incoming(side).seal = <<in[side].key, in[side].seq, readRecord(side).typ,
                                   readRecord(side).data>>
    BY <1>1, <1>3, GenuineRecord DEF FrameInv
  <2> QED BY <1>1, <1>4, <1>6, <1>8, <2>1 DEF SealsOf
<1>10. /\ seal # NoSeal /\ seal[2] = k.seq /\ seal[3] = "applicationData"
       /\ seal[4] = readRecord(side).data
  BY <1>9 DEF NoSeal
<1>11. /\ in'[side] = Advance(k, 1) /\ readBuf'[side] = seal[4]
       /\ \A s \in Sides \ {side} : in'[s] = in[s] /\ readBuf'[s] = readBuf[s]
       /\ DOMAIN readBuf' = Sides
  BY <1>1, <1>4, <1>10 DEF FrameInv, TlsInv, TlsTyped, FramesTyped
<1>12. /\ net'[w] = Tail(net[w]) /\ net'[side] = net[side] /\ net[w] # <<>>
  <2>1. net'[w] = Tail(net[w]) /\ net'[side] = net[side] \o <<>> /\ net[w] # <<>>
    BY <1>1, <1>6, ExchangeNet DEF FrameInv, TlsInv, TlsTyped, CanRead
  <2>2. IsSeq(net[side])
    BY DEF FrameInv, TlsInv, WireOK
  <2> QED BY <2>1, <2>2, ConcatNothing
<1>13. CiphersOK'
  <2>1. ASSUME NEW s \in Sides
        PROVE  /\ IsCipher(in'[s])
               /\ at'[s] = "finished" => Active(in'[s]) /\ in'[s].seq = 0
               /\ at'[s] = "ready" => Active(in'[s])
    <3>1. CASE s = side
      BY <1>1, <1>2, <1>5, <1>11, <3>1
    <3>2. CASE s # side
      BY <1>1, <1>11, <3>2 DEF FrameInv, CiphersOK
    <3> QED BY <3>1, <3>2
  <2> QED BY <1>1, <2>1 DEF FrameInv, CiphersOK, Active
<1>14. FramesTyped'
  BY <1>1, <1>11 DEF FrameInv, FramesTyped
<1>15. NextPlace(side) = k.seq /\ NextPlace(side)' = k.seq + 1 /\ NextPlace(w)' = NextPlace(w)
  BY <1>1, <1>2, <1>4, <1>5, <1>7, <1>11 DEF NextPlace
<1>16. CarriedFrom(w)'
  <2>1. PICK pk, q, fs, g, pt, n :
        /\ pk = packet[w] /\ q = out[w].seq /\ fs = sent[w] /\ g = Len(got[side])
        /\ pt = partial[side] /\ n = k.seq
    OBVIOUS
  <2>2. PICK seals, others : seals = SealsOf(w) /\ others = SealsOf(w)'
    OBVIOUS
  <2>3. others \subseteq seals
    BY <1>7, <1>12, <2>2, SealsRead DEF FrameInv, TlsInv, WireOK
  <2>4. Carried(pk, q, fs, seals, g, pt, <<>>, n)
    BY <1>1, <1>7, <1>15, <2>1, <2>2 DEF FrameInv, CarriedFrom
  <2>5. seal \in seals /\ seal # NoSeal /\ seal[3] = "applicationData" /\ seal[2] = n
    BY <1>9, <1>10, <2>1, <2>2
  <2>6. Carried(pk, q, fs, others, g, pt, seal[4], n + 1)
    BY <2>3, <2>4, <2>5, CarriedRead
  <2> QED BY <1>1, <1>7, <1>11, <1>15, <2>1, <2>2, <2>6 DEF CarriedFrom
<1>17. CarriedFrom(side)'
  <2>1. SealsOf(side)' = SealsOf(side)
    BY <1>12, SealsSame
  <2> QED BY <1>1, <1>6, <1>7, <1>11, <1>15, <2>1, CarriedSame DEF FrameInv
<1>18. \A s \in Sides : s = side \/ s = w
  BY <1>6, Peers
<1> QED BY <1>13, <1>14, <1>16, <1>17, <1>18 DEF FrameInv

\* io.ReadFull: a piece of the record completes the next frame, or not yet.
LEMMA FrameReadPiece ==
    ASSUME FrameInv, TlsInv', NEW side \in Sides, ReadPiece(side)
    PROVE  /\ FrameInv'
           /\ sent' = sent
           /\ \/ got' = got
              \/ /\ Len(got[side]) < Len(sent[Peer(side)])
                 /\ got' = [got EXCEPT ![side] =
                              Append(got[side], sent[Peer(side)][Len(got[side]) + 1])]
<1>1. PICK take, b :
        /\ take = Take(side)
        /\ b = partial[side] \o SubSeq(readBuf[side], 1, Take(side))
  OBVIOUS
<1>2. /\ readBuf[side] # <<>>
      /\ readBuf' = [readBuf EXCEPT ![side] = SubSeq(readBuf[side], take + 1, Len(readBuf[side]))]
      /\ UNCHANGED <<at, in, out, net, packet, sent>>
  BY <1>1 DEF ReadPiece, tlsVars
<1>3. \/ /\ Missing(b) > 0
         /\ partial' = [partial EXCEPT ![side] = b]
         /\ got' = got
      \/ /\ Missing(b) <= 0
         /\ partial' = [partial EXCEPT ![side] = <<>>]
         /\ got' = [got EXCEPT ![side] = Append(got[side], FrameOf(b))]
  BY <1>1 DEF ReadPiece
<1>4. PICK w : w = Peer(side)
  OBVIOUS
<1>5. w \in Sides /\ Peer(w) = side /\ w # side /\ \A s \in Sides : s = side \/ s = w
  BY <1>4, Peers
<1>6. PICK pk, q, fs, seals, g, pt, rb, n :
        /\ pk = packet[w] /\ q = out[w].seq /\ fs = sent[w] /\ seals = SealsOf(w)
        /\ g = Len(got[side]) /\ pt = partial[side] /\ rb = readBuf[side] /\ n = NextPlace(side)
  OBVIOUS
<1>7. PICK rest : rest = SubSeq(rb, take + 1, Len(rb))
  OBVIOUS
<1>8. /\ Carried(pk, q, fs, seals, g, pt, rb, n)
      /\ rb # <<>>
      /\ pt # <<>> => Missing(pt) > 0
  BY <1>2, <1>5, <1>6 DEF FrameInv, CarriedFrom, TlsInv, TlsTyped
<1>9. /\ take = IF Missing(pt) < Len(rb) THEN Missing(pt) ELSE Len(rb)
      /\ b = pt \o SubSeq(rb, 1, take)
  BY <1>1, <1>6 DEF Take
<1>10. /\ Missing(b) > 0 => Carried(pk, q, fs, seals, g, b, rest, n)
       /\ Missing(b) <= 0 =>
            /\ g \in Nat /\ g < Len(fs)
            /\ FrameOf(b) = fs[g + 1]
            /\ Carried(pk, q, fs, seals, g + 1, <<>>, rest, n)
  <2>1. /\ take = IF Missing(pt) < Len(rb) THEN Missing(pt) ELSE Len(rb)
        /\ b = pt \o SubSeq(rb, 1, take)
        => /\ Missing(b) > 0 =>
                Carried(pk, q, fs, seals, g, b, SubSeq(rb, take + 1, Len(rb)), n)
           /\ Missing(b) <= 0 =>
                /\ g \in Nat /\ g < Len(fs)
                /\ FrameOf(b) = fs[g + 1]
                /\ Carried(pk, q, fs, seals, g + 1, <<>>, SubSeq(rb, take + 1, Len(rb)), n)
    BY <1>8, CarriedPiece
  <2> QED BY <1>7, <1>9, <2>1, Zenon
<1>11. /\ readBuf'[side] = rest /\ DOMAIN readBuf' = Sides
       /\ \A s \in Sides \ {side} : readBuf'[s] = readBuf[s]
  BY <1>2, <1>6, <1>7 DEF FrameInv, FramesTyped
<1>12. \A s \in Sides : /\ SealsOf(s)' = SealsOf(s) /\ NextPlace(s)' = NextPlace(s)
                        /\ packet'[s] = packet[s] /\ out'[s].seq = out[s].seq
                        /\ sent'[s] = sent[s]
  BY <1>2 DEF SealsOf, NextPlace
<1>13. CiphersOK'
  BY <1>2 DEF FrameInv, CiphersOK, IsCipher, Active
<1>14. /\ DOMAIN partial = Sides /\ DOMAIN got = Sides /\ DOMAIN sent' = Sides
       /\ \A s \in Sides : got[s] \in Seq(Sendable)
  BY <1>2 DEF FrameInv, FramesTyped, TlsInv, TlsTyped
<1>15. CASE /\ Missing(b) > 0
            /\ partial' = [partial EXCEPT ![side] = b]
            /\ got' = got
  <2>1. partial' = [partial EXCEPT ![side] = b] /\ got' = got
    BY <1>15
  <2>2. partial'[side] = b /\ \A s \in Sides \ {side} : partial'[s] = partial[s]
    BY <1>14, <2>1
  <2>3. CarriedFrom(w)'
    BY <1>5, <1>6, <1>10, <1>11, <1>12, <1>15, <2>1, <2>2 DEF CarriedFrom
  <2>4. CarriedFrom(side)'
    BY <1>4, <1>5, <1>11, <1>12, <2>1, <2>2, CarriedSame DEF FrameInv
  <2>5. FramesTyped'
    BY <1>11, <1>14, <2>1 DEF FramesTyped
  <2> QED BY <1>2, <1>5, <1>13, <2>1, <2>3, <2>4, <2>5 DEF FrameInv
<1>16. CASE /\ Missing(b) <= 0
            /\ partial' = [partial EXCEPT ![side] = <<>>]
            /\ got' = [got EXCEPT ![side] = Append(got[side], FrameOf(b))]
  <2>1. PICK f : f = fs[g + 1]
    OBVIOUS
  <2>2. /\ partial' = [partial EXCEPT ![side] = <<>>]
        /\ got' = [got EXCEPT ![side] = Append(got[side], f)]
    BY <1>10, <1>16, <2>1
  <2>3. f \in Sendable
    <3>1. fs \in Seq(Sendable)
      BY <1>8 DEF Carried, Numbered
    <3>2. g \in Nat /\ g < Len(fs)
      BY <1>10, <1>16
    <3> QED BY <2>1, <3>1, <3>2
  <2>4. partial'[side] = <<>> /\ \A s \in Sides \ {side} : partial'[s] = partial[s]
    BY <1>14, <2>2
  <2>5. got'[side] = Append(got[side], f) /\ \A s \in Sides \ {side} : got'[s] = got[s]
    BY <1>14, <2>2
  <2>6. Len(got'[side]) = g + 1 /\ got'[side] \in Seq(Sendable)
    <3>1. PICK o \in Seq(Sendable) : o = got[side]
      BY <1>14
    <3>2. Len(Append(o, f)) = Len(o) + 1 /\ Append(o, f) \in Seq(Sendable)
      BY <2>3
    <3> QED BY <1>6, <2>5, <3>1, <3>2
  <2>7. CarriedFrom(w)'
    <3>1. Carried(pk, q, fs, seals, g + 1, <<>>, rest, n)
      BY <1>10, <1>16
    <3> QED BY <1>5, <1>6, <1>11, <1>12, <2>4, <2>6, <3>1 DEF CarriedFrom
  <2>8. CarriedFrom(side)'
    BY <1>4, <1>5, <1>11, <1>12, <2>4, <2>5, CarriedSame DEF FrameInv
  <2>9. FramesTyped'
    BY <1>5, <1>11, <1>14, <2>2, <2>5, <2>6 DEF FramesTyped
  <2>10. FrameInv'
    BY <1>5, <1>13, <2>7, <2>8, <2>9 DEF FrameInv
  <2> QED BY <1>2, <1>4, <1>6, <1>10, <1>16, <2>1, <2>2, <2>10
<1> QED BY <1>3, <1>15, <1>16

LEMMA FrameInvStep == FrameInv /\ [StreamNext]_streamVars => FrameInv'
<1> SUFFICES ASSUME FrameInv, [StreamNext]_streamVars PROVE FrameInv'
  OBVIOUS
<1>1. TlsInv'
  BY TlsInvStep DEF FrameInv
<1>2. CASE UNCHANGED streamVars
  BY <1>1, <1>2, IdleKeeps DEF streamVars, tlsVars
<1>3. CASE Call
  BY <1>1, <1>3, IdleKeeps DEF Call, CallHandshake
<1>4. CASE ServerHandshake /\ UNCHANGED frameVars
  <2>1. ASSUME NEW g \in Callers, ReturnHandshake(g) PROVE FrameInv'
    BY <1>1, <1>4, <2>1, IdleKeeps DEF ReturnHandshake
  <2> QED BY <1>1, <1>4, <2>1, FrameClientHello, FrameReads, FrameChangeCipher, FrameFinished
          DEF ServerHandshake
<1>5. CASE ClientHandshake /\ UNCHANGED frameVars
  BY <1>1, <1>5, FrameClientHello, FrameClientFlight, FrameChangeCipher, FrameFinished, FrameReads
     DEF ClientHandshake
<1>6. CASE HangUp /\ UNCHANGED frameVars
  BY <1>1, <1>6, IdleKeeps DEF HangUp
<1>7. CASE Transit /\ UNCHANGED frameVars
  BY <1>1, <1>7, FrameTransit
<1>8. ASSUME NEW side \in Sides, Stream(side) PROVE FrameInv'
  <2>1. CASE WriteRecordFails(side) \/ ReadFails(side)
    BY <1>1, <2>1, IdleKeeps DEF WriteRecordFails, ReadFails
  <2> QED BY <1>1, <1>8, <2>1, FrameWriteFrame, FrameWriteRecord, FrameReadRecord, FrameReadPiece
          DEF Stream
<1>9. CASE RefuseFrame
  BY <1>1, <1>9, IdleKeeps DEF RefuseFrame
<1>10. CASE ClientNotice
  BY <1>1, <1>10, FrameClientNotice
<1> QED BY <1>2, <1>3, <1>4, <1>5, <1>6, <1>7, <1>8, <1>9, <1>10 DEF StreamNext

\* The channel sees a frame when legacyfire.Write takes it and when the last piece
\* of it has been read; nothing else the connection does shows.
LEMMA ChannelStep ==
    FrameInv /\ [StreamNext]_streamVars => [Channel!ChannelNext]_<<sent, got>>
<1> SUFFICES ASSUME FrameInv, [StreamNext]_streamVars
             PROVE  [Channel!ChannelNext]_<<sent, got>>
  OBVIOUS
<1>1. TlsInv'
  BY TlsInvStep DEF FrameInv
<1>2. CASE UNCHANGED frameVars
  BY <1>2 DEF frameVars
<1>3. CASE UNCHANGED streamVars
  BY <1>2, <1>3 DEF streamVars
<1>4. CASE Call \/ RefuseFrame \/ ClientNotice
  BY <1>2, <1>4 DEF Call, RefuseFrame, ClientNotice
<1>5. ASSUME NEW side \in Sides, Stream(side) PROVE [Channel!ChannelNext]_<<sent, got>>
  <2>1. CASE WriteFrame(side)
    <3>1. got' = got /\ \E f \in Sendable : sent' = [sent EXCEPT ![side] = Append(sent[side], f)]
      BY <1>1, <2>1, FrameWriteFrame
    <3>2. Channel!Send(side)
      BY <3>1 DEF Channel!Send, Sendable
    <3> QED BY <3>2 DEF Channel!ChannelNext
  <2>2. CASE ReadPiece(side)
    <3>1. /\ sent' = sent
          /\ \/ got' = got
             \/ /\ Len(got[side]) < Len(sent[Peer(side)])
                /\ got' = [got EXCEPT ![side] =
                             Append(got[side], sent[Peer(side)][Len(got[side]) + 1])]
      BY <1>1, <2>2, FrameReadPiece
    <3>2. Channel!OtherEnd(side) = Peer(side)
      BY Peers DEF Channel!OtherEnd
    <3>3. CASE got' = got
      BY <3>1, <3>3
    <3>4. CASE /\ Len(got[side]) < Len(sent[Peer(side)])
               /\ got' = [got EXCEPT ![side] =
                            Append(got[side], sent[Peer(side)][Len(got[side]) + 1])]
      <4>1. Channel!Deliver(side)
        BY <3>1, <3>2, <3>4 DEF Channel!Deliver
      <4> QED BY <4>1 DEF Channel!ChannelNext
    <3> QED BY <3>1, <3>3, <3>4
  <2>3. CASE WriteRecord(side) \/ WriteRecordFails(side) \/ ReadRecord(side) \/ ReadFails(side)
    <3>1. UNCHANGED <<sent, got>>
      BY <2>3 DEF WriteRecord, WriteRecordFails, ReadRecord, ReadFails, frameVars
    <3> QED BY <3>1
  <2> QED BY <1>5, <2>1, <2>2, <2>3 DEF Stream
<1> QED BY <1>2, <1>3, <1>4, <1>5 DEF StreamNext

\* The inductive invariant of the frames: there is one stream of bytes in each
\* direction, the frames that were sent one after the other, which is cut into the
\* records sealed so far and what has still to be written, and of which the reader
\* has the beginning, up to the sequence number it expects (conn.go:58-123,
\* 355-452, frame.go:43-101).
THEOREM FrameInvariant == StreamSpec => []FrameInv
  BY InitFrameInv, FrameInvStep, PTL DEF StreamSpec

\* Each side reads exactly the frames the other side wrote, in order and whole,
\* for any frames, any size field and any length of record, however records are cut
\* into reads, and whatever is damaged, lost, repeated or swapped on the way
\* (frame.go:43-101, conn.go:58-123, 355-452).
THEOREM StreamImplementsFrameChannel == StreamSpec => ImplementsFrameChannel
<1>1. StreamInit => Channel!ChannelInit
  BY DEF StreamInit, Channel!ChannelInit
<1> QED BY <1>1, FrameInvariant, ChannelStep, PTL
        DEF StreamSpec, ImplementsFrameChannel, Channel!ChannelSpec
=============================================================================

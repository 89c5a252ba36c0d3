----------------------------- MODULE FireStream -----------------------------
(***************************************************************************)
(* FIRE frames over a legacytls connection: legacyfire.Write and Read      *)
(* (legacyfire/frame.go), Conn.Write, which cuts what it is given into     *)
(* records, Conn.Read, which hands out a record in pieces, io.ReadFull,    *)
(* which puts the pieces together, and the ends of serveConn and writeLoop *)
(* that use them (hpserver/server.go).                                     *)
(*                                                                         *)
(* A frame is a header, of a size field and an identity here, and a        *)
(* payload.  The client end uses the same code, as in conn_test.go.        *)
(***************************************************************************)
EXTENDS LegacyTls

CONSTANTS
    Frames,       \* the frames that are sent: [id, payload]
    SizeLimit,    \* the largest value of the size field, 0xffff in the code
    MaxFragment,  \* the largest record, 16384 in the code
    MaxFrames     \* bound: how many frames the two sides write

ASSUME StreamAssumption ==
    /\ Frames \subseteq [id : Nat, payload : Seq(Nat)]
    /\ SizeLimit \in Nat
    /\ MaxFragment \in Nat \ {0}
    /\ MaxFrames \in Nat

VARIABLES
    packet,       \* what each side has still to write of its current frame
    readBuf,      \* Conn.readBuf, of each side
    partial,      \* what io.ReadFull has of the frame being read, on each side
    sent,         \* history: the frames each side has begun to write
    got           \* the frames each side has read

frameVars == <<packet, readBuf, partial, sent, got>>
streamVars == <<tlsVars, frameVars>>

-----------------------------------------------------------------------------
HeaderSize == 2

\* MarshalBinary, with the payload size filled in by Write.
MarshalBinary(f) == <<Len(f.payload) % (SizeLimit + 1), f.id>>

ParseHeader(b) == [size |-> b[1], id |-> b[2]]

\* How much of a frame is missing when this much of it has been read: the size
\* of the payload is known once the header is there.
Missing(b) ==
    IF Len(b) < HeaderSize THEN HeaderSize - Len(b)
    ELSE HeaderSize + ParseHeader(b).size - Len(b)

FrameOf(b) == [id |-> ParseHeader(b).id, payload |-> SubSeq(b, HeaderSize + 1, Len(b))]

\* Mutant: one flag for both directions, set by the writer.
MayReadAfterWrite(side) ==
    IF side = "client" THEN Handshaken("client") ELSE call["writer"] = "through"

\* The side is free to use the connection: the client once its handshake is
\* over, the goroutines of the server when Handshake has let them through.
MayWrite(side) ==
    IF side = "client" THEN Handshaken("client") ELSE call["writer"] = "through"
MayRead(side) ==
    IF side = "client" THEN Handshaken("client") ELSE call["reader"] = "through"

Shut(side) == closed' = closed \cup {side}

-----------------------------------------------------------------------------
(* Writing.                                                                *)

Framable(f) == Len(f.payload) <= SizeLimit

\* Handlers put frames on the channel of a connection, for its writer, only after
\* its first request: serveConn has passed Handshake by then, and the session was
\* in no game before.
HasWork == packet["server"] = <<>> /\ got["server"] # <<>>

\* legacyfire.Write begins.  The client may hand its TLS library another frame
\* before the last one is on the wire, so that two share a record.
WriteFrame(side) ==
    /\ Len(sent["client"]) + Len(sent["server"]) < MaxFrames
    /\ side \notin closed
    /\ side = "client" => Handshaken("client")
    /\ side = "server" => HasWork /\ call["writer"] \in {"idle", "through"}
    /\ \E f \in Frames :
        /\ Framable(f)
        /\ packet' = [packet EXCEPT ![side] = @ \o (MarshalBinary(f) \o f.payload)]
        /\ sent' = [sent EXCEPT ![side] = Append(@, f)]
    /\ UNCHANGED <<tlsVars, readBuf, partial, got>>

\* The payload does not fit the size field: an error, and writeLoop closes.
RefuseFrame ==
    /\ HasWork
    /\ "server" \notin closed
    /\ call["writer"] \in {"idle", "through"}
    /\ \E f \in Frames : ~ Framable(f)
    /\ Shut("server")
    /\ UNCHANGED <<hello, at, sec, in, out, firstRecord, net, runner, call, faults, frameVars>>

\* Mutant: the packet is written as one record, however long it is.
WholePacket(side) == packet[side]

\* What Conn.Write puts into the next record.
Piece(side) ==
    SubSeq(packet[side], 1, IF Len(packet[side]) < MaxFragment
                            THEN Len(packet[side]) ELSE MaxFragment)

\* Conn.Write: one record.
WriteRecord(side) ==
    LET piece == Piece(side)
    IN /\ packet[side] # <<>>
       /\ MayWrite(side)
       /\ side \notin closed
       /\ net' = [net EXCEPT ![side] =
             Append(@, Record(out[side], sec[side].version, "applicationData", piece))]
       /\ out' = [out EXCEPT ![side] = Advance(@, 1)]
       /\ packet' = [packet EXCEPT ![side] = SubSeq(@, Len(piece) + 1, Len(@))]
       /\ UNCHANGED <<hello, at, sec, in, firstRecord, closed, runner, call, faults,
                      readBuf, partial, sent, got>>

\* The write fails, which it may once the other side has gone: writeLoop closes.
WriteRecordFails(side) ==
    /\ packet[side] # <<>>
    /\ MayWrite(side)
    /\ side \notin closed
    /\ Peer(side) \in closed
    /\ Shut(side)
    /\ UNCHANGED <<hello, at, sec, in, out, firstRecord, net, runner, call, faults, frameVars>>

\* The client says that it closes, or asks for a new handshake.
ClientNotice ==
    /\ Handshaken("client")
    /\ "client" \notin closed
    /\ packet["client"] = <<>>
    /\ \E typ \in {"alert", "handshake"} :
        net' = [net EXCEPT !["client"] =
          Append(@, Record(out["client"], sec["client"].version, typ, <<Garbled>>))]
    /\ out' = [out EXCEPT !["client"] = Advance(@, 1)]
    /\ closed' = closed \cup {"client"}
    /\ UNCHANGED <<hello, at, sec, in, firstRecord, runner, call, faults, frameVars>>

-----------------------------------------------------------------------------
(* Reading.                                                                *)

\* Conn.Read, with nothing buffered: the next record.
ReadRecord(side) ==
    /\ MayRead(side)
    /\ readBuf[side] = <<>>
    /\ CanRead(side)
    /\ readRecord(side).typ = "applicationData"
    /\ readBuf' = [readBuf EXCEPT ![side] = readRecord(side).data]
    /\ in' = [in EXCEPT ![side] = Advance(@, 1)]
    /\ Exchange(side, <<>>)
    /\ UNCHANGED <<hello, at, sec, out, firstRecord, closed, runner, call, faults,
                   packet, partial, sent, got>>

\* Anything else, and the end of the connection, is an error of the reader.
ReadFails(side) ==
    /\ MayRead(side)
    /\ readBuf[side] = <<>>
    /\ side \notin closed
    /\ \/ CanRead(side) /\ readRecord(side).typ # "applicationData"
       \/ net[Peer(side)] = <<>> /\ Peer(side) \in closed
    /\ Shut(side)
    /\ UNCHANGED <<hello, at, sec, in, out, firstRecord, net, runner, call, faults, frameVars>>

\* How much Conn.Read hands out: what is asked for, if there is that much.
Take(side) ==
    IF Missing(partial[side]) < Len(readBuf[side]) THEN Missing(partial[side])
    ELSE Len(readBuf[side])

\* io.ReadFull goes on, and Read returns the frame when it is complete.  What is
\* buffered is handed out after the connection was closed, too.
ReadPiece(side) ==
    LET b == partial[side] \o SubSeq(readBuf[side], 1, Take(side))
    IN /\ readBuf[side] # <<>>
       /\ readBuf' = [readBuf EXCEPT ![side] = SubSeq(@, Take(side) + 1, Len(@))]
       /\ \/ /\ Missing(b) > 0
             /\ partial' = [partial EXCEPT ![side] = b]
             /\ UNCHANGED got
          \/ /\ Missing(b) <= 0
             /\ partial' = [partial EXCEPT ![side] = <<>>]
             /\ got' = [got EXCEPT ![side] = Append(@, FrameOf(b))]
       /\ UNCHANGED <<tlsVars, packet, sent>>

-----------------------------------------------------------------------------
\* serveConn calls Handshake first thing, and writeLoop, through Write, when it has
\* a frame.
Call ==
    /\ \/ CallHandshake("reader")
       \/ packet["server"] # <<>> /\ CallHandshake("writer")
    /\ UNCHANGED frameVars

Stream(side) ==
    \/ WriteFrame(side)
    \/ WriteRecord(side)
    \/ WriteRecordFails(side)
    \/ ReadRecord(side)
    \/ ReadFails(side)
    \/ ReadPiece(side)

StreamInit ==
    /\ TlsInit
    /\ packet = [side \in Sides |-> <<>>]
    /\ readBuf = [side \in Sides |-> <<>>]
    /\ partial = [side \in Sides |-> <<>>]
    /\ sent = [side \in Sides |-> <<>>]
    /\ got = [side \in Sides |-> <<>>]

StreamNext ==
    \/ Call
    \/ (ServerHandshake \/ ClientHandshake \/ HangUp \/ Transit) /\ UNCHANGED frameVars
    \/ \E side \in Sides : Stream(side)
    \/ RefuseFrame
    \/ ClientNotice

StreamSpec == StreamInit /\ [][StreamNext]_streamVars

\* Both ends wait for a record, and none is on its way.
Stuck ==
    /\ at["client"] \in {"flight", "changeCipher", "finished"}
    /\ runner # "none"
    /\ \A side \in Sides : net[side] = <<>>

\* The goroutines of the server go on when they can, and so does the client,
\* which hangs up rather than wait for ever; nobody has to send a frame.  The
\* server itself sets no deadline.
StreamFairness ==
    /\ WF_streamVars(Call)
    /\ WF_streamVars(ServerHandshake /\ UNCHANGED frameVars)
    /\ WF_streamVars(ClientHandshake /\ UNCHANGED frameVars)
    /\ WF_streamVars(Stuck /\ HangUp /\ UNCHANGED frameVars)
    /\ \A side \in Sides :
        /\ WF_streamVars(WriteRecord(side) \/ WriteRecordFails(side))
        /\ WF_streamVars(ReadRecord(side) \/ ReadFails(side) \/ ReadPiece(side))

FairStreamSpec == StreamSpec /\ StreamFairness

-----------------------------------------------------------------------------
\* Stages and results are the known ones, no record holds more than MaxFragment,
\* and a frame is handed over as soon as it is complete.
StreamTypeOK ==
    /\ at["server"] \in {"hello", "keyExchange", "changeCipher", "finished", "ready", "failed"}
    /\ at["client"] \in {"start", "flight", "changeCipher", "finished", "ready", "failed"}
    /\ closed \subseteq Sides
    /\ call \in [Callers -> {"idle", "waiting", "through", "error"}]
    /\ \A side \in Sides :
        /\ partial[side] # <<>> => Missing(partial[side]) > 0
        /\ \A r \in ToSet(net[side]) : r.typ = "applicationData" => Len(r.data) <= MaxFragment

\* The abstract channel of frames, one direction per side.
Channel == INSTANCE FrameChannel WITH Ends <- Sides, Frames <- {f \in Frames : Framable(f)}

\* Each side reads exactly the frames the other side wrote, in order and whole,
\* however frames are cut into records, records into reads, and whatever becomes
\* of a record on its way (frame.go:43-101, conn.go:58-123, 355-452).
ImplementsFrameChannel == Channel!ChannelSpec

\* A handshake with a client that offers RC4 and sends one message per record, in
\* either version, completes on both sides, unless a record is disturbed or one
\* side leaves of its own accord (conn.go:42-45, 125-348).
HandshakeCompletes ==
    (/\ [](faults = 0)
     /\ hello.offer \cap {"RC4SHA", "RC4MD5"} # {}
     /\ ~ hello.split)
        => <>(\/ Handshaken("client") /\ call["reader"] = "through"
              \/ closed # {} /\ \A side \in Sides : at[side] # "failed")

\* A goroutine gets out of Handshake, with or without success, whatever the client
\* and the faults did, once the client has gone on or hung up: no end of the
\* connection and no refused record leaves it there (conn.go:42-45, 125-348).
CallersReturn == \A g \in Callers : call[g] = "waiting" ~> call[g] # "waiting"

\* Frames that were written are read by the other side, unless the connection is
\* disturbed or closed: a reader never waits for what has already come
\* (conn.go:67-90, frame.go:43-72).
FramesArrive ==
    \A side \in Sides :
        Len(sent[side]) # Len(got[Peer(side)])
            ~> (Len(sent[side]) = Len(got[Peer(side)]) \/ faults > 0 \/ closed # {})
=============================================================================

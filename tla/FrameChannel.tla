---------------------------- MODULE FrameChannel ----------------------------
(***************************************************************************)
(* What a connection promises to the two ends that use it for FIRE frames, *)
(* legacyfire.Write and legacyfire.Read: in each direction the frames that *)
(* are read are the frames that were written, whole, in order, none left   *)
(* out and none twice.  A connection may stop at any time.                 *)
(***************************************************************************)
EXTENDS Sequences, Naturals

CONSTANTS Ends, Frames

VARIABLES
    sent,         \* the frames each end has written
    got           \* the frames each end has read

\* The end that reads what this one writes.
OtherEnd(end) == CHOOSE other \in Ends : other # end

ChannelInit ==
    /\ sent = [end \in Ends |-> <<>>]
    /\ got = [end \in Ends |-> <<>>]

Send(end) ==
    /\ \E frame \in Frames : sent' = [sent EXCEPT ![end] = Append(@, frame)]
    /\ UNCHANGED got

Deliver(end) ==
    LET written == sent[OtherEnd(end)]
    IN /\ Len(got[end]) < Len(written)
       /\ got' = [got EXCEPT ![end] = Append(@, written[Len(@) + 1])]
       /\ UNCHANGED sent

ChannelNext == \E end \in Ends : Send(end) \/ Deliver(end)

ChannelSpec == ChannelInit /\ [][ChannelNext]_<<sent, got>>
=============================================================================

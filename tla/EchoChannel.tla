----------------------------- MODULE EchoChannel -----------------------------
(***************************************************************************)
(* What a user of the echo endpoint is promised, whatever frames, pings    *)
(* and fragments it takes: a channel that gives back what was said, every  *)
(* message once and whole, in the order of saying.                         *)
(***************************************************************************)
EXTENDS Integers, Sequences

VARIABLES
    sent,       \* the messages said, in order
    got         \* the messages given back

channelVars == <<sent, got>>

ChannelInit == sent = <<>> /\ got = <<>>

\* One more message is said.
Say ==
    /\ Len(sent') = Len(sent) + 1
    /\ \A n \in 1 .. Len(sent) : sent'[n] = sent[n]
    /\ UNCHANGED got

\* The next message, and no other, is given back.
GiveBack ==
    /\ Len(got) < Len(sent)
    /\ got' = Append(got, sent[Len(got) + 1])
    /\ UNCHANGED sent

ChannelNext == Say \/ GiveBack

ChannelSpec == ChannelInit /\ [][ChannelNext]_channelVars
=============================================================================

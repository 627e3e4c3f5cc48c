----------------------------- MODULE RTPReceive -----------------------------
(***************************************************************************)
(* What an RTPSession makes of the packets it receives                     *)
(* (internal/sipua/rtp.go): sequence numbers of 16 bits, extended by       *)
(* counting wraps, from which the loss in RTCP reports, in a test's result *)
(* and so in PBXware's MOS follows.  The network delays, loses and repeats *)
(* packets; PBXware may start a new stream.                                *)
(***************************************************************************)
EXTENDS Integers, FiniteSets

CONSTANTS
    Modulus,        \* of the sequence numbers, 65536 in the code
    Reach,          \* how many packets a late one may be behind the latest
    Gap,            \* how far the latest may jump, by packets lost
    MaxPackets,     \* bound: packets of a stream
    MaxStreams      \* bound: streams of a call

ASSUME RTPReceiveAssumption ==
    /\ Modulus \in Nat \ {0} /\ Reach \in Nat /\ Gap \in Nat \ {0}
    /\ MaxPackets \in Nat /\ MaxStreams \in Nat \ {0}

VARIABLES
    stream,         \* the SSRC of the packets PBXware sends
    offset,         \* the sequence number of the stream's packet 0
    latest,         \* the latest packet that arrived, -1 if none has
    rtcpState,      \* s.rtcpState
    first,          \* history: the stream's first packet to arrive
    lateWraps,      \* history: packets of the stream from before a wrap that came after it
    lastPeerSR      \* haveLastPeerSR

receiveVars == <<stream, offset, latest, rtcpState, first, lateWraps, lastPeerSR>>
-----------------------------------------------------------------------------
Half == Modulus \div 2

\* External: between a packet that is late and one after a gap lie fewer than half
\* the numbers, which is what a receiver can tell apart at all.
ASSUME NetworkAssumption == Reach + Gap + Half < Modulus

NoState == [peerSSRC |-> 0, base |-> 0, highest |-> 0, cycles |-> 0, received |-> 0]

NewStream(i) ==
    /\ stream = i /\ offset \in 0..Modulus - 1 /\ latest = -1
    /\ first = -1 /\ lateWraps = 0

ReceiveInit == NewStream(1) /\ rtcpState = NoState /\ lastPeerSR = FALSE

Seq16(n) == (offset + n) % Modulus

\* Mutant: the receiver goes on with the statistics of the stream before.
Fresh_Kept(st, ssrc) == [st EXCEPT !.peerSSRC = ssrc]

\* A new source starts the statistics afresh.
Fresh(st, ssrc) == IF st.peerSSRC = ssrc THEN st ELSE [NoState EXCEPT !.peerSSRC = ssrc]

\* Mutant: any smaller number is a wrap.
Wrapped_Always(seq, prev16) == seq < prev16

Wrapped(seq, prev16) == seq < prev16 /\ prev16 - seq > Half

\* Mutant: a late packet takes highestSeq back.
Highest_Last(highest, ext) == ext

Highest(highest, ext) == IF ext > highest THEN ext ELSE highest

\* onRTPReceived.
Received(old, seq, ssrc) ==
    LET st == Fresh(old, ssrc)
        cycles == IF Wrapped(seq, st.highest % Modulus) THEN st.cycles + 1 ELSE st.cycles
    IN  IF st.received = 0
        THEN [st EXCEPT !.base = seq, !.highest = seq, !.received = 1]
        ELSE [st EXCEPT !.cycles = cycles, !.received = @ + 1,
                        !.highest = Highest(@, cycles * Modulus + seq)]

\* A packet arrives: the next ones after some that were lost, or a late one again.
Receive ==
    \E n \in (latest - Reach)..(latest + Gap) :
        /\ n >= 0 /\ n < MaxPackets
        /\ rtcpState' = Received(rtcpState, Seq16(n), stream)
        /\ first' = IF first = -1 THEN n ELSE first
        /\ lateWraps' = IF n < latest /\ Seq16(n) > Seq16(latest) THEN lateWraps + 1 ELSE lateWraps
        /\ latest' = IF n > latest THEN n ELSE latest
        /\ rtcpState'.received <= MaxPackets + 1
        /\ UNCHANGED <<stream, offset, lastPeerSR>>

\* PBXware re-bridges the media, external.
Rebridge ==
    /\ stream < MaxStreams /\ latest >= 0
    /\ stream' = stream + 1 /\ offset' \in 0..Modulus - 1 /\ latest' = -1
    /\ first' = -1 /\ lateWraps' = 0
    /\ UNCHANGED <<rtcpState, lastPeerSR>>

\* rtcpRecvLoop; the report's time outlives a change of stream.
SenderReport ==
    /\ lastPeerSR' = TRUE
    /\ UNCHANGED <<stream, offset, latest, rtcpState, first, lateWraps>>

ReceiveNext == Receive \/ Rebridge \/ SenderReport
-----------------------------------------------------------------------------
\* MediaStats().Expected, and sendRTCPReport's.
Expected == IF rtcpState.received = 0 THEN 0 ELSE rtcpState.highest - rtcpState.base + 1

\* Mutant: packets beyond those expected are subtracted too.
Lost_Signed == Expected - rtcpState.received

\* sendRTCPReport.
Lost == IF Expected >= rtcpState.received THEN Expected - rtcpState.received ELSE 0

FractionLost == IF Expected > 0 THEN (Lost * 256) \div Expected ELSE 0

ReceiveTypeOK ==
    /\ rtcpState.base \in 0..Modulus - 1 /\ rtcpState.received \in Nat
    /\ rtcpState.highest >= rtcpState.base /\ rtcpState.cycles \in 0..rtcpState.received

\* Through losses, late packets and wraps, a stream's expected packets are those sent
\* since its first to arrive, and never fewer; each packet from before a wrap that
\* comes after it is taken for one of the next turn (rtp.go:340-348) and may add one
\* turn of the sequence numbers.
ExpectedIsSent ==
    latest >= 0 =>
        \E turns \in 0..lateWraps :
            \E behind \in 0..(IF turns = 0 THEN 0 ELSE Reach) :
                Expected = latest - behind - first + 1 + Modulus * turns

\* What goes into an RTCP report fits its 8 bits, repeated packets or not.
FractionFits == Lost >= 0 /\ FractionLost \in 0..255

\* What RTCP and a test's result say of a stream's loss follows from its packets
\* (rtp.go:320-360).
ReceiveInv == ReceiveTypeOK /\ ExpectedIsSent /\ FractionFits
=============================================================================

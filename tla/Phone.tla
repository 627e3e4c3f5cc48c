------------------------------- MODULE Phone -------------------------------
(***************************************************************************)
(* The two phones of a call, PBXware between them (internal/sipua).  A     *)
(* call has two legs: the caller's phone dials and hangs up, the callee's  *)
(* answers every INVITE and never hangs up itself.  Each phone finds a     *)
(* leg's media by Call-ID when PBXware's BYE arrives, in a goroutine of    *)
(* its own; one pacer sends everybody's packets.                           *)
(***************************************************************************)
EXTENDS Naturals, Sequences

CONSTANTS
    Call,
    Offers,         \* what PBXware may offer or answer: sequences of [codec, pt]
    Codec,          \* the codecs rtpmapNameToCodec knows
    DefaultCodec,
    DefaultPT       \* codec -> its payload type number here

ASSUME PhoneAssumption ==
    /\ DefaultCodec \in Codec /\ DefaultPT \in [Codec -> 0..127]

ASSUME OffersAssumption == Offers \subseteq Seq([codec : STRING, pt : 0..127])

Leg == Call \X {"caller", "callee"}
Caller(c) == <<c, "caller">>
Callee(c) == <<c, "callee">>
Other(l) == IF l[2] = "caller" THEN Callee(l[1]) ELSE Caller(l[1])

VARIABLES
    pc,         \* where the goroutine of each leg is: Dial and runCall, or AutoAnswer's
    wants,      \* the codec of each call
    rtp,        \* each leg's RTPSession
    codec, pt,  \* what it sends
    declared,   \* the other side's SDP
    calls,      \* legs in their phone's table of calls
    ended,      \* legs whose entry.ended is closed
    bye,        \* the OnBye handler
    slot,       \* legs in the pacer
    loop,       \* legs whose rtcpLoop runs
    pbx,        \* each leg's dialog on PBXware
    missed      \* history: legs whose BYE came before their entry was stored

media == <<rtp, codec, pt, declared>>
phoneVars == <<pc, wants, media, calls, ended, bye, slot, loop, pbx, missed>>
-----------------------------------------------------------------------------
PhoneInit ==
    /\ pc = [l \in Leg |-> "idle"]
    /\ wants \in [Call -> Codec]
    /\ rtp = [l \in Leg |-> "none"]
    /\ codec = [l \in Leg |-> DefaultCodec] /\ pt = [l \in Leg |-> DefaultPT[DefaultCodec]]
    /\ declared = [l \in Leg |-> << >>]
    /\ calls = {} /\ ended = {} /\ bye = [l \in Leg |-> "none"]
    /\ slot = {} /\ loop = {}
    /\ pbx = [l \in Leg |-> "none"]
    /\ missed = {}

Moves(l, from, to) == pc[l] = from /\ pc' = [pc EXCEPT ![l] = to]

Pbx(l, from, to) == pbx[l] = from /\ pbx' = [pbx EXCEPT ![l] = to]

\* RTPSession.Stop, which releases the sockets.
StopRTP(l) == rtp' = [rtp EXCEPT ![l] = "closed"] /\ UNCHANGED <<codec, pt, declared>>

\* Mutant: Start finds the session stopped and starts no rtcpLoop.
StartRTP_NoLoop(l) ==
    /\ rtp' = [rtp EXCEPT ![l] = IF @ = "closed" THEN @ ELSE "running"]
    /\ slot' = slot \cup {l}
    /\ loop' = IF rtp[l] = "closed" THEN loop ELSE loop \cup {l}

\* RTPSession.Start: the pacer sends, the loops run; a stopped session stays stopped.
StartRTP(l) ==
    /\ rtp' = [rtp EXCEPT ![l] = IF @ = "closed" THEN @ ELSE "running"]
    /\ slot' = slot \cup {l} /\ loop' = loop \cup {l}

\* rtcpLoop returns, and takes the session from the pacer.
LoopEnds(l) ==
    /\ l \in loop /\ rtp[l] = "closed"
    /\ loop' = loop \ {l} /\ slot' = slot \ {l}
    /\ UNCHANGED <<pc, wants, media, calls, ended, bye, pbx, missed>>
-----------------------------------------------------------------------------
(* Dial, and the end of runCall.                                           *)

Dial(c) ==
    LET l == Caller(c)
    IN  /\ Moves(l, "idle", "inviting")
        /\ rtp' = [rtp EXCEPT ![l] = "open"]
        /\ codec' = [codec EXCEPT ![l] = wants[c]] /\ pt' = [pt EXCEPT ![l] = DefaultPT[wants[c]]]
        /\ pbx' = [pbx EXCEPT ![l] = "early"]
        /\ UNCHANGED <<wants, declared, calls, ended, bye, slot, loop, missed>>

\* Rejected, or not answered in time: sipgo cancels the INVITE.
NotAnswered(c) ==
    /\ Moves(Caller(c), "inviting", "failed") /\ StopRTP(Caller(c))
    /\ pbx' = [pbx EXCEPT ![Caller(c)] = "gone"]
    /\ UNCHANGED <<wants, calls, ended, bye, slot, loop, missed>>

\* PBXware passes the callee's answer on, external.
Answered(c) ==
    /\ pbx[Callee(c)] = "up" /\ Pbx(Caller(c), "early", "up")
    /\ Moves(Caller(c), "inviting", "answered")
    /\ \E o \in Offers : declared' = [declared EXCEPT ![Caller(c)] = o]
    /\ UNCHANGED <<wants, rtp, codec, pt, calls, ended, bye, slot, loop, missed>>

\* Where an SDP names a codec that is known here.
Known(o) == {i \in DOMAIN o : o[i].codec \in Codec}

First(S) == CHOOSE i \in S : \A j \in S : i <= j

NotOffered == [codec |-> "none", pt |-> 0]

\* parseSDPCodec: the preferred codec, else the first that is known.
Chosen(o, prefer) ==
    LET preferred == {i \in Known(o) : o[i].codec = prefer}
    IN  IF Known(o) = {} THEN NotOffered
        ELSE o[First(IF preferred # {} THEN preferred ELSE Known(o))]

\* Mutant: the sockets stay open when the ACK cannot be sent.
DialError_Leaks(l) == UNCHANGED media

DialError(l) == StopRTP(l)

\* ACK, or an SDP without an address: the dialog is left as it is.
DialFails(c) ==
    /\ Moves(Caller(c), "answered", "failed") /\ DialError(Caller(c))
    /\ UNCHANGED <<wants, calls, ended, bye, slot, loop, pbx, missed>>

\* After the ACK; the number the answer declares for the call's codec is sent.
StartMedia(c) ==
    LET l == Caller(c)
        o == Chosen(declared[l], codec[l])
    IN  /\ Moves(l, "answered", "started") /\ StartRTP(l)
        /\ pt' = [pt EXCEPT ![l] = IF o.codec = codec[l] THEN o.pt ELSE @]
        /\ UNCHANGED <<wants, codec, declared, calls, ended, bye, pbx, missed>>

StoreCall(c) ==
    /\ Moves(Caller(c), "started", "up")
    /\ calls' = calls \cup {Caller(c)}
    /\ UNCHANGED <<wants, media, ended, bye, slot, loop, pbx, missed>>

\* runCall: RemoteHangup, after which nothing is left to hang up.
Dropped(c) ==
    /\ Caller(c) \in ended /\ Moves(Caller(c), "up", "over")
    /\ UNCHANGED <<wants, media, calls, ended, bye, slot, loop, pbx, missed>>

\* Mutant: the call leaves the table, but its media goes on.
HangUp_MediaGoesOn(c) ==
    /\ Moves(Caller(c), "up", "stopped") /\ calls' = calls \ {Caller(c)}
    /\ UNCHANGED <<wants, media, ended, bye, slot, loop, pbx, missed>>

\* Hangup: RTP.Stop, then calls.Delete, then BYE.
HangUp(c) ==
    /\ Moves(Caller(c), "up", "stopped") /\ StopRTP(Caller(c))
    /\ UNCHANGED <<wants, calls, ended, bye, slot, loop, pbx, missed>>

DeleteCall(c) ==
    /\ Moves(Caller(c), "stopped", "deleted")
    /\ calls' = calls \ {Caller(c)}
    /\ UNCHANGED <<wants, media, ended, bye, slot, loop, pbx, missed>>

\* Mutant: the media is stopped and no BYE sent.
SendBye_NotSent(c) ==
    /\ Moves(Caller(c), "deleted", "over")
    /\ UNCHANGED <<wants, media, calls, ended, bye, slot, loop, pbx, missed>>

\* session.Bye; an error, after ten seconds or at once, is only logged, whether or
\* not PBXware heard the BYE.
SendBye(c) ==
    /\ \/ /\ Moves(Caller(c), "deleted", "over")
          /\ pbx' = [pbx EXCEPT ![Caller(c)] = "gone"]
       \/ /\ Moves(Caller(c), "deleted", "unheard")
          /\ pbx' \in {pbx, [pbx EXCEPT ![Caller(c)] = "gone"]}
    /\ UNCHANGED <<wants, media, calls, ended, bye, slot, loop, missed>>
-----------------------------------------------------------------------------
(* AutoAnswer.                                                             *)

\* PBXware's INVITE, external.
Invite(c) ==
    /\ pbx[Caller(c)] = "early" /\ Pbx(Callee(c), "none", "early")
    /\ Moves(Callee(c), "idle", "invited")
    /\ \E o \in Offers : declared' = [declared EXCEPT ![Callee(c)] = o]
    /\ UNCHANGED <<wants, rtp, codec, pt, calls, ended, bye, slot, loop, missed>>

\* Returns without a final response: no address in the offer, or no socket.
IgnoreInvite(c) ==
    /\ Moves(Callee(c), "invited", "failed")
    /\ UNCHANGED <<wants, media, calls, ended, bye, slot, loop, pbx, missed>>

\* Mutant: the answer carries the number this codec has here.
AnswerPT_Own(o) == IF o.codec \in Codec THEN DefaultPT[o.codec] ELSE DefaultPT[DefaultCodec]

\* A codec nobody knows here is answered with the default.
AnswerPT(o) == IF o.codec \in Codec THEN o.pt ELSE DefaultPT[DefaultCodec]

\* Mutant: whatever was offered is answered.
AnswerCodec_Unchecked(o) == o.codec

AnswerCodec(o) == IF o.codec \in Codec THEN o.codec ELSE DefaultCodec

\* The codec, the session, and the answer's SDP.
PrepareAnswer(c) ==
    LET l == Callee(c)
        o == Chosen(declared[l], wants[c])
    IN  /\ Moves(l, "invited", "ready")
        /\ rtp' = [rtp EXCEPT ![l] = "open"]
        /\ codec' = [codec EXCEPT ![l] = AnswerCodec(o)]
        /\ pt' = [pt EXCEPT ![l] = AnswerPT(o)]
        /\ UNCHANGED <<wants, declared, calls, ended, bye, slot, loop, pbx, missed>>

\* RespondSDP fails, as it does once PBXware has cancelled.
AnswerFails(c) ==
    /\ Moves(Callee(c), "ready", "failed") /\ StopRTP(Callee(c))
    /\ UNCHANGED <<wants, calls, ended, bye, slot, loop, pbx, missed>>

Answer(c) ==
    /\ Moves(Callee(c), "ready", "answered") /\ Pbx(Callee(c), "early", "up")
    /\ UNCHANGED <<wants, media, calls, ended, bye, slot, loop, missed>>

StoreAnswered(c) ==
    /\ Moves(Callee(c), "answered", "stored")
    /\ calls' = calls \cup {Callee(c)}
    /\ UNCHANGED <<wants, media, ended, bye, slot, loop, pbx, missed>>

StartAnswered(c) ==
    /\ Moves(Callee(c), "stored", "up") /\ StartRTP(Callee(c))
    /\ UNCHANGED <<wants, codec, pt, declared, calls, ended, bye, pbx, missed>>
-----------------------------------------------------------------------------
(* BYE from PBXware.                                                       *)

\* PBXware cancels a leg, or ends it, external: the other one is gone, or on its own.
PbxCancels(l) ==
    /\ pbx[Other(l)] \in {"bye", "gone"} /\ l[2] = "callee" /\ Pbx(l, "early", "gone")
    /\ UNCHANGED <<pc, wants, media, calls, ended, bye, slot, loop, missed>>

PbxEnds(l) ==
    /\ Pbx(l, "up", "bye")
    /\ UNCHANGED <<pc, wants, media, calls, ended, bye, slot, loop, missed>>

\* OnBye: LoadAndDelete; a BYE that finds nothing is forgotten.
HearBye(l) ==
    /\ Pbx(l, "bye", "gone")
    /\ calls' = calls \ {l}
    /\ bye' = [bye EXCEPT ![l] = IF l \in calls THEN "found" ELSE "done"]
    /\ missed' = IF l \in calls \/ pc[l] \in {"deleted", "over", "unheard", "failed"} THEN missed ELSE missed \cup {l}
    /\ UNCHANGED <<pc, wants, media, ended, slot, loop>>

\* Mutant: the caller is told before its media is stopped.
ByeSteps_EndFirst == [found |-> "end", stop |-> "done", end |-> "stop"]

\* e.rtp.Stop(), then e.end().
ByeSteps == [found |-> "stop", stop |-> "end", end |-> "done"]

ByeStep(l) ==
    /\ bye[l] \in {"found", "stop", "end"}
    /\ bye' = [bye EXCEPT ![l] = ByeSteps[@]]
    /\ IF bye'[l] = "stop" THEN StopRTP(l) ELSE UNCHANGED media
    /\ ended' = IF bye'[l] = "end" THEN ended \cup {l} ELSE ended
    /\ UNCHANGED <<pc, wants, calls, slot, loop, pbx, missed>>

CallerStep(c) ==
    \/ StartMedia(c) \/ StoreCall(c) \/ Dropped(c) \/ DeleteCall(c) \/ SendBye(c)

CalleeStep(c) == PrepareAnswer(c) \/ AnswerFails(c) \/ Answer(c) \/ StoreAnswered(c) \/ StartAnswered(c)

LegStep(l) == HearBye(l) \/ ByeStep(l) \/ LoopEnds(l)

PhoneNext ==
    \/ \E c \in Call :
        \/ Dial(c) \/ NotAnswered(c) \/ Answered(c) \/ DialFails(c) \/ HangUp(c) \/ CallerStep(c)
        \/ Invite(c) \/ IgnoreInvite(c) \/ CalleeStep(c)
    \/ \E l \in Leg : PbxCancels(l) \/ PbxEnds(l) \/ LegStep(l)

\* Goroutines run on, calls are hung up in the end, and PBXware ends the leg whose
\* other leg has ended.
PhoneFairness ==
    /\ \A c \in Call : WF_phoneVars(CallerStep(c)) /\ WF_phoneVars(CalleeStep(c)) /\ WF_phoneVars(HangUp(c))
    /\ \A l \in Leg : WF_phoneVars(LegStep(l)) /\ WF_phoneVars(pbx[Other(l)] = "gone" /\ PbxEnds(l))
-----------------------------------------------------------------------------
PhoneTypeOK ==
    /\ rtp \in [Leg -> {"none", "open", "running", "closed"}]
    /\ codec \in [Leg -> Codec] /\ pt \in [Leg -> 0..127]
    /\ \A s \in {calls, ended, slot, loop, missed} : s \subseteq Leg
    /\ bye \in [Leg -> {"none", "found", "stop", "end", "done"}]
    /\ pbx \in [Leg -> {"none", "early", "up", "bye", "gone"}]
    /\ \A l \in Leg : rtp[l] = "none" => pc[l] \in {"idle", "invited", "failed"}

\* Media that flows can be stopped: its leg is in the table where a BYE finds it, or
\* about to be, or a BYE has it; except when a BYE came before it was there.
MediaCanBeStopped ==
    \A l \in Leg : rtp[l] = "running" =>
        \/ l \in calls \cup missed
        \/ l[2] = "caller" /\ pc[l] = "started"
        \/ bye[l] = "found"

\* "The RTP stream is already stopped then" (call.go:39-41): when the caller learns
\* that PBXware hung up, its sockets are closed.
EndedIsStopped == \A l \in ended : rtp[l] = "closed"

\* A call that could not be set up keeps no sockets.
FailedKeepsNothing == \A l \in Leg : pc[l] = "failed" => rtp[l] \in {"none", "closed"}

\* A phone sends the payload type number that the other side declared for the codec
\* it sends (sdp.go:22-26: with another number "PBXware drop[s] that side's audio").
NumberAsDeclared ==
    \A l \in Leg : rtp[l] = "running" /\ (\E i \in DOMAIN declared[l] : declared[l][i].codec = codec[l]) =>
        \E i \in DOMAIN declared[l] : declared[l][i] = [codec |-> codec[l], pt |-> pt[l]]

\* Media flows only on a call that can be ended, with the number that was agreed
\* (call.go:226-383).
PhoneInv == PhoneTypeOK /\ MediaCanBeStopped /\ EndedIsStopped /\ FailedKeepsNothing /\ NumberAsDeclared

\* What has been stopped leaves the pacer, even when it is started after that.
PacerLetsGo == \A l \in Leg : rtp[l] = "closed" ~> l \notin slot

\* When the caller hangs up, the callee's media ends too, unless its BYE was missed.
\* After a BYE that failed (call.go:36, orchestrator.go:229-235) this depends on
\* whether PBXware heard it: if not, the callee goes on until PBXware ends the call.
HangUpEndsBoth ==
    \A c \in Call :
        pc[Caller(c)] = "over" \/ (pc[Caller(c)] = "unheard" /\ pbx[Caller(c)] = "gone")
            ~> rtp[Callee(c)] # "running" \/ Callee(c) \in missed
=============================================================================

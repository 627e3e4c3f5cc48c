---------------------------- MODULE SipCallProofs ----------------------------
(***************************************************************************)
(* Theorems about SipCall: Phone for any number of calls, any codecs and   *)
(* anything PBXware may offer; LoadRun for any number of extensions.       *)
(***************************************************************************)
EXTENDS SipCall, FiniteSetTheorems, TLAPS


PhoneSpec == PhoneInit /\ [][PhoneNext]_phoneVars

CallerAt == {"idle", "inviting", "answered", "started", "up", "stopped", "deleted", "over", "unheard", "failed"}
CalleeAt == {"idle", "invited", "ready", "answered", "stored", "up", "failed"}

LegTypes ==
    /\ pc \in [Leg -> CallerAt \cup CalleeAt]
    /\ \A c \in Call : pc[Caller(c)] \in CallerAt /\ pc[Callee(c)] \in CalleeAt
    /\ rtp \in [Leg -> {"none", "open", "running", "closed"}]
    /\ calls \subseteq Leg /\ ended \subseteq Leg /\ missed \subseteq Leg
    /\ slot \subseteq Leg /\ loop \subseteq Leg
    /\ bye \in [Leg -> {"none", "found", "stop", "end", "done"}]
    /\ pbx \in [Leg -> {"none", "early", "up", "bye", "gone"}]

\* A leg has a dialog only while it is under way, and hears one BYE at most.
DialogInv ==
    \A l \in Leg :
        /\ pc[l] = "idle" => pbx[l] = "none" /\ rtp[l] = "none"
        /\ pc[l] = "invited" => rtp[l] = "none"
        /\ pc[l] \in {"idle", "inviting", "invited", "ready"} => pbx[l] \notin {"up", "bye"}
        /\ bye[l] # "none" => pbx[l] = "gone" /\ pc[l] \notin {"idle", "inviting", "invited", "ready"}

\* From where a leg is in the table on, a BYE has stopped its media or can.
MediaInv ==
    \A l \in Leg :
        /\ pc[l] \in {"stored", "up"} =>
             l \in calls \cup missed \/ bye[l] = "found" \/ rtp[l] = "closed"
        /\ rtp[l] = "running" => pc[l] \in {"started", "up"}
        /\ pc[l] \in {"stopped", "deleted", "over", "unheard"} => rtp[l] = "closed"
        /\ pc[l] = "failed" => rtp[l] \in {"none", "closed"}
        /\ bye[l] \in {"stop", "end"} \/ l \in ended => rtp[l] = "closed" /\ bye[l] # "none"
        /\ l \in calls => pc[l] \in {"stored", "up", "stopped"}
        /\ bye[l] \in {"found", "stop", "end"} \/ l \in ended =>
             l \notin calls /\ pc[l] \in {"stored", "up", "stopped", "deleted", "over", "unheard"}
        /\ rtp[l] = "none" => pc[l] \in {"idle", "invited", "failed"}

PhoneIInv == LegTypes /\ DialogInv /\ MediaInv

LEMMA Legs ==
    /\ \A c \in Call : Caller(c) \in Leg /\ Callee(c) \in Leg
    /\ \A c, d \in Call : Caller(c) # Callee(d) /\ (c # d => Caller(c) # Caller(d) /\ Callee(c) # Callee(d))
    /\ \A l \in Leg : \E c \in Call : l = Caller(c) \/ l = Callee(c)
BY DEF Leg, Caller, Callee

LEMMA InitPhoneIInv == PhoneInit => PhoneIInv
<1> USE Legs DEF CallerAt, CalleeAt
<1> QED BY DEF PhoneInit, PhoneIInv, LegTypes, DialogInv, MediaInv

LEMMA NextPhoneIInv == PhoneIInv /\ [PhoneNext]_phoneVars => PhoneIInv'
<1> SUFFICES ASSUME PhoneIInv, [PhoneNext]_phoneVars
             PROVE  PhoneIInv'
  OBVIOUS
<1> USE Legs DEF CallerAt, CalleeAt, PhoneIInv, LegTypes, DialogInv, MediaInv, Moves, Pbx, StopRTP, StartRTP, media
<1>1. ASSUME NEW c \in Call, Dial(c)
      PROVE  PhoneIInv'
  BY <1>1 DEF Dial
<1>2. ASSUME NEW c \in Call, NotAnswered(c) \/ Answered(c)
      PROVE  PhoneIInv'
  <2>1. CASE NotAnswered(c) BY <2>1 DEF NotAnswered
  <2>2. CASE Answered(c) BY <2>2 DEF Answered
  <2> QED BY <1>2, <2>1, <2>2
<1>3. ASSUME NEW c \in Call, DialFails(c) \/ StartMedia(c)
      PROVE  PhoneIInv'
  BY <1>3 DEF DialFails, DialError, StartMedia
<1>4. ASSUME NEW c \in Call, StoreCall(c)
      PROVE  PhoneIInv'
  BY <1>4 DEF StoreCall
<1>5. ASSUME NEW c \in Call, Dropped(c) \/ HangUp(c)
      PROVE  PhoneIInv'
  BY <1>5 DEF Dropped, HangUp
<1>6. ASSUME NEW c \in Call, DeleteCall(c) \/ SendBye(c)
      PROVE  PhoneIInv'
  BY <1>6 DEF DeleteCall, SendBye
<1>7. ASSUME NEW c \in Call, Invite(c) \/ IgnoreInvite(c)
      PROVE  PhoneIInv'
  <2>1. CASE Invite(c) BY <2>1 DEF Invite
  <2>2. CASE IgnoreInvite(c) BY <2>2 DEF IgnoreInvite
  <2> QED BY <1>7, <2>1, <2>2
<1>8. ASSUME NEW c \in Call, PrepareAnswer(c) \/ AnswerFails(c)
      PROVE  PhoneIInv'
  <2>1. CASE PrepareAnswer(c) BY <2>1 DEF PrepareAnswer
  <2>2. CASE AnswerFails(c) BY <2>2 DEF AnswerFails
  <2> QED BY <1>8, <2>1, <2>2
<1>9. ASSUME NEW c \in Call, Answer(c) \/ StoreAnswered(c)
      PROVE  PhoneIInv'
  BY <1>9 DEF Answer, StoreAnswered
<1>10. ASSUME NEW c \in Call, StartAnswered(c)
       PROVE  PhoneIInv'
  BY <1>10 DEF StartAnswered
<1>11. ASSUME NEW l \in Leg, PbxCancels(l) \/ PbxEnds(l)
       PROVE  PhoneIInv'
  BY <1>11 DEF PbxCancels, PbxEnds
<1>12. ASSUME NEW l \in Leg, HearBye(l)
       PROVE  PhoneIInv'
  <2>1. CASE l \in calls BY <1>12, <2>1 DEF HearBye
  <2>2. CASE l \notin calls BY <1>12, <2>2 DEF HearBye
  <2> QED BY <2>1, <2>2
<1>13. ASSUME NEW l \in Leg, ByeStep(l)
       PROVE  PhoneIInv'
  BY <1>13 DEF ByeStep, ByeSteps
<1>14. ASSUME NEW l \in Leg, LoopEnds(l)
       PROVE  PhoneIInv'
  BY <1>14 DEF LoopEnds
<1>15. CASE UNCHANGED phoneVars
  BY <1>15 DEF phoneVars
<1> QED
  BY <1>1, <1>2, <1>3, <1>4, <1>5, <1>6, <1>7, <1>8, <1>9, <1>10, <1>11, <1>12, <1>13, <1>14, <1>15
  DEF PhoneNext, CallerStep, CalleeStep, LegStep
-----------------------------------------------------------------------------
(***************************************************************************)
(* The codec and its number.                                               *)
(***************************************************************************)

LEMMA FirstIsFirst ==
    ASSUME NEW S \in SUBSET Nat, S # {}
    PROVE  First(S) \in S
<1>1. IsWellFoundedOn(OpToRel(<, Nat), Nat)
  BY NatLessThanWellFounded
<1>2. PICK i \in S : \A j \in S : ~ (<<j, i>> \in OpToRel(<, Nat))
  BY <1>1, WFMin
<1>3. ASSUME NEW j \in S
      PROVE  i <= j
  <2>1. <<j, i>> \in Nat \X Nat /\ <<j, i>>[1] = j /\ <<j, i>>[2] = i
    OBVIOUS
  <2>2. ~(j < i)
    BY <1>2, <2>1 DEF OpToRel
  <2> QED BY <2>2
<1> QED BY <1>3 DEF First

\* parseSDPCodec returns an entry of the SDP, of the codec asked for if there is
\* one, or finds none that is known.
LEMMA ChosenIsOffered ==
    ASSUME NEW o \in Seq([codec : STRING, pt : 0..127]), NEW prefer \in Codec
    PROVE  \/ Known(o) = {} /\ Chosen(o, prefer) = NotOffered
           \/ \E i \in DOMAIN o :
                /\ Chosen(o, prefer) = o[i] /\ o[i].codec \in Codec
                /\ (\E j \in DOMAIN o : o[j].codec = prefer) => o[i].codec = prefer
<1> DEFINE preferred == {i \in Known(o) : o[i].codec = prefer}
           from == IF preferred # {} THEN preferred ELSE Known(o)
<1>1. from \subseteq DOMAIN o /\ DOMAIN o \subseteq Nat
  BY DEF Known
<1>2. CASE Known(o) = {}
  BY <1>2 DEF Chosen
<1>3. CASE Known(o) # {}
  <2>1. from # {}
    BY <1>3
  <2>2. First(from) \in from
    BY <1>1, <2>1, FirstIsFirst
  <2>3. Chosen(o, prefer) = o[First(from)]
    BY <1>3 DEF Chosen
  <2>4. o[First(from)].codec \in Codec /\ First(from) \in DOMAIN o
    BY <2>2 DEF Known
  <2>5. (\E j \in DOMAIN o : o[j].codec = prefer) => o[First(from)].codec = prefer
    BY <2>2 DEF Known
  <2> QED BY <2>3, <2>4, <2>5
<1> QED BY <1>2, <1>3

LEMMA ElementOfSeq == ASSUME NEW R, NEW s \in Seq(R), NEW i \in DOMAIN s PROVE s[i] \in R
OBVIOUS

\* What is chosen is a codec known here with its declared number, if there is one.
LEMMA ChosenNumber ==
    ASSUME NEW o \in Seq([codec : STRING, pt : 0..127]), NEW prefer \in Codec
    PROVE  \/ Chosen(o, prefer) = NotOffered /\ \A i \in DOMAIN o : o[i].codec \notin Codec
           \/ /\ Chosen(o, prefer).pt \in 0..127 /\ Chosen(o, prefer).codec \in Codec
              /\ \E i \in DOMAIN o :
                    o[i] = [codec |-> Chosen(o, prefer).codec, pt |-> Chosen(o, prefer).pt]
              /\ (\E j \in DOMAIN o : o[j].codec = prefer) => Chosen(o, prefer).codec = prefer
<1>1. CASE Known(o) = {} /\ Chosen(o, prefer) = NotOffered
  BY <1>1 DEF Known
<1>2. ASSUME NEW i \in DOMAIN o,
             Chosen(o, prefer) = o[i], o[i].codec \in Codec,
             (\E j \in DOMAIN o : o[j].codec = prefer) => o[i].codec = prefer
      PROVE  /\ Chosen(o, prefer).pt \in 0..127 /\ Chosen(o, prefer).codec \in Codec
             /\ o[i] = [codec |-> Chosen(o, prefer).codec, pt |-> Chosen(o, prefer).pt]
             /\ (\E j \in DOMAIN o : o[j].codec = prefer) => Chosen(o, prefer).codec = prefer
  <2>1. o[i] \in [codec : STRING, pt : 0..127]
    BY ElementOfSeq
  <2>2. o[i].pt \in 0..127 /\ o[i] = [codec |-> o[i].codec, pt |-> o[i].pt]
    BY <2>1
  <2> QED BY <1>2, <2>2
<1> QED BY ChosenIsOffered, <1>1, <1>2

\* The number is the one declared for the codec, if the other side declared it.
Agreed(l) ==
    (\E i \in DOMAIN declared[l] : declared[l][i].codec = codec[l]) =>
        \E i \in DOMAIN declared[l] : declared[l][i] = [codec |-> codec[l], pt |-> pt[l]]

NumberInv ==
    /\ wants \in [Call -> Codec] /\ codec \in [Leg -> Codec] /\ pt \in [Leg -> 0..127]
    /\ DOMAIN declared = Leg
    /\ \A l \in Leg : declared[l] \in Seq([codec : STRING, pt : 0..127])
    /\ \A l \in Leg : rtp[l] = "running" \/ pc[l] \in {"ready", "stored"} => Agreed(l)
    /\ \A c \in Call : pc[Callee(c)] = "answered" => Agreed(Callee(c))

\* One leg's number changes with its media; the others keep theirs.
LEMMA OthersAgree ==
    ASSUME NumberInv, NEW l \in Leg, declared' = declared,
           \A k \in Leg \ {l} : codec'[k] = codec[k] /\ pt'[k] = pt[k] /\ rtp'[k] = rtp[k] /\ pc'[k] = pc[k],
           wants' = wants, codec' \in [Leg -> Codec], pt' \in [Leg -> 0..127], Agreed(l)'
    PROVE  NumberInv'
<1>1. \A k \in Leg \ {l} : Agreed(k)' <=> Agreed(k)
  BY DEF Agreed
<1> QED BY <1>1, Legs DEF NumberInv

LEMMA StartMediaNumber ==
    ASSUME NumberInv, NEW c \in Call, StartMedia(c), LegTypes
    PROVE  NumberInv'
<1> DEFINE l == Caller(c)
           d == declared[l]
           o == Chosen(d, codec[l])
<1>1. l \in Leg /\ d \in Seq([codec : STRING, pt : 0..127]) /\ codec[l] \in Codec /\ pt[l] \in 0..127
  BY Legs DEF NumberInv
<1>2. /\ pt' = [pt EXCEPT ![l] = IF o.codec = codec[l] THEN o.pt ELSE @]
      /\ UNCHANGED <<wants, codec, declared>>
      /\ \A k \in Leg \ {l} : rtp'[k] = rtp[k] /\ pc'[k] = pc[k]
  BY DEF StartMedia, StartRTP, Moves, LegTypes
<1>3. \/ o = NotOffered /\ \A i \in DOMAIN d : d[i].codec \notin Codec
      \/ /\ o.pt \in 0..127
         /\ \E i \in DOMAIN d : d[i] = [codec |-> o.codec, pt |-> o.pt]
         /\ (\E j \in DOMAIN d : d[j].codec = codec[l]) => o.codec = codec[l]
  BY <1>1, ChosenNumber
<1>4. NotOffered.pt \in 0..127
  BY DEF NotOffered
<1> HIDE DEF o
<1>5. o.pt \in 0..127
  BY <1>3, <1>4
<1>6. pt \in [Leg -> 0..127] /\ codec' \in [Leg -> Codec]
  BY <1>2 DEF NumberInv
<1> HIDE DEF l
<1>7. /\ pt' \in [Leg -> 0..127] /\ pt'[l] = IF o.codec = codec[l] THEN o.pt ELSE pt[l]
      /\ \A k \in Leg \ {l} : pt'[k] = pt[k]
  BY <1>1, <1>2, <1>5, <1>6
<1>8. (\E i \in DOMAIN d : d[i].codec = codec[l]) =>
        \E i \in DOMAIN d : d[i] = [codec |-> codec[l], pt |-> pt'[l]]
  BY <1>1, <1>3, <1>7
<1>9. Agreed(l)'
  BY <1>2, <1>8 DEF Agreed
<1> QED BY <1>1, <1>2, <1>6, <1>7, <1>9, OthersAgree

LEMMA PrepareAnswerNumber ==
    ASSUME NumberInv, NEW c \in Call, PrepareAnswer(c), LegTypes
    PROVE  NumberInv'
<1> DEFINE l == Callee(c)
           d == declared[l]
           o == Chosen(d, wants[c])
<1>1. l \in Leg /\ d \in Seq([codec : STRING, pt : 0..127]) /\ wants[c] \in Codec
  BY Legs DEF NumberInv
<1>2. /\ codec' = [codec EXCEPT ![l] = AnswerCodec(o)] /\ pt' = [pt EXCEPT ![l] = AnswerPT(o)]
      /\ UNCHANGED <<wants, declared>>
      /\ \A k \in Leg \ {l} : rtp'[k] = rtp[k] /\ pc'[k] = pc[k]
  BY DEF PrepareAnswer, Moves, LegTypes
<1>3. \/ o = NotOffered /\ \A i \in DOMAIN d : d[i].codec \notin Codec
      \/ /\ o.pt \in 0..127 /\ o.codec \in Codec
         /\ \E i \in DOMAIN d : d[i] = [codec |-> o.codec, pt |-> o.pt]
  BY <1>1, ChosenNumber
<1> HIDE DEF o
<1>4. AnswerCodec(o) \in Codec /\ (o.codec \in Codec => AnswerCodec(o) = o.codec /\ AnswerPT(o) = o.pt)
  BY PhoneAssumption DEF AnswerCodec, AnswerPT
<1>5. DefaultPT[DefaultCodec] \in 0..127
  BY PhoneAssumption
<1>6. AnswerPT(o) \in 0..127
  <2>1. CASE o = NotOffered /\ o.codec \in Codec
    BY <2>1 DEF NotOffered, AnswerPT
  <2>2. CASE o.codec \notin Codec
    BY <1>5, <2>2 DEF AnswerPT
  <2>3. CASE o.codec \in Codec /\ o.pt \in 0..127
    BY <2>3 DEF AnswerPT
  <2> QED BY <1>3, <2>1, <2>2, <2>3
<1>7. codec \in [Leg -> Codec] /\ pt \in [Leg -> 0..127]
  BY DEF NumberInv
<1> HIDE DEF l
<1>8. /\ pt' \in [Leg -> 0..127] /\ codec' \in [Leg -> Codec]
      /\ pt'[l] = AnswerPT(o) /\ codec'[l] = AnswerCodec(o)
      /\ \A k \in Leg \ {l} : pt'[k] = pt[k] /\ codec'[k] = codec[k]
  BY <1>1, <1>2, <1>4, <1>6, <1>7
<1>9. (\E i \in DOMAIN d : d[i].codec = codec'[l]) =>
        \E i \in DOMAIN d : d[i] = [codec |-> codec'[l], pt |-> pt'[l]]
  BY <1>3, <1>4, <1>8
<1>10. Agreed(l)'
  BY <1>2, <1>9 DEF Agreed
<1> QED BY <1>1, <1>2, <1>8, <1>10, OthersAgree

\* The other side's SDP arrives before a number is sent.
LEMMA DeclaredBefore ==
    ASSUME NumberInv, NEW l \in Leg, NEW o \in Offers, declared' = [declared EXCEPT ![l] = o],
           UNCHANGED <<wants, rtp, codec, pt>>, pc'[l] \notin {"ready", "stored"},
           rtp[l] # "running", \A c \in Call : l = Callee(c) => pc'[l] # "answered",
           \A k \in Leg \ {l} : pc'[k] = pc[k]
    PROVE  NumberInv'
<1>1. \A k \in Leg \ {l} : Agreed(k)' <=> Agreed(k)
  BY DEF Agreed, NumberInv
<1> QED BY <1>1, Legs, OffersAssumption DEF NumberInv

LEMMA AnsweredNumber ==
    ASSUME NumberInv, LegTypes, MediaInv, NEW c \in Call, Answered(c)
    PROVE  NumberInv'
<1> DEFINE l == Caller(c)
<1>1. l \in Leg /\ \A d \in Call : l # Callee(d)
  BY Legs
<1>2. PICK o \in Offers : declared' = [declared EXCEPT ![l] = o]
  BY DEF Answered
<1>3. UNCHANGED <<wants, rtp, codec, pt>> /\ pc' = [pc EXCEPT ![l] = "answered"] /\ pc[l] = "inviting"
  BY DEF Answered, Moves
<1>4. pc'[l] = "answered" /\ \A k \in Leg \ {l} : pc'[k] = pc[k]
  BY <1>1, <1>3 DEF LegTypes
<1>5. rtp[l] # "running"
  BY <1>1, <1>3 DEF MediaInv
<1> HIDE DEF l
<1> QED BY <1>1, <1>2, <1>3, <1>4, <1>5, DeclaredBefore

LEMMA NextNumberInv == PhoneIInv /\ NumberInv /\ [PhoneNext]_phoneVars => NumberInv'
<1> SUFFICES ASSUME PhoneIInv, NumberInv, [PhoneNext]_phoneVars
             PROVE  NumberInv'
  OBVIOUS
<1> USE Legs, PhoneAssumption, OffersAssumption DEF Moves, Pbx, media
<1> USE DEF CallerAt, CalleeAt, PhoneIInv, LegTypes, MediaInv, DialogInv
<1>1. ASSUME NEW c \in Call, Dial(c)
      PROVE  NumberInv'
  <2>1. \A l \in Leg \ {Caller(c)} : Agreed(l)' <=> Agreed(l)
    BY <1>1 DEF Dial, Agreed, NumberInv
  <2>2. wants[c] \in Codec /\ DefaultPT[wants[c]] \in 0..127
    BY DEF NumberInv
  <2> QED BY <1>1, <2>1, <2>2 DEF Dial, NumberInv
<1>2. ASSUME NEW c \in Call, Answered(c) \/ Invite(c)
      PROVE  NumberInv'
  <2>1. CASE Answered(c) BY <2>1, AnsweredNumber
  <2>2. CASE Invite(c)
    <3>1. PICK o \in Offers : declared' = [declared EXCEPT ![Callee(c)] = o]
      BY <2>2 DEF Invite
    <3>2. /\ UNCHANGED <<wants, rtp, codec, pt>> /\ rtp[Callee(c)] # "running"
          /\ pc' = [pc EXCEPT ![Callee(c)] = "invited"]
      BY <2>2 DEF Invite
    <3> QED BY DeclaredBefore, <3>1, <3>2
  <2> QED BY <1>2, <2>1, <2>2
<1>3. ASSUME NEW c \in Call, StartMedia(c)
      PROVE  NumberInv'
  BY <1>3, StartMediaNumber
<1>4. ASSUME NEW c \in Call, PrepareAnswer(c)
      PROVE  NumberInv'
  BY <1>4, PrepareAnswerNumber
<1>5. ASSUME UNCHANGED <<wants, codec, pt, declared>>,
             \A l \in Leg : rtp'[l] = "running" => rtp[l] = "running" \/ pc[l] = "stored",
             \A l \in Leg : pc'[l] \in {"ready", "stored"} =>
                              pc[l] = pc'[l] \/ \E c \in Call : l = Callee(c) /\ pc[l] = "answered",
             \A c \in Call : pc'[Callee(c)] = "answered" => pc[Callee(c)] \in {"ready", "answered"}
      PROVE  NumberInv'
  <2>1. \A l \in Leg : Agreed(l)' <=> Agreed(l)
    BY <1>5 DEF Agreed
  <2> QED BY <1>5, <2>1 DEF NumberInv
<1>6. ASSUME NEW c \in Call, NotAnswered(c) \/ DialFails(c) \/ HangUp(c)
      PROVE  NumberInv'
  BY <1>5, <1>6 DEF NotAnswered, DialFails, DialError, HangUp, StopRTP
<1>7. ASSUME NEW c \in Call, StoreCall(c) \/ Dropped(c) \/ DeleteCall(c) \/ SendBye(c)
      PROVE  NumberInv'
  BY <1>5, <1>7 DEF StoreCall, Dropped, DeleteCall, SendBye
<1>8. ASSUME NEW c \in Call, IgnoreInvite(c) \/ AnswerFails(c) \/ Answer(c)
      PROVE  NumberInv'
  BY <1>5, <1>8 DEF IgnoreInvite, AnswerFails, Answer, StopRTP
<1>9. ASSUME NEW c \in Call, StoreAnswered(c) \/ StartAnswered(c)
       PROVE  NumberInv'
  BY <1>5, <1>9 DEF StoreAnswered, StartAnswered, StartRTP
<1>10. ASSUME NEW l \in Leg, PbxCancels(l) \/ PbxEnds(l) \/ HearBye(l) \/ LoopEnds(l)
       PROVE  NumberInv'
  BY <1>5, <1>10 DEF PbxCancels, PbxEnds, HearBye, LoopEnds
<1>11. ASSUME NEW l \in Leg, ByeStep(l)
       PROVE  NumberInv'
  BY <1>5, <1>11 DEF ByeStep, StopRTP
<1>12. CASE UNCHANGED phoneVars
  BY <1>5, <1>12 DEF phoneVars
<1> QED
  BY <1>1, <1>2, <1>3, <1>4, <1>6, <1>7, <1>8, <1>9, <1>10, <1>11, <1>12
  DEF PhoneNext, CallerStep, CalleeStep, LegStep

\* Media flows only on a leg that can still be ended, with the number the other
\* side declared for its codec, whatever PBXware offers, answers, cancels or ends.
THEOREM MediaAsAgreed == PhoneSpec => []PhoneInv
<1>1. PhoneInit => NumberInv
  <2> SUFFICES ASSUME PhoneInit
               PROVE  NumberInv
    OBVIOUS
  <2>1. \A l \in Leg : declared[l] = << >> /\ rtp[l] = "none" /\ pc[l] = "idle"
    BY DEF PhoneInit
  <2>2. << >> \in Seq([codec : STRING, pt : 0..127])
    OBVIOUS
  <2>3. DefaultPT[DefaultCodec] \in 0..127
    BY PhoneAssumption
  <2> QED BY <2>1, <2>2, <2>3, Legs, PhoneAssumption DEF PhoneInit, NumberInv
<1>2. PhoneIInv /\ NumberInv => PhoneInv
  <2> SUFFICES ASSUME PhoneIInv, NumberInv
               PROVE  PhoneInv
    OBVIOUS
  <2>1. PhoneTypeOK
    BY DEF PhoneIInv, LegTypes, MediaInv, NumberInv, PhoneTypeOK
  <2>2. MediaCanBeStopped
    <3> SUFFICES ASSUME NEW l \in Leg, rtp[l] = "running"
                 PROVE  \/ l \in calls \cup missed
                        \/ l[2] = "caller" /\ pc[l] = "started"
                        \/ bye[l] = "found"
      BY DEF MediaCanBeStopped
    <3>1. pc[l] \in {"started", "up"}
      BY DEF PhoneIInv, MediaInv
    <3>2. pc[l] = "started" => l[2] = "caller"
      <4>1. PICK c \in Call : l = Caller(c) \/ l = Callee(c)
        BY Legs
      <4>2. pc[Callee(c)] # "started" /\ Caller(c)[2] = "caller"
        BY DEF PhoneIInv, LegTypes, CalleeAt, Caller
      <4> QED BY <4>1, <4>2
    <3> QED BY <3>1, <3>2 DEF PhoneIInv, MediaInv
  <2>3. EndedIsStopped /\ FailedKeepsNothing
    BY DEF PhoneIInv, LegTypes, MediaInv, EndedIsStopped, FailedKeepsNothing
  <2>4. NumberAsDeclared
    BY DEF NumberInv, Agreed, NumberAsDeclared
  <2> QED BY <2>1, <2>2, <2>3, <2>4 DEF PhoneInv
<1> QED BY <1>1, <1>2, InitPhoneIInv, NextPhoneIInv, NextNumberInv, PTL DEF PhoneSpec
-----------------------------------------------------------------------------
(***************************************************************************)
(* One-shot runs.                                                          *)
(***************************************************************************)

LoadTypeOK ==
    /\ registered \in [Extension -> {"waiting", "ok", "failed"}]
    /\ status \in [Pair -> {"none", "pending", "dialing", "answered", "failed", "ended"}]
    /\ goroutine \in [Pair -> {"none", "ramp", "dial", "hold", "hung up", "done"}]
    /\ result \in [Pair -> {"none", "answered", "error"}]
    /\ sending \subseteq Pair
    /\ returned \in {"no", "result", "error"}

\* Where each goroutine is says what it has stored, and which of them send.
GoroutineInv ==
    \A i \in Pair :
        /\ goroutine[i] = "done" =>
             status[i] = (IF result[i] = "answered" THEN "ended" ELSE "failed") /\ result[i] # "none"
        /\ i \in sending => goroutine[i] = "hold"

\* No goroutine exists before the pairs are made, none is left at a result.
ReturnInv ==
    /\ phase \in {"setting_up", "registering"} => \A i \in Pair : goroutine[i] = "none"
    /\ returned = "result" => phase = "done" /\ \A i \in Pair : goroutine[i] = "done"
    /\ returned = "error" => phase \in {"setting_up", "registering"}

LoadIInv == LoadTypeOK /\ GoroutineInv /\ ReturnInv

LEMMA InitLoadIInv == LoadInit => LoadIInv
BY LoadAssumption DEF LoadInit, LoadIInv, LoadTypeOK, GoroutineInv, ReturnInv

LEMMA NextLoadIInv == LoadIInv /\ [LoadNext]_loadVars => LoadIInv'
<1> SUFFICES ASSUME LoadIInv, [LoadNext]_loadVars
             PROVE  LoadIInv'
  OBVIOUS
<1> USE DEF LoadIInv, LoadTypeOK, GoroutineInv, ReturnInv
<1>1. CASE SetUp BY <1>1 DEF SetUp
<1>2. CASE AllRegistered BY <1>2 DEF AllRegistered
<1>3. CASE AllDone BY <1>3 DEF AllDone
<1>4. ASSUME NEW p \in Extension, RegisterOne(p)
      PROVE  LoadIInv'
  <2>1. registered' \in [Extension -> {"waiting", "ok", "failed"}]
    BY <1>4 DEF RegisterOne
  <2>2. UNCHANGED <<phase, status, goroutine, sending, result, returned>>
    BY <1>4 DEF RegisterOne
  <2> QED BY <2>1, <2>2
<1>5. ASSUME NEW i \in Pair,
             RampOver(i) \/ RampCancelled(i) \/ DialReturns(i) \/ HoldOver(i) \/ PairEnds(i)
      PROVE  LoadIInv'
  <2> USE DEF RunKept, Leaves
  <2>1. CASE RampOver(i) BY <2>1 DEF RampOver
  <2>2. CASE RampCancelled(i) BY <2>2 DEF RampCancelled, CancelledResult
  <2>3. CASE DialReturns(i)
    <3>1. CASE /\ sending' = sending \cup {i} /\ status' = [status EXCEPT ![i] = "answered"]
               /\ goroutine' = [goroutine EXCEPT ![i] = "hold"] /\ UNCHANGED result
      BY <2>3, <3>1 DEF DialReturns
    <3>2. CASE /\ status' = [status EXCEPT ![i] = "failed"] /\ result' = [result EXCEPT ![i] = "error"]
               /\ Leaves(i) /\ UNCHANGED sending
      <4>1. phase \notin {"setting_up", "registering"} /\ returned # "result" /\ i \notin sending
        BY <2>3 DEF DialReturns
      <4> QED BY <2>3, <3>2, <4>1 DEF DialReturns
    <3> QED BY <2>3, <3>1, <3>2 DEF DialReturns
  <2>4. CASE HoldOver(i) BY <2>4 DEF HoldOver, HangsUp
  <2>5. CASE PairEnds(i) BY <2>5 DEF PairEnds
  <2> QED BY <1>5, <2>1, <2>2, <2>3, <2>4, <2>5
<1>6. CASE CtxEnds BY <1>6 DEF CtxEnds
<1>7. ASSUME NEW i \in Pair, RemoteBye(i)
      PROVE  LoadIInv'
  BY <1>7 DEF RemoteBye, RunKept
<1>8. CASE UNCHANGED loadVars BY <1>8 DEF loadVars
<1> QED BY <1>1, <1>2, <1>3, <1>4, <1>5, <1>6, <1>7, <1>8 DEF LoadNext, RunStep

LEMMA LoadInvariant == LoadSpec => []LoadIInv
BY InitLoadIInv, NextLoadIInv, PTL DEF LoadSpec

\* Whatever number of extensions a run is given, no extension is in two of its
\* pairs or calls itself, and two are never both left out.
LEMMA PairsDisjoint == PairsAreDisjoint
<1> USE LoadAssumption DEF Extension, Pair, makePairs
<1>1. \A i, k \in Pair : \A x, y \in 1..2 :
         makePairs[i][x] = makePairs[k][y] => i = k /\ x = y
  <2> TAKE i, k \in Pair
  <2>1. makePairs[i] = <<2 * i - 1, 2 * i>> /\ makePairs[k] = <<2 * k - 1, 2 * k>>
    OBVIOUS
  <2> QED BY <2>1
<1>2. \A i \in Pair : makePairs[i][1] \in Extension /\ makePairs[i][2] \in Extension
  OBVIOUS
<1>3. \A p \in Extension : p <= 2 * (Endpoints \div 2) =>
         \E i \in Pair : p = makePairs[i][1] \/ p = makePairs[i][2]
  <2> TAKE p \in Extension
  <2> HAVE p <= 2 * (Endpoints \div 2)
  <2> DEFINE i == (p + 1) \div 2
  <2>1. i \in Pair /\ (p = 2 * i - 1 \/ p = 2 * i)
    OBVIOUS
  <2> QED BY <2>1
<1>4. \A p, q \in Extension : p # q => p <= 2 * (Endpoints \div 2) \/ q <= 2 * (Endpoints \div 2)
  OBVIOUS
<1>5. \A p, q \in Extension : p # q => \E i \in Pair :
         p \in {makePairs[i][1], makePairs[i][2]} \/ q \in {makePairs[i][1], makePairs[i][2]}
  <2> HIDE DEF Extension, Pair, makePairs
  <2> QED BY <1>3, <1>4
<1> HIDE DEF Extension, Pair, makePairs
<1> QED BY <1>1, <1>2, <1>5 DEF PairsAreDisjoint

\* A run that returns a result has one for every pair, as its last status shows,
\* and no call sends after it, whatever ended it.
THEOREM RunsEndClean == LoadSpec => []LoadInv
<1>1. LoadIInv => LoadInv
  BY PairsDisjoint
  DEF LoadInv, LoadIInv, LoadTypeOK, GoroutineInv, ReturnInv, ResultMatchesState, NoCallOutlivesRun
<1> QED BY <1>1, LoadInvariant, PTL

-----------------------------------------------------------------------------
(***************************************************************************)
(* Received packets.  The statistics are of the stream that packets arrive *)
(* of, and while none from before a wrap came after it, the extended       *)
(* highest number is that of the latest packet.                            *)
(***************************************************************************)

ReceiveSpec == ReceiveInit /\ [][ReceiveNext]_receiveVars

Statistics == [peerSSRC : Nat, base : 0..Modulus - 1, highest : Nat, cycles : Nat, received : Nat]

ReceiveTypes ==
    /\ stream \in Nat \ {0} /\ offset \in 0..Modulus - 1 /\ latest \in Nat \cup {-1} /\ first \in Nat \cup {-1}
    /\ rtcpState \in Statistics /\ lateWraps \in Nat

StatisticsInv ==
    /\ rtcpState.highest >= rtcpState.base /\ rtcpState.cycles <= rtcpState.received
    /\ rtcpState.peerSSRC <= stream
    /\ rtcpState.peerSSRC = stream => latest >= 0 /\ rtcpState.received > 0
    /\ latest >= 0 => rtcpState.peerSSRC = stream /\ first >= 0
    /\ latest = -1 => first = -1

\* The extended number is that of packet m, which is the latest or not far behind,
\* some turns too far on.
HighestOf(m, turns) ==
    /\ latest - Reach <= m /\ m <= latest /\ (turns = 0 => m = latest)
    /\ rtcpState.highest = Modulus * rtcpState.cycles + Seq16(m)
    /\ rtcpState.highest - rtcpState.base = m - first + Modulus * turns

HighestInv == latest >= 0 => \E m \in Nat, turns \in 0..lateWraps : HighestOf(m, turns)

ReceiveIInv == ReceiveTypes /\ StatisticsInv /\ HighestInv

LEMMA Remainders ==
    /\ \A a \in Nat : a % Modulus \in 0..Modulus - 1
    /\ \A q \in Nat, r \in 0..Modulus - 1 : (Modulus * q + r) % Modulus = r
    /\ \A q \in Nat : Modulus * (q + 1) = Modulus * q + Modulus /\ Modulus * q \in Nat
    /\ \A a \in Nat : a = Modulus * (a \div Modulus) + (a % Modulus) /\ a \div Modulus \in Nat
BY RTPReceiveAssumption

\* The number some packets further on.
LEMMA Further ==
    ASSUME NEW a \in Nat, NEW g \in 0..Modulus - 1
    PROVE  (a + g) % Modulus = LET r == a % Modulus IN IF r + g < Modulus THEN r + g ELSE r + g - Modulus
<1> DEFINE q == a \div Modulus
           r == a % Modulus
<1>1. a = Modulus * q + r /\ q \in Nat /\ r \in 0..Modulus - 1
  BY Remainders
<1> HIDE DEF q, r
<1>2. CASE r + g < Modulus
  <2>1. a + g = Modulus * q + (r + g) /\ r + g \in 0..Modulus - 1
    BY <1>1, <1>2, Remainders, RTPReceiveAssumption
  <2>2. (a + g) % Modulus = r + g
    BY <1>1, <2>1, Remainders
  <2> QED BY <1>2, <2>2 DEF r
<1>3. CASE ~(r + g < Modulus)
  <2>1. r + g - Modulus \in 0..Modulus - 1
    BY <1>1, <1>3, RTPReceiveAssumption
  <2>2. a + g = Modulus * (q + 1) + (r + g - Modulus)
    BY <1>1, <1>3, Remainders, RTPReceiveAssumption
  <2>3. (a + g) % Modulus = r + g - Modulus
    <3>1. q + 1 \in Nat
      BY <1>1
    <3> QED BY <2>1, <2>2, <3>1, Remainders
  <2> QED BY <1>3, <2>3 DEF r
<1> QED BY <1>2, <1>3

LEMMA InitReceiveIInv == ReceiveInit => ReceiveIInv
<1> SUFFICES ASSUME ReceiveInit PROVE ReceiveIInv
  OBVIOUS
<1> USE RTPReceiveAssumption DEF ReceiveInit, NewStream, NoState
<1>1. ReceiveTypes
  BY DEF ReceiveTypes, Statistics
<1>2. StatisticsInv
  BY DEF StatisticsInv
<1>3. HighestInv
  BY DEF HighestInv
<1> QED BY <1>1, <1>2, <1>3 DEF ReceiveIInv

\* The first packet of a stream starts the statistics.
LEMMA FirstReceived ==
    ASSUME rtcpState \in Statistics, NEW seq \in 0..Modulus - 1, rtcpState.peerSSRC # stream
    PROVE  Received(rtcpState, seq, stream) =
             [peerSSRC |-> stream, base |-> seq, highest |-> seq, cycles |-> 0, received |-> 1]
BY DEF Received, Fresh, NoState

Wraps(seq) == Wrapped(seq, rtcpState.highest % Modulus)

\* A later one adds to them.
LEMMA NextReceived ==
    ASSUME rtcpState \in Statistics, NEW seq \in 0..Modulus - 1, rtcpState.peerSSRC = stream, rtcpState.received > 0
    PROVE  LET new == Received(rtcpState, seq, stream)
               ext == Modulus * new.cycles + seq
           IN  /\ new \in Statistics /\ new.peerSSRC = stream /\ new.base = rtcpState.base
               /\ new.received = rtcpState.received + 1
               /\ new.cycles = IF Wraps(seq) THEN rtcpState.cycles + 1 ELSE rtcpState.cycles
               /\ new.highest = IF ext > rtcpState.highest THEN ext ELSE rtcpState.highest
<1> DEFINE st == rtcpState
           cycles == IF Wraps(seq) THEN st.cycles + 1 ELSE st.cycles
           new == Received(rtcpState, seq, stream)
<1>1. /\ st.peerSSRC \in Nat /\ st.base \in 0..Modulus - 1 /\ st.highest \in Nat /\ st.cycles \in Nat
      /\ st.received \in Nat /\ cycles \in Nat /\ seq \in Nat /\ Modulus \in Nat
  BY RTPReceiveAssumption DEF Statistics
<1>2. new = [st EXCEPT !.cycles = cycles, !.received = @ + 1, !.highest = Highest(@, cycles * Modulus + seq)]
  BY <1>1 DEF Received, Fresh, Wraps
<1> HIDE DEF cycles, new
<1>3. cycles * Modulus + seq \in Nat /\ cycles * Modulus = Modulus * cycles
  BY <1>1
<1>4. /\ new.peerSSRC = st.peerSSRC /\ new.base = st.base /\ new.received = st.received + 1
      /\ new.cycles = cycles /\ new.highest = Highest(st.highest, cycles * Modulus + seq)
      /\ new = [peerSSRC |-> st.peerSSRC, base |-> st.base, highest |-> Highest(st.highest, cycles * Modulus + seq),
                cycles |-> cycles, received |-> st.received + 1]
  BY <1>2 DEF Statistics
<1>5. Highest(st.highest, cycles * Modulus + seq) \in Nat
  BY <1>1, <1>3 DEF Highest
<1>6. new \in Statistics
  BY <1>1, <1>4, <1>5 DEF Statistics
<1> QED BY <1>3, <1>4, <1>6 DEF Highest, new, cycles

LEMMA ReceiveReceiveIInv == ReceiveIInv /\ Receive => ReceiveIInv'
<1> SUFFICES ASSUME ReceiveIInv, Receive PROVE ReceiveIInv'
  OBVIOUS
<1> USE DEF ReceiveIInv
<1>1. PICK n \in (latest - Reach)..(latest + Gap) :
        /\ n >= 0
        /\ rtcpState' = Received(rtcpState, Seq16(n), stream)
        /\ first' = IF first = -1 THEN n ELSE first
        /\ lateWraps' = IF n < latest /\ Seq16(n) > Seq16(latest) THEN lateWraps + 1 ELSE lateWraps
        /\ latest' = IF n > latest THEN n ELSE latest
        /\ UNCHANGED <<stream, offset, lastPeerSR>>
  BY DEF Receive
<1> DEFINE seq == Seq16(n)
           st == rtcpState
<1>2. n \in Nat /\ latest \in Int /\ offset \in Nat /\ Modulus \in Nat \ {0} /\ Reach \in Nat /\ Gap \in Nat
      /\ n >= latest - Reach /\ n <= latest + Gap
  BY <1>1, RTPReceiveAssumption DEF ReceiveTypes
<1>3. seq \in 0..Modulus - 1
  <2>1. offset + n \in Nat
    BY <1>2
  <2> QED BY <2>1, Remainders DEF Seq16
<1>4. latest' \in Nat /\ first' \in Nat \cup {-1} /\ latest' >= n /\ latest' >= latest
  BY <1>1, <1>2 DEF ReceiveTypes
<1>45. lateWraps \in Nat /\ lateWraps' \in Nat /\ lateWraps' >= lateWraps
  BY <1>1 DEF ReceiveTypes
<1>5. \A m : Seq16(m)' = Seq16(m)
  BY <1>1 DEF Seq16
<1> HIDE DEF seq
<1>6. CASE latest = -1
  <2>1. st.peerSSRC # stream
    BY <1>6 DEF StatisticsInv
  <2>2. rtcpState' = [peerSSRC |-> stream, base |-> seq, highest |-> seq, cycles |-> 0, received |-> 1]
    <3>1. rtcpState' = Received(rtcpState, seq, stream)
      BY <1>1 DEF seq
    <3> QED BY <1>3, <2>1, <3>1, FirstReceived DEF ReceiveTypes
  <2>3. latest' = n
    BY <1>1, <1>2, <1>6
  <2>4. ReceiveTypes'
    BY <1>1, <1>2, <1>3, <1>4, <1>45, <2>2 DEF ReceiveTypes, Statistics
  <2>5. first' >= 0 /\ first' \in Nat
    BY <1>1, <1>2 DEF ReceiveTypes
  <2>6. StatisticsInv'
    BY <1>1, <1>2, <1>3, <1>4, <2>2, <2>5 DEF StatisticsInv, ReceiveTypes
  <2>7. HighestInv'
    <3>1. first' = n /\ seq = Seq16(n) /\ Modulus * 0 = 0 /\ Reach \in Nat /\ 0 \in 0..lateWraps'
      BY <1>1, <1>2, <1>45, <1>6 DEF StatisticsInv, seq
    <3>2. HighestOf(n, 0)' <=>
            /\ latest' - Reach <= n /\ n <= latest' /\ n = latest'
            /\ rtcpState'.highest = Modulus * rtcpState'.cycles + Seq16(n)
            /\ rtcpState'.highest - rtcpState'.base = n - first' + Modulus * 0
      BY <1>1 DEF HighestOf, Seq16
    <3>3. rtcpState'.highest = seq /\ rtcpState'.base = seq /\ rtcpState'.cycles = 0
      BY <2>2
    <3>4. HighestOf(n, 0)'
      BY <1>2, <1>3, <2>3, <3>1, <3>2, <3>3
    <3> QED BY <1>2, <3>1, <3>4 DEF HighestInv
  <2> QED BY <2>4, <2>6, <2>7
<1>7. CASE latest >= 0
  <2> DEFINE new == rtcpState'
             ext == Modulus * new.cycles + seq
  <2>1. st \in Statistics /\ st.peerSSRC = stream /\ st.received > 0 /\ first >= 0
    BY <1>7 DEF StatisticsInv, ReceiveTypes
  <2>2. /\ new \in Statistics /\ new.peerSSRC = stream /\ new.base = st.base
        /\ new.received = st.received + 1
        /\ new.cycles = IF Wraps(seq) THEN st.cycles + 1 ELSE st.cycles
        /\ new.highest = IF ext > st.highest THEN ext ELSE st.highest
    <3>1. rtcpState' = Received(rtcpState, seq, stream)
      BY <1>1 DEF seq
    <3> QED BY <1>3, <2>1, <3>1, NextReceived
  <2>3. /\ st.base \in Nat /\ st.highest \in Nat /\ st.cycles \in Nat /\ st.received \in Nat
        /\ new.highest \in Nat /\ new.cycles \in Nat /\ latest \in Nat /\ first \in Nat /\ seq \in Nat
    BY <1>3, <1>7, <2>1, <2>2 DEF Statistics, ReceiveTypes
  <2>4. ext \in Nat
    BY <2>3, <1>2, Remainders
  <2> HIDE DEF new, ext
  <2>5. ReceiveTypes'
    BY <1>1, <1>4, <1>45, <2>2 DEF ReceiveTypes, new
  <2>6. StatisticsInv'
    <3>1. new.highest >= new.base
      BY <2>2, <2>3, <2>4 DEF StatisticsInv
    <3>2. new.cycles <= new.received /\ new.received > 0
      BY <2>2, <2>3 DEF StatisticsInv
    <3>3. first' >= 0
      BY <1>1, <1>2, <2>3
    <3>4. stream \in Nat
      BY DEF ReceiveTypes
    <3> QED BY <1>1, <1>4, <1>7, <2>2, <2>3, <3>1, <3>2, <3>3, <3>4 DEF StatisticsInv, new
  <2>7. HighestInv'
    <3>1. PICK m \in Nat, turns \in 0..lateWraps : HighestOf(m, turns)
      BY <1>7 DEF HighestInv
    <3> DEFINE s == Seq16(m)
               far == Modulus * turns
    <3>2. /\ latest - Reach <= m /\ m <= latest /\ (turns = 0 => m = latest)
          /\ st.highest = Modulus * st.cycles + s /\ st.highest - st.base = m - first + far
      BY <3>1 DEF HighestOf
    <3>3. first' = first /\ turns \in Nat /\ far \in Nat /\ Modulus * (turns + 1) = far + Modulus
      <4>1. turns \in Nat /\ first' = first
        BY <1>1, <1>45, <2>3
      <4> QED BY <4>1, Remainders
    \* It is enough to find the packet, and how many turns too far on it is taken to be.
    <3>4. ASSUME NEW k \in Nat, NEW u \in 0..lateWraps',
                 latest' - Reach <= k, k <= latest', u = 0 => k = latest',
                 new.highest = Modulus * new.cycles + Seq16(k),
                 new.highest - st.base = k - first + Modulus * u
          PROVE  HighestInv'
      <4>1. HighestOf(k, u)'
        <5>1. HighestOf(k, u)' <=>
                /\ latest' - Reach <= k /\ k <= latest' /\ (u = 0 => k = latest')
                /\ rtcpState'.highest = Modulus * rtcpState'.cycles + Seq16(k)
                /\ rtcpState'.highest - rtcpState'.base = k - first' + Modulus * u
          BY <1>1 DEF HighestOf, Seq16
        <5>2. first' = first /\ new.base = st.base
          BY <2>2, <3>3
        <5> QED BY <3>4, <5>1, <5>2 DEF new
      <4> QED BY <4>1 DEF HighestInv
    <3>5. s \in 0..Modulus - 1 /\ st.highest % Modulus = s
      <4>1. offset + m \in Nat
        BY <1>2
      <4>2. s \in 0..Modulus - 1
        BY <4>1, Remainders DEF Seq16
      <4> QED BY <2>3, <3>2, <4>2, Remainders
    <3>6. Wraps(seq) <=> seq < s /\ s - seq > Half
      BY <3>5 DEF Wraps, Wrapped
    <3>7. Half \in Nat /\ Reach <= Half /\ Reach + Gap + Half < Modulus
      BY RTPReceiveAssumption, NetworkAssumption DEF Half
    <3>8. Modulus * st.cycles \in Nat /\ Modulus * (st.cycles + 1) = Modulus * st.cycles + Modulus
      BY <2>3, Remainders
    <3> HIDE DEF s, st, far
    \* From m on: a wrap is told by half the numbers between them.
    <3>9. CASE n >= m
      <4> DEFINE g == n - m
      <4>1. g \in 0..Modulus - 1 /\ Half + g < Modulus /\ n = m + g
        BY <1>2, <3>2, <3>7, <3>9
      <4> HIDE DEF g
      <4>2. seq = IF s + g < Modulus THEN s + g ELSE s + g - Modulus
        <5>1. offset + m \in Nat /\ (offset + m) + g = offset + n
          BY <1>2, <4>1
        <5> QED BY <4>1, <5>1, Further DEF s, seq, Seq16
      <4>3. Wraps(seq) <=> ~(s + g < Modulus)
        BY <1>2, <3>5, <3>6, <3>7, <4>1, <4>2
      <4>4. ext = st.highest + g
        <5>1. CASE s + g < Modulus
          <6>1. ext = Modulus * st.cycles + seq /\ seq = s + g
            BY <2>2, <4>2, <4>3, <5>1 DEF ext
          <6> QED BY <3>2, <3>5, <3>8, <4>1, <6>1
        <5>2. CASE ~(s + g < Modulus)
          <6>1. ext = Modulus * (st.cycles + 1) + seq /\ seq = s + g - Modulus
            BY <2>2, <4>2, <4>3, <5>2 DEF ext
          <6> QED BY <1>2, <3>2, <3>5, <3>8, <4>1, <6>1
        <5> QED BY <5>1, <5>2
      <4>5. new.highest = ext
        BY <2>2, <2>3, <2>4, <4>1, <4>4
      <4>6. new.highest - st.base = n - first + far
        BY <1>2, <2>3, <3>2, <3>3, <4>1, <4>4, <4>5
      <4>7. new.highest = Modulus * new.cycles + Seq16(n)
        BY <4>5 DEF ext, seq
      <4>8. latest' - Reach <= n /\ n <= latest' /\ (turns = 0 => n = latest')
        BY <1>1, <1>2, <2>3, <3>2, <3>9
      <4>9. turns \in 0..lateWraps'
        BY <1>45
      <4> QED BY <1>2, <3>4, <4>6, <4>7, <4>8, <4>9 DEF far
    <3>10. CASE ~(n >= m)
      <4> DEFINE g == m - n
      <4>1. g \in 1..Modulus - 1 /\ g <= Half /\ m = n + g /\ n < latest /\ latest' = latest
        BY <1>1, <1>2, <2>3, <3>2, <3>7, <3>10
      <4> HIDE DEF g
      <4>2. s = IF seq + g < Modulus THEN seq + g ELSE seq + g - Modulus
        <5>1. offset + n \in Nat /\ (offset + n) + g = offset + m
          BY <1>2, <4>1
        <5> QED BY <4>1, <5>1, Further DEF s, seq, Seq16
      <4>3. ~Wraps(seq)
        BY <1>2, <1>3, <3>5, <3>6, <3>7, <4>1, <4>2
      <4>4. new.cycles = st.cycles /\ ext = Modulus * st.cycles + seq
        BY <2>2, <4>3 DEF ext
      \* With no wrap between them, a late packet changes nothing.
      <4>5. CASE seq + g < Modulus
        <5>1. ext <= st.highest
          BY <2>3, <3>2, <3>5, <3>8, <4>1, <4>2, <4>4, <4>5
        <5>2. new.highest = st.highest
          BY <2>2, <2>3, <2>4, <5>1
        <5>3. turns \in 0..lateWraps'
          BY <1>45
        <5>4. new.highest = Modulus * new.cycles + Seq16(m)
          BY <3>2, <4>4, <5>2 DEF s
        <5>5. new.highest - st.base = m - first + Modulus * turns
          BY <3>2, <5>2 DEF far
        <5> QED BY <3>2, <3>4, <4>1, <5>3, <5>4, <5>5
      \* From before a wrap, it is taken to be a turn further on than it is.
      <4>6. CASE ~(seq + g < Modulus)
        <5>1. ext = st.highest + Modulus - g
          BY <1>2, <2>3, <3>2, <3>5, <3>8, <4>1, <4>2, <4>4, <4>6
        <5>2. new.highest = ext
          BY <1>2, <2>2, <2>3, <2>4, <4>1, <5>1
        <5>3. seq > Seq16(latest)
          <6> DEFINE h == latest - n
          <6>1. h \in 1..Modulus - 1 /\ h >= g /\ latest = n + h
            BY <1>2, <2>3, <3>2, <3>7, <4>1
          <6> HIDE DEF h
          <6>2. offset + n \in Nat /\ (offset + n) + h = offset + latest
            BY <1>2, <2>3, <6>1
          <6>3. Seq16(latest) = IF seq + h < Modulus THEN seq + h ELSE seq + h - Modulus
            BY <6>1, <6>2, Further DEF seq, Seq16
          <6> QED BY <1>2, <1>3, <2>3, <4>1, <4>6, <6>1, <6>3
        <5>4. lateWraps' = lateWraps + 1
          BY <1>1, <4>1, <5>3 DEF seq
        <5>5. turns + 1 \in 0..lateWraps' /\ turns + 1 # 0
          BY <1>45, <3>3, <5>4
        <5>6. new.highest - st.base = n - first + Modulus * (turns + 1)
          <6>1. new.highest = st.highest + Modulus - g /\ Modulus * (turns + 1) = far + Modulus
            BY <3>3, <5>1, <5>2
          <6> QED BY ONLY <1>2, <2>3, <3>2, <3>3, <4>1, <6>1
        <5>7. new.highest = Modulus * new.cycles + Seq16(n)
          BY <5>2 DEF ext, seq
        <5>8. latest' - Reach <= n /\ n <= latest'
          BY <1>2, <2>3, <4>1
        <5> QED BY <1>2, <3>4, <5>5, <5>6, <5>7, <5>8
      <4> QED BY <4>5, <4>6
    <3> QED BY <3>9, <3>10
  <2> QED BY <2>5, <2>6, <2>7
<1> QED BY <1>6, <1>7 DEF ReceiveTypes

LEMMA NextReceiveIInv == ReceiveIInv /\ [ReceiveNext]_receiveVars => ReceiveIInv'
<1> SUFFICES ASSUME ReceiveIInv, [ReceiveNext]_receiveVars PROVE ReceiveIInv'
  OBVIOUS
<1>1. CASE Rebridge
  <2> USE <1>1 DEF ReceiveIInv, Rebridge
  <2>1. stream' = stream + 1 /\ stream \in Nat \ {0} /\ rtcpState' = rtcpState /\ rtcpState.peerSSRC \in Nat
    BY DEF ReceiveTypes, Statistics
  <2>2. ReceiveTypes'
    BY <2>1 DEF ReceiveTypes
  <2>3. StatisticsInv'
    BY <2>1 DEF StatisticsInv
  <2>4. HighestInv'
    BY DEF HighestInv
  <2> QED BY <2>2, <2>3, <2>4
<1>2. CASE UNCHANGED <<stream, offset, latest, rtcpState, first, lateWraps>>
  BY <1>2 DEF ReceiveIInv, ReceiveTypes, StatisticsInv, HighestInv, HighestOf, Seq16
<1> QED
  BY <1>1, <1>2, ReceiveReceiveIInv DEF ReceiveNext, SenderReport, receiveVars

\* However packets are lost, repeated and reordered, a stream's expected packets are
\* those sent since its first to arrive, plus at most one turn of the sequence
\* numbers for each packet from before a wrap that came after it; and the loss
\* reported of it fits an RTCP report (rtp.go:320-360).
THEOREM LossFollowsPackets == ReceiveSpec => []ReceiveInv
<1>1. ReceiveIInv => ReceiveInv
  <2> SUFFICES ASSUME ReceiveIInv PROVE ReceiveInv
    OBVIOUS
  <2> USE DEF ReceiveIInv
  <2> DEFINE st == rtcpState
  <2>1. st.base \in 0..Modulus - 1 /\ st.highest \in Nat /\ st.cycles \in Nat /\ st.received \in Nat /\ st.peerSSRC \in Nat
    BY DEF ReceiveTypes, Statistics
  <2>2. ReceiveTypeOK
    BY <2>1 DEF ReceiveTypeOK, StatisticsInv
  <2>3. ExpectedIsSent
    <3> SUFFICES ASSUME latest >= 0
                 PROVE  \E turns \in 0..lateWraps :
                          \E behind \in 0..(IF turns = 0 THEN 0 ELSE Reach) :
                            Expected = latest - behind - first + 1 + Modulus * turns
      BY DEF ExpectedIsSent
    <3>1. PICK m \in Nat, turns \in 0..lateWraps : HighestOf(m, turns)
      BY DEF HighestInv
    <3> DEFINE far == Modulus * turns
    <3>2. /\ latest - Reach <= m /\ m <= latest /\ (turns = 0 => m = latest)
          /\ st.highest - st.base = m - first + far
      BY <3>1 DEF HighestOf
    <3>3. far \in Nat /\ latest \in Nat /\ first \in Nat /\ Reach \in Nat
      <4>1. turns \in Nat
        BY DEF ReceiveTypes
      <4> QED BY <4>1, Remainders, RTPReceiveAssumption DEF ReceiveTypes, StatisticsInv
    <3> HIDE DEF far
    <3>4. latest - m \in 0..(IF turns = 0 THEN 0 ELSE Reach)
      BY <3>2, <3>3
    <3>5. Expected = st.highest - st.base + 1
      BY DEF Expected, StatisticsInv
    <3>6. Expected = latest - (latest - m) - first + 1 + far
      BY <2>1, <3>2, <3>3, <3>5
    <3> QED BY <3>4, <3>6 DEF far
  <2>4. FractionFits
    <3>1. Expected \in Nat /\ (Expected > 0 => st.received > 0)
      BY <2>1, RTPReceiveAssumption DEF Expected, StatisticsInv
    <3>2. Lost \in Nat /\ (Expected > 0 => Lost < Expected)
      BY <2>1, <3>1 DEF Lost
    <3>3. \A l, e \in Nat : l < e => (l * 256) \div e \in 0..255
      OBVIOUS
    <3> QED BY <3>1, <3>2, <3>3 DEF FractionFits, FractionLost
  <2> QED BY <2>2, <2>3, <2>4 DEF ReceiveInv
<1> QED BY <1>1, InitReceiveIInv, NextReceiveIInv, PTL DEF ReceiveSpec

\* SipCall's behaviours are the phones', a receiver's or a run's.
COROLLARY SipCallInvariants == Spec => [](PhoneInv /\ ReceiveInv /\ LoadInv)
<1>1. Init => PhoneInit /\ ReceiveInit /\ LoadInit
  BY DEF Init
<1>2. [Phones \/ Packets \/ Run]_vars =>
        [PhoneNext]_phoneVars /\ [ReceiveNext]_receiveVars /\ [LoadNext]_loadVars
  BY DEF Phones, Packets, Run, vars
<1>3. Spec => PhoneSpec /\ ReceiveSpec /\ LoadInit /\ [][LoadNext]_loadVars
  BY <1>1, <1>2, PTL DEF Spec, PhoneSpec, ReceiveSpec
<1> QED BY <1>3, MediaAsAgreed, LossFollowsPackets, RunsEndClean, PTL DEF LoadSpec
=============================================================================

----------------------------- MODULE MCSipCall -----------------------------
(***************************************************************************)
(* Instance of SipCall: one call, which offers of PBXware may or may not   *)
(* suit, and sequence numbers modulo 10.                                   *)
(***************************************************************************)
EXTENDS SipCall

Opus == [codec |-> "opus", pt |-> 107]
ULaw == [codec |-> "ulaw", pt |-> 0]
Unknown == [codec |-> "telephone-event", pt |-> 101]

PbxOffers == {<<Opus>>, <<Unknown, ULaw, Opus>>, <<Unknown>>}

Numbers == [opus |-> 111, ulaw |-> 0]
=============================================================================

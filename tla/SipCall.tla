------------------------------ MODULE SipCall ------------------------------
(***************************************************************************)
(* Calls as the sipua package makes them, and as a one-shot run uses them: *)
(* the phones of a call's two legs, what a leg's RTPSession makes of the   *)
(* packets it receives, and the run's goroutines, for which a call is up   *)
(* or not.  The phones never read the receiver's statistics, and what the  *)
(* run asks of a phone is Dial and Hangup, so a behaviour follows one.     *)
(***************************************************************************)
EXTENDS Phone, RTPReceive, LoadRun

VARIABLE part

vars == <<phoneVars, receiveVars, loadVars, part>>

Init ==
    /\ part \in {"phones", "packets", "run"}
    /\ PhoneInit /\ ReceiveInit /\ LoadInit
    /\ part # "phones" => \A c \in Call : wants[c] = DefaultCodec
    /\ part # "packets" => offset = 0

Phones == part = "phones" /\ PhoneNext /\ UNCHANGED <<part, receiveVars, loadVars>>

Packets == part = "packets" /\ ReceiveNext /\ UNCHANGED <<part, phoneVars, loadVars>>

Run == part = "run" /\ LoadNext /\ UNCHANGED <<part, phoneVars, receiveVars>>

\* Registering and dialing have timeouts, the ramp and the hold timers.
Spec ==
    /\ Init /\ [][Phones \/ Packets \/ Run]_vars /\ PhoneFairness
    /\ WF_loadVars(part = "run" /\ RunStep)
-----------------------------------------------------------------------------
\* orchestrator.Run returns, whatever fails and whether or not the context ends.
RunReturns == part = "run" ~> returned # "no"
=============================================================================

---------------------------- MODULE StatusFeed ----------------------------
(***************************************************************************)
(* What the status socket carries about one session: the progress of       *)
(* registering its extensions, then its events (allSnapshots, app.go).     *)
(* Calls, and so events, begin once the session is ready.                  *)
(***************************************************************************)
EXTENDS EventLog, Registration

feedVars == <<vars, regVars>>

FeedInit == Init /\ RegInit

\* The process restarts; the page, if open, stays.
RestartAll == Restart /\ RegRestart

FeedNext ==
    \/ RegNext /\ UNCHANGED vars
    \/ ready /\ (\E w \in Writer : Stamp(w) \/ AppendEvent(w)) /\ UNCHANGED regVars
    \/ (RenderEvents \/ OpenPage) /\ UNCHANGED regVars
    \/ RestartAll

Feed == FeedInit /\ [][FeedNext]_feedVars
===========================================================================

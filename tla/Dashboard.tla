----------------------------- MODULE Dashboard -----------------------------
(***************************************************************************)
(* What a browser has of the application: the admin's sessions (Auth) and, *)
(* behind them, the status of a dialer session (StatusFeed).  The two      *)
(* share no state but the process, so a behaviour follows one of them.     *)
(***************************************************************************)
EXTENDS StatusFeed, Auth

VARIABLE part

dashVars == <<feedVars, authVars, part>>

DashInit == part \in {"login", "status"} /\ FeedInit /\ AuthInit

LogIn == part = "login" /\ AuthNext /\ UNCHANGED <<feedVars, part>>

Watch == part = "status" /\ FeedNext /\ UNCHANGED <<authVars, part>>

DashNext == LogIn \/ Watch

DashSpec == DashInit /\ [][DashNext]_dashVars
=============================================================================

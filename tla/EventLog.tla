------------------------------ MODULE EventLog ------------------------------
(***************************************************************************)
(* A session's live-status events on their way to the dashboard's log.     *)
(* logEvent (session.go) numbers an event, then appends it under mu to a   *)
(* ring of the last maxRecentEvents; every call's goroutine calls it.  The *)
(* status socket carries the ring to renderEvents (app.js), which shows    *)
(* what is newer than the last event it showed for that session's key.     *)
(***************************************************************************)
EXTENDS Naturals, FiniteSets, Bags, SequencesExt

CONSTANTS
    Writer,             \* goroutines that log events
    MaxRecentEvents,    \* maxRecentEvents, 200 in the code
    MaxEvents,          \* bound: events one session numbers
    MaxRestarts         \* bound: restarts of SwarmDialer

ASSUME EventLogAssumption ==
    /\ IsFiniteSet(Writer)
    /\ MaxRecentEvents \in Nat \ {0}
    /\ MaxEvents \in Nat /\ MaxRestarts \in Nat

VARIABLES
    nextEventSeq,   \* the last number given out
    stamp,          \* the number each writer is about to append, 0 if none
    events,         \* the ring, as numbers
    session,        \* which session has the key: one per run of the program
    lastSeen,       \* the page's lastSeenEventSeq for the key
    log             \* what the page shows: a bag of <<session, number>>

vars == <<nextEventSeq, stamp, events, session, lastSeen, log>>
-----------------------------------------------------------------------------
\* A new session, and a page that shows nothing yet.
Init ==
    /\ nextEventSeq = 0
    /\ stamp = [w \in Writer |-> 0]
    /\ events = << >>
    /\ session = 1
    /\ lastSeen = 0
    /\ log = EmptyBag

\* The number and the time are taken before mu.
Stamp(w) ==
    /\ stamp[w] = 0
    /\ nextEventSeq < MaxEvents
    /\ nextEventSeq' = nextEventSeq + 1
    /\ stamp' = [stamp EXCEPT ![w] = nextEventSeq + 1]
    /\ UNCHANGED <<events, session, lastSeen, log>>

LastOnes(s, n) == IF Len(s) > n THEN SubSeq(s, Len(s) - n + 1, Len(s)) ELSE s

\* Mutant: the ring keeps one event less than it may.
AppendEvent_KeepsOneLess(w) ==
    /\ stamp[w] # 0
    /\ events' = LastOnes(Append(events, stamp[w]), MaxRecentEvents - 1)
    /\ stamp' = [stamp EXCEPT ![w] = 0]
    /\ UNCHANGED <<nextEventSeq, session, lastSeen, log>>

\* Mutant: the ring is trimmed before the event is added.
AppendEvent_TrimmedFirst(w) ==
    /\ stamp[w] # 0
    /\ events' = Append(LastOnes(events, MaxRecentEvents), stamp[w])
    /\ stamp' = [stamp EXCEPT ![w] = 0]
    /\ UNCHANGED <<nextEventSeq, session, lastSeen, log>>

\* Append under mu and keep the last of them.
AppendEvent(w) ==
    /\ stamp[w] # 0
    /\ events' = LastOnes(Append(events, stamp[w]), MaxRecentEvents)
    /\ stamp' = [stamp EXCEPT ![w] = 0]
    /\ UNCHANGED <<nextEventSeq, session, lastSeen, log>>

\* Mutant: an event as old as the last one shown counts as new.
Newer_OrSame(s, seen) ==
    {i \in DOMAIN s : s[i] >= seen /\ \A j \in 1..(i-1) : s[j] <= s[i]}

\* What one pass over s shows: each event above the highest before it.
Newer(s, seen) ==
    {i \in DOMAIN s : s[i] > seen /\ \A j \in 1..(i-1) : s[j] < s[i]}

\* A status message arrives and is rendered.
RenderEvents ==
    LET new == {events[i] : i \in Newer(events, lastSeen)} IN
    /\ \E latest \in new : (\A e \in new : e <= latest) /\ lastSeen' = latest
    /\ log' = log (+) SetToBag({<<session, e>> : e \in new})
    /\ UNCHANGED <<nextEventSeq, stamp, events, session>>

\* SwarmDialer restarts and the next dial makes the key a new session; an open
\* page reconnects its socket and keeps what it knows.
Restart ==
    /\ session <= MaxRestarts
    /\ session' = session + 1
    /\ nextEventSeq' = 0
    /\ stamp' = [w \in Writer |-> 0]
    /\ events' = << >>
    /\ UNCHANGED <<lastSeen, log>>

\* The page is loaded anew.
OpenPage ==
    /\ log # EmptyBag
    /\ lastSeen' = 0
    /\ log' = EmptyBag
    /\ UNCHANGED <<nextEventSeq, stamp, events, session>>

Next ==
    \/ \E w \in Writer : Stamp(w) \/ AppendEvent(w)
    \/ RenderEvents \/ OpenPage \/ Restart

Safety == Init /\ [][Next]_vars
-----------------------------------------------------------------------------
TypeOK ==
    /\ nextEventSeq \in Nat
    /\ stamp \in [Writer -> Nat]
    /\ events \in Seq(Nat \ {0}) /\ Len(events) <= MaxRecentEvents
    /\ session \in Nat
    /\ lastSeen \in Nat
    /\ DOMAIN log \subseteq Nat \X Nat

Pending == {stamp[w] : w \in Writer}

\* An event leaves the ring only after maxRecentEvents later ones: the newest
\* are all there, but for those a goroutine still holds and for the room that
\* events appended late take (session.go:542-543).
RecentEventsKept ==
    \A e \in 1..nextEventSeq :
        \/ e \in Pending \cup ToSet(events)
        \/ e + MaxRecentEvents < nextEventSeq + Cardinality(Writer)

\* No line of the log appears twice, whatever the restarts and reloads.
ShownOnce == \A line \in DOMAIN log : log[line] = 1

\* The ring and the page keep every recent event, once (session.go:540-560,
\* app.js:679-700).
FeedInv == TypeOK /\ RecentEventsKept /\ ShownOnce

\* The page shows every event that "is newer than the last one we've already
\* shown for that specific session" (app.js:680-681): one it has not shown yet
\* it still will.  It need not: one appended after a newer one was shown is
\* never shown.
ShownOrStillToCome ==
    \A e \in ToSet(events) : <<session, e>> \in DOMAIN log \/ e > lastSeen
=============================================================================

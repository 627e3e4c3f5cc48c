--------------------------- MODULE MCServerSetup ---------------------------
(***************************************************************************)
(* Instance of ServerSetup: two runs of the wizard, in one org or two; two *)
(* VPSs; a pair of servers to record on, the first with tenants.           *)
(***************************************************************************)
EXTENDS ServerSetup, TLC

CONSTANTS j1, t1, v1, v2, a, b

\* One asks for more than the other.
Counts == [j \in Job |-> IF j = j1 THEN 3 ELSE 2]

VPSOrder == <<v1, v2>>

\* The user restarts both VPSs, or one of them again.
RestartLists == {<<v1, v2>>, <<v2>>}

\* A pair of servers, and one of them on its own.
Sections == {<<a, b>>, <<b>>}

\* The names of the tenants do not matter: the first job's is t1; and a tenant
\* nobody asks for is not there.
MCInit ==
    /\ Init
    /\ multi => org[j1] = t1
    /\ foreign \subseteq {org[j] : j \in Job}

MCSpec == MCInit /\ [][Next]_vars

\* Three jobs of the SERVERware host, two of them of one kind.
HostBound ==
    Cardinality({c \in Connect : ~At(c, "none")}) + Cardinality({q \in Restart : ~RAt(q, "none")}) <= 3

Symmetry == Permutations(Connect) \cup Permutations(Restart)
=============================================================================

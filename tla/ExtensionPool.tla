--------------------------- MODULE ExtensionPool ---------------------------
(***************************************************************************)
(* What a Session promises about its extensions, whatever happens to the   *)
(* calls: a call gets a caller and a callee that nobody else holds, keeps  *)
(* both until it gives both back at once, and always gives them back.      *)
(* session.go states it at reservePairs ("concurrent AddCalls calls never  *)
(* double-book the same extension") and at AddCalls ("returns its          *)
(* extensions to the pool").                                               *)
(***************************************************************************)

CONSTANTS Call,     \* the calls a session ever places
          Caller,   \* the extensions of the caller pool
          Callee    \* the extensions of the callee pool (= Caller when local)

VARIABLE held       \* held[c]: the extensions call c holds, none or a pair

Phone == Caller \cup Callee

Free == {p \in Phone : \A c \in Call : p \notin held[c]}

Init == held = [c \in Call |-> {}]

(***************************************************************************)
(* One AddCalls gives pairs to any set of calls that hold none, at once,   *)
(* out of the extensions nobody held before.                               *)
(***************************************************************************)
FreePair(P) == \E p \in Caller \cap Free, q \in Callee \cap Free : p # q /\ P = {p, q}

Take == /\ held' \in [Call -> SUBSET Phone]
        /\ \A c \in Call : held'[c] # held[c] => held[c] = {} /\ FreePair(held'[c])
        /\ \A c, d \in Call : c # d => held'[c] \cap held'[d] = {}

Give(c) == /\ held[c] # {}
           /\ held' = [held EXCEPT ![c] = {}]

Next == Take \/ \E c \in Call : Give(c)

Safety == Init /\ [][Next]_held

\* Nobody keeps a pair for ever.
Returns == \A c \in Call : WF_held(Give(c))

Spec == Safety /\ Returns
=============================================================================

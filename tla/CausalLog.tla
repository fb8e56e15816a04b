----------------------------- MODULE CausalLog -----------------------------
(***************************************************************************)
(* What the TiDB outbox promises its readers: one totally ordered log of   *)
(* committed events, appended at its tail only, without gaps, in an order  *)
(* that respects causality.  Event d is a causal predecessor of event e    *)
(* when the transaction that published d had committed before the          *)
(* transaction that published e began.                                     *)
(*                                                                         *)
(* This is the abstract specification; SequencedLog implements it.         *)
(***************************************************************************)
EXTENDS Integers

CONSTANT Events

VARIABLES
    visible,   \* events whose publishing transaction has committed
    deps,      \* the causal predecessors of each visible event
    pos,       \* position of each event in the log, 0 while it has none
    len        \* length of the log

logVars == <<visible, deps, pos, len>>

LogInit ==
    /\ visible = {}
    /\ deps = [e \in Events |-> {}]
    /\ pos = [e \in Events |-> 0]
    /\ len = 0

(***************************************************************************)
(* A transaction commits and makes its events S visible at once; D is what *)
(* had committed when it began.                                            *)
(***************************************************************************)
Publish(S, D) ==
    /\ visible' = visible \cup S
    /\ deps' = [e \in Events |-> IF e \in S THEN D ELSE deps[e]]
    /\ UNCHANGED <<pos, len>>

(***************************************************************************)
(* A batch S of visible events is appended: it fills the positions behind  *)
(* the tail, each once and without gaps, and every causal predecessor of a *)
(* member of S ends up before it.                                          *)
(***************************************************************************)
Append(S) ==
    /\ len' >= len
    /\ {pos'[e] : e \in S} = (len + 1)..len'
    /\ \A e \in S : pos[e] = 0
    /\ \A d, e \in S : d # e => pos'[d] # pos'[e]
    /\ \A e \in S : \A d \in deps[e] : pos'[d] # 0 /\ pos'[d] < pos'[e]
    /\ pos' = [e \in Events |-> IF e \in S THEN pos'[e] ELSE pos[e]]
    /\ UNCHANGED <<visible, deps>>

LogNext ==
    \/ \E S \in SUBSET (Events \ visible), D \in SUBSET visible : Publish(S, D)
    \/ \E S \in SUBSET visible : Append(S)

LogSpec == LogInit /\ [][LogNext]_logVars
=============================================================================

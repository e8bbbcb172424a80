--------------------------- MODULE CausalRegister ---------------------------
(***************************************************************************)
(* What the candidate store of a process promises: one record per          *)
(* candidate, changed by one causal transition at a time as if nobody else *)
(* were running, or forgotten when its time to live is over.               *)
(***************************************************************************)
EXTENDS CausalMatrix

CONSTANTS Process, Requests

VARIABLE reg

Transition(p, q) ==
    /\ Causal(Base(reg[p]), q)
    /\ reg' = [reg EXCEPT ![p] = Successor(Base(@), q)]

Forget(p) == reg' = [reg EXCEPT ![p] = NoRecord]

RNext == \E p \in Process : Forget(p) \/ \E q \in Requests : Transition(p, q)

RSpec == reg = [p \in Process |-> NoRecord] /\ [][RNext]_reg
=============================================================================

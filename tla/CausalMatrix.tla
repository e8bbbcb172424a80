---------------------------- MODULE CausalMatrix ----------------------------
(***************************************************************************)
(* The causal transition matrix of state/candidate-state.ts and its pure   *)
(* evaluation.  A record keeps its version, its state and its reserve; the *)
(* score and the volume are written and never decide anything later, and   *)
(* the one condition that reads the score, and the one that reads the      *)
(* deployer's rug count, are the flag clear of the request.                *)
(***************************************************************************)
EXTENDS Integers

CONSTANTS
    Gate,       \* liquidityGateUsd
    Reserve,    \* the reserves a request may report
    Keep        \* a request whose mutation leaves the reserve alone

ASSUME MatrixAssumption == Gate \in Int /\ Reserve \subseteq Int /\ Keep \notin Int

State == {"UNINITIALIZED", "PENDING_DISCOVERY", "DISCOVERED", "SCREENED_L1", "SEC_PASSED",
          "HYDRATED", "P42_GATED", "DISPATCH_READY", "IN_FLIGHT", "FILLED", "DROPPED", "EVICTED"}

Event == {"DISCOVERY_EVENT", "ENRICHMENT_UPDATE", "RESERVE_INJECTED", "SECURITY_VERIFIED",
          "ENRICHMENT_SETTLED", "ML_SCORE_EVALUATED", "ARKHAM_CLEARED", "TX_BROADCASTED",
          "RECEIPT_CONFIRMED", "DROP", "TTL_EXPIRED"}

Request == [event : Event, reserve : Reserve \cup {Keep}, clear : BOOLEAN]
Record == [version : Nat, state : State, reserve : Reserve \cup {0}]

\* Not a record: read() answers null, or the key is absent.
NoRecord == [version |-> 0, state |-> "none", reserve |-> 0]

\* initialState(): what the first event of a candidate is applied to.
Fresh == [version |-> 0, state |-> "UNINITIALIZED", reserve |-> 0]

Active == {"DISCOVERED", "SCREENED_L1", "SEC_PASSED", "HYDRATED", "P42_GATED",
           "DISPATCH_READY", "IN_FLIGHT"}

Matrix ==
    { <<"UNINITIALIZED", "DISCOVERY_EVENT", "DISCOVERED">>,
      <<"UNINITIALIZED", "ENRICHMENT_UPDATE", "PENDING_DISCOVERY">>,
      <<"PENDING_DISCOVERY", "DISCOVERY_EVENT", "DISCOVERED">>,
      <<"DISCOVERED", "RESERVE_INJECTED", "SCREENED_L1">>,
      <<"SCREENED_L1", "SECURITY_VERIFIED", "SEC_PASSED">>,
      <<"SEC_PASSED", "ENRICHMENT_SETTLED", "HYDRATED">>,
      <<"HYDRATED", "ML_SCORE_EVALUATED", "P42_GATED">>,
      <<"P42_GATED", "ARKHAM_CLEARED", "DISPATCH_READY">>,
      <<"DISPATCH_READY", "TX_BROADCASTED", "IN_FLIGHT">>,
      <<"IN_FLIGHT", "RECEIPT_CONFIRMED", "FILLED">> }
    \cup {<<s, "DROP", "DROPPED">> : s \in Active}
    \cup {<<s, "TTL_EXPIRED", "EVICTED">> : s \in Active \cup {"FILLED"}}

\* The reserve after the request's mutation: conditions see this one.
Prospective(r, q) == IF q.reserve = Keep THEN r.reserve ELSE q.reserve

Condition(r, q) ==
    /\ q.event = "DISCOVERY_EVENT" => Prospective(r, q) >= 0
    /\ q.event = "RESERVE_INJECTED" => Prospective(r, q) >= Gate
    /\ q.event \in {"ML_SCORE_EVALUATED", "ARKHAM_CLEARED"} => q.clear

Targets(r, q) == {s \in State : <<r.state, q.event, s>> \in Matrix /\ Condition(r, q)}

\* evaluateCausalTransition(r.state, q.event, ...).ok
Causal(r, q) == Targets(r, q) # {}

\* The record transition() writes for r.
Successor(r, q) ==
    [version |-> r.version + 1, state |-> CHOOSE s \in Targets(r, q) : TRUE,
     reserve |-> Prospective(r, q)]

\* What transition() evaluates when it read r: an absent candidate is a fresh one.
Base(r) == IF r = NoRecord THEN Fresh ELSE r
=============================================================================

---------------------------- MODULE MCCandidate ----------------------------
(* One candidate and two callers: in one process without Redis, in one process with it, and in  *)
(* two with a command that fails.  The requests allocate the record, from both ends of the race *)
(* of discovery and enrichment, screen it with enough reserve and without, and drop it.         *)
EXTENDS CandidateState

CONSTANTS c1, c2, p1, p2

Together == [c \in Caller |-> p1]
Apart == [c \in Caller |-> IF c = c1 THEN p1 ELSE p2]

MCDeployments ==
    { [armed |-> FALSE, home |-> Together, faults |-> 0],
      [armed |-> TRUE, home |-> Together, faults |-> 0],
      [armed |-> TRUE, home |-> Apart, faults |-> 1] }

MCReserve == {0, 1}

MCRequests ==
    { [event |-> "DISCOVERY_EVENT", reserve |-> 1, clear |-> TRUE],
      [event |-> "RESERVE_INJECTED", reserve |-> 0, clear |-> TRUE],
      [event |-> "ENRICHMENT_UPDATE", reserve |-> Keep, clear |-> TRUE],
      [event |-> "DROP", reserve |-> Keep, clear |-> TRUE] }
=============================================================================

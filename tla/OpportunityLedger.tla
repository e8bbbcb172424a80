------------------------- MODULE OpportunityLedger -------------------------
(***************************************************************************)
(* The life of an opportunity: the edges of the ledger, and the three      *)
(* writers that move an opportunity along them (the dispatch of a signal   *)
(* that passed the gate, the strategist's review, the position manager),   *)
(* as operators on its state.  The post-mortem labels what has ended.      *)
(***************************************************************************)
EXTENDS Naturals, Sequences, FiniteSets, FiniteSetsExt

OppState == {"FIRST_SEEN", "IDENTITY_RESOLVED", "RISK_PENDING", "RISK_REJECTED",
             "WATCHING", "ACCELERATING", "RESEARCH_READY", "WATCH_TRIGGER",
             "READY_SMALL_BET", "APPROVAL_PENDING", "APPROVED", "OPEN", "REDUCE",
             "EXIT_TRIGGERED", "EXITED", "MISSED", "CORRECT_REJECTION", "EXPIRED"}

TERMINAL_STATES == {"EXITED", "MISSED", "CORRECT_REJECTION", "EXPIRED"}

STATE_TRANSITIONS ==
    {"FIRST_SEEN"} \X {"IDENTITY_RESOLVED", "RISK_PENDING", "RISK_REJECTED"}
    \cup {"IDENTITY_RESOLVED"} \X {"RISK_PENDING", "RISK_REJECTED"}
    \cup {"RISK_PENDING"} \X {"WATCHING", "RISK_REJECTED"}
    \cup {"RISK_REJECTED"} \X {"WATCHING", "EXPIRED"}
    \cup {"WATCHING"} \X {"ACCELERATING", "RISK_REJECTED", "EXPIRED"}
    \cup {"ACCELERATING"} \X {"WATCH_TRIGGER", "WATCHING"}
    \cup {"RESEARCH_READY"} \X {"WATCH_TRIGGER", "WATCHING"}
    \cup {"WATCH_TRIGGER"} \X {"READY_SMALL_BET", "WATCHING", "RESEARCH_READY"}
    \cup {"READY_SMALL_BET"} \X {"APPROVAL_PENDING", "EXPIRED"}
    \cup {"APPROVAL_PENDING"} \X {"APPROVED", "EXITED", "EXPIRED"}
    \cup {"APPROVED"} \X {"OPEN", "EXITED"}
    \cup {"OPEN"} \X {"REDUCE", "EXIT_TRIGGERED", "EXITED"}
    \cup {"REDUCE"} \X {"OPEN", "EXIT_TRIGGERED", "EXITED"}
    \cup {"EXIT_TRIGGERED"} \X {"EXITED"}

\* transition() refuses an edge that is not in the table, and every edge out
\* of a terminal state.
CanMove(from, to) == from \notin TERMINAL_STATES /\ <<from, to>> \in STATE_TRANSITIONS
-----------------------------------------------------------------------------
\* DISPATCH_PATHS: the walk of a dispatched signal, and where each state
\* joins it.
DispatchWalk == <<"RISK_PENDING", "WATCHING", "ACCELERATING", "WATCH_TRIGGER",
                  "READY_SMALL_BET", "APPROVAL_PENDING">>
JoinsAt == [FIRST_SEEN |-> 1, IDENTITY_RESOLVED |-> 1, RISK_PENDING |-> 2,
            WATCHING |-> 3, ACCELERATING |-> 4, RESEARCH_READY |-> 4,
            WATCH_TRIGGER |-> 5, READY_SMALL_BET |-> 6]

\* The walk stops at the first edge that is refused.
Walk(from, path) ==
    LET full == <<from>> \o path
        reached == {n \in 1..Len(full) :
                      \A i \in 1..(n - 1) : CanMove(full[i], full[i + 1])}
    IN  full[Max(reached)]

\* recordDispatch: a state without a path (RISK_REJECTED among them) stays.
Dispatched(state) ==
    IF state \in DOMAIN JoinsAt
    THEN Walk(state, SubSeq(DispatchWalk, JoinsAt[state], Len(DispatchWalk)))
    ELSE state

\* reviewOne.  seen: the opportunity has an observation; admits: it passes the
\* liquidity and volume floors; acts: the throttle has run out, and a trigger
\* fired or, for one that is parked, 72 hours went by.
Reviewed(state, seen, admits, acts) ==
    CASE state = "FIRST_SEEN" /\ seen /\ admits -> Walk(state, <<"RISK_PENDING", "WATCHING">>)
      [] state = "FIRST_SEEN" /\ seen /\ ~admits -> Walk(state, <<"RISK_REJECTED">>)
      [] state = "WATCHING" /\ seen /\ acts -> Walk(state, <<"ACCELERATING">>)
      [] state = "ACCELERATING" /\ seen /\ acts -> Walk(state, <<"WATCH_TRIGGER">>)
      [] state = "RISK_REJECTED" /\ acts ->
             Walk(state, <<IF seen /\ admits THEN "WATCHING" ELSE "EXPIRED">>)
      [] OTHER -> state

\* recordPositionEvent moves along a valid edge and only records otherwise.
PositionOpened(state) == IF CanMove(state, "OPEN") THEN "OPEN" ELSE state
PositionExited(state) == IF CanMove(state, "EXITED") THEN "EXITED" ELSE state
=============================================================================

----------------------------- MODULE MCScreening -----------------------------
(* Two overlapping passes over a real and a phantom token, with one DEX     *)
(* feed, the track rows and one recall-only source.                         *)
EXTENDS ScreeningPass

CONSTANTS real, phantom

MCTokens == {real, phantom}
MCReal == {real}
MCPriority == <<"dexpaprika", "track", "fomo">>
MCRecallOnly == {"fomo"}
MCExtras == {"track"}
MCCooldownAware == {"dexpaprika"}

\* The slice of the behaviours the run explores.  The clock moves while the
\* awaited pass screens a candidate, which is also where the deadline strikes
\* if not in a source's call; GMGN reports the phantom token to the first pass
\* and nothing to the second, and the track rows hold the phantom at most in a
\* first pass whose feed answered and whose gate met no outage; a second pass
\* starts when the first has left discovery, so passes overlap from the
\* candidates on, and late calls of the first answer before the second asks
\* its sources.
Discovers(stage) == stage \in {"gate", "verify", "ask", "call"}

Slice ==
    /\ now' # now => waiting # NoPass /\ pass[waiting].stage = "screen"
    /\ \A p \in Passes : pass'[p].stage = "gate" => pass'[p].rows = (IF p = 1 THEN {phantom} ELSE {})
    /\ \A p \in Passes, t \in Tokens :
         pass'[p].merged[t] = "track" /\ pass[p].merged[t] # "track"
            => p = 1 /\ t = phantom /\ outage = {} /\ \A s \in Sources : cooling[s] = 0
    /\ ~(Discovers(pass'[1].stage) /\ Discovers(pass'[2].stage))
    /\ waiting # NoPass /\ waiting' = NoPass => pass[waiting].stage \in {"call", "loop", "screen"}
    /\ late' # late \/ cooling' # cooling => pass[2].stage \in {"new", "ask"}

=============================================================================

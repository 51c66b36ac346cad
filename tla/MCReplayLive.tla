----------------------------- MODULE MCReplayLive -----------------------------
(* ReplayLive for TLC, in three scenarios whose state spaces add up instead   *)
(* of multiplying: two channels and one replay; one channel with database     *)
(* faults and the retention sweep; two replays that overlap on one channel.   *)
EXTENDS ReplayLive

CONSTANT First  \* the channel of the scenarios that have one

VARIABLE scenario

MCInit == Init /\ scenario \in {"channels", "faults", "overlap"}

OneReplay == \A r \in Replays \ {1} : UNCHANGED replay[r]
NoFaults == hist'.faults = 0 /\ swept' = 0
OneChannel == conn'.subs \subseteq {First} /\ Range(log') \subseteq {First}

MCNext ==
    /\ Next
    /\ scenario = "channels" =>
          OneReplay /\ NoFaults /\ (log' # <<>> => Head(log') = First)
    /\ scenario = "faults" => OneReplay /\ OneChannel
    /\ scenario = "overlap" => NoFaults /\ OneChannel /\ Len(log') <= 1
    /\ UNCHANGED scenario

MCSpec == MCInit /\ [][MCNext]_<<vars, scenario>> /\ Fairness
=============================================================================

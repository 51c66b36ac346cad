---------------------------- MODULE MCWsConnection ----------------------------
(* WsConnection for TLC, in two scenarios: one connection while time passes,  *)
(* and several that race for the registry in no time at all, where nothing    *)
(* fails.  Connections are interchangeable, so First may connect first.        *)
EXTENDS WsConnection

CONSTANT First  \* the connection that lives through time

VARIABLE scenario

MCInit == Init /\ scenario \in {"time", "race"}

MCNext ==
    /\ Next
    /\ scenario = "time" => \A c \in Conns \ {First} : UNCHANGED conn[c]
    /\ scenario = "race" =>
          /\ UNCHANGED <<now, db, faults>>
          /\ conn'[First].link = "none" => UNCHANGED conn
    /\ UNCHANGED scenario

MCSpec == MCInit /\ [][MCNext]_<<vars, scenario>> /\ Fairness
=============================================================================

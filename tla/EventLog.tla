------------------------------- MODULE EventLog -------------------------------
(***************************************************************************)
(* What the realtime path promises its consumers, without its machinery:   *)
(* a log that only grows, in the order the producers committed, and a live *)
(* stream that only ever carries the newest entry of the log.  An entry    *)
(* may miss the live stream (a crash, a lost COMMIT reply, a stopped       *)
(* broker); it never appears there twice, early or out of order.           *)
(***************************************************************************)
EXTENDS Naturals, Sequences

CONSTANT Entries       \* the naturals that identify entries
VARIABLES log, live

logVars == <<log, live>>

LastOf(s) == IF s = <<>> THEN 0 ELSE s[Len(s)]

LogInit == log = <<>> /\ live = <<>>

Store(e) ==
    /\ e > LastOf(log)
    /\ log' = Append(log, e)
    /\ UNCHANGED live

Deliver ==
    /\ LastOf(log) > LastOf(live)
    /\ live' = Append(live, LastOf(log))
    /\ UNCHANGED log

LogNext == Deliver \/ \E e \in Entries : Store(e)

LogSpec == LogInit /\ [][LogNext]_logVars
===============================================================================

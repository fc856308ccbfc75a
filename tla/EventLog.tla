------------------------------ MODULE EventLog ------------------------------
(***************************************************************************)
(* What the projection event log promises: entries are only ever added,    *)
(* and a request is acknowledged only when all of its entries are there.   *)
(***************************************************************************)
VARIABLES log, acked

Init == log = {} /\ acked = {}

Append == log \subseteq log' /\ acked' = acked

Acknowledge == log' = log /\ acked \subseteq acked' /\ acked' \subseteq log

Next == Append \/ Acknowledge

Spec == Init /\ [][Next]_<<log, acked>>
=============================================================================

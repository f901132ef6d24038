------------------------------ MODULE MCVisits ------------------------------
(* Model checking instance of Visits: a phone, and a bot that pretends to be *)
(* one. The scales of the pages' days and of the realtime minutes, which no  *)
(* property relates, are chosen apart.                                       *)
EXTENDS Visits, TLC

CONSTANTS l1, w1, w2, a1, a2, none, de, berlin, feed

MCPhone == [ip |-> a1, ua |-> {"android", "mobile", "chrome", "safari"},
            referer |-> none, country |-> de, city |-> berlin]
MCBot == [ip |-> a2, ua |-> {"android", "mobile", "chrome", "bot"},
          referer |-> feed, country |-> none, city |-> none]
MCVisitors == {MCPhone, MCBot}
MCZones == [x \in {"Asia/Shanghai"} |-> 1]

\* Bound: the first visit is the phone's, at time 0.
MCFirst == visits' = <<>> \/ visits'[1] = [link |-> l1, who |-> MCPhone, at |-> 0]

\* Bound: click counters and logs, which share nothing, are explored one with
\* the other at rest; a crash, or a click lost when no entry is under way, may
\* join them.
MCApart ==
    \/ /\ edit'.count = 0 /\ \A l \in Links : clicks'[l] = 0
       /\ drifted' = drifted \/ fresh' \cup InWorkers' = {}
    \/ \A w \in Loggers : worker'[w] = Idle /\ judged' = <<>>

MCSymmetry == Permutations(Loggers)
=============================================================================

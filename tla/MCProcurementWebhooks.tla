------------------------ MODULE MCProcurementWebhooks ------------------------
(* Instances of ProcurementWebhooks for TLC. *)
EXTENDS ProcurementWebhooks
CONSTANTS s1, s2, c1, c2, r1

OneSubscription == {s1}
TwoSubscriptions == {s1, s2}
OneCronJob == {c1}
TwoCronJobs == {c1, c2}
OneRequest == {r1}

\* One handler at a time: it starts when the others are idle.
OneAtATime ==
  \A r, q \in Workers : r # q /\ workers'[r] # workers[r] => workers[q].at = "idle"
SequentialSpec == Init /\ [][Next /\ OneAtATime]_vars
=============================================================================

----------------------------- MODULE MCVentAirs -----------------------------
\* Air in which the rules compete: the gains around the two thresholds, a
\* fabric over or under its ceiling, with and without an enforced floor; a
\* room someone is in, an empty one, a dry one; a night that would cool it.
Contested ==
  {[gap |-> g, vapour |-> v[1], wet |-> w[1], near |-> FALSE, over |-> w[2],
    warmer |-> n, engaged |-> f[1], cold |-> f[2], binds |-> FALSE,
    occupied |-> v[2], co2 |-> FALSE, warm |-> TRUE, lift |-> "on"] :
     g \in {"low", "mid", "high"},
     v \in {<<"moist", TRUE>>, <<"moist", FALSE>>, <<"dry", TRUE>>},
     w \in {<<FALSE, FALSE>>, <<FALSE, TRUE>>, <<TRUE, TRUE>>},
     n \in {"no", "hold", "yes"},
     f \in {<<FALSE, FALSE>>, <<TRUE, FALSE>>, <<TRUE, TRUE>>}}

ContestedAirs ==
  {a \in Contested : /\ a.wet => a.gap = "mid" /\ a.occupied
                     /\ a.cold => a.warmer # "hold"
                     /\ a.vapour = "dry" => a.gap = "low"}
=============================================================================

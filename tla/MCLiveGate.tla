------------------------------ MODULE MCLiveGate ------------------------------
EXTENDS LiveGate, TLC

CONSTANTS s1, s2

MCScripts == {s1, s2}
MCItems == {"kill_switch_tested"}
MCReports == {"ensemble_report"}
Shipped ==
    {"leverage_capped", "readonly_guards", "readonly_key_present", "no_literal_secret"}
\* The live switches are on, and so that it works a key has been pasted in.
Launch ==
    {"leverage_capped", "readonly_guards", "readonly_key_present",
     "master_enable", "environment_live", "allow_live_trading"}
MCConfigs == {Shipped, Launch}
\* One script that reads much beside one that writes or reads less.
MCKinds ==
    s1 :> {"readiness", "review", "review_refresh"}
    @@ s2 :> {"gate", "validate", "monitor", "trigger", "clear"}
MCMarks == {"failed"}
MCQuantities == 0..2
MCEquities == {0, 1}
\* All flat; or a real account that traded twice, once after the last snapshot,
\* with the paper account still flat.
Flatly == [live |-> 0, snapshot |-> 0, account |-> 0, target |-> 0]
Drifted == [live |-> 2, snapshot |-> 1, account |-> 0, target |-> 0]
MCHoldings == {Flatly, Drifted}
===============================================================================

----------------------------- MODULE MCResearch -----------------------------
EXTENDS Research

MCScripts == {"download", "validate", "backtest", "pipeline"}
MCValidate == {"validate"}
MCMoves == {-3, 2}
MCWeights == <<2, 1>>

\* The windows of the undated experiments follow from the number of rows.
MCPlans ==
  [scheme : Schemes \ {"dated"}, rows : Datasets, validFrom : {0}, testFrom : {0}]
  \cup {p \in [scheme : {"dated"}, rows : Datasets, validFrom : {0, 4, 6}, testFrom : {6, 9}] :
          p.testFrom <= p.rows}
=============================================================================

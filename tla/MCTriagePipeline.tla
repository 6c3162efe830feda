-------------------------- MODULE MCTriagePipeline --------------------------
\* Instances of TriagePipeline: all alerts are of one group.
EXTENDS TriagePipeline, TLC

CONSTANT g1

OneGroup == {g1}
AllTogether == [a \in Alerts |-> g1]
=============================================================================

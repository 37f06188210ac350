----------------------------- MODULE MCOrchestrator -----------------------------
EXTENDS Orchestrator

CONSTANTS i1, i2

MCSize == [i \in Incidents |-> IF i = i2 THEN 2 ELSE 1]
MCKey == [i \in Incidents |-> "key"]
================================================================================

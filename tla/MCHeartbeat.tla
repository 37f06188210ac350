------------------------------ MODULE MCHeartbeat -------------------------------
EXTENDS Heartbeat

CONSTANTS t1, t2
================================================================================

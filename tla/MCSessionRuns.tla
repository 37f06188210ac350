----------------------------- MODULE MCSessionRuns -----------------------------
EXTENDS SessionRuns, TLC

CONSTANTS s1, s2, r1, r2, r3, d1

\* The third message is of the other session.
MCSessionOf == [c \in Replies \cup Directs |-> IF c = r3 THEN s2 ELSE s1]
MCOneSession == [c \in Replies \cup Directs |-> s1]

\* The first two messages are of one session and nothing tells them apart.  Used
\* where no liveness is checked.
MCSymmetry == Permutations({r1, r2})
================================================================================

---------------------------- MODULE MCCommandQueue ----------------------------
EXTENDS CommandQueue

\* No limit at all (the code takes it for one), and two that let pumps nest.
MCWidths == {0, 2, 3}
================================================================================

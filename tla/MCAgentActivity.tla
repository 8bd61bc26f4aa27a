--------------------------- MODULE MCAgentActivity ---------------------------
EXTENDS AgentActivity

\* What follows two overlapping saves is followed only while nothing else
\* has gone wrong.
SavesApart == "overlap" \in lapses => lapses = {"overlap"}
=============================================================================

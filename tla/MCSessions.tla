----------------------------- MODULE MCSessions -----------------------------
\* Values of the constants of Sessions for TLC.
EXTENDS Sessions

CONSTANTS a1, a2, p1, h1, h2, c1, right, wrong, session, device

\* Both tokens are good for one second.
Ages == [s \in Service |-> 1]

\* The relay's clock may be behind by more than the tolerance, or ahead.
Drifts == {-3, 1}

=============================================================================

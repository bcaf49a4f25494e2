----------------------------- MODULE MCSemiAuto -----------------------------
\* Small instances of SemiAuto for TLC.
EXTENDS SemiAuto

CONSTANTS p1, p2, p3

\* One list that is cut, one that starts with a plan over the cap.
MCBatch == {<<p1, p2, p3>>, <<p3, p1>>}
=============================================================================

-------------------------- MODULE MCLiveExecution ---------------------------
\* Small instances of LiveExecution for TLC.
EXTENDS LiveExecution

CONSTANTS s1, s2

Sig(symbol, direction, sizePct, price, bracketed) ==
    [symbol |-> symbol, direction |-> direction, sizePct |-> sizePct,
     price |-> price, bracketed |-> bracketed]

\* A long signal above the 5% cap with a bracket, a small short one without.
MCSignal == {Sig(s1, 1, 10, 2, TRUE), Sig(s2, -1, 4, 2, FALSE)}

\* Two long signals, no bracket; for the runs about positions and panic.
MCLongs == {Sig(s1, 1, 5, 2, FALSE), Sig(s2, 1, 5, 2, FALSE)}

\* From a peak of 103, 100 is past the daily loss limit of 2% and 93 past the
\* drawdown halt of 6%; 103 is a new peak.
MCEquityLevel == {93, 100, 103}
=============================================================================

-------------------------- MODULE MCPredictionServing --------------------------
\* A small instance of PredictionServing for TLC.
EXTENDS PredictionServing, TLC

\* The week's day d (0 is a Monday) at an hour and a minute.
At(d, hour, minute) == 1440 * d + 60 * hour + minute

\* Thursday evening to Monday morning, around the openings, the closings, midnight and
\* the jobs of 06:00 and 17:00; the week before has all its bars.
MCMoments == <<At(10, 15, 28), At(10, 15, 32), At(10, 17, 10), At(10, 23, 58), At(11, 0, 1),
               At(11, 6, 0), At(11, 15, 31), At(13, 20, 0), At(14, 9, 14), At(14, 9, 17)>>

\* The requests are alike.
MCAlike == Permutations(Requests)
================================================================================

---------------------------- MODULE MCIntelPipeline ----------------------------
\* A small instance of IntelPipeline for TLC: Thursday to the week after.
EXTENDS IntelPipeline

Filing(at, d, late, kind, hash) ==
    [at |-> at, day |-> d, late |-> late, kind |-> kind, hash |-> hash]

\* The filings of a Thursday and the days after it: two with one text, one of them
\* after the collectors' hour, one no model can read and one that says nothing.
MCFilings == {Filing(1, 3, FALSE, "news", "h"), Filing(2, 3, TRUE, "news", "h"),
              Filing(3, 4, FALSE, "unreadable", "none"),
              Filing(4, 4, FALSE, "boilerplate", "none")}

\* News of the Sunday joins the filings after a Friday with news after hours.
MCWeekend == {Filing(1, 4, FALSE, "news", "none"), Filing(2, 4, TRUE, "news", "none"),
              Filing(3, 6, FALSE, "news", "none")}
================================================================================

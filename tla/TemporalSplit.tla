----------------------------- MODULE TemporalSplit -----------------------------
(****************************************************************************)
(* The row arithmetic of the training splits (training/pipeline.py).  Rows  *)
(* of one symbol are numbered from 0 in time order; a range is the record   *)
(* [from, to) that X.iloc[from:to] selects.  The ratios are whole           *)
(* percentages, so int(n * (1 - r)) is an integer division; the product of  *)
(* the 3-way split is taken in floating point (1 - 0.15 - 0.15 is a little  *)
(* under 0.7) and comes out `lost` rows short, 0 or 1 depending on n.       *)
(****************************************************************************)
EXTENDS Integers

Lesser(a, b) == IF a <= b THEN a ELSE b
Greater(a, b) == IF a >= b THEN a ELSE b

\* Fewer rows than this and the train part gives up its embargo (2-way) or is
\* padded to it (3-way).
MinTrainRows == 100

\* X.iloc[from:to]: out of range ends are cut, an inverted range is empty.
Slice(n, from, to) ==
    [from |-> Lesser(Greater(from, 0), n), to |-> Lesser(Greater(to, 0), n)]

RowsOf(s) == {r \in s.from .. (s.to - 1) : TRUE}

\* _temporal_split: the split of the nightly XGBoost training.
TwoWay(n, val, embargo) ==
    LET split == (n * (100 - val)) \div 100
        cut   == split - embargo
        end   == IF cut < MinTrainRows THEN split ELSE cut
    IN [train |-> Slice(n, 0, end), val |-> Slice(n, split, n)]

\* _temporal_split_3way: the split of every other training.  The OOF part is
\* what the ensemble is fitted on.
ThreeWay(n, oof, val, embargo, lost) ==
    LET rawEnd   == (n * (100 - oof - val)) \div 100 - lost
        oofEnd   == (n * (100 - val)) \div 100
    IN [train |-> Slice(n, 0, Greater(rawEnd, MinTrainRows)),
        oof   |-> Slice(n, Lesser(rawEnd + embargo, oofEnd), oofEnd),
        val   |-> Slice(n, Lesser(oofEnd + embargo, n), n)]
================================================================================

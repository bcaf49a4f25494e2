----------------------------- MODULE PooledTraining -----------------------------
(****************************************************************************)
(* How the learners are fed: the rows of the symbols are pooled one symbol  *)
(* after the other, cut into windows and batches, trained until the         *)
(* validation loss stalls, saved, loaded, and asked about frames with other *)
(* columns; the states of the regime model are named, and the stack is      *)
(* given the outputs of its learners.  A row is [symbol, day, label]; the   *)
(* label is << >> when there is none; a loss is counted in units of the     *)
(* least improvement.                                                       *)
(****************************************************************************)
EXTENDS Question, FiniteSets, FiniteSetsExt, SequencesExt

CONSTANTS SeqLen,        \* sequence_length
          Horizons, BatchSize, ConformalCap, Epochs, Patience, Losses, Features

\* The best loss before the first epoch: above any other.
Infinite == 1000

ASSUME PooledAssumption ==
    /\ SeqLen \in Nat \ {0} /\ Horizons \subseteq Nat /\ Horizons # {}
    /\ BatchSize \in Nat \ {0} /\ Epochs \in Nat \ {0} /\ Patience \in Nat \ {0}
    /\ Losses \subseteq 0..(Infinite - 2)

--------------------------------------------------------------------------------
(* Pool, windows, batches. *)

\* _concat: the symbols' rows one after the other; the index is dropped.
Pool(parts) ==
    FlattenSeq([p \in DOMAIN parts |->
        [k \in 1..Len(parts[p].labels) |->
            [symbol |-> p, day |-> parts[p].first + k - 1, label |-> parts[p].labels[k]]]])

\* Class of a label; without one it is that of the neutral label.
Class(row) == IF row.label = <<>> THEN 1 ELSE row.label[1] + 1

ValidStarts(rows) == {i \in 1..(Len(rows) - SeqLen + 1) : rows[i + SeqLen - 1].label # <<>>}

\* A faulty variant: the label of the day after the window.
LabelRow_Next(rows, i) == Min({i + SeqLen, Len(rows)})

LabelRow(rows, i) == i + SeqLen - 1

\* The training loader of single-horizon models.
FastLoader(rows) ==
    {[x |-> i..(i + SeqLen - 1), y |-> Class(rows[LabelRow(rows, i)]), weight |-> LabelRow(rows, i)] :
        i \in ValidStarts(rows)}

\* The data set it replaces, indexed by valid window.
SequenceDataset(rows) ==
    LET valid == SelectSeq([i \in 1..(Len(rows) - SeqLen + 1) |-> i],
                           LAMBDA i : rows[i + SeqLen - 1].label # <<>>)
        item(i) == [x |-> i..(i + SeqLen - 1), y |-> Class(rows[i + SeqLen - 1]), weight |-> i + SeqLen - 1]
    IN {item(valid[k]) : k \in DOMAIN valid}

Offsets == {h - Min(Horizons) : h \in Horizons}

\* Labels of all horizons at once: positions past the end are clipped, then masked.
FastMultiLoader(rows) ==
    LET shifted(i, o) == LabelRow(rows, i) + o
        clipped(i, o) == Min({shifted(i, o), Len(rows)})
        inRange(i, o) == shifted(i, o) <= Len(rows)
    IN {[x |-> i..(i + SeqLen - 1), y |-> Class(rows[LabelRow(rows, i)]),
         h |-> [o \in Offsets |-> IF inRange(i, o) THEN <<Class(rows[clipped(i, o)])>> ELSE <<>>]] :
            i \in ValidStarts(rows)}

\* The data set it replaces: a mask is set where the shifted row exists.
MultiHorizonDataset(rows) ==
    LET last(i) == i + SeqLen - 1
    IN {[x |-> i..last(i), y |-> Class(rows[last(i)]),
         h |-> [o \in Offsets |-> IF last(i) + o \in DOMAIN rows THEN <<Class(rows[last(i) + o])>> ELSE <<>>]] :
            i \in {j \in 1..(Len(rows) - SeqLen + 1) : rows[last(j)].label # <<>>}}

\* Slices of an order of the windows; their number is rounded up.
Batches(starts) ==
    LET order == SetToSortSeq(starts, <)
    IN [b \in 1..((Len(order) + BatchSize - 1) \div BatchSize) |->
          SubSeq(order, (b - 1) * BatchSize + 1, Min({b * BatchSize, Len(order)}))]

\* Rows the network does not predict: they stay neutral, with confidence 0.
Warmup(rows) == 1..Min({SeqLen - 1, Len(rows)})

\* "Take the most recent rows": the last of the pool.
ConformalSample(rows) ==
    IF Len(rows) <= ConformalCap THEN rows ELSE SubSeq(rows, Len(rows) - ConformalCap + 1, Len(rows))

\* The day whose regime each pooled row is given: the last days, or the days from the first
\* on with the last one repeated.
RegimeProbs(days, n) ==
    IF Len(days) >= n THEN SubSeq(days, Len(days) - n + 1, Len(days))
    ELSE [i \in 1..n |-> IF i <= Len(days) THEN days[i] ELSE days[Len(days)]]

FeedOf(parts, days) ==
    LET rows == Pool(parts)
    IN [fast |-> FastLoader(rows), plain |-> SequenceDataset(rows),
        fastMulti |-> FastMultiLoader(rows), plainMulti |-> MultiHorizonDataset(rows),
        batches |-> Batches(ValidStarts(rows)), warmup |-> Warmup(rows),
        conformal |-> ConformalSample(rows), regime |-> RegimeProbs(days, Len(rows))]

--------------------------------------------------------------------------------
(* Epochs. *)

\* EarlyStopping.step.
StopperStep(s, loss) ==
    IF loss < s.best - 1 THEN [s EXCEPT !.best = loss, !.count = 0]
    ELSE [s EXCEPT !.count = @ + 1, !.stop = s.count + 1 >= Patience]

\* The weights are kept when the loss is no more than the best recorded one.
KeepState(s, epoch, loss) == IF loss <= s.best THEN [s EXCEPT !.kept = epoch] ELSE s

\* One epoch of the loop; the epoch that ends the training keeps no weights.
Epoch(s, epoch, loss) ==
    LET t == StopperStep(s, loss)
    IN IF s.stop THEN s
       ELSE IF t.stop THEN [t EXCEPT !.ran = epoch]
       ELSE [KeepState(t, epoch, loss) EXCEPT !.ran = epoch]

\* 0 kept means the weights of the last epoch stay.
FitNetwork(losses) ==
    LET after[e \in 0..Len(losses)] ==
          IF e = 0 THEN [best |-> Infinite, count |-> 0, stop |-> FALSE, kept |-> 0, ran |-> 0]
          ELSE Epoch(after[e - 1], e, losses[e])
        end == after[Len(losses)]
    IN [ran |-> end.ran, stopped |-> end.stop, restored |-> IF end.kept = 0 THEN end.ran ELSE end.kept]

--------------------------------------------------------------------------------
(* Columns. *)

Refused == <<"refused">>

\* "" is a column of missing values.
Reindex(trained, columns) ==
    [i \in DOMAIN trained |-> IF trained[i] \in ToSet(columns) THEN trained[i] ELSE ""]

\* XGBoost, LSTM and TFT: half of the columns must be there.
AlignFeatures(trained, columns) ==
    IF trained = <<>> \/ columns = trained THEN columns
    ELSE IF 2 * Cardinality(ToSet(trained) \intersect ToSet(columns)) < Len(trained) THEN Refused
    ELSE Reindex(trained, columns)

\* Meta-labeling and conformal: all of them.
AlignStrictly(trained, columns) ==
    IF trained = <<>> \/ columns = trained THEN columns
    ELSE IF ToSet(trained) \subseteq ToSet(columns) THEN trained
    ELSE Refused

\* The most important of the columns that are there.
SelectTopFeatures(importance, n, available) ==
    LET there == SelectSeq(importance, LAMBDA f : f \in available)
    IN SubSeq(there, 1, Min({n, Len(there)}))

SaveMetadata(trained) == [feature_names |-> trained]

\* The network's own file names the columns by their number only.
ArtifactNames(trained) == [i \in DOMAIN trained |-> <<"f0", "f1", "f2">>[i]]

\* load replaces the names of the artifact by those of the metadata.
LoadedNames(metadata) == metadata.feature_names

\* A cell of the frame is a number, missing or infinite; both of the latter become 0.
Filled(cell) == IF cell = "number" THEN cell ELSE "zero"

\* What training passes of such a cell to a learner.
FitCell(kind, cell) == IF kind = "xgboost" THEN cell ELSE Filled(cell)

PredictXgb(names, columns, cell) == [frame |-> AlignFeatures(names, columns), cell |-> cell]

\* LSTM and TFT.
PredictNetwork(names, columns, cell) == [frame |-> AlignFeatures(names, columns), cell |-> Filled(cell)]

\* Only missing cells are filled.
PredictGnn(names, columns, cell) ==
    [frame |-> AlignFeatures(names, columns), cell |-> IF cell = "missing" THEN "zero" ELSE cell]

PredictMeta(names, columns, cell) == [frame |-> AlignStrictly(names, columns), cell |-> Filled(cell)]

PredictConformal(names, columns, cell) == [frame |-> AlignStrictly(names, columns), cell |-> Filled(cell)]

Served(trained, columns, cell) ==
    LET names == LoadedNames(SaveMetadata(trained))
    IN [xgboost |-> PredictXgb(names, columns, cell), network |-> PredictNetwork(names, columns, cell),
        gnn |-> PredictGnn(names, columns, cell), meta |-> PredictMeta(names, columns, cell),
        conformal |-> PredictConformal(names, columns, cell)]

--------------------------------------------------------------------------------
(* Regimes. *)

States == 1..4

\* The first of S with the greatest, the least value.
ArgMax(S, value) == CHOOSE i \in S : \A j \in S : value[i] > value[j] \/ (value[i] = value[j] /\ i <= j)
ArgMin(S, value) == CHOOSE i \in S : \A j \in S : value[i] < value[j] \/ (value[i] = value[j] /\ i <= j)

BearState(means, bull) == ArgMin(States \ {bull}, means)

\* bull, bear, sideways, high_volatility, as the configuration orders them.
LabelStates(means, variances) ==
    LET bull == ArgMax(States, means)
        bear == BearState(means, bull)
        volatile == ArgMax(States \ {bull, bear}, variances)
        sideways == Min((States \ {bull, bear, volatile}) \union {5})
    IN <<bull, bear, sideways, volatile>>

\* state_probabilities and transition_matrix in the order of the names.
Reorder(names, raw) == [i \in States |-> raw[names[i]]]

\* Returns, volatility and what the caller adds; a frame of another length is left out.
PrepareInput(extra, sameLength) == <<"returns", "volatility">> \o (IF sameLength THEN extra ELSE <<>>)

\* The probability of each name is that of a state; columns past the fitted ones are cut off.
PredictRegime(names, fitted, input) ==
    [of |-> Reorder(names, [i \in States |-> i]), sees |-> SubSeq(input, 1, Min({fitted, Len(input)}))]

--------------------------------------------------------------------------------
(* The stack. *)

Expected == <<"xgboost", "lstm", "tft">>

\* The learners whose probabilities are stacked, in order.
ActiveModels(hasGnn, given) == IF hasGnn /\ "gnn" \in given THEN Append(Expected, "gnn") ELSE Expected

ValidNames(given) == ToSet(Expected) \subseteq given /\ given \subseteq ToSet(Expected) \union {"gnn"}

\* Three probabilities of each learner, four of the regime, and the disagreement.
MetaWidth(models) == 3 * Len(models) + 4 + 1

FitStack(given) ==
    IF ~ValidNames(given) THEN Refused ELSE ActiveModels("gnn" \in given, given)

\* A frame of another width is refused by the classifier; has_gnn is in the metadata.
PredictStack(fitted, given) ==
    LET models == ActiveModels("gnn" \in ToSet(fitted), given)
    IN IF ~ValidNames(given) \/ MetaWidth(models) # MetaWidth(fitted) THEN Refused ELSE models

--------------------------------------------------------------------------------
(* Questions. *)

Labels == {<<>>, <<-1>>, <<1>>}

Orders == UNION {{s \in [1..n -> Features] : \A i, j \in 1..n : i # j => s[i] # s[j]} : n \in 0..3}

PooledQuestions ==
    {[topic |-> "feed", days |-> days,
      parts |-> <<[first |-> 0, labels |-> a], [first |-> f, labels |-> b]>>] :
        a \in UNION {[1..n -> Labels] : n \in 1..3}, b \in UNION {[1..n -> Labels] : n \in 2..3},
        f \in 0..1, days \in {<<0, 1>>, <<0, 1, 2, 3, 4, 5>>}}
    \union {[topic |-> "epochs", losses |-> l] : l \in [1..Epochs -> Losses]}
    \union {[topic |-> "frames", importance |-> i, columns |-> c, cell |-> v] :
              i \in Orders \ {<<>>}, c \in Orders, v \in {"number", "missing", "infinite"}}
    \union {[topic |-> "regime", means |-> m, variances |-> v, same |-> b] :
              m \in [States -> 0..2], v \in [States -> 0..1], b \in BOOLEAN}
    \union {[topic |-> "stack", fitted |-> a, given |-> b] :
              a, b \in SUBSET {"xgboost", "lstm", "tft", "gnn"}}

PooledAnswers ==
    \/ Reply("feed", FeedOf(asked.parts, asked.days))
    \/ Reply("epochs", FitNetwork(asked.losses))
    \/ Reply("frames", Served(SelectTopFeatures(asked.importance, 2, Features), asked.columns, asked.cell))
    \/ Reply("regime", PredictRegime(LabelStates(asked.means, asked.variances), 2,
                                     PrepareInput(<<"breadth">>, asked.same)))
    \/ /\ asked.topic = "stack" /\ FitStack(asked.fitted) # Refused
       /\ Reply("stack", PredictStack(FitStack(asked.fitted), asked.given))

--------------------------------------------------------------------------------
(* Properties. *)

\* The loaders built for speed give the windows, labels and masks of the data sets they
\* replaced, also at the end of the rows and where labels are missing (FastSequenceLoader,
\* FastMultiHorizonLoader: "Yields the same 7-tuples as MultiHorizonSequenceDataset batches").
LoadersAgree ==
    Answered("feed") =>
      answer[1].fast = answer[1].plain /\ answer[1].fastMulti = answer[1].plainMulti

\* An epoch visits every window with a label once, in no more batches than it says
\* (FastSequenceLoader.__len__, __iter__).
BatchesCoverWindows ==
    Answered("feed") =>
      LET all == FlattenSeq(answer[1].batches)
      IN /\ ToSet(all) = {Min(w.x) : w \in answer[1].plain}
         /\ Len(all) = Cardinality(ToSet(all))

\* The weights that are restored lost at most the least improvement more than the best
\* epoch that was run, and training ended early only after Patience epochs in a row without
\* an improvement (LSTMModel.fit, EarlyStopping).
RestoredIsNearBest ==
    Answered("epochs") =>
      LET a == answer[1] loss == asked.losses
      IN /\ \A e \in 1..a.ran : loss[a.restored] <= loss[e] + 1
         /\ a.stopped => \A e \in (a.ran - Patience + 1)..a.ran :
              \E d \in 1..(e - 1) : loss[d] <= loss[e] + 1

\* Through save and load, whatever the columns of the frame, a learner sees the columns it
\* was trained on in their order or refuses, and a frame that has them all is not refused
\* (BaseModel._align_features, load; MetaLabelingModel._align_features;
\* ConformalPredictor.predict).
FramesAreAligned ==
    Answered("frames") =>
      LET trained == SelectTopFeatures(asked.importance, 2, Features)
          columns == ToSet(asked.columns)
      IN \A k \in DOMAIN answer[1] :
           LET f == answer[1][k].frame
           IN /\ f = Refused \/ (Len(f) = Len(trained) /\ \A i \in DOMAIN f :
                                   f[i] = IF trained[i] \in columns THEN trained[i] ELSE "")
              /\ ToSet(trained) \subseteq columns => f = trained
              /\ k \in {"meta", "conformal"} => (f = Refused \/ "" \notin ToSet(f))

\* A cell without a number reaches a learner as it did in training ("Training data was
\* NaN/Inf-filled with 0 - match it"); the GNN is the exception, it fills no infinite cell.
ServedAsTrained ==
    Answered("frames") =>
      \A k \in DOMAIN answer[1] :
        answer[1][k].cell = FitCell(k, asked.cell) \/ (k = "gnn" /\ asked.cell = "infinite")

\* The four names go to four states, whatever ties there are: no state's probability is
\* counted twice or lost, and the columns a caller adds never reach a model fitted without
\* them (_label_states, _reorder_probabilities, predict).
StatesAreNamedOnce ==
    Answered("regime") => ToSet(answer[1].of) = States /\ answer[1].sees = <<"returns", "volatility">>

\* A stack is given the columns it was fitted on or refuses, and more learners than it was
\* fitted with do not make it refuse (StackingEnsemble._active_models, has_gnn).
StackSeesItsColumns ==
    Answered("stack") =>
      /\ answer[1] \in {Refused, FitStack(asked.fitted)}
      /\ asked.fitted \subseteq asked.given => answer[1] # Refused
================================================================================

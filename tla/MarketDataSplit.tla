--------------------------- MODULE MarketDataSplit ---------------------------
(***************************************************************************)
(* Which rows a run trains on and which rows validate it: the              *)
(* chronological split (src/train_and_eval/market_data/                    *)
(* split_market_data.py), its alignment to whole PPO batches               *)
(* (training/service.py) and the split by calendar ranges                  *)
(* (walk_forward/windows.py).                                              *)
(*                                                                         *)
(* Rows are numbered from 0 in the whole dataset.  A split says where the  *)
(* rows scored by training and by validation begin and end (half-open),    *)
(* and how many earlier rows each receives as context.                     *)
(***************************************************************************)
EXTENDS Integers

(* split_market_data_chronologically: train_ratio is num / den.            *)
SplitIndex(rows, num, den) == (rows * num) \div den

SplitAccepts(rows, split, history) ==
    /\ split >= history + 1
    /\ rows - split >= 1

(* From observation index history - 1 the environment executes the rows    *)
(* history .. split - 1.                                                   *)
ChronologicalSplit(rows, split, history) ==
    [training_start_index |-> history - 1, steps_per_data_epoch |-> split - history,
     split_index |-> split, validation_rows |-> rows - split, history |-> history]

(* _batch_aligned_training_window: the first rows of TRAIN that do not     *)
(* fill a batch are skipped.                                               *)
WindowAccepts(split, batch) ==
    split.steps_per_data_epoch - (split.steps_per_data_epoch % batch) >= 1

BatchAligned(split, batch) ==
    LET trimmed == split.steps_per_data_epoch % batch
    IN  [split EXCEPT !.training_start_index = @ + trimmed,
                      !.steps_per_data_epoch = @ - trimmed]

(* _batch_aligned_training_steps: the requested duration, in whole batches.*)
AlignedDuration(requested, batch) == requested - (requested % batch)

(* The rows one epoch of training executes.                                *)
TrainedRows(split) ==
    (split.training_start_index + 1) .. (split.training_start_index + split.steps_per_data_epoch)

-----------------------------------------------------------------------------
(* split_time_ranges: the bounds are row ranges [start, end) of the nominal *)
(* calendar ranges.  "trim_start" reserves the context at the beginning of *)
(* the data and trims; "prepend" scores earlier rows too until the batches *)
(* are full.                                                               *)
ActualStart(start, end, history, batch, alignment) ==
    IF alignment = "trim_start"
    THEN LET available == IF start < history THEN history ELSE start
         IN  available + ((end - available) % batch)
    ELSE start - ((start - end) % batch)

TimeSplitAccepts(train, validation, history, batch, alignment) ==
    LET start == ActualStart(train.start, train.end, history, batch, alignment)
    IN  /\ train.start < train.end
        /\ alignment = "trim_start" =>
               train.end - (IF train.start < history THEN history ELSE train.start) >= batch
        /\ start >= history
        /\ start < train.end
        /\ validation.end > validation.start =>
               validation.start >= history /\ validation.start >= train.end

TimeRangeSplit(train, history, batch, alignment) ==
    LET start == ActualStart(train.start, train.end, history, batch, alignment)
    IN  [start |-> start, end |-> train.end, steps_per_data_epoch |-> train.end - start]
=============================================================================

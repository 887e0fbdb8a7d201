------------------------- MODULE EvaluationRunProofs -------------------------
(***************************************************************************)
(* Proofs about EvaluationRun for every configuration, any market and any  *)
(* files, whatever is replaced or cleaned away while the run is made and   *)
(* evaluated.                                                              *)
(*                                                                         *)
(* The data: the file of the dataset has at most two contents, that it had *)
(* at first and the imported release, so a reading is followed by its      *)
(* order in time (Seen, Since); ReaderInv and DataInv say so of the        *)
(* reading under way and of the finished ones.  RunInv and RowInv carry    *)
(* the columns the data is compared with.                                  *)
(* The source of a resumed run: SourceInv holds until the row is committed *)
(* (its foreign key keeps the source from then on), ModelInv after it.     *)
(* The calendar: the arithmetic of days, hours and rollovers, and FrameInv *)
(* for the bars the evaluation sees.                                       *)
(* The training: what the loop has done after k steps in closed form.      *)
(* Turns counts the visits of a row, SumCountsUnits reads a sum as a number*)
(* of units, and both turn the folds of the model into arithmetic.  Loop   *)
(* (steps, rows, checkpoints, metrics) holds while the run trains, and     *)
(* TrainingInv says how a run comes to train and how it ends.              *)
(* The scoring: TraceInv says which rows the runner has scored and which   *)
(* one its agent observes, ScoringInv that its range is the accepted one   *)
(* of a run that has trained to its end; PassRows, RowsHadTurns and        *)
(* ScoredRange put the two ranges of rows on one scale.                    *)
(* What fits: the run is inserted as PendingRunAllowed says and keeps to   *)
(* the constraints (RunStaysAllowed), its model is of its spaces (FitInv), *)
(* and a request that is Completable is accepted (RequestIsAccepted).      *)
(***************************************************************************)
EXTENDS EvaluationRun, TLAPS, FiniteSetTheorems, WellFoundedInduction

-----------------------------------------------------------------------------
(* What the steps leave alone *)

\* An evaluation, once its data is loaded.
Evaluate ==
    \/ Unreadable \/ Refuse \/ CreatePending \/ MarkRunning
    \/ Prepare \/ PrepareFails \/ Step \/ Finish

\* Making and training the run, once its data is loaded.
Train == CreateRun \/ BeginTraining \/ CollectRollout \/ ReachBoundary

\* An evaluation changes none of what it starts from.
LEMMA EvaluateFrame ==
    Evaluate => /\ UNCHANGED inputs
                /\ \/ phase = "requested" /\ phase' \in {"unreadable", "refused", "pending"}
                   \/ phase \in {"pending", "running", "stepping"}
                      /\ phase' \in {"running", "stepping", "completed", "failed"}
<1>1. ASSUME NEW bar, NEW action, phase = "stepping", StepOn(bar, action)
      PROVE  UNCHANGED inputs /\ phase' \in {"stepping", "failed"}
  <2>1. Fail => UNCHANGED inputs /\ phase' = "failed"
    BY DEF Fail
  <2> QED
    BY <1>1, <2>1 DEF StepOn, startVars, inputs
<1>2. Step => UNCHANGED inputs /\ phase = "stepping" /\ phase' \in {"stepping", "failed"}
  BY <1>1 DEF Step
<1>3. Finish \/ PrepareFails => UNCHANGED inputs /\ phase \in {"stepping", "running"}
                                /\ phase' \in {"completed", "failed"}
  BY DEF Finish, PrepareFails, Fail
<1>4. MarkRunning \/ Prepare => UNCHANGED inputs /\ phase \in {"pending", "running"}
                                /\ phase' \in {"running", "stepping"}
  BY DEF MarkRunning, Prepare
<1>5. Unreadable \/ Refuse \/ CreatePending
        => UNCHANGED inputs /\ phase = "requested" /\ phase' \in {"unreadable", "refused", "pending"}
  BY DEF Unreadable, Refuse, CreatePending, Answered
<1> QED
  BY <1>2, <1>3, <1>4, <1>5 DEF Evaluate

\* Making and training the run touches neither the disk nor what was read.
LEMMA TrainFrame ==
    Train /\ UNCHANGED evaluationVars
      => /\ UNCHANGED <<request, store, reader, catalog, start, evaluationVars>>
         /\ phase \in {"creating", "created", "training"}
         /\ phase' \in {"created", "rejected", "training", "failed", "requested"}
BY DEF Train, CreateRun, BeginTraining, CollectRollout, ReachBoundary

\* The steps, by what they touch.
LEMMA Steps ==
    Next => \/ Evaluate
            \/ /\ UNCHANGED evaluationVars
               /\ \/ Configure \/ Read \/ ReadingFails \/ KeepEntry \/ KeepFrame \/ Resolve
                  \/ Train \/ Import \/ CleanSource
BY DEF Next, Start, StartNext, Evaluate, Train

\* The request is never changed.
LEMMA RequestStays == [Next]_vars => request' = request
BY Steps, EvaluateFrame, TrainFrame DEF vars, startVars, inputs, Configure, Read, ReadingFails,
   KeepEntry, KeepFrame, Resolve, Import, CleanSource

-----------------------------------------------------------------------------
(* One release of the data *)

\* The content the dataset's file had at first, and the one it has now.
FirstFile == request.store.files[Path]

File == store.files[Path]

\* A content the file has now or had at first.
Seen(content) == content = FirstFile \/ content = File

\* A content that was read no earlier than another.
Since(content, other) == content = other \/ content = File

\* Only the release that is imported replaces the first content.
DiskInv ==
    /\ request \in Requests
    /\ store = [manifest |-> store.manifest, files |-> store.files]
    /\ DOMAIN store.files = DOMAIN request.store.files
    /\ Path \in DOMAIN store.files /\ File # FirstFile =>
         ~ Null(request.release) /\ File = request.release.content
    /\ DOMAIN reader = {"stage", "entry", "frame"}
    /\ DOMAIN start = {"entry", "data", "source"}

\* An entry that was verified describes a content of the file, and what was
\* read since is that content or a newer one.
ReaderInv ==
    /\ reader.stage \in {"found", "verified", "checked", "read", "loaded"} => Path \in DOMAIN store.files
    /\ reader.stage \in {"verified", "checked", "read", "loaded"} =>
         \E c : /\ Seen(c) /\ Data!Matches(c, reader.entry)
                /\ reader.stage = "read" => Seen(reader.frame) /\ Since(reader.frame, c)
                /\ reader.stage = "loaded" => reader.frame = c

\* The phases in which the run has its data.
HasData == phase \notin {"given", "verifying", "rejected", "loading"}

\* The same of the two readings of the run and the one of the evaluation.
DataInv ==
    /\ phase = "loading" \/ HasData =>
         /\ Path \in DOMAIN store.files
         /\ \E c : /\ Seen(c) /\ Data!Matches(c, start.entry)
                   /\ phase = "loading" /\ reader.stage \in {"read", "loaded"} =>
                         Since(reader.frame, c)
                   /\ HasData => Seen(start.data) /\ Since(start.data, c)
    /\ phase = "requested" /\ reader.stage \in {"read", "loaded"} =>
         Since(reader.frame, start.data)
    /\ phase \in {"resolving", "creating", "created", "training"} => reader.stage = "idle"

\* Equal hashes of what the disk has shown are equal contents.
LEMMA OneContent ==
    ASSUME DiskInv, Path \in DOMAIN store.files, NEW c, NEW d, Seen(c), Seen(d), c.sha256 = d.sha256
    PROVE  c = d
<1>1. CASE File = FirstFile
  BY <1>1 DEF Seen
<1>2. CASE File # FirstFile
  <2>1. /\ ~ Null(request.release) /\ File = request.release.content
        /\ request.release.content.sha256 = FirstFile.sha256 => request.release.content = FirstFile
    BY <1>2, RequestAssumption DEF DiskInv, FirstFile
  <2> QED
    BY <2>1 DEF Seen
<1> QED
  BY <1>1, <1>2

\* What an import and an access to the disk do to the disk and the reader.
LEMMA ReadSteps ==
    ASSUME DiskInv, Read
    PROVE  /\ UNCHANGED <<request, phase, start, store>>
           /\ phase \in {"verifying", "loading", "requested"}
           /\ DOMAIN reader' = {"stage", "entry", "frame"}
           /\ \/ reader'.stage = "refused"
              \/ reader'.stage = "found" /\ Path \in DOMAIN store.files
              \/ /\ reader'.stage = "verified" /\ reader'.entry = reader.entry
                 /\ Data!Matches(File, reader.entry) /\ reader.stage = "found"
              \/ /\ reader'.stage = "checked" /\ reader'.entry = reader.entry
                 /\ reader.stage = "verified" /\ phase # "verifying"
              \/ /\ reader'.stage = "read" /\ reader'.entry = reader.entry
                 /\ reader'.frame = File /\ reader.stage = "checked" /\ phase # "verifying"
              \/ /\ reader'.stage = "loaded" /\ reader'.entry = reader.entry
                 /\ reader'.frame = reader.frame /\ reader.stage = "read" /\ phase # "verifying"
                 /\ File.sha256 = reader.entry.sha256
<1>1. Data!ReadManifest(Path) => /\ UNCHANGED store /\ DOMAIN reader' = {"stage", "entry", "frame"}
                                 /\ \/ reader'.stage = "refused"
                                    \/ reader'.stage = "found" /\ Path \in DOMAIN store.files
  BY DEF Data!ReadManifest, Data!Advance, Data!Refused, Data!Idle
<1>2. Data!VerifyFile(Path) =>
        /\ UNCHANGED store /\ DOMAIN reader' = {"stage", "entry", "frame"}
        /\ \/ reader'.stage = "refused"
           \/ /\ reader'.stage = "verified" /\ reader'.entry = reader.entry
              /\ Data!Matches(File, reader.entry) /\ reader.stage = "found"
  BY DEF Data!VerifyFile, Data!Advance, Data!Refused, Data!Idle, DiskInv, File
<1>3. Data!ReadFrame(Path) =>
        /\ UNCHANGED store /\ DOMAIN reader' = {"stage", "entry", "frame"}
        /\ \/ reader'.stage = "refused"
           \/ /\ reader'.stage = "read" /\ reader'.entry = reader.entry
              /\ reader'.frame = File /\ reader.stage = "checked"
  BY DEF Data!ReadFrame, Data!Advance, Data!Refused, Data!Idle, DiskInv, File
<1>4. Data!VerifyAgain(Path) =>
        /\ UNCHANGED store /\ DOMAIN reader' = {"stage", "entry", "frame"}
        /\ \/ reader'.stage = "refused"
           \/ /\ reader'.stage = "loaded" /\ reader'.entry = reader.entry
              /\ reader'.frame = reader.frame /\ reader.stage = "read"
              /\ File.sha256 = reader.entry.sha256
  BY DEF Data!VerifyAgain, Data!Advance, Data!Refused, Data!Idle, DiskInv, File
<1>5. Data!CheckSchema(Path) =>
        /\ UNCHANGED store /\ DOMAIN reader' = {"stage", "entry", "frame"}
        /\ \/ reader'.stage = "refused"
           \/ /\ reader'.stage = "checked" /\ reader'.entry = reader.entry
              /\ reader.stage = "verified"
  BY DEF Data!CheckSchema, Data!Advance, Data!Refused, Data!Idle, DiskInv
<1> QED
  BY <1>1, <1>2, <1>3, <1>4, <1>5 DEF Read, Data!Verify, Data!Load

\* An import replaces the first content by the release, once.
LEMMA ImportSteps ==
    ASSUME DiskInv, Import
    PROVE  /\ UNCHANGED <<request, phase, start, reader>>
           /\ DiskInv'
           /\ Path' = Path /\ FirstFile' = FirstFile
           /\ DOMAIN store'.files = DOMAIN store.files
           /\ Path \in DOMAIN store.files => File' = File \/ File = FirstFile
<1>1. /\ UNCHANGED <<request, phase, start, reader>> /\ ~ Null(request.release)
      /\ Path' = Path /\ FirstFile' = FirstFile
  BY DEF Import, Data!ImportFile, Data!ImportManifest, Path, FirstFile
<1>2. CASE Data!ImportFile(Path, request.release.content)
  <2>1. /\ store' = [manifest |-> store'.manifest, files |-> store'.files]
        /\ store'.files = [store.files EXCEPT ![Path] = request.release.content]
        /\ File # request.release.content
    BY <1>2 DEF Data!ImportFile, DiskInv, File
  <2>2. DOMAIN store'.files = DOMAIN store.files
    BY <2>1
  <2>3. Path \in DOMAIN store.files => File = FirstFile /\ File' = request.release.content
    BY <1>1, <2>1 DEF File, DiskInv
  <2> QED
    BY <1>1, <2>1, <2>2, <2>3 DEF DiskInv
<1>3. CASE Data!ImportManifest(request.release.manifest)
  <2>1. /\ store' = [manifest |-> store'.manifest, files |-> store'.files]
        /\ store'.files = store.files
    BY <1>3 DEF Data!ImportManifest, DiskInv
  <2>2. File' = File
    BY <1>1, <2>1 DEF File
  <2> QED
    BY <1>1, <2>1, <2>2 DEF DiskInv
<1> QED
  BY <1>2, <1>3 DEF Import

\* The content a reader goes by, and what it has read, after a step.
LEMMA DiskKept ==
    ASSUME DiskInv, [Next]_vars
    PROVE  DiskInv'
<1>1. request' = request /\ Path' = Path /\ FirstFile' = FirstFile
  BY RequestStays DEF Path, FirstFile
<1>2. ASSUME UNCHANGED <<store, reader, start>> PROVE DiskInv'
  BY <1>1, <1>2 DEF DiskInv, File
<1>3. CASE Evaluate
  BY <1>2, <1>3, EvaluateFrame DEF inputs
<1>4. CASE Train /\ UNCHANGED evaluationVars
  BY <1>2, <1>4, TrainFrame
<1>5. CASE Configure \/ ReadingFails \/ CleanSource
  BY <1>2, <1>5 DEF Configure, ReadingFails, CleanSource
<1>6. CASE Read
  <2>1. UNCHANGED <<store, start>> /\ DOMAIN reader' = {"stage", "entry", "frame"}
    BY <1>6, ReadSteps
  <2> QED
    BY <1>1, <2>1 DEF DiskInv, File
<1>7. CASE KeepEntry \/ KeepFrame \/ Resolve
  <2>1. /\ store' = store /\ DOMAIN start' = {"entry", "data", "source"}
        /\ DOMAIN reader' = {"stage", "entry", "frame"}
    BY <1>7 DEF KeepEntry, KeepFrame, Resolve, Data!Idle, DiskInv
  <2> QED
    BY <1>1, <2>1 DEF DiskInv, File
<1>8. CASE Import
  BY <1>8, ImportSteps
<1>9. CASE UNCHANGED vars
  BY <1>2, <1>9 DEF vars, startVars
<1> QED
  BY <1>3, <1>4, <1>5, <1>6, <1>7, <1>8, <1>9, Steps

\* The reader's part.
LEMMA ReaderKept ==
    ASSUME DiskInv, ReaderInv, [Next]_vars
    PROVE  ReaderInv'
<1>1. request' = request /\ Path' = Path /\ FirstFile' = FirstFile
  BY RequestStays DEF Path, FirstFile
<1>2. ASSUME UNCHANGED <<store, reader>> PROVE ReaderInv'
  BY <1>1, <1>2 DEF ReaderInv, Seen, Since, File, Data!Matches
<1>3. CASE Evaluate
  BY <1>2, <1>3, EvaluateFrame DEF inputs
<1>4. CASE Train /\ UNCHANGED evaluationVars
  BY <1>2, <1>4, TrainFrame
<1>5. CASE Configure \/ ReadingFails \/ CleanSource \/ Resolve
  BY <1>2, <1>5 DEF Configure, ReadingFails, CleanSource, Resolve
<1>6. CASE Read
  <2>1. store' = store /\ File' = File
    BY <1>1, <1>6, ReadSteps DEF File
  <2>2. CASE \/ reader'.stage = "refused"
             \/ reader'.stage = "found" /\ Path \in DOMAIN store.files
    BY <1>1, <2>1, <2>2 DEF ReaderInv
  <2>3. CASE /\ reader'.stage = "verified" /\ reader'.entry = reader.entry
             /\ Data!Matches(File, reader.entry) /\ reader.stage = "found"
    BY <1>1, <2>1, <2>3 DEF ReaderInv, Seen, Since, Data!Matches
  <2>4. CASE /\ reader'.stage = "checked" /\ reader'.entry = reader.entry
             /\ reader.stage = "verified"
    BY <1>1, <2>1, <2>4 DEF ReaderInv, Seen, Since, Data!Matches
  <2>5. CASE /\ reader'.stage = "read" /\ reader'.entry = reader.entry
             /\ reader'.frame = File /\ reader.stage = "checked"
    BY <1>1, <2>1, <2>5 DEF ReaderInv, Seen, Since, Data!Matches
  <2>6. CASE /\ reader'.stage = "loaded" /\ reader'.entry = reader.entry
             /\ reader'.frame = reader.frame /\ reader.stage = "read"
             /\ File.sha256 = reader.entry.sha256
    <3>1. PICK c : /\ Seen(c) /\ Data!Matches(c, reader.entry)
                   /\ Seen(reader.frame) /\ Since(reader.frame, c)
      BY <2>6 DEF ReaderInv
    <3>2. Path \in DOMAIN store.files
      BY <2>6 DEF ReaderInv
    <3>3. c = File
      BY <2>6, <3>1, <3>2, OneContent DEF Data!Matches, Seen
    <3> QED
      BY <1>1, <2>1, <2>6, <3>1, <3>2, <3>3 DEF ReaderInv, Seen, Since, Data!Matches
  <2> QED
    BY <1>6, <2>2, <2>3, <2>4, <2>5, <2>6, ReadSteps
<1>7. CASE KeepEntry \/ KeepFrame
  BY <1>7 DEF KeepEntry, KeepFrame, ReaderInv, Data!Idle
<1>8. CASE Import
  <2>1. /\ reader' = reader /\ DOMAIN store'.files = DOMAIN store.files
        /\ Path \in DOMAIN store.files => File' = File \/ File = FirstFile
    BY <1>8, ImportSteps
  <2> QED
    BY <1>1, <2>1 DEF ReaderInv, Seen, Since, Data!Matches
<1>9. CASE UNCHANGED vars
  BY <1>2, <1>9 DEF vars, startVars
<1> QED
  BY <1>3, <1>4, <1>5, <1>6, <1>7, <1>8, <1>9, Steps

\* The part about the data of the run.
LEMMA DataKept ==
    ASSUME DiskInv, ReaderInv, DataInv, [Next]_vars
    PROVE  DataInv'
<1>1. request' = request /\ Path' = Path /\ FirstFile' = FirstFile
  BY RequestStays DEF Path, FirstFile
<1>2. ASSUME UNCHANGED <<store, reader, start>>,
             phase' = "loading" => phase = "loading",
             HasData' => HasData,
             phase' = "requested" => phase \in {"requested", "training"},
             phase' \in {"resolving", "creating", "created", "training"} =>
                 phase \in {"resolving", "creating", "created", "training"}
      PROVE  DataInv'
  BY <1>1, <1>2 DEF DataInv, HasData, Seen, Since, File, Data!Matches
<1>3. CASE Evaluate
  BY <1>2, <1>3, EvaluateFrame DEF inputs, HasData
<1>4. CASE Train /\ UNCHANGED evaluationVars
  <2>1. phase' = "requested" => phase = "training"
    BY <1>4 DEF Train, CreateRun, BeginTraining, CollectRollout, ReachBoundary
  <2> QED
    BY <1>2, <1>4, <2>1, TrainFrame DEF HasData
<1>5. CASE Configure \/ ReadingFails \/ CleanSource
  BY <1>2, <1>5 DEF Configure, ReadingFails, CleanSource, HasData
<1>6. CASE Read
  <2>1. /\ UNCHANGED <<phase, start, store>> /\ File' = File
        /\ phase \in {"verifying", "loading", "requested"}
    BY <1>1, <1>6, ReadSteps DEF File
  <2>2. reader'.stage \in {"read", "loaded"} =>
            \/ reader'.frame = File
            \/ reader'.frame = reader.frame /\ reader.stage = "read"
    BY <1>6, ReadSteps
  <2> QED
    BY <1>1, <2>1, <2>2 DEF DataInv, HasData, Seen, Since, Data!Matches
<1>7. CASE KeepEntry
  <2>1. PICK c : Path \in DOMAIN store.files /\ Seen(c) /\ Data!Matches(c, reader.entry)
    BY <1>7 DEF KeepEntry, ReaderInv
  <2>2. /\ store' = store /\ phase' = "loading" /\ start'.entry = reader.entry
        /\ reader'.stage = "idle"
    BY <1>7 DEF KeepEntry, Data!Idle, DiskInv
  <2> QED
    BY <1>1, <2>1, <2>2 DEF DataInv, HasData, Seen, Since, File, Data!Matches
<1>8. CASE KeepFrame
  <2>1. PICK c : /\ Path \in DOMAIN store.files /\ Seen(c) /\ Data!Matches(c, start.entry)
                 /\ Since(reader.frame, c)
    BY <1>8 DEF KeepFrame, DataInv
  <2>2. Seen(reader.frame)
    BY <1>8 DEF KeepFrame, ReaderInv
  <2>3. /\ store' = store /\ phase' = "resolving" /\ start'.entry = start.entry
        /\ start'.data = reader.frame /\ reader'.stage = "idle"
    BY <1>8 DEF KeepFrame, Data!Idle, DiskInv
  <2> QED
    BY <1>1, <2>1, <2>2, <2>3 DEF DataInv, HasData, Seen, Since, File, Data!Matches
<1>9. CASE Resolve
  <2>1. /\ UNCHANGED <<store, reader>> /\ phase = "resolving" /\ phase' \in {"creating", "rejected"}
        /\ start'.entry = start.entry /\ start'.data = start.data
    BY <1>9 DEF Resolve, DiskInv
  <2> QED
    BY <1>1, <2>1 DEF DataInv, HasData, Seen, Since, File, Data!Matches
<1>10. CASE Import
  <2>1. /\ UNCHANGED <<phase, start, reader>> /\ DOMAIN store'.files = DOMAIN store.files
        /\ Path \in DOMAIN store.files => File' = File \/ File = FirstFile
    BY <1>10, ImportSteps
  <2>2. phase = "requested" => HasData
    BY DEF HasData
  <2> QED
    BY <1>1, <2>1, <2>2 DEF DataInv, HasData, Seen, Since, Data!Matches
<1>11. CASE UNCHANGED vars
  BY <1>2, <1>11 DEF vars, startVars, HasData
<1> QED
  BY <1>3, <1>4, <1>5, <1>6, <1>7, <1>8, <1>9, <1>10, <1>11, Steps

-----------------------------------------------------------------------------
(* The row of the run, and the row of its evaluation *)

\* The columns of runs that no step of the training writes.
FixedColumns ==
    DOMAIN PendingRun \ {"status", "started", "finished", "error", "training_steps_completed"}

\* From its commit on the run keeps the columns it was made with.
RunInv ==
    /\ Uncommitted => run = NoValue
    /\ ~ Uncommitted => /\ DOMAIN run = DOMAIN PendingRun
                        /\ \A f \in FixedColumns : run[f] = PendingRun[f]

\* An evaluation has a row only for the very data of its run.
DataAgrees == reader.frame = start.data /\ run.data_sha256 = reader.frame.sha256

RowInv ==
    /\ phase \in {"pending", "running", "stepping", "completed"} => DataAgrees
    /\ row # NoValue =>
         DataAgrees /\ phase \in {"pending", "running", "stepping", "completed", "failed"}

\* The columns of a run are there, and no step of the training writes these.
LEMMA Columns ==
    /\ {"name", "continuation_mode", "source_checkpoint_id", "data_sha256"} \subseteq FixedColumns
    /\ PendingRun.name = request.config.run.name
    /\ PendingRun.continuation_mode = Continuation.mode
    /\ PendingRun.source_checkpoint_id = IF Null(start.source) THEN NoValue ELSE start.source.id
    /\ PendingRun.data_sha256 = start.entry.sha256
BY DEF PendingRun, FixedColumns

\* What a step writes of the run's row.
LEMMA RunWritten ==
    ASSUME Train
    PROVE  \/ run' = PendingRun /\ phase = "creating" /\ phase' = "created"
           \/ run' = run /\ (phase' = phase \/ (phase = "creating" /\ phase' = "rejected"))
           \/ /\ phase \in {"created", "training"} /\ phase' \in {"training", "failed", "requested"}
              /\ DOMAIN run' = DOMAIN run
              /\ \A f \in DOMAIN run \ {"status", "started", "finished", "error",
                                        "training_steps_completed"} : run'[f] = run[f]
<1>1. CASE CreateRun
  BY <1>1 DEF CreateRun
<1>2. CASE BeginTraining
  BY <1>2 DEF BeginTraining, FailedRun
<1>3. CASE CollectRollout
  BY <1>3 DEF CollectRollout
<1>4. CASE ReachBoundary
  BY <1>4 DEF ReachBoundary, FailedRun
<1> QED
  BY <1>1, <1>2, <1>3, <1>4 DEF Train

\* The new row depends on nothing but the request and the locals.
LEMMA PendingRunStays ==
    ASSUME UNCHANGED <<request, start>>
    PROVE  PendingRun' = PendingRun
<1>1. /\ Environment' = Environment /\ Batch' = Batch /\ Path' = Path /\ Rows' = Rows
      /\ TrainRatio' = TrainRatio /\ Continuation' = Continuation
      /\ (SplitByTime <=> SplitByTime')
  BY DEF Environment, Batch, Path, Rows, TrainRatio, SplitByTime, Continuation
<1>2. Lookback' = Lookback /\ RunSplitIndex' = RunSplitIndex
  BY <1>1 DEF Lookback, RunSplitIndex
<1>3. TrainRange' = TrainRange /\ ValidationRange' = ValidationRange
  BY <1>1 DEF TrainRange, ValidationRange, Located
<1>4. Split' = Split
  BY <1>1, <1>2, <1>3 DEF Split
<1>5. RequestedSteps' = RequestedSteps
  BY <1>1, <1>4 DEF RequestedSteps, RawSteps
<1> QED
  BY <1>1, <1>4, <1>5 DEF PendingRun

\* A run keeps the columns it was committed with.
LEMMA RunKept ==
    ASSUME RunInv, [Next]_vars
    PROVE  RunInv'
<1>1. request' = request
  BY RequestStays
<1>2. ASSUME start' = start PROVE PendingRun' = PendingRun /\ FixedColumns' = FixedColumns
  BY <1>1, <1>2, PendingRunStays DEF FixedColumns
<1>3. ASSUME UNCHANGED <<start, run>>, Uncommitted' <=> Uncommitted PROVE RunInv'
  BY <1>2, <1>3 DEF RunInv
<1>4. CASE Evaluate
  BY <1>3, <1>4, EvaluateFrame DEF inputs, Uncommitted
<1>5. CASE Train /\ UNCHANGED evaluationVars
  <2>1. start' = start /\ phase \in {"creating", "created", "training"}
    BY <1>5, TrainFrame
  <2>2. CASE run' = PendingRun /\ phase' = "created"
    BY <1>2, <2>1, <2>2 DEF RunInv, FixedColumns, Uncommitted
  <2>3. CASE run' = run /\ (phase' = phase \/ (phase = "creating" /\ phase' = "rejected"))
    BY <1>2, <1>3, <2>1, <2>3 DEF RunInv, Uncommitted
  <2>4. CASE /\ phase \in {"created", "training"} /\ phase' \in {"training", "failed", "requested"}
             /\ DOMAIN run' = DOMAIN run
             /\ \A f \in DOMAIN run \ {"status", "started", "finished", "error",
                                       "training_steps_completed"} : run'[f] = run[f]
    BY <1>2, <2>1, <2>4 DEF RunInv, Uncommitted, FixedColumns
  <2> QED
    BY <1>5, <2>2, <2>3, <2>4, RunWritten
<1>6. CASE Configure \/ Read \/ ReadingFails \/ KeepEntry \/ KeepFrame \/ Resolve
  <2>1. \/ phase' = phase /\ UNCHANGED <<start, run>>
        \/ Uncommitted /\ Uncommitted' /\ run' = run
    BY <1>6 DEF Configure, Read, ReadingFails, KeepEntry, KeepFrame, Resolve, Uncommitted
  <2> QED
    BY <1>3, <2>1 DEF RunInv, Uncommitted
<1>7. CASE Import \/ CleanSource \/ UNCHANGED vars
  BY <1>3, <1>7 DEF Import, CleanSource, vars, startVars, Uncommitted
<1> QED
  BY <1>4, <1>5, <1>6, <1>7, Steps

\* No evaluation is answered for other data than the run was trained on.
LEMMA AnswerMatches ==
    ASSUME DiskInv, ReaderInv, DataInv, RunInv, phase = "requested",
           reader.stage = "loaded", SourceDataMatches
    PROVE  reader.frame = start.data /\ run.data_sha256 = reader.frame.sha256
<1>1. reader.entry.sha256 = run.data_sha256
  BY DEF SourceDataMatches
<1>2. run.data_sha256 = start.entry.sha256
  BY Columns DEF RunInv, Uncommitted
<1>3. /\ Seen(reader.frame) /\ reader.frame.sha256 = reader.entry.sha256
  BY DEF ReaderInv, Data!Matches
<1>4. PICK c : /\ Path \in DOMAIN store.files /\ Seen(c) /\ c.sha256 = start.entry.sha256
               /\ Seen(start.data) /\ Since(start.data, c)
  BY DEF DataInv, HasData, Data!Matches
<1>5. c = reader.frame
  BY <1>1, <1>2, <1>3, <1>4, OneContent
<1>6. Since(reader.frame, start.data)
  BY DEF DataInv
<1> QED
  BY <1>1, <1>2, <1>3, <1>4, <1>5, <1>6 DEF Since

\* The part about the evaluation's row.
LEMMA RowKept ==
    ASSUME DiskInv, ReaderInv, DataInv, RunInv, RowInv, [Next]_vars
    PROVE  RowInv'
<1>1. CASE Evaluate
  <2>1. UNCHANGED <<reader, start, run>>
    BY <1>1, EvaluateFrame DEF inputs
  <2>2. CASE CreatePending
    BY <2>1, <2>2, AnswerMatches DEF CreatePending, Answered, RowInv, DataAgrees
  <2>3. CASE Unreadable \/ Refuse
    BY <2>1, <2>3 DEF Unreadable, Refuse, Answered, RowInv, evaluationVars
  <2>4. CASE MarkRunning \/ Prepare \/ PrepareFails \/ Step \/ Finish
    <3>1. /\ phase \in {"pending", "running", "stepping"}
          /\ phase' \in {"running", "stepping", "completed", "failed"}
      BY <1>1, <2>4, EvaluateFrame DEF MarkRunning, Prepare, PrepareFails, Step, Finish
    <3> QED
      BY <2>1, <3>1 DEF RowInv, DataAgrees
  <2> QED
    BY <1>1, <2>2, <2>3, <2>4 DEF Evaluate
<1>2. CASE Train /\ UNCHANGED evaluationVars
  BY <1>2, TrainFrame DEF RowInv, evaluationVars
<1>3. CASE /\ UNCHANGED evaluationVars
           /\ Configure \/ Read \/ ReadingFails \/ KeepEntry \/ KeepFrame \/ Resolve
  <2>1. phase \in {"given", "verifying", "loading", "resolving", "requested"}
    BY <1>3 DEF Configure, Read, ReadingFails, KeepEntry, KeepFrame, Resolve
  <2>2. phase' \notin {"pending", "running", "stepping", "completed"}
    BY <1>3, <2>1 DEF Configure, Read, ReadingFails, KeepEntry, KeepFrame, Resolve
  <2> QED
    BY <1>3, <2>1, <2>2 DEF RowInv, evaluationVars
<1>4. CASE ((Import \/ CleanSource) /\ UNCHANGED evaluationVars) \/ UNCHANGED vars
  <2>1. UNCHANGED <<phase, reader, start, run, row>>
    BY <1>4 DEF Import, CleanSource, Data!ImportFile, Data!ImportManifest, vars, startVars,
       evaluationVars
  <2> QED
    BY <2>1 DEF RowInv, DataAgrees
<1> QED
  BY <1>1, <1>2, <1>3, <1>4, Steps

-----------------------------------------------------------------------------
(* What a resumed run continues *)

Resumes == Continuation.mode = "resume"

\* The only run of its name is cleaned away or nothing is.
CatalogInv == catalog = request.catalog \/ SourceRuns = {}

\* What was resolved is still what the configuration selects, or its run has
\* been cleaned away; the committed row keeps it.
SourceInv ==
    /\ Resumes /\ (phase = "creating" \/ ~ Uncommitted) =>
         start.source \in request.catalog.checkpoints
    /\ Resumes /\ phase = "creating" => start.source \in Sources \/ SourceRuns = {}
    /\ Resumes /\ ~ Uncommitted => start.source \in Sources

\* The model of a resumed run is the verified file of its source.
ModelContinues ==
    /\ Ppo!ArtifactVerified(start.source, request.files)
    /\ {"origin", "policy"} \subseteq DOMAIN model
    /\ model.origin = start.source.sha256
    /\ model.policy = request.files[start.source.id].policy

ModelInv ==
    /\ Uncommitted \/ phase = "created" => model = NoValue
    /\ Resumes /\ (phase = "training" \/ model # NoValue) => ModelContinues

\* What is selected depends on the request and the catalog only.
LEMMA SourcesStay ==
    ASSUME UNCHANGED <<request, catalog>>
    PROVE  Sources' = Sources /\ SourceRuns' = SourceRuns /\ (Resumes' <=> Resumes)
<1>1. Continuation' = Continuation /\ SourceRuns' = SourceRuns
  BY DEF Continuation, SourceRuns
<1>2. \A r : Scored(r)' = Scored(r)
  BY DEF Scored
<1>3. \A r, c : Selects(Continuation.checkpoint, r, c)' <=> Selects(Continuation.checkpoint, r, c)
  BY <1>1, <1>2 DEF Selects
<1> QED
  BY <1>1, <1>3 DEF Sources, Resumes

\* A source run that is cleaned away was the only one of its name.
LEMMA CleanSteps ==
    ASSUME request \in Requests, CatalogInv, CleanSource
    PROVE  SourceRuns' = {} /\ Sources' = {}
<1>1. PICK r \in SourceRuns : catalog'.runs = catalog.runs \ {r}
  BY DEF CleanSource
<1>2. catalog = request.catalog
  BY <1>1 DEF CatalogInv
<1>3. \A q \in catalog.runs : q.name = r.name => q = r
  BY <1>1, <1>2, RequestAssumption DEF SourceRuns
<1>4. SourceRuns' = {q \in catalog'.runs : q.name = Continuation.source_run}
  BY DEF CleanSource, SourceRuns, Continuation
<1>5. SourceRuns' = {}
  BY <1>1, <1>3, <1>4 DEF SourceRuns
<1> QED
  BY <1>5 DEF Sources

\* The steps but Resolve and CleanSource leave the source alone.
LEMMA SourceFrame ==
    ASSUME [Next]_vars, ~ Resolve, ~ CleanSource
    PROVE  /\ UNCHANGED <<request, catalog>>
           /\ \/ /\ UNCHANGED <<start, model>>
                 /\ phase' = "creating" => phase = "creating"
                 /\ Uncommitted' \/ phase' = "created" =>
                        Uncommitted \/ phase = "created"
                 /\ ~ Uncommitted' => ~ Uncommitted \/ CreateRun
                 /\ phase' = "training" => phase = "training"
              \/ Uncommitted /\ Uncommitted' /\ phase' # "creating" /\ model' = model
              \/ BeginTraining \/ CollectRollout
<1>1. CASE Evaluate
  BY <1>1, EvaluateFrame DEF inputs, ppoVars, Uncommitted
<1>2. CASE Train /\ UNCHANGED evaluationVars
  <2>1. CreateRun => UNCHANGED model
    BY DEF CreateRun, ppoVars
  <2>2. ReachBoundary => UNCHANGED model
    BY DEF ReachBoundary, Ppo!ReachBoundary, ppoVars
  <2> QED
    BY <1>2, <2>1, <2>2, TrainFrame DEF Train, Uncommitted, CreateRun, ReachBoundary
<1>3. CASE KeepEntry \/ KeepFrame
  BY <1>3 DEF KeepEntry, KeepFrame, Uncommitted, ppoVars
<1>4. CASE Configure \/ Read \/ ReadingFails \/ Import
  BY <1>4 DEF Configure, Read, ReadingFails, Import, Uncommitted, ppoVars
<1>5. CASE UNCHANGED vars
  BY <1>5 DEF vars, startVars, Uncommitted, ppoVars
<1> QED
  BY <1>1, <1>2, <1>3, <1>4, <1>5, Steps

\* The source of a run to be made is not cleaned away after it is read, or
\* it is found missing when the row is committed.
LEMMA SourceKept ==
    ASSUME DiskInv, CatalogInv, SourceInv, [Next]_vars
    PROVE  CatalogInv' /\ SourceInv'
<1>1. CASE CleanSource
  <2>1. /\ SourceRuns' = {} /\ phase' = phase /\ Uncommitted
        /\ UNCHANGED <<request, start>>
    BY <1>1, CleanSteps DEF CleanSource, DiskInv
  <2> QED
    BY <2>1 DEF CatalogInv, SourceInv, Uncommitted, Resumes, Continuation
<1>2. CASE Resolve
  <2>1. UNCHANGED <<request, catalog>> /\ phase' \in {"creating", "rejected"}
    BY <1>2 DEF Resolve
  <2>2. Resumes /\ phase' = "creating" => start'.source \in Sources
    <3> SUFFICES ASSUME Resumes, phase' = "creating" PROVE start'.source \in Sources
      OBVIOUS
    <3>1. Sources # {}
      BY <1>2 DEF Resolve, Resolvable, Resumes
    <3>2. start'.source = CHOOSE c \in Sources : TRUE
      BY <1>2 DEF Resolve, Resumes, DiskInv
    <3> QED
      BY <3>1, <3>2
  <2>3. Sources # {} => SourceRuns # {}
    BY DEF Sources
  <2>4. Sources \subseteq catalog.checkpoints
    BY DEF Sources
  <2> QED
    BY <2>1, <2>2, <2>3, <2>4, SourcesStay DEF CatalogInv, SourceInv, Uncommitted
<1>3. CASE CreateRun
  <2>1. UNCHANGED <<request, catalog, start>> /\ phase = "creating"
        /\ phase' \in {"created", "rejected"}
    BY <1>3 DEF CreateRun
  <2>2. Resumes /\ phase' = "created" => start.source \in Sources
    <3>1. Resumes => ~ Null(start.source)
      BY <2>1, RequestAssumption DEF SourceInv, DiskInv
    <3>2. phase' = "created" => SourceStillThere
      BY <1>3 DEF CreateRun
    <3> QED
      BY <2>1, <3>1, <3>2 DEF SourceStillThere, SourceInv
  <2> QED
    BY <2>1, <2>2, SourcesStay DEF CatalogInv, SourceInv, Uncommitted
<1>4. CASE BeginTraining \/ CollectRollout
  <2>1. UNCHANGED <<request, catalog, start>> /\ ~ Uncommitted /\ ~ Uncommitted'
    BY <1>4 DEF BeginTraining, CollectRollout, Uncommitted
  <2> QED
    BY <2>1, SourcesStay DEF CatalogInv, SourceInv, Uncommitted
<1>5. CASE ~ (CleanSource \/ Resolve \/ CreateRun \/ BeginTraining \/ CollectRollout)
  BY <1>5, SourceFrame, SourcesStay DEF CatalogInv, SourceInv, Uncommitted
<1> QED
  BY <1>1, <1>2, <1>3, <1>4, <1>5

\* A resumed model comes from the checkpoint its run names.
LEMMA ModelKept ==
    ASSUME DiskInv, SourceInv, ModelInv, [Next]_vars
    PROVE  ModelInv'
<1>0. request' = request /\ (Resumes' <=> Resumes)
  BY RequestStays DEF Resumes, Continuation
<1>1. CASE BeginTraining
  <2>1. /\ phase = "created" /\ start' = start /\ model = NoValue
        /\ ~ Uncommitted /\ phase' \in {"training", "failed"}
    BY <1>1 DEF BeginTraining, ModelInv, Uncommitted
  <2>2. CASE Trainable /\ SourceLoads
    <3>1. model' = InitialModel
      BY <1>1, <2>2 DEF BeginTraining, Ppo!Begin
    <3>2. Resumes => ~ Null(start.source)
      BY <2>1, RequestAssumption DEF SourceInv, DiskInv
    <3>3. Resumes => ModelContinues'
      BY <1>0, <2>1, <2>2, <3>1, <3>2 DEF InitialModel, Ppo!LoadedModel, SourceLoads, Ppo!ModelLoads,
         Ppo!ArtifactVerified, ModelContinues, ppoVars
    <3> QED
      BY <1>0, <1>1, <2>1, <2>2, <3>3 DEF ModelInv, Uncommitted, BeginTraining
  <2>3. CASE ~ (Trainable /\ SourceLoads)
    BY <1>0, <1>1, <2>1, <2>3 DEF BeginTraining, ModelInv, ppoVars, Uncommitted
  <2> QED
    BY <2>2, <2>3
<1>2. CASE CollectRollout
  <2>1. UNCHANGED <<request, start, phase>> /\ phase = "training"
        /\ \E n : model' = [model EXCEPT !.num_timesteps = n]
    BY <1>2 DEF CollectRollout, Ppo!CollectRollout
  <2>2. ModelContinues => ModelContinues'
    BY <2>1 DEF ModelContinues, Ppo!ArtifactVerified
  <2> QED
    BY <1>0, <2>1, <2>2 DEF ModelInv, Uncommitted
<1>3. CASE Resolve \/ CleanSource
  BY <1>3 DEF Resolve, CleanSource, ModelInv, Uncommitted, ppoVars
<1>4. CASE ~ (CleanSource \/ Resolve \/ BeginTraining \/ CollectRollout)
  <2>1. UNCHANGED <<start, model>> /\ ModelContinues => ModelContinues'
    BY <1>0 DEF ModelContinues, Ppo!ArtifactVerified
  <2>2. CreateRun => phase' # "training"
    BY DEF CreateRun
  <2> QED
    BY <1>0, <1>4, <2>1, <2>2, SourceFrame DEF ModelInv, Uncommitted
<1> QED
  BY <1>1, <1>2, <1>3, <1>4

-----------------------------------------------------------------------------
(* Division *)

\* Multiples of n are n apart.
LEMMA Multiples ==
    ASSUME NEW n \in Nat \ {0}, NEW d \in Int, NEW e \in Int
    PROVE  /\ d * n \in Int /\ (d + 1) * n = d * n + n
           /\ d < e => d * n + n <= e * n
<1>1. d * n \in Int /\ e * n \in Int /\ (d + 1) * n = d * n + n
  OBVIOUS
<1>2. ASSUME d < e PROVE d * n + n <= e * n
  <2>1. PICK k \in Nat : e = d + 1 + k
    <3>1. e - d - 1 \in Nat /\ e = d + 1 + (e - d - 1)
      BY <1>2
    <3> QED
      BY <3>1
  <2>2. e * n = d * n + n + k * n
    BY <2>1
  <2>3. k * n \in Nat
    BY <2>1
  <2> QED
    BY <1>1, <2>2, <2>3
<1> QED
  BY <1>1, <1>2

\* Every number has a quotient and a remainder,
LEMMA Division ==
    ASSUME NEW n \in Nat \ {0}, NEW x \in Int
    PROVE  /\ x \div n \in Int /\ x % n \in 0 .. n - 1
           /\ x = (x \div n) * n + (x % n)
OBVIOUS

\* and no others.
LEMMA DivisionIsUnique ==
    ASSUME NEW n \in Nat \ {0}, NEW x \in Int, NEW d \in Int, NEW m \in 0 .. n - 1, x = d * n + m
    PROVE  x \div n = d /\ x % n = m
<1> DEFINE e == x \div n
<1>1. e \in Int /\ x % n \in 0 .. n - 1 /\ x = e * n + (x % n)
  BY Division
<1>2. ~ d < e
  <2>1. d < e => d * n + n <= e * n
    BY <1>1, Multiples
  <2> QED
    BY <1>1, <2>1, Multiples
<1>3. ~ e < d
  <2>1. e < d => e * n + n <= d * n
    BY <1>1, Multiples
  <2> QED
    BY <1>1, <2>1, Multiples
<1>4. e = d
  BY <1>1, <1>2, <1>3
<1> QED
  BY <1>1, <1>4, Multiples

-----------------------------------------------------------------------------
(* Nights and weekends *)

\* Opening and closing of a day fall on that day, at these times.
LEMMA DayHours ==
    ASSUME NEW d \in Int
    PROVE  /\ AtOpen(d) \in Int /\ AtClose(d) \in Int
           /\ MarketDay(AtOpen(d)) = d /\ MarketMinutes(AtOpen(d)) = RthOpen
           /\ MarketDay(AtClose(d)) = d /\ MarketMinutes(AtClose(d)) = RthClose
<1>1. /\ DayTicks \in Nat \ {0} /\ MarketOffset \in Int
      /\ RthOpen \in 0 .. DayTicks - 1 /\ RthClose \in 0 .. DayTicks - 1
  BY CalendarAssumption
<1>2. d * DayTicks \in Int
  BY <1>1, Multiples
<1>3. /\ AtOpen(d) + MarketOffset = d * DayTicks + RthOpen
      /\ AtClose(d) + MarketOffset = d * DayTicks + RthClose
      /\ AtOpen(d) \in Int /\ AtClose(d) \in Int
  BY <1>1, <1>2 DEF AtOpen, AtClose
<1>4. /\ AtOpen(d) + MarketOffset \in Int /\ AtClose(d) + MarketOffset \in Int
  BY <1>1, <1>3
<1>5. /\ (AtOpen(d) + MarketOffset) \div DayTicks = d
      /\ (AtOpen(d) + MarketOffset) % DayTicks = RthOpen
  BY <1>1, <1>3, <1>4, DivisionIsUnique
<1>6. /\ (AtClose(d) + MarketOffset) \div DayTicks = d
      /\ (AtClose(d) + MarketOffset) % DayTicks = RthClose
  BY <1>1, <1>3, <1>4, DivisionIsUnique
<1> QED
  BY <1>3, <1>5, <1>6 DEF MarketDay, MarketMinutes

\* Where a tick lies among the hours of the days.
LEMMA TickHours ==
    ASSUME NEW t \in Int
    PROVE  /\ MarketDay(t) \in Int /\ MarketMinutes(t) \in 0 .. DayTicks - 1
           /\ t = AtOpen(MarketDay(t)) + MarketMinutes(t) - RthOpen
           /\ t = AtClose(MarketDay(t)) + MarketMinutes(t) - RthClose
<1>1. /\ DayTicks \in Nat \ {0} /\ MarketOffset \in Int
      /\ RthOpen \in 0 .. DayTicks - 1 /\ RthClose \in 0 .. DayTicks - 1
  BY CalendarAssumption
<1> DEFINE d == MarketDay(t)
           m == MarketMinutes(t)
<1>2. d \in Int /\ m \in 0 .. DayTicks - 1 /\ t + MarketOffset = d * DayTicks + m
  <2>1. t + MarketOffset \in Int
    BY <1>1
  <2> QED
    BY <1>1, <2>1, Division DEF MarketDay, MarketMinutes
<1>3. d * DayTicks \in Int
  BY <1>1, <1>2, Multiples
<1> QED
  BY <1>1, <1>2, <1>3 DEF AtOpen, AtClose

\* A later day closes, and opens, at least a day later.
LEMMA LaterDay ==
    ASSUME NEW d \in Int, NEW e \in Int, d < e
    PROVE  AtOpen(d) + DayTicks <= AtOpen(e) /\ AtClose(d) + DayTicks <= AtClose(e)
<1>1. /\ DayTicks \in Nat \ {0} /\ {MarketOffset, RthOpen, RthClose} \subseteq Int
  BY CalendarAssumption
<1>2. d * DayTicks \in Int /\ e * DayTicks \in Int /\ d * DayTicks + DayTicks <= e * DayTicks
  BY <1>1, Multiples
<1> QED
  BY <1>1, <1>2 DEF AtOpen, AtClose

\* The weekday before a day, with no weekday between.
LEMMA WeekdayBefore ==
    ASSUME NEW d \in Int
    PROVE  /\ PreviousWeekday(d) \in Int /\ PreviousWeekday(d) < d
           /\ Weekday(PreviousWeekday(d)) < 5
           /\ \A e \in (PreviousWeekday(d) + 1) .. (d - 1) : ~ Weekday(e) < 5
<1> DEFINE S == {e \in (d - 3) .. (d - 1) : Weekday(e) < 5}
<1>1. \E e \in S : \A f \in S : e >= f
  <2>1. CASE Weekday(d - 1) < 5
    BY <2>1 DEF Weekday
  <2>2. CASE ~ Weekday(d - 1) < 5 /\ Weekday(d - 2) < 5
    BY <2>2 DEF Weekday
  <2>3. CASE ~ Weekday(d - 1) < 5 /\ ~ Weekday(d - 2) < 5
    BY <2>3 DEF Weekday
  <2> QED
    BY <2>1, <2>2, <2>3
<1>2. PreviousWeekday(d) \in S /\ \A f \in S : PreviousWeekday(d) >= f
  BY <1>1 DEF PreviousWeekday, Max
<1> QED
  BY <1>2

\* The weekday after a day, with no weekday between.
LEMMA WeekdayAfter ==
    ASSUME NEW d \in Int
    PROVE  /\ NextWeekday(d) \in Int /\ d < NextWeekday(d)
           /\ Weekday(NextWeekday(d)) < 5
           /\ \A e \in (d + 1) .. (NextWeekday(d) - 1) : ~ Weekday(e) < 5
<1> DEFINE S == {e \in (d + 1) .. (d + 3) : Weekday(e) < 5}
<1>1. \E e \in S : \A f \in S : f >= e
  <2>1. CASE Weekday(d + 1) < 5
    BY <2>1 DEF Weekday
  <2>2. CASE ~ Weekday(d + 1) < 5 /\ Weekday(d + 2) < 5
    BY <2>2 DEF Weekday
  <2>3. CASE ~ Weekday(d + 1) < 5 /\ ~ Weekday(d + 2) < 5
    BY <2>3 DEF Weekday
  <2> QED
    BY <2>1, <2>2, <2>3
<1>2. NextWeekday(d) \in S /\ \A f \in S : f >= NextWeekday(d)
  BY <1>1 DEF NextWeekday, Min
<1> QED
  BY <1>2

\* Between the close of one weekday and the open of a later one, with no
\* weekday between, no tick is within the trading hours.
LEMMA ClosedBetween ==
    ASSUME NEW p \in Int, NEW n \in Int, p < n, NEW x \in Int,
           \A d \in (p + 1) .. (n - 1) : ~ Weekday(d) < 5,
           AtClose(p) < x, x < AtOpen(n)
    PROVE  ~ InRth(x)
<1> DEFINE d == MarketDay(x)
<1>1. /\ RthOpen \in 0 .. DayTicks - 1 /\ RthClose \in 0 .. DayTicks - 1 /\ DayTicks \in Nat \ {0}
      /\ RthOpen < RthClose
  BY CalendarAssumption
<1>2. /\ d \in Int /\ MarketMinutes(x) \in 0 .. DayTicks - 1
      /\ x = AtOpen(d) + MarketMinutes(x) - RthOpen
      /\ x = AtClose(d) + MarketMinutes(x) - RthClose
  BY TickHours
<1>3. AtOpen(d) \in Int /\ AtClose(d) \in Int /\ AtOpen(n) \in Int /\ AtClose(p) \in Int
  BY <1>2, DayHours
<1>4. ~ d < p
  <2>1. d < p => AtClose(d) + DayTicks <= AtClose(p)
    BY <1>2, LaterDay
  <2> QED
    BY <1>1, <1>2, <1>3, <2>1
<1>5. ~ n < d
  <2>1. n < d => AtOpen(n) + DayTicks <= AtOpen(d)
    BY <1>2, LaterDay
  <2> QED
    BY <1>1, <1>2, <1>3, <2>1
<1>6. CASE d = p
  BY <1>1, <1>2, <1>3, <1>6 DEF InRth
<1>7. CASE d = n
  BY <1>1, <1>2, <1>3, <1>7 DEF InRth
<1>8. CASE d \in (p + 1) .. (n - 1)
  BY <1>8 DEF InRth
<1> QED
  BY <1>2, <1>4, <1>5, <1>6, <1>7, <1>8

\* A tick outside the trading hours lies in the one closed span around it.
LEMMA ClosedSpan ==
    ASSUME NEW t \in Int, ~ InRth(t)
    PROVE  LET span == OvernightSpan(t)
           IN  /\ span.start < t /\ t < span.end
               /\ InRth(span.start) /\ InRth(span.end)
               /\ \A x \in (span.start + 1) .. (span.end - 1) : ~ InRth(x)
<1> DEFINE day == MarketDay(t)
           m == MarketMinutes(t)
           early == Weekday(day) < 5 /\ t < AtOpen(day)
           late == Weekday(day) < 5 /\ t > AtClose(day)
           p == IF late THEN day ELSE PreviousWeekday(day)
           n == IF early THEN day ELSE NextWeekday(day)
<1>1. /\ RthOpen \in 0 .. DayTicks - 1 /\ RthClose \in 0 .. DayTicks - 1 /\ DayTicks \in Nat \ {0}
      /\ RthOpen < RthClose
  BY CalendarAssumption
<1>2. /\ day \in Int /\ m \in 0 .. DayTicks - 1
      /\ t = AtOpen(day) + m - RthOpen /\ t = AtClose(day) + m - RthClose
      /\ AtOpen(day) \in Int /\ AtClose(day) \in Int
  BY TickHours, DayHours
<1>3. Weekday(day) < 5 => early \/ late
  BY <1>1, <1>2 DEF InRth
<1>4. ~ (early /\ late)
  BY <1>1, <1>2
<1>5. /\ PreviousWeekday(day) \in Int /\ PreviousWeekday(day) < day
      /\ Weekday(PreviousWeekday(day)) < 5
      /\ \A e \in (PreviousWeekday(day) + 1) .. (day - 1) : ~ Weekday(e) < 5
  BY <1>2, WeekdayBefore
<1>6. /\ NextWeekday(day) \in Int /\ day < NextWeekday(day)
      /\ Weekday(NextWeekday(day)) < 5
      /\ \A e \in (day + 1) .. (NextWeekday(day) - 1) : ~ Weekday(e) < 5
  BY <1>2, WeekdayAfter
<1>7. OvernightSpan(t).start = AtClose(p) /\ OvernightSpan(t).end = AtOpen(n)
  BY DEF OvernightSpan
<1>8. /\ p \in Int /\ n \in Int /\ p < n /\ Weekday(p) < 5 /\ Weekday(n) < 5
      /\ \A e \in (p + 1) .. (n - 1) : ~ Weekday(e) < 5
  <2>1. p \in Int /\ n \in Int /\ p < n /\ Weekday(p) < 5 /\ Weekday(n) < 5
    BY <1>2, <1>3, <1>4, <1>5, <1>6
  <2>2. CASE late
    BY <1>2, <1>4, <1>6, <2>2
  <2>3. CASE early
    BY <1>2, <1>4, <1>5, <2>3
  <2>4. CASE ~ early /\ ~ late
    BY <1>2, <1>3, <1>5, <1>6, <2>4
  <2> QED
    BY <2>1, <2>2, <2>3, <2>4
<1>9. AtClose(p) < t
  <2>1. CASE late
    BY <2>1
  <2>2. CASE ~ late
    <3>1. AtClose(p) \in Int /\ AtClose(p) + DayTicks <= AtClose(day)
      BY <1>2, <1>5, <2>2, LaterDay, DayHours
    <3> QED
      BY <1>1, <1>2, <3>1
  <2> QED
    BY <2>1, <2>2
<1>10. t < AtOpen(n)
  <2>1. CASE early
    BY <2>1
  <2>2. CASE ~ early
    <3>1. AtOpen(n) \in Int /\ AtOpen(day) + DayTicks <= AtOpen(n)
      BY <1>2, <1>6, <2>2, LaterDay, DayHours
    <3> QED
      BY <1>1, <1>2, <3>1
  <2> QED
    BY <2>1, <2>2
<1>11. InRth(AtClose(p)) /\ InRth(AtOpen(n))
  BY <1>1, <1>8, DayHours DEF InRth
<1>12. AtClose(p) \in Int /\ AtOpen(n) \in Int
  BY <1>8, DayHours
<1>13. \A x \in (AtClose(p) + 1) .. (AtOpen(n) - 1) : ~ InRth(x)
  <2> HIDE DEF p, n
  <2> QED
    BY <1>8, <1>12, ClosedBetween
<1> QED
  BY <1>7, <1>9, <1>10, <1>11, <1>13

-----------------------------------------------------------------------------
(* The warning before a rollover *)

\* The time of the day a few ticks later.
LEMMA TimeLater ==
    ASSUME NEW t \in Int, NEW k \in 0 .. DayTicks - 1
    PROVE  /\ SwapMinutes(t) \in 0 .. DayTicks - 1
           /\ SwapMinutes(t + k) = IF SwapMinutes(t) + k < DayTicks THEN SwapMinutes(t) + k
                                   ELSE SwapMinutes(t) + k - DayTicks
<1>1. DayTicks \in Nat \ {0} /\ SwapOffset \in Int
  BY CalendarAssumption
<1> DEFINE x == t + SwapOffset
           d == x \div DayTicks
           m == x % DayTicks
<1>2. x \in Int /\ d \in Int /\ m \in 0 .. DayTicks - 1 /\ x = d * DayTicks + m
  BY <1>1, Division
<1>3. d * DayTicks \in Int /\ (d + 1) * DayTicks = d * DayTicks + DayTicks
  BY <1>1, <1>2, Multiples
<1> HIDE DEF d, m
<1>4. CASE m + k < DayTicks
  <2>1. x + k \in Int /\ m + k \in 0 .. DayTicks - 1 /\ x + k = d * DayTicks + (m + k)
    BY <1>1, <1>2, <1>3, <1>4
  <2>2. (x + k) % DayTicks = m + k
    BY <1>1, <1>2, <2>1, DivisionIsUnique
  <2> QED
    BY <1>1, <1>2, <1>4, <2>2 DEF SwapMinutes, m
<1>5. CASE ~ m + k < DayTicks
  <2>1. /\ x + k \in Int /\ m + k - DayTicks \in 0 .. DayTicks - 1 /\ d + 1 \in Int
        /\ x + k = (d + 1) * DayTicks + (m + k - DayTicks)
    BY <1>1, <1>2, <1>3, <1>5
  <2>2. (x + k) % DayTicks = m + k - DayTicks
    BY <1>1, <2>1, DivisionIsUnique
  <2> QED
    BY <1>1, <1>2, <1>5, <2>2 DEF SwapMinutes, m
<1> QED
  BY <1>4, <1>5

\* Where the window before a rollover begins.
LEMMA WindowStart ==
    ASSUME NEW s \in 0 .. DayTicks - 1
    PROVE  (s - PreSwapTicks) % DayTicks = IF s >= PreSwapTicks THEN s - PreSwapTicks
                                           ELSE s - PreSwapTicks + DayTicks
<1>1. DayTicks \in Nat \ {0} /\ PreSwapTicks \in Nat \ {0} /\ PreSwapTicks < DayTicks
  BY CalendarAssumption
<1>2. CASE s >= PreSwapTicks
  BY <1>1, <1>2, DivisionIsUnique
<1>3. CASE ~ s >= PreSwapTicks
  <2>1. s - PreSwapTicks = (-1) * DayTicks + (s - PreSwapTicks + DayTicks)
    BY <1>1
  <2>2. s - PreSwapTicks \in Int /\ s - PreSwapTicks + DayTicks \in 0 .. DayTicks - 1 /\ -1 \in Int
    BY <1>1, <1>3
  <2> QED
    BY <1>1, <1>3, <2>1, <2>2, DivisionIsUnique
<1> QED
  BY <1>2, <1>3

\* The warning is on exactly when a rollover is due within its window, and
\* says how long ago the window began.
LEMMA WarningIsExact ==
    ASSUME NEW t \in Int, NEW s \in 0 .. DayTicks - 1
    PROVE  /\ PreSwapActive(t, s) <=> \E x \in t .. (t + PreSwapTicks) : SwapMinutes(x) = s
           /\ PreSwapActive(t, s) =>
                  SwapMinutes(t + PreSwapTicks - PreSwapElapsed(t, s)) = s
<1> DEFINE now == SwapMinutes(t)
           from == IF s >= PreSwapTicks THEN s - PreSwapTicks ELSE s - PreSwapTicks + DayTicks
           ahead == IF s >= now THEN s - now ELSE s - now + DayTicks
<1>1. /\ DayTicks \in Nat \ {0} /\ PreSwapTicks \in Nat \ {0} /\ PreSwapTicks < DayTicks
  BY CalendarAssumption
<1>2. now \in 0 .. DayTicks - 1
  BY <1>1, TimeLater
<1>3. PreSwapActive(t, s) <=> ahead <= PreSwapTicks
  BY <1>1, <1>2, WindowStart DEF PreSwapActive
<1>4. ahead \in 0 .. DayTicks - 1 /\ SwapMinutes(t + ahead) = s
  <2>1. ahead \in 0 .. DayTicks - 1
    BY <1>1, <1>2
  <2> HIDE DEF ahead
  <2>2. SwapMinutes(t + ahead) = IF now + ahead < DayTicks THEN now + ahead
                                 ELSE now + ahead - DayTicks
    BY <2>1, TimeLater
  <2> USE DEF ahead
  <2> QED
    BY <1>1, <1>2, <2>1, <2>2
<1>5. ASSUME NEW x \in t .. (t + PreSwapTicks), SwapMinutes(x) = s
      PROVE  ahead <= PreSwapTicks
  <2> DEFINE k == x - t
  <2>1. k \in 0 .. DayTicks - 1 /\ x = t + k
    BY <1>1
  <2>2. s = IF now + k < DayTicks THEN now + k ELSE now + k - DayTicks
    BY <1>5, <2>1, TimeLater
  <2> QED
    BY <1>1, <1>2, <2>1, <2>2
<1>6. ahead <= PreSwapTicks => \E x \in t .. (t + PreSwapTicks) : SwapMinutes(x) = s
  <2>1. ahead <= PreSwapTicks => t + ahead \in t .. (t + PreSwapTicks)
    BY <1>1, <1>4
  <2> QED
    BY <1>4, <2>1
<1>7. ahead <= PreSwapTicks => PreSwapTicks - PreSwapElapsed(t, s) = ahead
  BY <1>1, <1>2, WindowStart DEF PreSwapElapsed
<1>8. ahead <= PreSwapTicks => SwapMinutes(t + PreSwapTicks - PreSwapElapsed(t, s)) = s
  <2>1. SUFFICES ASSUME ahead <= PreSwapTicks
                 PROVE  t + PreSwapTicks - PreSwapElapsed(t, s) = t + ahead
    BY <1>4
  <2>2. PreSwapElapsed(t, s) \in Int
    BY <1>1, <1>2, WindowStart DEF PreSwapElapsed
  <2> QED
    BY <1>1, <1>2, <1>7, <2>1, <2>2
<1> QED
  BY <1>3, <1>5, <1>6, <1>8

-----------------------------------------------------------------------------
(* The bars an evaluation has seen *)

AgentFields ==
    {"current_index", "position", "entry_price", "entry_index", "entry_fee_paid",
     "position_swap_cost", "position_swap_events", "realized_return", "equity_peak",
     "hold_bars", "steps", "total_swap_events", "trade_events", "terminated"}

\* Every bar has its time, and the agent stands on one of them.
FrameInv ==
    /\ \A i \in DOMAIN frame : frame[i].t \in Int
    /\ phase = "stepping" => agent.current_index \in DOMAIN frame /\ DOMAIN agent = AgentFields

\* A step moves an environment to the next bar.
LEMMA StepMoves ==
    ASSUME NEW e, DOMAIN e = AgentFields, NEW c, NEW market, NEW rows, NEW action
    PROVE  LET f == StepCore(e, c, market, rows, action).environment
           IN  DOMAIN f = AgentFields /\ f.current_index = e.current_index + 1
<1> DEFINE Alike(f) == DOMAIN f = AgentFields /\ f.current_index = e.current_index
           Moved(f) == DOMAIN f = AgentFields /\ f.current_index = e.current_index + 1
<1>1. \A f, price, index : Alike(f) => Alike(ClosePosition(f, c, price, index))
  BY ZenonT(30) DEF ClosePosition, AgentFields
<1>2. \A f, target, price, index : Alike(f) => Alike(OpenPosition(f, c, target, price, index))
  BY ZenonT(30) DEF OpenPosition, AgentFields
<1>3. \A f, before, after : Alike(f) => Alike(ApplySwap(f, c, before, after))
  BY DEF ApplySwap, AgentFields
<1>4. \A f, target, price, index : Alike(f) => Alike(ApplyTarget(f, c, target, price, index))
  BY <1>1, <1>2 DEF ApplyTarget
<1>5. \A f, price, index : Moved(f) => Moved(ClosePosition(f, c, price, index))
  BY ZenonT(30) DEF ClosePosition, AgentFields
<1>6. \A f, bar, index, done : Moved(f) => Moved(Settled(f, c, bar, index, done))
  BY <1>5 DEF Settled, AgentFields
<1> DEFINE bar == market[e.current_index + 1]
           target == PositionTargets(c.position_side)[action + 1]
           traded == ApplyTarget(ApplySwap(e, c, market[e.current_index].t, bar.t), c, target,
                                 bar.open, e.current_index + 1)
           held == [traded EXCEPT !.hold_bars = @ + AbsInt(traded.position),
                                  !.current_index = e.current_index + 1,
                                  !.steps = @ + 1]
<1>7. Alike(traded)
  BY <1>3, <1>4
<1>8. Moved(held)
  <2> HIDE DEF traded
  <2> QED
    BY <1>7 DEF AgentFields
<1>9. Moved(Settled(held, c, bar, e.current_index + 1, e.current_index + 1 >= rows - 1))
  BY <1>6, <1>8
<1>10. StepCore(e, c, market, rows, action).environment
        = Settled(held, c, bar, e.current_index + 1, e.current_index + 1 >= rows - 1)
  BY DEF StepCore
<1> HIDE DEF held
<1> QED
  BY <1>9, <1>10

\* Every bar that is seen has its time.
LEMMA FrameKept ==
    ASSUME DiskInv, FrameInv, [Next]_vars
    PROVE  FrameInv'
<1>0. request \in Requests
  BY DEF DiskInv
<1>1. CASE Prepare
  <2>1. /\ phase' = "stepping"
        /\ frame' = [i \in {LocalObservation} |-> [t |-> request.first, open |-> 1, close |-> 1]]
        /\ agent' = ResetState(LocalObservation)
    BY <1>1 DEF Prepare
  <2>2. request.first \in Int
    BY <1>0, MarketAssumption
  <2>3. agent'.current_index = LocalObservation /\ DOMAIN agent' = AgentFields
    BY <2>1 DEF ResetState, AgentFields
  <2> QED
    BY <2>1, <2>2, <2>3 DEF FrameInv
<1>2. CASE Step
  <2>0. \E d \in Distributions(Len(PositionTargets(Environment.position_side))) :
        \E action \in Selected(row.policy_mode, d, row.probability_threshold) :
        \E open, close \in request.prices, gap \in request.gaps :
            StepOn([t |-> frame[agent.current_index].t + gap, open |-> open, close |-> close],
                   action)
    BY <1>2 DEF Step
  <2>1. PICK action, open, close, gap :
            /\ gap \in request.gaps
            /\ StepOn([t |-> frame[agent.current_index].t + gap, open |-> open, close |-> close],
                      action)
    BY <2>0, Zenon
  <2> DEFINE bar == [t |-> frame[agent.current_index].t + gap, open |-> open, close |-> close]
             market == WithBar(bar)
  <2>2. agent.current_index \in DOMAIN frame /\ DOMAIN agent = AgentFields
    BY <1>2 DEF Step, FrameInv
  <2>3. bar.t \in Int
    BY <1>0, <2>1, <2>2, MarketAssumption DEF FrameInv
  <2>4. CASE UNCHANGED <<frame, agent>> /\ phase' = "failed"
    BY <2>4 DEF FrameInv
  <2>5. CASE /\ frame' = market
             /\ agent' = StepCore(agent, Environment, market, LocalRows, action).environment
    <3>1. DOMAIN market = DOMAIN frame \cup {agent.current_index + 1}
      BY DEF WithBar
    <3>2. \A i \in DOMAIN market : market[i].t \in Int
      BY <2>3 DEF WithBar, FrameInv
    <3>3. DOMAIN agent' = AgentFields /\ agent'.current_index = agent.current_index + 1
      BY <2>2, <2>5, StepMoves
    <3> QED
      BY <2>5, <3>1, <3>2, <3>3 DEF FrameInv
  <2>6. \/ UNCHANGED <<frame, agent>> /\ phase' = "failed"
        \/ /\ frame' = market
           /\ agent' = StepCore(agent, Environment, market, LocalRows, action).environment
    BY <2>1 DEF StepOn, Fail, environments
  <2> QED
    BY <2>4, <2>5, <2>6
<1>3. CASE ~ (Prepare \/ Step)
  <2>1. UNCHANGED <<frame, agent>>
    BY <1>3, Steps DEF Evaluate, evaluationVars, environments, Unreadable, Refuse, CreatePending,
       MarkRunning, PrepareFails, Fail, Finish, vars
  <2>2. phase' = "stepping" => phase = "stepping"
    <3>1. CASE Evaluate
      BY <1>3, <3>1 DEF Evaluate, Unreadable, Refuse, CreatePending, MarkRunning, PrepareFails,
         Fail, Finish
    <3>2. CASE Train /\ UNCHANGED evaluationVars
      BY <3>2, TrainFrame
    <3>3. CASE ~ Evaluate /\ ~ Train
      BY <3>3, Steps DEF Configure, Read, ReadingFails, KeepEntry, KeepFrame, Resolve, Import,
         CleanSource, vars, startVars
    <3> QED
      BY <3>1, <3>2, <3>3, Steps DEF vars, startVars
  <2> QED
    BY <2>1, <2>2 DEF FrameInv
<1> QED
  BY <1>1, <1>2, <1>3

-----------------------------------------------------------------------------
(* The theorems about the data and the source of a run *)

\* What holds of the data, of the run and of the checkpoint it continues.
IInv ==
    /\ DiskInv /\ ReaderInv /\ DataInv
    /\ RunInv /\ RowInv
    /\ CatalogInv /\ SourceInv /\ ModelInv
    /\ FrameInv

\* The invariant holds at the start.
LEMMA InvariantInit == Init => IInv
<1> SUFFICES ASSUME Init PROVE IInv
  OBVIOUS
<1>1. /\ request \in Requests /\ phase = "given" /\ store = request.store /\ reader = Data!Idle
      /\ catalog = request.catalog /\ start = [entry |-> NoValue, data |-> NoValue, source |-> NoValue]
      /\ run = NoValue /\ model = NoValue /\ row = NoValue /\ frame = <<>>
  BY DEF Init, StartInit
<1>2. DiskInv /\ ReaderInv /\ DataInv
  BY <1>1, RequestAssumption DEF DiskInv, ReaderInv, DataInv, HasData, Data!Idle, File, FirstFile
<1>3. RunInv /\ RowInv
  BY <1>1 DEF RunInv, RowInv, Uncommitted
<1>4. CatalogInv /\ SourceInv /\ ModelInv
  BY <1>1 DEF CatalogInv, SourceInv, ModelInv, Uncommitted
<1>5. FrameInv
  BY <1>1 DEF FrameInv
<1> QED
  BY <1>2, <1>3, <1>4, <1>5 DEF IInv

\* Every step keeps it.
LEMMA InvariantKept == IInv /\ [Next]_vars => IInv'
BY DiskKept, ReaderKept, DataKept, RunKept, RowKept, SourceKept, ModelKept, FrameKept DEF IInv

\* The inductive invariant from the configuration to the evaluation.
THEOREM InductiveInvariant == Spec => []IInv
BY InvariantInit, InvariantKept, PTL DEF Spec

\* A process that has loaded the dataset has the release whose hash it knows,
\* and an evaluation scores the release its run was trained on, whenever a
\* file or the manifest is replaced.
THEOREM OneRelease == Spec => []SameData
<1>1. IInv => SameData
  BY DEF IInv, SameData, ReaderInv, RowInv, DataAgrees, Data!Matches, Null
<1> QED
  BY <1>1, InductiveInvariant, PTL

\* The best evaluation by all three criteria is no worse than any, and the
\* one early stopping kept if the scores differ.
LEMMA BestIsKept ==
    ASSUME NEW r, NEW e \in Scored(r), \A f \in Scored(r) : Ranks(e, f),
           \A f \in Scored(r) : f.id \in Int /\ f.balanced_score \in Int
    PROVE  /\ \A f \in Scored(r) : e.balanced_score >= f.balanced_score
           /\ (\A g, f \in Scored(r) : g.balanced_score = f.balanced_score => g = f)
                => KeptBest(r) = e
<1>1. \A f \in Scored(r) : e.balanced_score >= f.balanced_score
  BY DEF Ranks
<1>2. ASSUME \A g, f \in Scored(r) : g.balanced_score = f.balanced_score => g = f
      PROVE  KeptBest(r) = e
  <2> DEFINE First(g) == \A f \in Scored(r) : \/ g.balanced_score > f.balanced_score
                                             \/ (g.balanced_score = f.balanced_score /\ g.id <= f.id)
  <2>1. First(e)
    BY <1>1, <1>2
  <2>2. KeptBest(r) \in Scored(r) /\ First(KeptBest(r))
    BY <2>1 DEF KeptBest
  <2> QED
    BY <1>1, <1>2, <2>2
<1> QED
  BY <1>1, <1>2

\* A resumed run continues the checkpoint its configuration selects, as it
\* was saved, though its run may be cleaned away at any moment before.
THEOREM ResumesAreSound == Spec => []ResumeSound
<1>1. IInv => ResumeSound
  <2> SUFFICES ASSUME IInv, ~ Null(run), run.continuation_mode = "resume"
               PROVE  \E r \in SourceRuns, c \in catalog.checkpoints :
            LET own    == {e \in Scored(r) : e.checkpoint_id = c.id}
                source == r.config.environment
            IN  /\ c.id = run.source_checkpoint_id /\ c.run_id = r.id
                /\ r.name # run.name
                /\ ~Null(model) => model.origin = c.sha256 /\ model.policy = r.config.ppo.policy
                /\ PositionTargets(source.position_side)
                      = PositionTargets(Environment.position_side)
                /\ RequiredHistoryRows(source.context, source.window) = Lookback
                /\ Continuation.checkpoint.by = "best" =>
                     /\ \A f \in Scored(r) : \E e \in own : e.balanced_score >= f.balanced_score
                     /\ (\A e, f \in Scored(r) : e.balanced_score = f.balanced_score => e = f)
                          => KeptBest(r).checkpoint_id = c.id
    BY DEF ResumeSound
  <2>1. ~ Uncommitted /\ Resumes
    BY Columns DEF IInv, RunInv, Null, Resumes
  <2> DEFINE c == start.source
  <2>2. c \in Sources /\ c \in catalog.checkpoints /\ request \in Requests
    BY <2>1 DEF IInv, SourceInv, DiskInv, Sources
  <2>3. PICK r \in SourceRuns : /\ Config!ResumeCompatible(request.config, r.config)
                                /\ Selects(Continuation.checkpoint, r, c)
                                /\ c.run_id = r.id
    BY <2>2 DEF Sources
  <2>4. catalog = request.catalog /\ r \in request.catalog.runs /\ r.name = Continuation.source_run
    BY <2>3 DEF IInv, CatalogInv, SourceRuns
  <2>5. ~ Null(c)
    BY <2>2, <2>4, RequestAssumption
  <2>6. c.id = run.source_checkpoint_id /\ run.name = request.config.run.name
    BY <2>1, <2>5, Columns DEF IInv, RunInv
  <2>7. r.name # run.name
    BY <2>3, <2>4, <2>6 DEF Config!ResumeCompatible, Continuation
  <2>8. ~ Null(model) => model.origin = c.sha256 /\ model.policy = r.config.ppo.policy
    BY <2>1, <2>2, <2>3, <2>4, RequestAssumption DEF IInv, ModelInv, ModelContinues, Null
  <2>9. /\ r.config.environment.position_side = Environment.position_side
        /\ r.config.environment.context = Environment.context
        /\ r.config.environment.window = Environment.window
    BY <2>2, <2>3, <2>4, RequestAssumption
       DEF Config!ResumeCompatible, Config!ImmutableEnvironment, Environment
  <2>10. ASSUME Continuation.checkpoint.by = "best"
         PROVE  /\ \A f \in Scored(r) : \E e \in Scored(r) :
                      e.checkpoint_id = c.id /\ e.balanced_score >= f.balanced_score
                /\ (\A e, f \in Scored(r) : e.balanced_score = f.balanced_score => e = f)
                     => KeptBest(r).checkpoint_id = c.id
    <3>1. PICK e \in Scored(r) : e.checkpoint_id = c.id /\ \A f \in Scored(r) : Ranks(e, f)
      BY <2>3, <2>10 DEF Selects
    <3>2. \A f \in Scored(r) : f.id \in Int /\ f.balanced_score \in Int
      BY <2>2, <2>4, RequestAssumption DEF Scored
    <3> QED
      BY <3>1, <3>2, BestIsKept
  <2> QED
    BY <2>2, <2>3, <2>6, <2>7, <2>8, <2>9, <2>10 DEF Lookback
<1> QED
  BY <1>1, InductiveInvariant, PTL

\* The calendar the agent sees agrees with the market on every bar it has
\* seen, whatever the trading hours, the offsets and the rollover time are.
THEOREM CalendarAgrees == Spec => []CalendarSound
<1>1. IInv => CalendarSound
  <2> SUFFICES ASSUME IInv, NEW i \in DOMAIN frame
               PROVE  LET t == frame[i].t
                          span == OvernightSpan(t)
                          swapTime == Environment.swapTime
                      IN  /\ ~InRth(t) =>
                               /\ span.start < t /\ t < span.end
                               /\ InRth(span.start) /\ InRth(span.end)
                               /\ \A x \in (span.start + 1) .. (span.end - 1) : ~InRth(x)
                          /\ PreSwapActive(t, swapTime) <=>
                               \E x \in t .. (t + PreSwapTicks) : SwapMinutes(x) = swapTime
                          /\ PreSwapActive(t, swapTime) =>
                               SwapMinutes(t + PreSwapTicks - PreSwapElapsed(t, swapTime))
                                 = swapTime
    BY DEF CalendarSound
  <2>1. frame[i].t \in Int
    BY DEF IInv, FrameInv
  <2>2. Environment.swapTime \in 0 .. DayTicks - 1
    BY MarketAssumption DEF IInv, DiskInv, Environment
  <2> QED
    BY <2>1, <2>2, ClosedSpan, WarningIsExact
<1> QED
  BY <1>1, InductiveInvariant, PTL

-----------------------------------------------------------------------------
(* Sums *)

\* Every nonempty set of natural numbers has a least element.
LEMMA LeastNumber ==
    ASSUME NEW T \in SUBSET Nat, T # {}
    PROVE  \E x \in T : \A y \in T : x <= y
<1> DEFINE R == OpToRel(<, Nat)
<1>1. \A x, y \in Nat : y < x => <<y, x>> \in R
  BY DEF OpToRel
<1>2. IsWellFoundedOn(R, Nat)
  BY NatLessThanWellFounded
<1> HIDE DEF R
<1>3. PICK x \in T : \A y \in T : <<y, x>> \notin R
  BY <1>2, WFMin
<1>4. \A y \in T : x \in Nat /\ y \in Nat /\ ~ (y < x)
  BY <1>1, <1>3
<1>5. \A y \in T : x <= y
  BY <1>4
<1> QED
  BY <1>5

\* As many pairs for every element of s as f says.
Units(f, s) == UNION {{x} \X (1 .. f[x]) : x \in s}

\* They are finitely many.
LEMMA UnitsAreFinite ==
    ASSUME NEW s, IsFiniteSet(s), NEW f, \A x \in s : f[x] \in Int
    PROVE  IsFiniteSet(Units(f, s))
<1> DEFINE Parts == {{x} \X (1 .. f[x]) : x \in s}
           part == [x \in s |-> {x} \X (1 .. f[x])]
<1>1. part \in Surjection(s, Parts)
  BY DEF Surjection
<1>2. IsFiniteSet(Parts)
  BY <1>1, FS_Surjection
<1>3. ASSUME NEW x \in s PROVE IsFiniteSet({x} \X (1 .. f[x]))
  <2>1. IsFiniteSet({x})
    BY FS_Singleton
  <2>2. f[x] \in Int /\ 1 \in Int
    OBVIOUS
  <2>3. IsFiniteSet(1 .. f[x])
    BY <2>2, FS_Interval
  <2> QED
    BY <2>1, <2>3, FS_Product
<1>4. \A T \in Parts : IsFiniteSet(T)
  BY <1>3
<1> QED
  BY <1>2, <1>4, FS_UNION DEF Units

\* Those of one element and those of the others.
LEMMA UnitsOfOne ==
    ASSUME NEW s, IsFiniteSet(s), NEW f, \A y \in s : f[y] \in Nat, NEW x \in s
    PROVE  Cardinality(Units(f, s)) = f[x] + Cardinality(Units(f, s \ {x}))
<1> DEFINE A == {x} \X (1 .. f[x])
           B == Units(f, s \ {x})
<1>1. IsFiniteSet(s \ {x})
  BY FS_RemoveElement
<1>2. IsFiniteSet(A) /\ Cardinality(A) = f[x]
  <2>1. IsFiniteSet({x}) /\ Cardinality({x}) = 1
    BY FS_Singleton
  <2> DEFINE k == f[x]
  <2>0. k \in Nat /\ 1 \in Int /\ k \in Int
    OBVIOUS
  <2>2. IsFiniteSet(1 .. k) /\ Cardinality(1 .. k) = k
    <3> HIDE DEF k
    <3> QED
      BY <2>0, FS_Interval
  <2>3. IsFiniteSet(A) /\ Cardinality(A) = 1 * f[x]
    BY <2>1, <2>2, FS_Product
  <2> QED
    BY <2>0, <2>2, <2>3
<1>3. IsFiniteSet(B)
  BY <1>1, UnitsAreFinite
<1>4. Units(f, s) = A \cup B
  BY DEF Units
<1>5. A \cap B = {}
  BY DEF Units
<1> HIDE DEF A, B
<1>6. /\ Cardinality(A \cup B) = Cardinality(A) + Cardinality(B) - Cardinality(A \cap B)
      /\ Cardinality(A \cap B) = 0
  BY <1>2, <1>3, <1>5, FS_Union, FS_EmptySet
<1>7. Cardinality(B) \in Nat /\ Cardinality(A) \in Nat
  BY <1>2, <1>3, FS_CardinalityType
<1>8. Cardinality(Units(f, s)) = f[x] + Cardinality(B)
  BY <1>2, <1>4, <1>6, <1>7
<1> QED
  BY <1>8 DEF B

\* A sum of numbers counts its units, in whatever order it is taken.
LEMMA SumCountsUnits ==
    ASSUME NEW D, IsFiniteSet(D), NEW f \in [D -> Nat]
    PROVE  SumOver(LAMBDA n : n, f) = Cardinality(Units(f, D))
<1> DEFINE AnyOf(s) == CHOOSE x \in s : TRUE
           Sums(g) == g = [s \in SUBSET D |-> IF s = {} THEN 0 ELSE f[AnyOf(s)] + g[s \ {AnyOf(s)}]]
           sum == CHOOSE g : Sums(g)
           units == [s \in SUBSET D |-> Cardinality(Units(f, s))]
<1>1. SumOver(LAMBDA n : n, f) = sum[D]
  BY DEF SumOver, MapThenSumSet, MapThenFoldSet
<1>2. \A s \in SUBSET D : s # {} => units[s] = f[AnyOf(s)] + units[s \ {AnyOf(s)}]
  <2> SUFFICES ASSUME NEW s \in SUBSET D, s # {}
               PROVE  units[s] = f[AnyOf(s)] + units[s \ {AnyOf(s)}]
    OBVIOUS
  <2>1. IsFiniteSet(s) /\ AnyOf(s) \in s /\ s \ {AnyOf(s)} \in SUBSET D
    BY FS_Subset
  <2>2. Cardinality(Units(f, s)) = f[AnyOf(s)] + Cardinality(Units(f, s \ {AnyOf(s)}))
    <3> HIDE DEF AnyOf
    <3> QED
      BY <2>1, UnitsOfOne
  <2> QED
    BY <2>1, <2>2
<1>3. units[{}] = 0
  BY FS_EmptySet DEF Units
<1>4. Sums(units)
  BY <1>2, <1>3
<1>5. Sums(sum)
  BY <1>4
<1> DEFINE Bad == {n \in Nat : \E s \in SUBSET D : Cardinality(s) = n /\ sum[s] # units[s]}
<1>6. Bad = {}
  <2> SUFFICES ASSUME Bad # {} PROVE FALSE
    OBVIOUS
  <2>1. PICK n \in Bad : \A m \in Bad : n <= m
    BY LeastNumber
  <2>2. PICK s \in SUBSET D : Cardinality(s) = n /\ sum[s] # units[s]
    BY <2>1
  <2>3. s # {}
    BY <1>3, <1>5, <2>2
  <2> DEFINE t == s \ {AnyOf(s)}
  <2>4. sum[s] = f[AnyOf(s)] + sum[t] /\ t \in SUBSET D
    BY <1>5, <2>3
  <2>5. Cardinality(t) \in Nat /\ Cardinality(t) = n - 1
    BY <2>2, <2>3, FS_Subset, FS_RemoveElement, FS_CardinalityType
  <2>6. sum[t] = units[t]
    <3>1. n \in Nat /\ n - 1 \notin Bad
      <4> HIDE DEF Bad
      <4>1. n \in Nat
        BY DEF Bad
      <4> QED
        BY <2>1, <4>1
    <3> HIDE DEF sum, units, t
    <3> QED
      BY <2>4, <2>5, <3>1
  <2> QED
    BY <1>2, <2>2, <2>3, <2>4, <2>6
<1> QED
  <2>1. Cardinality(D) \in Nat /\ D \in SUBSET D
    BY FS_CardinalityType
  <2>2. sum[D] = units[D]
    BY <1>6, <2>1
  <2> QED
    BY <1>1, <2>2

-----------------------------------------------------------------------------
(* Passes over n rows *)

\* How many of the first steps over n rows, one after the other and around,
\* were on row j.
Turns(steps, n, j) == (steps + n - 1 - j) \div n

\* Step q * n + j is the one on row j in pass q: it is among the first steps
\* exactly if fewer than Turns passes had come to j before.
LEMMA TurnOf ==
    ASSUME NEW n \in Nat \ {0}, NEW steps \in Nat, NEW j \in 0 .. n - 1, NEW q \in Int
    PROVE  /\ Turns(steps, n, j) \in Nat
           /\ q * n + j \in Int
           /\ q < Turns(steps, n, j) <=> q * n + j < steps
<1> DEFINE x == steps + n - 1 - j
           t == Turns(steps, n, j)
           m == x % n
<1>1. x \in Nat /\ t \in Int /\ m \in 0 .. n - 1 /\ x = t * n + m
  <2>1. x \in Nat /\ x \in Int
    OBVIOUS
  <2> HIDE DEF x
  <2>2. x \div n \in Int /\ x % n \in 0 .. n - 1 /\ x = (x \div n) * n + (x % n)
    BY <2>1, Division
  <2> QED
    BY <2>1, <2>2 DEF Turns, x
<1>2. t * n \in Int /\ q * n \in Int
  BY <1>1, Multiples
<1>3. t \in Nat
  <2>1. t < 0 => t * n + n <= 0 * n
    BY <1>1, Multiples
  <2> HIDE DEF t, m
  <2> QED
    BY <1>1, <1>2, <2>1
<1>4. q < t => q * n + n <= t * n
  BY <1>1, Multiples
<1>5. t < q => t * n + n <= q * n
  BY <1>1, Multiples
<1> HIDE DEF t, m
<1>6. q < t => q * n + j < steps
  BY <1>1, <1>2, <1>4
<1>7. q = t => ~ (q * n + j < steps)
  BY <1>1, <1>2
<1>8. t < q => ~ (q * n + j < steps)
  BY <1>1, <1>2, <1>5
<1> QED
  BY <1>1, <1>2, <1>3, <1>6, <1>7, <1>8 DEF t

\* The rows of a pass have been visited equally often but for one; at the end
\* of a pass, equally often; and all of them after the first.
LEMMA TurnsAreEven ==
    ASSUME NEW n \in Nat \ {0}, NEW steps \in Nat
    PROVE  /\ \A i, j \in 0 .. n - 1 : Turns(steps, n, i) - Turns(steps, n, j) <= 1
           /\ \A a \in Nat : steps = a * n => \A j \in 0 .. n - 1 : Turns(steps, n, j) = a
           /\ n <= steps => \A j \in 0 .. n - 1 : 0 < Turns(steps, n, j)
<1>1. ASSUME NEW i \in 0 .. n - 1, NEW j \in 0 .. n - 1
      PROVE  Turns(steps, n, i) - Turns(steps, n, j) <= 1
  <2> DEFINE s == Turns(steps, n, i)
             t == Turns(steps, n, j)
  <2>1. s \in Nat /\ t \in Nat
    BY TurnOf
  <2>2. ~ (t * n + j < steps) /\ t * n \in Int
    <3>1. t * n + j \in Int /\ ~ (t * n + j < steps)
      BY <2>1, TurnOf
    <3> QED
      BY <2>1, <3>1, Multiples
  <2>3. ~ (t + 1 < s)
    <3>1. t + 1 < s => (t + 1) * n + i < steps
      BY <2>1, TurnOf
    <3>2. (t + 1) * n = t * n + n
      BY <2>1, Multiples
    <3> HIDE DEF s, t
    <3> QED
      BY <2>1, <2>2, <3>1, <3>2
  <2> HIDE DEF s, t
  <2>4. s - t <= 1
    BY <2>1, <2>3
  <2> QED
    BY <2>4 DEF s, t
<1>2. ASSUME NEW a \in Nat, steps = a * n, NEW j \in 0 .. n - 1
      PROVE  Turns(steps, n, j) = a
  <2>1. steps + n - 1 - j = a * n + (n - 1 - j) /\ n - 1 - j \in 0 .. n - 1
    BY <1>2
  <2> QED
    BY <2>1, DivisionIsUnique DEF Turns
<1>3. ASSUME n <= steps, NEW j \in 0 .. n - 1 PROVE 0 < Turns(steps, n, j)
  <2>1. 0 * n + j < steps
    BY <1>3
  <2> QED
    BY <2>1, TurnOf
<1> QED
  BY <1>1, <1>2, <1>3

\* A rollout visits a row as often as its turn comes.
LEMMA TurnsOfRollout ==
    ASSUME NEW n \in Nat \ {0}, NEW before \in Nat, NEW steps \in Nat, NEW j \in 0 .. n - 1
    PROVE  Turns(before + steps, n, j)
             = Turns(before, n, j)
               + Cardinality({k \in 0 .. steps - 1 : (before + k) % n = j})
<1> DEFINE V == {k \in 0 .. steps - 1 : (before + k) % n = j}
           s == Turns(before, n, j)
           t == Turns(before + steps, n, j)
           Q == s .. (t - 1)
           f == [q \in Q |-> q * n + j - before]
<1>1. s \in Nat /\ t \in Nat /\ before + steps \in Nat
  BY TurnOf
<1>2. ASSUME NEW q \in Q PROVE f[q] \in V /\ f[q] + before = q * n + j
  <2>1. q \in Int /\ ~ (q < s) /\ q < t
    BY <1>1
  <2>2. q * n + j \in Int /\ ~ (q * n + j < before) /\ q * n + j < before + steps
    BY <1>1, <2>1, TurnOf
  <2>3. (q * n + j) % n = j
    BY <2>1, <2>2, DivisionIsUnique
  <2>4. f[q] \in 0 .. steps - 1 /\ before + f[q] = q * n + j
    BY <2>2
  <2> HIDE DEF f
  <2>5. (before + f[q]) % n = j
    BY <2>3, <2>4
  <2>6. f[q] \in V
    BY <2>4, <2>5
  <2> QED
    BY <2>4, <2>6
<1>3. ASSUME NEW k \in V PROVE \E q \in Q : f[q] = k
  <2> DEFINE q == (before + k) \div n
  <2>1. before + k \in Nat /\ (before + k) % n = j /\ k \in Nat /\ k < steps
    OBVIOUS
  <2>2. q \in Int /\ before + k = q * n + j
    BY <2>1, Division
  <2> HIDE DEF q
  <2>3. q < t /\ ~ (q < s)
    BY <1>1, <2>1, <2>2, TurnOf
  <2>4. q \in Q
    BY <1>1, <2>2, <2>3
  <2>5. f[q] = k
    BY <2>1, <2>2, <2>4
  <2> QED
    BY <2>4, <2>5
<1>4. ASSUME NEW p \in Q, NEW q \in Q, f[p] = f[q] PROVE p = q
  <2>1. p * n + j = q * n + j
    BY <1>2, <1>4
  <2>2. p \in Int /\ q \in Int
    BY <1>1
  <2>3. p * n \in Int /\ q * n \in Int
    BY <2>2, Multiples
  <2>4. (p < q => p * n + n <= q * n) /\ (q < p => q * n + n <= p * n)
    BY <2>2, Multiples
  <2> QED
    BY <2>1, <2>2, <2>3, <2>4
<1>5. f \in Bijection(Q, V)
  <2>1. f \in [Q -> V]
    BY <1>2
  <2> HIDE DEF f
  <2> QED
    BY <1>3, <1>4, <2>1 DEF Bijection, Injection, Surjection, IsInjective
<1>6. IsFiniteSet(Q) /\ Cardinality(Q) = IF s > t - 1 THEN 0 ELSE t - 1 - s + 1
  <2>1. s \in Int /\ t - 1 \in Int
    BY <1>1
  <2> HIDE DEF s, t
  <2> QED
    BY <2>1, FS_Interval
<1>7. Cardinality(V) = Cardinality(Q)
  <2> HIDE DEF f, Q, V
  <2> QED
    BY <1>5, <1>6, FS_Bijection DEF ExistsBijection
<1>8. s <= t
  <2>1. t * n + j \in Int /\ ~ (t * n + j < before + steps)
    BY <1>1, TurnOf
  <2>2. ~ (t < s)
    <3>1. ~ (t * n + j < before)
      <4> HIDE DEF t
      <4> QED
        BY <2>1
    <3> QED
      BY <1>1, <3>1, TurnOf
  <2> HIDE DEF s, t
  <2> QED
    BY <1>1, <2>2
<1> HIDE DEF s, t, V, Q
<1>9. t = s + Cardinality(V)
  BY <1>1, <1>6, <1>7, <1>8
<1> QED
  BY <1>9 DEF s, t, V

\* The row after x in passes over n rows.
LEMMA NextInPass ==
    ASSUME NEW n \in Nat \ {0}, NEW x \in Nat
    PROVE  (x + 1) % n = IF (x % n) + 1 >= n THEN 0 ELSE (x % n) + 1
<1> DEFINE d == x \div n
           m == x % n
<1>1. d \in Int /\ m \in 0 .. n - 1 /\ x = d * n + m
  BY Division
<1> HIDE DEF d, m
<1>2. d * n \in Int /\ (d + 1) * n = d * n + n
  BY <1>1, Multiples
<1>3. CASE m + 1 >= n
  <2>1. x + 1 = (d + 1) * n + 0 /\ 0 \in 0 .. n - 1 /\ d + 1 \in Int
    BY <1>1, <1>2, <1>3
  <2>2. (x + 1) % n = 0
    <3> DEFINE y == x + 1
               e == d + 1
    <3>1. y \in Int /\ e \in Int /\ y = e * n
      BY <2>1, <1>1, <1>2
    <3> HIDE DEF y, e
    <3>2. \A r \in 0 .. n - 1 : y = e * n + r => y % n = r
      BY <3>1, DivisionIsUnique
    <3>3. e * n + 0 = e * n /\ 0 \in 0 .. n - 1
      BY <3>1
    <3> QED
      BY <3>1, <3>2, <3>3 DEF y
  <2>3. (x % n) + 1 >= n
    BY <1>3 DEF m
  <2> QED
    BY <2>2, <2>3
<1>4. CASE ~ (m + 1 >= n)
  <2>1. x + 1 = d * n + (m + 1) /\ m + 1 \in 0 .. n - 1
    BY <1>1, <1>2, <1>4
  <2>2. (x + 1) % n = m + 1
    BY <1>1, <2>1, DivisionIsUnique
  <2>3. ~ ((x % n) + 1 >= n)
    BY <1>4 DEF m
  <2> QED
    BY <2>2, <2>3 DEF m
<1> QED
  BY <1>3, <1>4 DEF m

\* The rows a rollout observes: it goes on around from where the last one
\* ended.
LEMMA ObservedGoesAround ==
    ASSUME NEW n \in Nat \ {0}, training.start_index \in Int,
           training.rows = training.start_index + 1 + n,
           NEW before \in Nat, training.current_index = training.start_index + (before % n),
           NEW steps \in Nat
    PROVE  \A k \in 0 .. steps :
               Ppo!Observed(steps)[k] = training.start_index + ((before + k) % n)
<1> DEFINE Goes(g) ==
             g = [k \in 0 .. steps |->
                    IF k = 0 THEN training.current_index
                    ELSE IF g[k - 1] + 1 >= training.rows - 1 THEN training.start_index
                    ELSE g[k - 1] + 1]
           around == [k \in 0 .. steps |-> training.start_index + ((before + k) % n)]
           observed == CHOOSE g : Goes(g)
<1>1. Ppo!Observed(steps) = observed
  BY DEF Ppo!Observed
<1>2. ASSUME NEW k \in 0 .. steps
      PROVE  around[k] = IF k = 0 THEN training.current_index
                         ELSE IF around[k - 1] + 1 >= training.rows - 1
                              THEN training.start_index ELSE around[k - 1] + 1
  <2>1. CASE k = 0
    BY <2>1
  <2>2. CASE k # 0
    <3> DEFINE x == before + (k - 1)
    <3>1. x \in Nat /\ before + k = x + 1 /\ k - 1 \in 0 .. steps
      BY <2>2
    <3>2. around[k - 1] = training.start_index + (x % n)
      BY <3>1
    <3>3. around[k] = training.start_index + ((x + 1) % n)
      BY <3>1
    <3> HIDE DEF x, around
    <3>4. x % n \in 0 .. n - 1
      BY <3>1, Division
    <3>5. (x + 1) % n = IF (x % n) + 1 >= n THEN 0 ELSE (x % n) + 1
      BY <3>1, NextInPass
    <3> DEFINE m == x % n
               m1 == (x + 1) % n
    <3> HIDE DEF m, m1
    <3>6. m \in 0 .. n - 1 /\ m1 = (IF m + 1 >= n THEN 0 ELSE m + 1)
          /\ around[k - 1] = training.start_index + m /\ around[k] = training.start_index + m1
      BY <3>2, <3>3, <3>4, <3>5 DEF m, m1
    <3> QED
      BY <2>2, <3>6
  <2> QED
    BY <2>1, <2>2
<1>3. Goes(around)
  <2> HIDE DEF around
  <2>1. around = [k \in 0 .. steps |-> around[k]]
    BY DEF around
  <2> QED
    BY <1>2, <2>1
<1>4. Goes(observed)
  <2> HIDE DEF around, Goes
  <2> QED
    BY <1>3
<1> DEFINE Bad == {k \in 0 .. steps : observed[k] # around[k]}
<1>5. Bad = {}
  <2> SUFFICES ASSUME Bad # {} PROVE FALSE
    OBVIOUS
  <2>1. PICK k \in Bad : \A i \in Bad : k <= i
    <3>1. Bad \in SUBSET Nat
      OBVIOUS
    <3> HIDE DEF Bad
    <3> QED
      BY <3>1, LeastNumber
  <2>2. k \in 0 .. steps /\ observed[k] # around[k]
    OBVIOUS
  <2>3. k # 0 => observed[k - 1] = around[k - 1]
    <3> SUFFICES ASSUME k # 0 PROVE observed[k - 1] = around[k - 1]
      OBVIOUS
    <3>1. k - 1 \in 0 .. steps /\ ~ (k <= k - 1)
      BY <2>2
    <3>2. k - 1 \notin Bad
      BY <2>1, <3>1
    <3> HIDE DEF observed, around
    <3> QED
      BY <3>1, <3>2
  <2>4. observed[k] = IF k = 0 THEN training.current_index
                      ELSE IF observed[k - 1] + 1 >= training.rows - 1
                           THEN training.start_index ELSE observed[k - 1] + 1
    <3> HIDE DEF observed
    <3> QED
      BY <1>4, <2>2
  <2> HIDE DEF observed, around
  <2> QED
    BY <1>2, <2>2, <2>3, <2>4
<1>6. \A k \in 0 .. steps : observed[k] = around[k]
  <2> HIDE DEF observed, around
  <2> QED
    BY <1>5
<1> HIDE DEF observed
<1> QED
  BY <1>1, <1>6

\* As many rows have been executed as steps have been made.
LEMMA ExecutedSteps ==
    ASSUME NEW n \in Nat \ {0}, NEW first \in Nat, NEW steps \in Nat
    PROVE  LET executed == [r \in 0 .. first + n |->
                                IF first < r THEN Turns(steps, n, r - first - 1) ELSE 0]
           IN  SumOver(LAMBDA m : m, executed) = steps
<1> DEFINE D == 0 .. first + n
           executed == [r \in D |-> IF first < r THEN Turns(steps, n, r - first - 1) ELSE 0]
           S == 0 .. steps - 1
           f == [m \in S |-> <<first + 1 + (m % n), (m \div n) + 1>>]
<1>1. \A r \in D : first < r => r - first - 1 \in 0 .. n - 1
  OBVIOUS
<1>2. executed \in [D -> Nat]
  <2>1. \A r \in D : first < r => Turns(steps, n, r - first - 1) \in Nat
    BY <1>1, TurnOf
  <2> QED
    BY <2>1
<1>3. IsFiniteSet(D)
  <2>1. 0 \in Int /\ first + n \in Int
    OBVIOUS
  <2> QED
    BY <2>1, FS_Interval
<1>4. SumOver(LAMBDA m : m, executed) = Cardinality(Units(executed, D))
  <2> HIDE DEF D, executed
  <2> QED
    BY <1>2, <1>3, SumCountsUnits
<1>5. ASSUME NEW m \in S
      PROVE  /\ f[m] \in Units(executed, D)
             /\ m = (f[m][2] - 1) * n + (f[m][1] - first - 1)
  <2> DEFINE j == m % n
             q == m \div n
  <2>1. m \in Nat /\ q \in Int /\ j \in 0 .. n - 1 /\ m = q * n + j /\ m < steps
    BY Division
  <2>2. q \in Nat
    <3>1. q < 0 => q * n + n <= 0 * n
      BY <2>1, Multiples
    <3>2. q * n \in Int
      BY <2>1, Multiples
    <3> HIDE DEF q, j
    <3> QED
      BY <2>1, <3>1, <3>2
  <2>3. q < Turns(steps, n, j) /\ Turns(steps, n, j) \in Nat
    BY <2>1, TurnOf
  <2> HIDE DEF q, j
  <2>4. first + 1 + j \in D /\ executed[first + 1 + j] = Turns(steps, n, j)
    BY <2>1
  <2>5. q + 1 \in 1 .. executed[first + 1 + j]
    BY <2>2, <2>3, <2>4
  <2>6. <<first + 1 + j, q + 1>> \in Units(executed, D)
    BY <2>4, <2>5 DEF Units
  <2>7. f[m] = <<first + 1 + j, q + 1>>
    BY DEF j, q
  <2>8. f[m][1] - first - 1 = j /\ f[m][2] - 1 = q
    <3>1. f[m][1] = first + 1 + j /\ f[m][2] = q + 1
      BY <2>7
    <3> HIDE DEF f
    <3> QED
      BY <2>1, <3>1
  <2> HIDE DEF f
  <2> QED
    BY <2>1, <2>6, <2>7, <2>8
<1>6. ASSUME NEW u \in Units(executed, D) PROVE \E m \in S : f[m] = u
  <2>1. PICK r \in D : u \in {r} \X (1 .. executed[r])
    BY DEF Units
  <2>2. PICK k \in 1 .. executed[r] : u = <<r, k>>
    BY <2>1
  <2>3. first < r /\ k - 1 < Turns(steps, n, r - first - 1) /\ k \in Nat /\ k # 0
    BY <1>2, <2>2
  <2> DEFINE j == r - first - 1
             m == (k - 1) * n + j
  <2>4. j \in 0 .. n - 1 /\ k - 1 \in Int
    BY <1>1, <2>3
  <2>5. m \in Int /\ m < steps
    BY <2>3, <2>4, TurnOf
  <2>6. m \div n = k - 1 /\ m % n = j
    BY <2>4, <2>5, DivisionIsUnique
  <2>7. 0 <= m
    <3> DEFINE y == (k - 1) * n
    <3>1. y \in Nat
      BY <2>3
    <3> HIDE DEF y
    <3>2. 0 <= y + j
      BY <2>4, <3>1
    <3> QED
      BY <3>2 DEF y
  <2> HIDE DEF m
  <2>8. m \in S
    BY <2>5, <2>7
  <2>9. f[m] = <<r, k>>
    BY <2>3, <2>6, <2>8
  <2> QED
    BY <2>2, <2>8, <2>9
<1>7. ASSUME NEW l \in S, NEW m \in S, f[l] = f[m] PROVE l = m
  <2> HIDE DEF f
  <2> QED
    BY <1>5, <1>7
<1>8. f \in Bijection(S, Units(executed, D))
  <2>1. f \in [S -> Units(executed, D)]
    <3>1. DOMAIN f = S /\ f = [m \in S |-> f[m]]
      OBVIOUS
    <3> HIDE DEF f, executed, D, S
    <3> QED
      BY <1>5, <3>1
  <2> HIDE DEF f, executed, D, S
  <2> QED
    BY <1>6, <1>7, <2>1 DEF Bijection, Injection, Surjection, IsInjective
<1>9. IsFiniteSet(S) /\ Cardinality(S) = steps
  <2>1. 0 \in Int /\ steps - 1 \in Int
    OBVIOUS
  <2>2. IsFiniteSet(0 .. steps - 1)
        /\ Cardinality(0 .. steps - 1) = IF 0 > steps - 1 THEN 0 ELSE steps - 1 - 0 + 1
    BY <2>1, FS_Interval
  <2> QED
    BY <2>2
<1>10. Cardinality(Units(executed, D)) = steps
  <2> HIDE DEF f, executed, D, S
  <2> QED
    BY <1>8, <1>9, FS_Bijection DEF ExistsBijection
<1> QED
  BY <1>4, <1>10

-----------------------------------------------------------------------------
(* Multiples *)

\* The multiples of b are the numbers k * b.
LEMMA MultipleOf ==
    ASSUME NEW b \in Nat \ {0}, NEW k \in Int
    PROVE  k * b \in Int /\ (k * b) % b = 0
<1> DEFINE x == k * b
<1>1. x \in Int /\ x = k * b + 0 /\ 0 \in 0 .. b - 1
  OBVIOUS
<1> HIDE DEF x
<1>2. x % b = 0
  BY <1>1, DivisionIsUnique
<1> QED
  BY <1>1, <1>2 DEF x

\* What leaves no remainder is a multiple.
LEMMA MultipleIs ==
    ASSUME NEW b \in Nat \ {0}, NEW x \in Int, x % b = 0
    PROVE  \E k \in Int : x = k * b
<1> DEFINE k == x \div b
<1>1. k \in Int /\ x = k * b + (x % b)
  BY Division
<1> HIDE DEF k
<1>2. k * b \in Int
  BY <1>1
<1>3. x = k * b
  BY <1>1, <1>2
<1> QED
  BY <1>1, <1>3

\* They are closed under the operations of the durations and the intervals,
LEMMA MultiplesClosed ==
    ASSUME NEW b \in Nat \ {0}, NEW x \in Int, x % b = 0, NEW y \in Int
    PROVE  /\ (y * x) % b = 0
           /\ y % b = 0 => (x + y) % b = 0 /\ (x - y) % b = 0 /\ (x < y => x + b <= y)
<1>1. PICK k \in Int : x = k * b
  BY MultipleIs
<1>2. (y * x) % b = 0
  <2>1. y * k \in Int /\ y * x = (y * k) * b
    BY <1>1
  <2> QED
    BY <2>1, MultipleOf
<1>3. ASSUME y % b = 0
      PROVE  (x + y) % b = 0 /\ (x - y) % b = 0 /\ (x < y => x + b <= y)
  <2>1. PICK l \in Int : y = l * b
    BY <1>3, MultipleIs
  <2>2. k + l \in Int /\ k - l \in Int /\ x + y = (k + l) * b /\ x - y = (k - l) * b
    BY <1>1, <2>1
  <2>3. (x + y) % b = 0 /\ (x - y) % b = 0
    <3>1. ((k + l) * b) % b = 0 /\ ((k - l) * b) % b = 0
      BY <2>2, MultipleOf
    <3> QED
      BY <2>2, <3>1
  <2>4. x < y => x + b <= y
    <3>1. k < l => k * b + b <= l * b
      BY Multiples
    <3>2. ~ k < l => l = k \/ l * b + b <= k * b
      BY Multiples
    <3>3. k * b \in Int /\ l * b \in Int
      OBVIOUS
    <3> QED
      BY <1>1, <2>1, <3>1, <3>2, <3>3
  <2> QED
    BY <2>3, <2>4
<1> QED
  BY <1>2, <1>3

\* and a multiple of a multiple is one.
LEMMA MultipleOfMultiple ==
    ASSUME NEW b \in Nat \ {0}, NEW a \in Nat \ {0}, a % b = 0, NEW x \in Int, x % a = 0
    PROVE  x % b = 0
<1>1. PICK k \in Int : x = k * a
  BY MultipleIs
<1>2. PICK l \in Int : a = l * b
  BY MultipleIs
<1>3. k * l \in Int /\ k * a = (k * l) * b
  BY <1>2
<1>4. (k * a) % b = 0
  BY <1>3, MultipleOf
<1> QED
  BY <1>1, <1>4

\* The whole multiples in a number.
LEMMA WholeMultiples ==
    ASSUME NEW b \in Nat \ {0}, NEW x \in Int
    PROVE  /\ x % b \in Nat /\ x % b < b
           /\ x - (x % b) \in Int /\ (x - (x % b)) % b = 0
           /\ x % b = 0 => x - (x % b) = x
           /\ b <= x => b <= x - (x % b)
<1> DEFINE d == x \div b
<1>1. d \in Int /\ x % b \in 0 .. b - 1 /\ x = d * b + (x % b)
  BY Division
<1>2. d * b \in Int /\ (d * b) % b = 0
  BY <1>1, MultipleOf
<1>3. x - (x % b) = d * b
  BY <1>1, <1>2
<1>4. b <= x => b <= d * b
  <2>1. d < 1 => d * b + b <= 1 * b
    BY <1>1, Multiples
  <2>2. 1 < d => 1 * b + b <= d * b
    BY <1>1, Multiples
  <2>3. 1 * b = b
    OBVIOUS
  <2> QED
    BY <1>1, <1>2, <2>1, <2>2, <2>3
<1> QED
  BY <1>1, <1>2, <1>3, <1>4

\* A finite set of integers has a greatest element.
LEMMA GreatestNumber ==
    ASSUME NEW S \in SUBSET Int, IsFiniteSet(S), S # {}
    PROVE  Max(S) \in S /\ \A y \in S : y <= Max(S)
<1> DEFINE Topped(T) == \E x \in T : \A y \in T : y <= x
           Bad == {c \in Nat : \E T \in SUBSET S : T # {} /\ Cardinality(T) = c /\ ~ Topped(T)}
<1>1. Bad = {}
  <2> SUFFICES ASSUME Bad # {} PROVE FALSE
    OBVIOUS
  <2>1. PICK c \in Bad : \A d \in Bad : c <= d
    BY LeastNumber
  <2>2. PICK T \in SUBSET S : T # {} /\ Cardinality(T) = c /\ ~ Topped(T)
    BY <2>1
  <2>3. PICK x \in T : x \in Int
    BY <2>2
  <2> DEFINE R == T \ {x}
  <2>4. /\ IsFiniteSet(T) /\ R \in SUBSET S
        /\ Cardinality(R) \in Nat /\ Cardinality(R) = c - 1
    BY <2>2, FS_Subset, FS_RemoveElement, FS_CardinalityType
  <2>5. R = {} => Topped(T)
    BY <2>3
  <2>6. R # {} => Topped(R)
    <3>1. c \in Nat /\ ~ c <= Cardinality(R) /\ Cardinality(R) \notin Bad
      <4>1. c \in Nat
        BY <2>1
      <4> HIDE DEF Bad, R
      <4>2. ~ c <= Cardinality(R)
        BY <2>4, <4>1
      <4> QED
        BY <2>1, <4>1, <4>2
    <3> HIDE DEF R, Topped
    <3> QED
      BY <2>4, <3>1
  <2>7. Topped(R) => Topped(T)
    <3> SUFFICES ASSUME NEW m \in R, \A y \in R : y <= m PROVE Topped(T)
      OBVIOUS
    <3>1. m \in T /\ m \in Int /\ \A y \in T : y \in Int /\ (y = x \/ y <= m)
      BY <2>2
    <3>2. CASE x <= m
      BY <3>1, <3>2
    <3>3. CASE m <= x
      BY <2>3, <3>1, <3>3
    <3> QED
      BY <2>3, <3>1, <3>2, <3>3
  <2> QED
    BY <2>2, <2>5, <2>6, <2>7
<1>2. Topped(S)
  <2>1. Cardinality(S) \in Nat /\ S \in SUBSET S
    BY FS_CardinalityType
  <2> HIDE DEF Topped
  <2> QED
    BY <1>1, <2>1
<1> QED
  BY <1>2 DEF Max

\* A set of natural numbers has its least one.
LEMMA LeastIsMin ==
    ASSUME NEW S \in SUBSET Nat, S # {}
    PROVE  Min(S) \in S /\ \A y \in S : Min(S) <= y
BY LeastNumber DEF Min

-----------------------------------------------------------------------------
(* What a run is made of *)

\* The configuration and the data a committed run has passed with.
Prepared ==
    /\ Config!ConfigValid(request.config, ProbabilityUnit)
    /\ SplitPossible /\ RequestedSteps >= 1 /\ Ppo!ScheduleAccepted(Schedule)

\* The steps of a rollout.
RolloutLimit == request.config.ppo.n_steps

\* The rows of a pass, and the one it begins behind.
Pass == Split.steps_per_data_epoch

First == Split.training_start_index

\* The history holds the window and every horizon.
LEMMA HistoryRows ==
    ASSUME request \in Requests, Config!ConfigValid(request.config, ProbabilityUnit)
    PROVE  /\ Environment.window \in Nat \ {0} /\ Lookback \in Nat \ {0}
           /\ Environment.window <= Lookback
           /\ \A h \in Environment.context.horizons, f \in Environment.context.rolling_features :
                  h \in Int /\ h + ExtraSourceRows(f) <= Lookback
<1> DEFINE H == Environment.context.horizons
           F == Environment.context.rolling_features
           w == Environment.window
           S == {w} \cup {h + ExtraSourceRows(f) : h \in H, f \in F}
           next == [h \in H |-> h + 1]
           L == {h + 1 : h \in H}
<1>1. w \in Int /\ w >= 1 /\ H \subseteq Int /\ IsFiniteSet(H)
  BY FieldsAssumption DEF Environment, Config!ConfigValid, Config!EnvironmentValid
<1>2. IsFiniteSet(L)
  <2>1. next \in Surjection(H, L)
    BY DEF Surjection
  <2> QED
    BY <1>1, <2>1, FS_Surjection
<1>3. S \subseteq {w} \cup (H \cup L) /\ S \in SUBSET Int
  BY <1>1 DEF ExtraSourceRows
<1>4. IsFiniteSet({w} \cup (H \cup L))
  <2> HIDE DEF H, L
  <2>1. IsFiniteSet(H \cup L) /\ IsFiniteSet({w})
    BY <1>1, <1>2, FS_Union, FS_Singleton
  <2> QED
    BY <2>1, FS_Union
<1>5. IsFiniteSet(S) /\ w \in S
  BY <1>3, <1>4, FS_Subset
<1>6. Lookback = Max(S)
  BY DEF Lookback, RequiredHistoryRows
<1>7. \A h \in H, f \in F : h + ExtraSourceRows(f) \in S
  OBVIOUS
<1> HIDE DEF S, H, F, w
<1>8. Lookback \in S /\ \A y \in S : y <= Lookback
  BY <1>3, <1>5, <1>6, GreatestNumber
<1>9. w \in Nat \ {0} /\ w <= Lookback
  BY <1>1, <1>5, <1>8
<1>10. Lookback \in Nat \ {0}
  BY <1>3, <1>8, <1>9
<1>11. \A h \in H, f \in F : h \in Int /\ h + ExtraSourceRows(f) <= Lookback
  BY <1>1, <1>7, <1>8
<1> QED
  BY <1>9, <1>10, <1>11 DEF H, F, w

\* A rollout holds whole batches, and an observation some history.
LEMMA Settings ==
    ASSUME request \in Requests, Config!ConfigValid(request.config, ProbabilityUnit)
    PROVE  /\ Batch \in Nat \ {0} /\ RolloutLimit \in Nat \ {0} /\ RolloutLimit % Batch = 0
           /\ request.config.training.duration_amount \in Nat \ {0}
           /\ Lookback \in Nat \ {0}
<1>1. /\ Batch \in Int /\ RolloutLimit \in Int
      /\ request.config.training.duration_amount \in Int
  BY FieldsAssumption DEF Batch, RolloutLimit
<1>2. /\ RolloutLimit >= 2 /\ Batch >= 2 /\ RolloutLimit % Batch = 0
      /\ request.config.training.duration_amount >= 1
  BY DEF Config!ConfigValid, Config!PPOValid, Config!TrainingValid, Batch, RolloutLimit
<1> QED
  BY <1>1, <1>2, HistoryRows

\* Either split trains on whole batches, the last rows of TRAIN, after rows
\* enough for the first observation.
LEMMA SplitTrains ==
    ASSUME request \in Requests, Prepared, Rows \in Int
    PROVE  /\ Pass \in Nat \ {0} /\ Pass % Batch = 0
           /\ First \in Nat /\ First >= Lookback - 1
           /\ Split.train_rows = First + 1 + Pass
           /\ SplitByTime => Split.window_metadata.train.start \in Int
<1>1. Batch \in Nat \ {0} /\ Lookback \in Nat \ {0}
  BY Settings DEF Prepared
<1>2. CASE SplitByTime
  <2> DEFINE b == Batch
             L == Lookback
             start0 == TrainRange.start
             end == TrainRange.end
             alignment == request.config.data.alignment
             begin == ActualStart(start0, end, L, b, alignment)
  <2>1. /\ TrainRange.start \in Int /\ TrainRange.end \in Int
    BY <1>2, FieldsAssumption DEF SplitByTime, TrainRange, Located
  <2>2. begin >= L /\ begin < end
    BY <1>2 DEF Prepared, SplitPossible, TimeSplitAccepts
  <2>3. /\ Pass = end - begin /\ First = L - 1
        /\ Split.train_rows = end - (begin - L)
        /\ Split.window_metadata.train.start = begin
    BY <1>2 DEF Split, TimeRangeSplit, Pass, First
  <2>4. begin \in Int /\ (end - begin) % b = 0
    <3>1. CASE alignment = "trim_start"
      <4> DEFINE available == IF start0 < L THEN L ELSE start0
                 x == end - available
                 m == x % b
      <4>1. begin = available + m /\ available \in Int /\ x \in Int
        BY <1>1, <2>1, <3>1 DEF ActualStart
      <4> HIDE DEF x
      <4>2. m \in Int
        BY <1>1, <4>1, WholeMultiples
      <4>3. (x - m) % b = 0
        BY <1>1, <4>1, WholeMultiples
      <4> HIDE DEF m
      <4>4. end - begin = x - m /\ begin \in Int
        <5> HIDE DEF begin, available
        <5> QED
          BY <2>1, <4>1, <4>2 DEF x
      <4> QED
        BY <4>3, <4>4
    <3>2. CASE alignment # "trim_start"
      <4> DEFINE x == start0 - end
                 y == x - (x % b)
      <4>1. begin = start0 - (x % b) /\ x \in Int
        BY <2>1, <3>2 DEF ActualStart
      <4> HIDE DEF x
      <4>2. x % b \in Int /\ y \in Int /\ y % b = 0
        BY <1>1, <4>1, WholeMultiples
      <4>3. end - begin = 0 - y /\ begin \in Int
        BY <2>1, <4>1, <4>2 DEF x
      <4>4. 0 % b = 0 /\ 0 \in Int
        BY <1>1
      <4> HIDE DEF y
      <4>5. (0 - y) % b = 0
        BY <1>1, <4>2, <4>4, MultiplesClosed
      <4> QED
        BY <4>3, <4>5
    <3> QED
      BY <3>1, <3>2
  <2> HIDE DEF begin
  <2>5. Pass % Batch = 0
    BY <2>3, <2>4
  <2> HIDE DEF b, L, end
  <2>6. end \in Int /\ L \in Nat \ {0} /\ begin \in Int
    BY <1>1, <2>1, <2>4 DEF end, L
  <2>7. end - begin \in Nat \ {0} /\ L - 1 \in Nat /\ end - (begin - L) = L - 1 + 1 + (end - begin)
    BY <2>2, <2>6
  <2> QED
    BY <2>3, <2>5, <2>6, <2>7 DEF L
<1>3. CASE ~ SplitByTime
  <2> DEFINE x == RunSplitIndex - Lookback
             m == x % Batch
  <2>1. RunSplitIndex \in Int
    <3>1. TrainRatio[1] \in Int /\ TrainRatio[2] \in Nat \ {0}
      BY <1>3, FieldsAssumption DEF TrainRatio, SplitByTime, Null, Prepared,
         Config!ConfigValid, Config!DataValid, Config!Present
    <3>2. Rows * TrainRatio[1] \in Int
      BY <3>1
    <3> QED
      BY <3>1, <3>2 DEF RunSplitIndex, SplitIndex
  <2>2. RunSplitIndex >= Lookback + 1 /\ x - m >= 1
    BY <1>3 DEF Prepared, SplitPossible, SplitAccepts, WindowAccepts, ChronologicalSplit
  <2>3. Pass = x - m /\ First = Lookback - 1 + m /\ Split.train_rows = RunSplitIndex
    BY <1>3 DEF Split, BatchAligned, ChronologicalSplit, Pass, First
  <2>4. x \in Int
    BY <1>1, <2>1
  <2> HIDE DEF x
  <2>5. m \in Nat /\ x - m \in Int
    BY <1>1, <2>4, WholeMultiples
  <2>6. (x - m) % Batch = 0
    BY <1>1, <2>4, WholeMultiples
  <2> HIDE DEF m
  <2>7. /\ Pass \in Nat \ {0} /\ First \in Nat /\ First >= Lookback - 1
        /\ Split.train_rows = First + 1 + Pass
    BY <1>1, <2>1, <2>2, <2>3, <2>5 DEF x
  <2>8. Pass % Batch = 0
    BY <2>3, <2>6
  <2> QED
    BY <1>3, <2>7, <2>8
<1> QED
  BY <1>2, <1>3

\* The steps asked for are whole batches, and n data epochs n whole passes.
LEMMA DurationIsWhole ==
    ASSUME request \in Requests, Prepared, Rows \in Int
    PROVE  /\ RequestedSteps \in Nat \ {0} /\ RequestedSteps % Batch = 0
           /\ request.config.training.duration_unit = "data_epochs" =>
                  RequestedSteps = request.config.training.duration_amount * Pass
<1> DEFINE a == request.config.training.duration_amount
           x == RawSteps
<1>1. Batch \in Nat \ {0} /\ a \in Nat \ {0}
  BY Settings DEF Prepared
<1>2. Pass \in Nat \ {0} /\ Pass % Batch = 0
  BY SplitTrains
<1>3. a * Pass \in Int /\ (a * Pass) % Batch = 0
  <2>1. a \in Int /\ Pass \in Int
    BY <1>1, <1>2
  <2>2. (a * Pass) % Batch = 0
    BY <1>1, <1>2, <2>1, MultiplesClosed
  <2> QED
    BY <2>1, <2>2
<1>4. x = IF request.config.training.duration_unit = "data_epochs" THEN a * Pass ELSE a
  BY DEF RawSteps, Pass
<1>5. x \in Int
  BY <1>1, <1>3, <1>4
<1>6. RequestedSteps = x - (x % Batch)
  BY DEF RequestedSteps, AlignedDuration
<1> HIDE DEF x
<1>7. /\ RequestedSteps \in Int /\ RequestedSteps % Batch = 0
      /\ x % Batch = 0 => RequestedSteps = x
  BY <1>1, <1>5, <1>6, WholeMultiples
<1> HIDE DEF a
<1>8. request.config.training.duration_unit = "data_epochs" => RequestedSteps = a * Pass
  BY <1>3, <1>4, <1>7
<1> QED
  BY <1>7, <1>8 DEF Prepared, a

\* The boundaries end whole batches, the last one the training.
LEMMA BoundariesAreWhole ==
    ASSUME request \in Requests, Prepared, Rows \in Int
    PROVE  /\ Schedule.total = RequestedSteps
           /\ RequestedSteps \in Ppo!EventSteps(Schedule)
           /\ \A e \in Ppo!EventSteps(Schedule) : e \in 1 .. RequestedSteps /\ e % Batch = 0
<1> DEFINE total == RequestedSteps
           R == RolloutLimit
           C == request.config.evaluation.checkpoint_every_steps
           E == request.config.evaluation.eval_every_steps
<1>1. /\ Batch \in Nat \ {0} /\ R \in Nat \ {0} /\ R % Batch = 0
  BY Settings DEF Prepared
<1>2. total \in Nat \ {0} /\ total % Batch = 0
  BY DurationIsWhole
<1>3. C \in Int /\ E \in Int
  BY FieldsAssumption
<1>4. R <= C /\ R <= E
  <2>1. C >= R /\ E >= R
    BY DEF Prepared, Ppo!ScheduleAccepted, Schedule, Ppo!IntervalAccepted, RolloutLimit
  <2> QED
    BY <1>1, <1>3, <2>1
<1>5. ASSUME NEW every \in Int, R <= every,
             NEW e \in Ppo!Periodic(Ppo!ResolvedInterval(every, R), total)
      PROVE  e \in 1 .. total /\ e % Batch = 0
  <2> DEFINE i == every - (every % R)
  <2>1. e \in 1 .. total - 1 /\ e % i = 0
    BY DEF Ppo!Periodic, Ppo!ResolvedInterval
  <2>2. i \in Int /\ i % R = 0 /\ R <= i
    BY <1>1, <1>5, WholeMultiples
  <2> HIDE DEF i
  <2>3. i \in Nat \ {0} /\ i % Batch = 0
    <3>1. i \in Nat \ {0}
      BY <1>1, <2>2
    <3> QED
      BY <1>1, <2>2, <3>1, MultipleOfMultiple
  <2>4. e \in Int /\ e \in 1 .. total
    <3> HIDE DEF total
    <3> QED
      BY <1>2, <2>1
  <2>5. e % Batch = 0
    BY <1>1, <2>1, <2>3, <2>4, MultipleOfMultiple
  <2> QED
    BY <2>4, <2>5
<1>6. /\ Schedule.total = total
      /\ Ppo!EventSteps(Schedule) \subseteq
             Ppo!Periodic(Ppo!ResolvedInterval(C, R), total) \cup {total}
               \cup Ppo!Periodic(Ppo!ResolvedInterval(E, R), total)
      /\ total \in Ppo!EventSteps(Schedule)
  BY DEF Schedule, Ppo!EventSteps, Ppo!CheckpointSteps, RolloutLimit
<1> HIDE DEF total, R, C, E
<1>7. \A e \in Ppo!EventSteps(Schedule) : e \in 1 .. total /\ e % Batch = 0
  <2> TAKE e \in Ppo!EventSteps(Schedule)
  <2>1. CASE e = total
    BY <1>2, <2>1
  <2>2. CASE e # total
    <3>1. \/ e \in Ppo!Periodic(Ppo!ResolvedInterval(C, R), total)
          \/ e \in Ppo!Periodic(Ppo!ResolvedInterval(E, R), total)
      BY <1>6, <2>2
    <3> QED
      BY <1>3, <1>4, <1>5, <3>1
  <2> QED
    BY <2>1, <2>2
<1> QED
  BY <1>6, <1>7 DEF total

-----------------------------------------------------------------------------
(* The training loop *)

\* The steps the continued model had been trained for.
StepsBefore == IF Null(start.source) THEN 0 ELSE start.source.model_step

Boundaries == Ppo!EventSteps(Schedule)

\* The sizes a rollout may have.
Sizes == {n \in 1 .. RolloutLimit : n % Batch = 0}

\* The loop runs over the rows and the boundaries the run was resolved with.
LoopFrame ==
    /\ DOMAIN training =
         {"rows", "start_index", "schedule", "metrics_every", "model_steps_before",
          "current_index", "executed", "completed_steps", "segment_steps", "rollout_sizes",
          "checkpoints", "metrics", "next_metric_step"}
    /\ training.start_index = First /\ training.rows = First + 1 + Pass
    /\ training.schedule = Schedule
    /\ training.metrics_every = request.config.training_metrics
    /\ training.model_steps_before = StepsBefore
    /\ "num_timesteps" \in DOMAIN model /\ model.n_steps = RolloutLimit

\* The steps done never pass the next boundary, and are whole batches.
LoopSteps ==
    /\ training.completed_steps \in Boundaries \cup {0} /\ training.segment_steps \in Nat
    /\ \A e \in Boundaries : training.completed_steps < e => Ppo!RunSteps <= e
    /\ training.completed_steps = RequestedSteps => training.segment_steps = 0
    /\ Ppo!RunSteps % Batch = 0
    /\ model.num_timesteps = StepsBefore + Ppo!RunSteps
    /\ training.rollout_sizes \in Seq(Sizes)

\* The environment stands in the pass where the steps done say, and every row
\* of the pass has had its turns.
LoopRows ==
    /\ training.current_index = First + (Ppo!RunSteps % Pass)
    /\ training.executed =
         [r \in 0 .. First + Pass |->
            IF First < r THEN Turns(Ppo!RunSteps, Pass, r - First - 1) ELSE 0]

\* The checkpoint of a boundary.
CheckpointAt(e) ==
    [id |-> e, run_id |-> 0, run_step |-> e, model_step |-> StepsBefore + e,
     save_reason |-> IF e = RequestedSteps THEN "final" ELSE "periodic"]

Passed == {e \in Boundaries : e <= training.completed_steps}

LoopCheckpoints == training.checkpoints = {CheckpointAt(e) : e \in Passed}

\* There is a snapshot within a rollout of every step at which one was due;
\* the next is due at a multiple of the interval, at most one interval ahead.
MetricsDone ==
    LET every == request.config.training_metrics
    IN  /\ training.next_metric_step \in Int /\ training.next_metric_step % every = 0
        /\ training.next_metric_step <= Ppo!RunSteps + every
        /\ \A due \in 1 .. Ppo!RunSteps : due % every = 0 =>
               \E m \in training.metrics : m.run_step \in due .. (due + RolloutLimit - 1)
        /\ Ppo!RunSteps = RequestedSteps =>
               \E m \in training.metrics : m.run_step = RequestedSteps

LoopMetrics ==
    /\ \A m \in training.metrics :
           /\ m.run_step \in 1 .. Ppo!RunSteps /\ m.model_step = StepsBefore + m.run_step
           /\ m.rollout_number \in Nat \ {0}
    /\ \A m, n \in training.metrics : m.run_step = n.run_step => m = n
    /\ ~ Null(request.config.training_metrics) => MetricsDone

Loop == LoopFrame /\ LoopSteps /\ LoopRows /\ LoopCheckpoints /\ LoopMetrics

\* A run is made with what it was resolved with, trains to its end, and fails
\* before it trains or not at all.
TrainingInv ==
    /\ phase \notin {"given", "rejected"} =>
           Config!ConfigValid(request.config, ProbabilityUnit)
    /\ phase = "creating" \/ ~ Uncommitted => Prepared
    /\ ~ Resumes => start.source = NoValue
    /\ Uncommitted \/ phase = "created" => training = NoValue
    /\ phase = "created" => run.status = "pending"
    /\ phase = "training" =>
           run.status = "running" /\ Loop /\ training.completed_steps < RequestedSteps
    /\ ~ Uncommitted /\ phase \notin {"created", "training"} =>
           \/ run.status = "completed" /\ Loop /\ training.completed_steps = RequestedSteps
           \/ run.status = "failed" /\ training = NoValue /\ SourceDamaged

\* What a run is made of depends on the request and the data only,
LEMMA SplitStays ==
    ASSUME request' = request, Rows' = Rows
    PROVE  /\ Pass' = Pass /\ First' = First /\ RolloutLimit' = RolloutLimit /\ Batch' = Batch
           /\ Sizes' = Sizes
           /\ Schedule' = Schedule /\ RequestedSteps' = RequestedSteps
           /\ (Prepared' <=> Prepared)
<1>1. /\ Environment' = Environment /\ Batch' = Batch
      /\ TrainRatio' = TrainRatio /\ (SplitByTime <=> SplitByTime')
  BY DEF Environment, Batch, TrainRatio, SplitByTime
<1>2. /\ Lookback' = Lookback /\ RunSplitIndex' = RunSplitIndex
      /\ TrainRange' = TrainRange /\ ValidationRange' = ValidationRange
  BY <1>1 DEF Lookback, RunSplitIndex, TrainRange, ValidationRange, Located
<1>3. Split' = Split /\ (SplitPossible' <=> SplitPossible)
  BY <1>1, <1>2 DEF Split, SplitPossible
<1>4. RequestedSteps' = RequestedSteps
  BY <1>1, <1>3 DEF RequestedSteps, RawSteps
<1>5. Schedule' = Schedule /\ RolloutLimit' = RolloutLimit
  BY <1>4 DEF Schedule, RolloutLimit
<1>6. Prepared' <=> Prepared
  BY <1>3, <1>4, <1>5 DEF Prepared, Ppo!ScheduleAccepted
<1> QED
  BY <1>1, <1>3, <1>4, <1>5, <1>6 DEF Pass, First, Sizes

\* and what it continues on the source.
LEMMA ParametersStay ==
    ASSUME UNCHANGED <<request, start>>
    PROVE  /\ Pass' = Pass /\ First' = First /\ RolloutLimit' = RolloutLimit /\ Batch' = Batch
           /\ Sizes' = Sizes
           /\ Schedule' = Schedule /\ RequestedSteps' = RequestedSteps
           /\ Boundaries' = Boundaries /\ StepsBefore' = StepsBefore
           /\ \A e : CheckpointAt(e)' = CheckpointAt(e)
           /\ (Prepared' <=> Prepared) /\ (Resumes' <=> Resumes)
           /\ (SourceDamaged' <=> SourceDamaged)
<1>1. /\ Pass' = Pass /\ First' = First /\ RolloutLimit' = RolloutLimit /\ Batch' = Batch
      /\ Sizes' = Sizes
      /\ Schedule' = Schedule /\ RequestedSteps' = RequestedSteps
      /\ (Prepared' <=> Prepared)
  BY SplitStays DEF Rows
<1>2. StepsBefore' = StepsBefore
  BY DEF StepsBefore
<1>3. Boundaries' = Boundaries
  BY <1>1 DEF Boundaries, Ppo!EventSteps, Ppo!CheckpointSteps, Ppo!Periodic, Ppo!ResolvedInterval
<1> QED
  BY <1>1, <1>2, <1>3 DEF CheckpointAt, Resumes, Continuation, SourceDamaged, Ppo!ArtifactVerified

\* The invariant sees no more of a state than this.
LEMMA LoopStays ==
    ASSUME UNCHANGED <<request, start, model, training>>
    PROVE  Loop' <=> Loop
<1>1. Ppo!RunSteps' = Ppo!RunSteps
  BY DEF Ppo!RunSteps
<1>2. (LoopFrame' <=> LoopFrame) /\ (LoopRows' <=> LoopRows)
  BY <1>1, ParametersStay DEF LoopFrame, LoopRows, Turns
<1>3. LoopSteps' <=> LoopSteps
  BY <1>1, ParametersStay DEF LoopSteps
<1>4. LoopCheckpoints' <=> LoopCheckpoints
  <2>1. Passed' = Passed
    BY ParametersStay DEF Passed
  <2> QED
    BY <2>1, ParametersStay DEF LoopCheckpoints
<1>5. LoopMetrics' <=> LoopMetrics
  <2>1. MetricsDone' <=> MetricsDone
    BY <1>1, ParametersStay DEF MetricsDone
  <2> QED
    BY <1>1, <2>1, ParametersStay DEF LoopMetrics
<1> QED
  BY <1>2, <1>3, <1>4, <1>5 DEF Loop

\* The state of a loop, in numbers.
LEMMA LoopTypes ==
    ASSUME request \in Requests, Prepared, Rows \in Int, Loop
    PROVE  /\ Batch \in Nat \ {0} /\ RolloutLimit \in Nat \ {0} /\ RolloutLimit % Batch = 0
           /\ Pass \in Nat \ {0} /\ First \in Nat
           /\ RequestedSteps \in Boundaries
           /\ \A e \in Boundaries : e \in 1 .. RequestedSteps /\ e \in Nat /\ e % Batch = 0
           /\ RequestedSteps \in Nat \ {0}
           /\ training.completed_steps \in Nat /\ training.segment_steps \in Nat
           /\ Ppo!RunSteps = training.completed_steps + training.segment_steps
           /\ Ppo!RunSteps \in 0 .. RequestedSteps
<1>1. /\ Batch \in Nat \ {0} /\ RolloutLimit \in Nat \ {0} /\ RolloutLimit % Batch = 0
  BY Settings DEF Prepared
<1>2. Pass \in Nat \ {0} /\ First \in Nat
  BY SplitTrains
<1>3. RequestedSteps \in Nat \ {0}
  BY DurationIsWhole
<1>4. RequestedSteps \in Boundaries /\ \A e \in Boundaries : e \in 1 .. RequestedSteps /\ e % Batch = 0
  BY BoundariesAreWhole DEF Boundaries
<1>5. \A e \in Boundaries : e \in Nat
  BY <1>3, <1>4
<1>6. training.completed_steps \in 0 .. RequestedSteps /\ training.segment_steps \in Nat
  <2>1. training.completed_steps \in Boundaries \cup {0} /\ training.segment_steps \in Nat
    BY DEF Loop, LoopSteps
  <2>2. CASE training.completed_steps = 0
    BY <1>3, <2>1, <2>2
  <2>3. CASE training.completed_steps \in Boundaries
    <3>1. training.completed_steps \in 1 .. RequestedSteps
      BY <1>4, <2>3
    <3> QED
      BY <1>3, <2>1, <3>1
  <2> QED
    BY <2>1, <2>2, <2>3
<1>7. Ppo!RunSteps = training.completed_steps + training.segment_steps
  BY DEF Ppo!RunSteps
<1>8. Ppo!RunSteps \in 0 .. RequestedSteps
  <2>1. CASE training.completed_steps < RequestedSteps
    <3>1. Ppo!RunSteps <= RequestedSteps
      BY <1>4, <2>1 DEF Loop, LoopSteps
    <3> QED
      BY <1>3, <1>6, <1>7, <3>1
  <2>2. CASE ~ (training.completed_steps < RequestedSteps)
    <3>1. training.completed_steps = RequestedSteps
      BY <1>3, <1>6, <2>2
    <3>2. training.segment_steps = 0
      BY <3>1 DEF Loop, LoopSteps
    <3> QED
      BY <1>3, <1>6, <1>7, <3>1, <3>2
  <2> QED
    BY <2>1, <2>2
<1> QED
  BY <1>1, <1>2, <1>3, <1>4, <1>5, <1>6, <1>7, <1>8

\* The next boundary of a loop that goes on, and its next rollout.
LEMMA NextBoundary ==
    ASSUME request \in Requests, Prepared, Rows \in Int, Loop,
           training.completed_steps < RequestedSteps
    PROVE  LET end == Ppo!SegmentEnd
           IN  /\ end \in Boundaries /\ end \in Nat
               /\ training.completed_steps < end
               /\ \A e \in Boundaries : training.completed_steps < e => end <= e
               /\ Ppo!RunSteps <= end
<1> DEFINE T == {e \in Boundaries : e > training.completed_steps}
<1>1. T \in SUBSET Nat /\ RequestedSteps \in T
  BY LoopTypes
<1>2. Ppo!SegmentEnd = Min(T)
  BY DEF Ppo!SegmentEnd, Ppo!Min, Min, Boundaries, Loop, LoopFrame
<1>3. Min(T) \in T /\ \A y \in T : Min(T) <= y
  <2> HIDE DEF T
  <2> QED
    BY <1>1, LeastIsMin
<1>4. training.completed_steps \in Nat
  BY LoopTypes
<1> QED
  BY <1>1, <1>2, <1>3, <1>4, LoopTypes DEF Loop, LoopSteps

\* The next rollout has a whole number of batches, and ends no later than its segment.
LEMMA NextRollout ==
    ASSUME request \in Requests, Prepared, Rows \in Int, Loop,
           training.completed_steps < RequestedSteps, Ppo!RunSteps < Ppo!SegmentEnd
    PROVE  LET steps == Ppo!RolloutSteps
           IN  /\ steps \in 1 .. RolloutLimit /\ steps \in Nat /\ steps % Batch = 0
               /\ Ppo!RunSteps + steps <= Ppo!SegmentEnd
<1> DEFINE b == Batch
           left == Ppo!SegmentEnd - Ppo!RunSteps
           S == {RolloutLimit, left}
<1>1. /\ b \in Nat \ {0} /\ RolloutLimit \in Nat \ {0} /\ RolloutLimit % b = 0
      /\ Ppo!SegmentEnd \in Nat /\ Ppo!SegmentEnd % b = 0
      /\ Ppo!RunSteps \in Nat /\ Ppo!RunSteps % b = 0
  BY LoopTypes, NextBoundary DEF Loop, LoopSteps
<1>2. left \in Nat \ {0}
  BY <1>1
<1>3. left % b = 0
  <2>1. Ppo!SegmentEnd \in Int /\ Ppo!RunSteps \in Int
    BY <1>1
  <2> QED
    BY <1>1, <2>1, MultiplesClosed
<1>4. Ppo!RolloutSteps = Min(S)
  BY DEF Ppo!RolloutSteps, Ppo!Min, Min, Loop, LoopFrame, RolloutLimit
<1>5. Min(S) \in S /\ \A y \in S : Min(S) <= y
  <2>1. S \in SUBSET Nat /\ S # {}
    BY <1>1, <1>2
  <2> HIDE DEF S
  <2> QED
    BY <2>1, LeastIsMin
<1> HIDE DEF b
<1>6. Min(S) \in 1 .. RolloutLimit /\ Min(S) % b = 0 /\ Min(S) <= left /\ Min(S) \in Nat
  <2> HIDE DEF left
  <2> QED
    BY <1>1, <1>2, <1>3, <1>5
<1>7. Ppo!RunSteps + Min(S) <= Ppo!SegmentEnd
  <2> HIDE DEF S
  <2> QED
    BY <1>1, <1>6
<1> QED
  BY <1>4, <1>6, <1>7 DEF b
\* Training begins with no step done.
LEMMA LoopBegins ==
    ASSUME request \in Requests, Prepared, Rows \in Int, UNCHANGED <<request, start>>,
           NEW new, new.num_timesteps = StepsBefore, "num_timesteps" \in DOMAIN new,
           new.n_steps = RolloutLimit, run.train_rows = Split.train_rows,
           Ppo!Begin(new, run.train_rows, First, Schedule, request.config.training_metrics),
           StepsBefore \in Nat
    PROVE  Loop' /\ training'.completed_steps = 0
<1> DEFINE every == request.config.training_metrics
<1>0. /\ Pass \in Nat \ {0} /\ First \in Nat /\ Batch \in Nat \ {0} /\ RolloutLimit \in Nat
      /\ RequestedSteps \in Nat \ {0} /\ RequestedSteps \in Boundaries
      /\ \A e \in Boundaries : e \in 1 .. RequestedSteps
      /\ run.train_rows = First + 1 + Pass
  BY Settings, SplitTrains, DurationIsWhole, BoundariesAreWhole DEF Prepared, Boundaries
<1>1. /\ model' = new
      /\ training' =
           [rows |-> run.train_rows, start_index |-> First, schedule |-> Schedule,
            metrics_every |-> every, model_steps_before |-> new.num_timesteps,
            current_index |-> First, executed |-> [r \in 0 .. run.train_rows - 1 |-> 0],
            completed_steps |-> 0, segment_steps |-> 0, rollout_sizes |-> <<>>,
            checkpoints |-> {}, metrics |-> {}, next_metric_step |-> every]
  BY DEF Ppo!Begin
<1>2. Ppo!RunSteps' = 0
  BY <1>1 DEF Ppo!RunSteps
<1>3. LoopFrame'
  BY <1>0, <1>1, ParametersStay DEF LoopFrame
<1>4. LoopSteps'
  <2>1. 0 % Batch = 0
    BY <1>0
  <2>2. \A e \in Boundaries : 0 <= e
    BY <1>0
  <2>3. training'.rollout_sizes \in Seq(Sizes)
    BY <1>1
  <2>4. /\ training'.completed_steps = 0 /\ training'.segment_steps = 0
        /\ model'.num_timesteps = StepsBefore + 0
    BY <1>1
  <2> QED
    BY <1>2, <2>1, <2>2, <2>3, <2>4, ParametersStay DEF LoopSteps
<1>5. LoopRows'
  <2>1. 0 % Pass = 0
    BY <1>0
  <2>2. ASSUME NEW r \in 0 .. First + Pass, First < r
        PROVE  Turns(0, Pass, r - First - 1) = 0
    <3> DEFINE j == r - First - 1
               t == Turns(0, Pass, j)
    <3>1. j \in 0 .. Pass - 1 /\ 0 \in Int
      BY <1>0, <2>2
    <3> HIDE DEF j
    <3>2. t \in Nat /\ (0 < t <=> 0 * Pass + j < 0)
      BY <1>0, <3>1, TurnOf
    <3>3. ~ (0 * Pass + j < 0)
      BY <1>0, <3>1
    <3> HIDE DEF t
    <3>4. t = 0
      BY <3>2, <3>3
    <3> QED
      BY <3>4 DEF t, j
  <2>3. 0 .. run.train_rows - 1 = 0 .. First + Pass
    <3>1. run.train_rows - 1 = First + Pass
      BY <1>0
    <3> QED
      BY <3>1
  <2>4. training'.executed =
          [r \in 0 .. First + Pass |-> IF First < r THEN Turns(0, Pass, r - First - 1) ELSE 0]
    BY <1>1, <2>2, <2>3
  <2>5. training'.current_index = First + (0 % Pass)
    BY <1>0, <1>1, <2>1
  <2> QED
    BY <1>2, <2>4, <2>5, ParametersStay DEF LoopRows, Turns
<1>6. LoopCheckpoints'
  <2>1. Passed' = {}
    <3>1. \A e \in Boundaries : ~ (e <= 0)
      BY <1>0
    <3>2. training'.completed_steps = 0
      BY <1>1
    <3> QED
      BY <3>1, <3>2, ParametersStay DEF Passed
  <2> QED
    BY <1>1, <2>1 DEF LoopCheckpoints
<1>7. LoopMetrics'
  <2>1. ~ Null(every) => every \in Nat \ {0}
    BY FieldsAssumption
  <2>2. ~ Null(every) => every % every = 0
    <3>1. every \in Nat \ {0} => (1 * every) % every = 0 /\ 1 * every = every
      BY MultipleOf
    <3> QED
      BY <2>1, <3>1
  <2>3. ~ Null(every) => MetricsDone'
    <3> HIDE DEF every
    <3>1. 1 .. 0 = {} /\ 0 # RequestedSteps
      BY <1>0
    <3> QED
      BY <1>1, <1>2, <2>1, <2>2, <3>1, ParametersStay DEF MetricsDone, every
  <2> QED
    BY <1>1, <2>3 DEF LoopMetrics
<1> QED
  BY <1>1, <1>3, <1>4, <1>5, <1>6, <1>7 DEF Loop

-----------------------------------------------------------------------------
\* What a rollout writes.
LEMMA RolloutWrites ==
    ASSUME Loop, Ppo!CollectRollout
    PROVE  LET steps == Ppo!RolloutSteps
               step  == Ppo!RunSteps + Ppo!RolloutSteps
           IN  /\ Ppo!RunSteps < Ppo!SegmentEnd
               /\ model' = [model EXCEPT !.num_timesteps = model.num_timesteps + steps]
               /\ DOMAIN training' = DOMAIN training
               /\ UNCHANGED <<training.rows, training.start_index, training.schedule,
                              training.metrics_every, training.model_steps_before,
                              training.completed_steps, training.checkpoints>>
               /\ training'.segment_steps = training.segment_steps + steps
               /\ training'.rollout_sizes = Append(training.rollout_sizes, steps)
               /\ training'.current_index = Ppo!Observed(steps)[steps]
               /\ training'.executed =
                    [r \in DOMAIN training.executed |-> training.executed[r]
                       + Cardinality({k \in 0 .. steps - 1 : Ppo!Observed(steps)[k] + 1 = r})]
               /\ training'.metrics =
                    IF Ppo!MetricDue(step) THEN training.metrics \cup {Ppo!Metric(step, steps)}
                    ELSE training.metrics
               /\ training'.next_metric_step = Ppo!NextMetricStep(step)
<1>1. DOMAIN training =
         {"rows", "start_index", "schedule", "metrics_every", "model_steps_before",
          "current_index", "executed", "completed_steps", "segment_steps", "rollout_sizes",
          "checkpoints", "metrics", "next_metric_step"}
  BY DEF Loop, LoopFrame
<1> DEFINE steps == Ppo!RolloutSteps
           observed == Ppo!Observed(steps)
           step == Ppo!RunSteps + steps
           rows == [r \in DOMAIN training.executed |-> training.executed[r]
                      + Cardinality({k \in 0 .. steps - 1 : observed[k] + 1 = r})]
           metrics == IF Ppo!MetricDue(step) THEN training.metrics \cup {Ppo!Metric(step, steps)}
                      ELSE training.metrics
<1>2. Ppo!RunSteps < Ppo!SegmentEnd
  BY DEF Ppo!CollectRollout
<1>3. model' = [model EXCEPT !.num_timesteps = model.num_timesteps + steps]
  BY DEF Ppo!CollectRollout
<1>4. training' =
        [training EXCEPT
           !.current_index = observed[steps],
           !.executed = rows,
           !.segment_steps = training.segment_steps + steps,
           !.rollout_sizes = Append(training.rollout_sizes, steps),
           !.metrics = metrics,
           !.next_metric_step = Ppo!NextMetricStep(step)]
  <2>1. \A S : Ppo!Cardinality(S) = Cardinality(S)
    BY DEF Ppo!Cardinality, Cardinality
  <2> QED
    BY <2>1 DEF Ppo!CollectRollout
<1> HIDE DEF steps, observed, step, rows, metrics
<1>5. /\ DOMAIN training' = DOMAIN training
      /\ UNCHANGED <<training.rows, training.start_index, training.schedule,
                     training.metrics_every, training.model_steps_before,
                     training.completed_steps, training.checkpoints>>
      /\ training'.segment_steps = training.segment_steps + steps
      /\ training'.rollout_sizes = Append(training.rollout_sizes, steps)
      /\ training'.current_index = observed[steps]
      /\ training'.executed = rows
      /\ training'.metrics = metrics
      /\ training'.next_metric_step = Ppo!NextMetricStep(step)
  BY <1>1, <1>4
<1> QED
  BY <1>2, <1>3, <1>5 DEF steps, observed, step, rows, metrics

\* A rollout keeps the loop on the rows and steps where it should be.
LEMMA RolloutKeepsSteps ==
    ASSUME request \in Requests, Prepared, Rows \in Int, UNCHANGED <<request, start>>,
           StepsBefore \in Nat, Loop, training.completed_steps < RequestedSteps,
           Ppo!CollectRollout
    PROVE  /\ Ppo!RunSteps' = Ppo!RunSteps + Ppo!RolloutSteps
           /\ LoopFrame' /\ LoopSteps' /\ LoopRows' /\ LoopCheckpoints'
<1> DEFINE steps == Ppo!RolloutSteps
           before == Ppo!RunSteps
<1>1. /\ Batch \in Nat \ {0} /\ Pass \in Nat \ {0} /\ First \in Nat /\ before \in Nat
      /\ \A e \in Boundaries : e \in Nat
      /\ training.completed_steps \in Nat /\ training.segment_steps \in Nat
      /\ before = training.completed_steps + training.segment_steps
      /\ RequestedSteps \in Nat
  BY LoopTypes
<1>2. /\ steps \in 1 .. RolloutLimit /\ steps \in Nat /\ steps % Batch = 0
      /\ before + steps <= Ppo!SegmentEnd
  BY NextRollout, RolloutWrites
<1>3. /\ model' = [model EXCEPT !.num_timesteps = model.num_timesteps + steps]
      /\ DOMAIN training' = DOMAIN training
      /\ UNCHANGED <<training.rows, training.start_index, training.schedule,
                     training.metrics_every, training.model_steps_before,
                     training.completed_steps, training.checkpoints>>
      /\ training'.segment_steps = training.segment_steps + steps
      /\ training'.rollout_sizes = Append(training.rollout_sizes, steps)
      /\ training'.current_index = Ppo!Observed(steps)[steps]
      /\ training'.executed =
           [r \in DOMAIN training.executed |-> training.executed[r]
              + Cardinality({k \in 0 .. steps - 1 : Ppo!Observed(steps)[k] + 1 = r})]
  BY RolloutWrites
<1>4. Ppo!RunSteps' = before + steps
  <2> HIDE DEF before, steps
  <2>1. Ppo!RunSteps' = training'.completed_steps + training'.segment_steps
    BY DEF Ppo!RunSteps
  <2> QED
    BY <1>1, <1>2, <1>3, <2>1
<1> HIDE DEF steps, before
<1>5. LoopFrame'
  BY <1>3, ParametersStay DEF Loop, LoopFrame
<1>6. LoopSteps'
  <2>1. \A e \in Boundaries : training.completed_steps < e => before + steps <= e
    <3>1. /\ Ppo!SegmentEnd \in Nat
          /\ \A e \in Boundaries : training.completed_steps < e => Ppo!SegmentEnd <= e
      BY NextBoundary
    <3> QED
      BY <1>1, <1>2, <3>1
  <2>2. (before + steps) % Batch = 0
    <3>1. before % Batch = 0 /\ before \in Int /\ steps \in Int
      BY <1>1, <1>2 DEF Loop, LoopSteps, before
    <3> QED
      BY <1>1, <1>2, <3>1, MultiplesClosed
  <2>3. model'.num_timesteps = StepsBefore + (before + steps)
    <3>1. model.num_timesteps = StepsBefore + before /\ "num_timesteps" \in DOMAIN model
      BY DEF Loop, LoopSteps, LoopFrame, before
    <3> QED
      BY <1>1, <1>2, <1>3, <3>1
  <2>4. training'.rollout_sizes \in Seq(Sizes)
    <3>1. steps \in Sizes /\ training.rollout_sizes \in Seq(Sizes)
      BY <1>2 DEF Sizes, Loop, LoopSteps
    <3> QED
      BY <1>3, <3>1
  <2>5. training'.segment_steps \in Nat
    BY <1>1, <1>2, <1>3
  <2>6. training.completed_steps \in Boundaries \cup {0}
        /\ training.completed_steps # RequestedSteps
    BY <1>1 DEF Loop, LoopSteps
  <2> QED
    BY <1>3, <1>4, <2>1, <2>2, <2>3, <2>4, <2>5, <2>6, ParametersStay DEF LoopSteps
<1>7. LoopRows'
  <2>1. \A k \in 0 .. steps : Ppo!Observed(steps)[k] = First + ((before + k) % Pass)
    <3>1. /\ training.start_index = First /\ training.rows = training.start_index + 1 + Pass
          /\ training.current_index = training.start_index + (before % Pass)
          /\ training.start_index \in Int
      BY <1>1 DEF Loop, LoopFrame, LoopRows, before
    <3>2. \A k \in 0 .. steps :
            Ppo!Observed(steps)[k] = training.start_index + ((before + k) % Pass)
      BY <1>1, <1>2, <3>1, ObservedGoesAround
    <3> QED
      BY <3>1, <3>2
  <2>2. training'.current_index = First + ((before + steps) % Pass)
    BY <1>2, <1>3, <2>1
  <2> DEFINE turns(m) == [r \in 0 .. First + Pass |->
                            IF First < r THEN Turns(m, Pass, r - First - 1) ELSE 0]
             V(r) == {k \in 0 .. steps - 1 : Ppo!Observed(steps)[k] + 1 = r}
  <2>3. training.executed = turns(before) /\ DOMAIN training.executed = 0 .. First + Pass
    BY DEF Loop, LoopRows, before
  <2>4. ASSUME NEW r \in 0 .. First + Pass
        PROVE  turns(before)[r] + Cardinality(V(r)) = turns(before + steps)[r]
    <3>1. \A k \in 0 .. steps - 1 :
            /\ Ppo!Observed(steps)[k] = First + ((before + k) % Pass)
            /\ (before + k) % Pass \in 0 .. Pass - 1
      <4> TAKE k \in 0 .. steps - 1
      <4>1. k \in 0 .. steps /\ before + k \in Int
        BY <1>1, <1>2
      <4> QED
        BY <1>1, <2>1, <4>1, Division
    <3>2. CASE First < r
      <4> DEFINE j == r - First - 1
      <4>1. j \in 0 .. Pass - 1 /\ r = First + 1 + j /\ j \in Int
        BY <1>1, <3>2
      <4> HIDE DEF j
      <4>2. V(r) = {k \in 0 .. steps - 1 : (before + k) % Pass = j}
        <5>1. \A k \in 0 .. steps - 1 :
                Ppo!Observed(steps)[k] + 1 = r <=> (before + k) % Pass = j
          <6> TAKE k \in 0 .. steps - 1
          <6> DEFINE m == (before + k) % Pass
          <6>1. m \in Int /\ Ppo!Observed(steps)[k] = First + m
            BY <1>1, <3>1
          <6> HIDE DEF m
          <6> QED
            BY <1>1, <4>1, <6>1 DEF m
        <5> QED
          BY <5>1
      <4>3. Turns(before + steps, Pass, j) = Turns(before, Pass, j) + Cardinality(V(r))
        <5>1. Turns(before + steps, Pass, j)
                = Turns(before, Pass, j)
                  + Cardinality({k \in 0 .. steps - 1 : (before + k) % Pass = j})
          <6>1. Pass \in Nat \ {0} /\ before \in Nat /\ steps \in Nat /\ j \in 0 .. Pass - 1
            BY <1>1, <1>2, <4>1
          <6> QED
            BY <6>1, TurnsOfRollout, Zenon
        <5> HIDE DEF V
        <5> QED
          BY <4>2, <5>1
      <4> HIDE DEF V
      <4>4. turns(before)[r] = Turns(before, Pass, j)
            /\ turns(before + steps)[r] = Turns(before + steps, Pass, j)
        BY <3>2 DEF j
      <4> QED
        BY <4>3, <4>4
    <3>3. CASE ~ (First < r)
      <4>1. V(r) = {}
        <5>1. \A k \in 0 .. steps - 1 : Ppo!Observed(steps)[k] + 1 # r
          <6> TAKE k \in 0 .. steps - 1
          <6> DEFINE m == (before + k) % Pass
          <6>1. m \in Nat /\ Ppo!Observed(steps)[k] = First + m
            BY <1>1, <3>1
          <6> HIDE DEF m
          <6> QED
            BY <1>1, <3>3, <6>1
        <5> QED
          BY <5>1
      <4>2. Cardinality(V(r)) = 0
        BY <4>1, FS_EmptySet
      <4> HIDE DEF V
      <4> QED
        BY <3>3, <4>2
    <3> QED
      BY <3>2, <3>3
  <2>5. training'.executed = turns(before + steps)
    <3>1. training'.executed =
            [r \in 0 .. First + Pass |-> turns(before)[r] + Cardinality(V(r))]
      BY <1>3, <2>3
    <3> HIDE DEF turns, V
    <3>2. training'.executed = [r \in 0 .. First + Pass |-> turns(before + steps)[r]]
      BY <2>4, <3>1
    <3> QED
      BY <3>2 DEF turns
  <2> QED
    BY <1>4, <2>2, <2>5, ParametersStay DEF LoopRows, Turns
<1>8. LoopCheckpoints'
  <2>1. Passed' = Passed
    BY <1>3, ParametersStay DEF Passed
  <2> QED
    BY <1>3, <2>1, ParametersStay DEF Loop, LoopCheckpoints
<1> QED
  BY <1>4, <1>5, <1>6, <1>7, <1>8 DEF steps, before

\* A rollout leaves a snapshot when one is due, and at the end.
LEMMA RolloutKeepsMetrics ==
    ASSUME request \in Requests, Prepared, Rows \in Int, UNCHANGED <<request, start>>,
           StepsBefore \in Nat, Loop, training.completed_steps < RequestedSteps,
           Ppo!CollectRollout
    PROVE  LoopMetrics'
<1> DEFINE steps == Ppo!RolloutSteps
           before == Ppo!RunSteps
           step == before + steps
           every == request.config.training_metrics
           next == training.next_metric_step
           new == Ppo!Metric(step, steps)
           metrics == training.metrics
<1>1. /\ before \in Nat /\ RequestedSteps \in Nat /\ RolloutLimit \in Nat \ {0}
      /\ steps \in 1 .. RolloutLimit /\ steps \in Nat /\ step \in Nat
      /\ before < step
  <2>1. before \in Nat /\ RequestedSteps \in Nat /\ RolloutLimit \in Nat \ {0}
    BY LoopTypes
  <2>2. steps \in 1 .. RolloutLimit /\ steps \in Nat
    BY NextRollout, RolloutWrites
  <2> QED
    BY <2>1, <2>2
<1>2. /\ metrics' = IF Ppo!MetricDue(step) THEN metrics \cup {new} ELSE metrics
      /\ next' = Ppo!NextMetricStep(step)
  BY RolloutWrites
<1>3. Ppo!RunSteps' = step
  BY RolloutKeepsSteps
<1>4. /\ new.run_step = step /\ new.model_step = StepsBefore + step
      /\ new.rollout_number \in Nat \ {0}
  <2>1. model.num_timesteps = StepsBefore + before
    BY DEF Loop, LoopSteps
  <2>2. Len(training.rollout_sizes) \in Nat
    BY DEF Loop, LoopSteps
  <2>3. new = [run_step |-> step, model_step |-> model.num_timesteps + steps,
               rollout_number |-> Len(training.rollout_sizes) + 1]
    BY DEF Ppo!Metric
  <2> HIDE DEF new, step
  <2>4. new.run_step = step /\ new.model_step = model.num_timesteps + steps
        /\ new.rollout_number = Len(training.rollout_sizes) + 1
    BY <2>3
  <2>5. model.num_timesteps + steps = StepsBefore + step
    BY <1>1, <2>1 DEF step
  <2> QED
    BY <2>2, <2>4, <2>5
<1>5. /\ \A m \in metrics : /\ m.run_step \in 1 .. before /\ m.model_step = StepsBefore + m.run_step
                            /\ m.rollout_number \in Nat \ {0}
      /\ \A m, n \in metrics : m.run_step = n.run_step => m = n
      /\ ~ Null(every) => MetricsDone
  BY DEF Loop, LoopMetrics
<1> HIDE DEF steps, before, step, new, metrics
<1>6. \A m \in metrics \cup {new} :
        /\ m.run_step \in 1 .. step /\ m.model_step = StepsBefore + m.run_step
        /\ m.rollout_number \in Nat \ {0}
  BY <1>1, <1>4, <1>5
<1>7. \A m, n \in metrics \cup {new} : m.run_step = n.run_step => m = n
  <2>1. \A m \in metrics : m.run_step # new.run_step
    BY <1>1, <1>4, <1>5
  <2> QED
    BY <1>5, <2>1
<1>8. metrics \subseteq metrics' /\ metrics' \subseteq metrics \cup {new}
  BY <1>2
<1>9. ASSUME ~ Null(every) PROVE MetricsDone'
  <2>1. every \in Nat \ {0}
    BY <1>9, FieldsAssumption
  <2>2. /\ next \in Int /\ next % every = 0 /\ next <= before + every
        /\ \A due \in 1 .. before : due % every = 0 =>
               \E m \in metrics : m.run_step \in due .. (due + RolloutLimit - 1)
    BY <1>5, <1>9 DEF MetricsDone, before, metrics
  <2>3. /\ step >= next \/ step = RequestedSteps => new \in metrics'
        /\ next' = IF step < next THEN next ELSE (step - (step % every)) + every
    <3>1. training.metrics_every = every /\ training.schedule.total = RequestedSteps
      BY DEF Loop, LoopFrame, Schedule
    <3> QED
      BY <1>2, <1>9, <3>1 DEF Ppo!MetricDue, Ppo!IsFinal, Ppo!NextMetricStep, Null
  <2> HIDE DEF every, next
  <2>4. next' \in Int /\ next' % every = 0 /\ next' <= step + every
    <3>1. CASE step < next
      BY <1>1, <2>1, <2>2, <2>3, <3>1
    <3>2. CASE ~ (step < next)
      <4> DEFINE x == step - (step % every)
      <4>1. x \in Int /\ x % every = 0 /\ step % every \in Nat /\ step \in Int
        <5>1. step \in Int
          BY <1>1
        <5> QED
          BY <2>1, <5>1, WholeMultiples
      <4>2. x <= step
        BY <4>1
      <4> HIDE DEF x
      <4>3. every % every = 0 /\ every \in Int
        <5>1. (1 * every) % every = 0 /\ 1 * every = every
          BY <2>1, MultipleOf
        <5> QED
          BY <2>1, <5>1
      <4>4. (x + every) % every = 0
        BY <2>1, <4>1, <4>3, MultiplesClosed
      <4>5. next' = x + every
        BY <2>3, <3>2 DEF x
      <4> QED
        BY <2>1, <4>1, <4>2, <4>4, <4>5
    <3> QED
      BY <3>1, <3>2
  <2>5. ASSUME NEW due \in 1 .. step, due % every = 0
        PROVE  \E m \in metrics' : m.run_step \in due .. (due + RolloutLimit - 1)
    <3>1. CASE due <= before
      <4>1. due \in 1 .. before
        BY <1>1, <3>1
      <4> QED
        BY <1>8, <2>2, <2>5, <4>1
    <3>2. CASE ~ (due <= before)
      <4>1. ~ (due < next)
        <5>1. due < next => due + every <= next
          BY <2>1, <2>2, <2>5, MultiplesClosed
        <5> QED
          BY <1>1, <2>1, <2>2, <3>2, <5>1
      <4>2. new \in metrics'
        BY <1>1, <2>2, <2>3, <4>1
      <4>3. step \in due .. (due + RolloutLimit - 1)
        BY <1>1, <3>2 DEF step
      <4> QED
        BY <1>4, <4>2, <4>3
    <3> QED
      BY <3>1, <3>2
  <2>6. step = RequestedSteps => \E m \in metrics' : m.run_step = RequestedSteps
    BY <1>4, <2>3
  <2> QED
    BY <1>3, <2>4, <2>5, <2>6, ParametersStay DEF MetricsDone, metrics, every, next
<1> QED
  BY <1>3, <1>6, <1>7, <1>8, <1>9, ParametersStay DEF LoopMetrics, metrics, every

\* A segment ends at its boundary exactly, with the checkpoint of it.
LEMMA SegmentEndsExactly ==
    ASSUME request \in Requests, Prepared, Rows \in Int, StepsBefore \in Nat, Loop,
           training.completed_steps < RequestedSteps, Ppo!SegmentEnded
    PROVE  /\ Ppo!RunSteps = Ppo!SegmentEnd /\ Ppo!SegmentExact
           /\ Ppo!BoundaryCheckpoint = CheckpointAt(Ppo!SegmentEnd)
           /\ Table!CheckpointsAllowed({Ppo!BoundaryCheckpoint}, {[id |-> 0]})
<1>1. /\ Ppo!SegmentEnd \in Nat /\ Ppo!RunSteps <= Ppo!SegmentEnd /\ Ppo!RunSteps \in Nat
  BY NextBoundary, LoopTypes
<1>2. Ppo!RunSteps = Ppo!SegmentEnd
  BY <1>1 DEF Ppo!SegmentEnded
<1>3. /\ model.num_timesteps = StepsBefore + Ppo!RunSteps
      /\ training.model_steps_before = StepsBefore
      /\ training.schedule.total = RequestedSteps
  BY DEF Loop, LoopFrame, LoopSteps, Schedule
<1>4. Ppo!SegmentExact
  BY <1>2, <1>3 DEF Ppo!SegmentExact
<1>5. Ppo!BoundaryCheckpoint = CheckpointAt(Ppo!SegmentEnd)
  BY <1>2, <1>3 DEF Ppo!BoundaryCheckpoint, Ppo!IsFinal, CheckpointAt
<1> DEFINE c == CheckpointAt(Ppo!SegmentEnd)
<1>6. /\ c.run_id = 0 /\ c.run_step = Ppo!SegmentEnd /\ c.model_step = StepsBefore + Ppo!SegmentEnd
      /\ c.save_reason \in {"final", "periodic"}
  BY DEF CheckpointAt
<1> HIDE DEF c
<1>7. Table!CheckpointsAllowed({c}, {[id |-> 0]})
  BY <1>1, <1>6 DEF Table!CheckpointsAllowed, Table!SaveReasons
<1> QED
  BY <1>2, <1>4, <1>5, <1>7 DEF c

\* The next segment goes on from there.
LEMMA BoundaryKeepsLoop ==
    ASSUME request \in Requests, Prepared, Rows \in Int, UNCHANGED <<request, start>>,
           StepsBefore \in Nat, Loop, training.completed_steps < RequestedSteps,
           Ppo!SegmentEnded, Ppo!ReachBoundary
    PROVE  Loop' /\ training'.completed_steps = Ppo!SegmentEnd
<1> DEFINE end == Ppo!SegmentEnd
<1>1. /\ Ppo!RunSteps = end /\ end \in Nat /\ end \in Boundaries
      /\ training.completed_steps < end /\ training.completed_steps \in Nat
      /\ \A e \in Boundaries : e \in Nat /\ (training.completed_steps < e => end <= e)
  BY SegmentEndsExactly, NextBoundary, LoopTypes
<1>2. /\ DOMAIN training' = DOMAIN training
      /\ UNCHANGED <<training.rows, training.start_index, training.schedule,
                     training.metrics_every, training.model_steps_before,
                     training.current_index, training.executed, training.rollout_sizes,
                     training.metrics, training.next_metric_step>>
      /\ training'.completed_steps = end /\ training'.segment_steps = 0
      /\ training'.checkpoints = training.checkpoints \cup {CheckpointAt(end)}
      /\ model' = model
  <2>1. training' = [training EXCEPT !.completed_steps = end, !.segment_steps = 0,
                                     !.checkpoints = @ \cup {CheckpointAt(end)}]
        /\ model' = model
    BY SegmentEndsExactly DEF Ppo!ReachBoundary, Ppo!NextSegment
  <2>2. {"completed_steps", "segment_steps", "checkpoints"} \subseteq DOMAIN training
    BY DEF Loop, LoopFrame
  <2> HIDE DEF end
  <2> QED
    BY <2>1, <2>2
<1> HIDE DEF end
<1>3. Ppo!RunSteps' = Ppo!RunSteps
  <2>1. Ppo!RunSteps' = training'.completed_steps + training'.segment_steps
    BY DEF Ppo!RunSteps
  <2> QED
    BY <1>1, <1>2, <2>1
<1>4. LoopFrame'
  BY <1>2, ParametersStay DEF Loop, LoopFrame
<1>5. LoopSteps'
  <2>1. \A e \in Boundaries : end < e => end <= e
    BY <1>1
  <2>2. /\ Ppo!RunSteps % Batch = 0 /\ model.num_timesteps = StepsBefore + Ppo!RunSteps
        /\ training.rollout_sizes \in Seq(Sizes)
    BY DEF Loop, LoopSteps
  <2>3. end \in Boundaries \cup {0}
    BY <1>1
  <2>4. /\ training'.completed_steps = end /\ training'.segment_steps = 0
        /\ training'.rollout_sizes = training.rollout_sizes
        /\ model'.num_timesteps = model.num_timesteps /\ Ppo!RunSteps' = end
    BY <1>1, <1>2, <1>3
  <2>5. /\ Boundaries' = Boundaries /\ Batch' = Batch /\ StepsBefore' = StepsBefore
        /\ Sizes' = Sizes /\ RequestedSteps' = RequestedSteps
    BY ParametersStay
  <2>6. /\ training'.completed_steps \in Boundaries' \cup {0} /\ training'.segment_steps \in Nat
        /\ training'.completed_steps = RequestedSteps' => training'.segment_steps = 0
        /\ training'.rollout_sizes \in Seq(Sizes')
    BY <2>2, <2>3, <2>4, <2>5
  <2>7. \A e \in Boundaries' : training'.completed_steps < e => Ppo!RunSteps' <= e
    BY <2>1, <2>4, <2>5
  <2>8. Ppo!RunSteps' % Batch' = 0 /\ model'.num_timesteps = StepsBefore' + Ppo!RunSteps'
    BY <1>3, <2>2, <2>4, <2>5
  <2> QED
    BY <2>6, <2>7, <2>8, Zenon DEF LoopSteps
<1>6. LoopRows'
  BY <1>2, <1>3, ParametersStay DEF Loop, LoopRows, Turns
<1>7. LoopCheckpoints'
  <2>1. Passed' = Passed \cup {end}
    <3>1. Passed' = {e \in Boundaries : e <= end}
      BY <1>2, ParametersStay DEF Passed
    <3>2. \A e \in Boundaries : e <= end <=> e <= training.completed_steps \/ e = end
      BY <1>1
    <3> QED
      BY <1>1, <3>1, <3>2 DEF Passed
  <2>2. training'.checkpoints = {CheckpointAt(e) : e \in Passed \cup {end}}
    BY <1>2 DEF Loop, LoopCheckpoints
  <2> QED
    BY <2>1, <2>2, ParametersStay DEF LoopCheckpoints
<1>8. LoopMetrics'
  <2>1. MetricsDone' <=> MetricsDone
    BY <1>2, <1>3, ParametersStay DEF MetricsDone
  <2> QED
    BY <1>2, <1>3, <2>1, ParametersStay DEF Loop, LoopMetrics
<1> QED
  BY <1>2, <1>4, <1>5, <1>6, <1>7, <1>8 DEF Loop, end

\* The rows of the data, and the steps of the source, are counted.
LEMMA DataIsCounted ==
    ASSUME DiskInv, DataInv, HasData
    PROVE  Rows \in Int
<1>1. Path \in DOMAIN store.files /\ Seen(start.data) /\ request \in Requests
  BY DEF DataInv, DiskInv
<1>2. FirstFile.rows \in Int
  BY <1>1, FieldsAssumption DEF FirstFile, DiskInv
<1>3. File # FirstFile => File.rows \in Int
  BY <1>1, FieldsAssumption DEF DiskInv
<1> QED
  BY <1>1, <1>2, <1>3 DEF Seen, Rows

\* The steps of the source are counted.
LEMMA SourceIsCounted ==
    ASSUME DiskInv, SourceInv, TrainingInv, phase = "creating" \/ ~ Uncommitted
    PROVE  StepsBefore \in Nat
<1>1. CASE Resumes
  <2>1. start.source \in request.catalog.checkpoints /\ request \in Requests
    BY <1>1 DEF SourceInv, DiskInv
  <2>2. start.source.run_step \in Int /\ start.source.model_step \in Int
    BY <2>1, FieldsAssumption
  <2>3. 0 <= start.source.run_step /\ start.source.run_step <= start.source.model_step
    BY <2>1, CatalogAssumption DEF Table!CheckpointsAllowed
  <2> QED
    BY <2>2, <2>3 DEF StepsBefore
<1>2. CASE ~ Resumes
  BY <1>2 DEF TrainingInv, StepsBefore, Null
<1> QED
  BY <1>1, <1>2

\* A committed run can train on its rows,
LEMMA RunIsTrainable ==
    ASSUME DiskInv, DataInv, RunInv, TrainingInv, ~ Uncommitted
    PROVE  run.train_rows = Split.train_rows /\ Trainable
<1>1. request \in Requests /\ Prepared /\ Rows \in Int
  BY DataIsCounted DEF TrainingInv, DiskInv, HasData, Uncommitted
<1>2. run.train_rows = Split.train_rows
  BY DEF RunInv, FixedColumns, PendingRun
<1>3. /\ Pass \in Nat \ {0} /\ First \in Nat /\ First >= Lookback - 1
      /\ run.train_rows = First + 1 + Pass
  BY <1>1, <1>2, SplitTrains
<1>4. Lookback \in Nat \ {0}
  BY <1>1, Settings DEF Prepared
<1> QED
  BY <1>2, <1>3, <1>4 DEF Trainable, AcceptsStart, First

\* and a source it may resume loads, unless its file was damaged since.
LEMMA SourceIsLoaded ==
    ASSUME DiskInv, CatalogInv, SourceInv, TrainingInv, ~ Uncommitted, ~ SourceDamaged
    PROVE  SourceLoads
<1>1. CASE ~ Resumes
  BY <1>1 DEF TrainingInv, SourceLoads, Null
<1>2. CASE Resumes
  <2> DEFINE c == start.source
  <2>1. c \in Sources /\ c \in request.catalog.checkpoints /\ request \in Requests
    BY <1>2 DEF SourceInv, DiskInv
  <2>2. PICK r \in SourceRuns : Config!ResumeCompatible(request.config, r.config) /\ c.run_id = r.id
    BY <2>1 DEF Sources
  <2>3. r \in request.catalog.runs
    BY <2>2 DEF SourceRuns, CatalogInv
  <2>4. Ppo!ArtifactVerified(c, request.files)
    BY <2>1, RequestAssumption DEF SourceDamaged, Null
  <2>5. /\ request.files[c.id].zip /\ request.files[c.id].num_timesteps = c.model_step
        /\ request.files[c.id].spaces = Spaces(r.config.environment)
    BY <2>1, <2>2, <2>3, <2>4, RequestAssumption
  <2>6. \A f \in {"window", "context", "position_side"} :
           request.config.environment[f] = r.config.environment[f]
    BY <2>1, <2>2, <2>3, RequestAssumption DEF Config!ResumeCompatible, Config!ImmutableEnvironment
  <2>7. /\ Environment.window = r.config.environment.window
        /\ Environment.context = r.config.environment.context
        /\ Environment.position_side = r.config.environment.position_side
    BY <2>6 DEF Environment
  <2>8. Spaces(Environment) = Spaces(r.config.environment)
    BY <2>7 DEF Spaces
  <2> QED
    BY <2>4, <2>5, <2>8 DEF SourceLoads, Ppo!ModelLoads
<1> QED
  BY <1>1, <1>2

\* The model a run begins with.
LEMMA InitialModelIs ==
    ASSUME SourceLoads
    PROVE  /\ InitialModel.num_timesteps = StepsBefore
           /\ "num_timesteps" \in DOMAIN InitialModel
           /\ InitialModel.n_steps = RolloutLimit
<1>1. CASE Null(start.source)
  BY <1>1 DEF InitialModel, Ppo!FreshModel, StepsBefore, RolloutLimit
<1>2. CASE ~ Null(start.source)
  BY <1>2 DEF InitialModel, Ppo!LoadedModel, StepsBefore, RolloutLimit, SourceLoads, Ppo!ModelLoads
<1> QED
  BY <1>1, <1>2

\* The invariant at the start.
LEMMA TrainingInit == Init => TrainingInv
BY DEF Init, StartInit, TrainingInv, Uncommitted

\* A step that leaves the training alone.
LEMMA TrainingStays ==
    ASSUME TrainingInv, UNCHANGED <<request, start, run, model, training>>,
           \/ phase' = phase
           \/ /\ phase \in {"requested", "pending", "running", "stepping"}
              /\ phase' \notin {"created", "training"} /\ ~ Uncommitted'
           \/ phase' = "rejected" /\ Uncommitted
    PROVE  TrainingInv'
<1>1. Loop' <=> Loop
  BY LoopStays
<1>2. /\ RequestedSteps' = RequestedSteps /\ (Prepared' <=> Prepared)
      /\ (Resumes' <=> Resumes) /\ (SourceDamaged' <=> SourceDamaged)
  BY ParametersStay
<1>3. CASE phase' = phase
  BY <1>1, <1>2, <1>3 DEF TrainingInv, Uncommitted
<1>4. CASE phase \in {"requested", "pending", "running", "stepping"}
           /\ phase' \notin {"created", "training"} /\ ~ Uncommitted'
  BY <1>1, <1>2, <1>4 DEF TrainingInv, Uncommitted
<1>5. CASE phase' = "rejected" /\ Uncommitted
  BY <1>1, <1>2, <1>5 DEF TrainingInv, Uncommitted
<1> QED
  BY <1>3, <1>4, <1>5

\* The part about the training.
LEMMA TrainingKept ==
    ASSUME DiskInv, DataInv, RunInv, CatalogInv, SourceInv, TrainingInv, [Next]_vars
    PROVE  TrainingInv'
<1>0. request' = request /\ request \in Requests
  BY RequestStays DEF DiskInv
<1>1. CASE Evaluate
  <2>1. UNCHANGED <<request, start, run, model, training>>
    BY <1>1, EvaluateFrame DEF inputs, ppoVars
  <2>2. phase \in {"requested", "pending", "running", "stepping"}
        /\ phase' \in {"unreadable", "refused", "pending", "running", "stepping", "completed", "failed"}
    BY <1>1, EvaluateFrame
  <2> QED
    BY <2>1, <2>2, TrainingStays DEF Uncommitted
<1>2. CASE CreateRun
  <2>1. UNCHANGED <<request, start, model, training>> /\ phase = "creating"
        /\ \/ phase' = "created" /\ run' = PendingRun
           \/ phase' = "rejected" /\ run' = run
    BY <1>2 DEF CreateRun, ppoVars
  <2>2. Prepared' /\ (Resumes' <=> Resumes) /\ training = NoValue
        /\ (~ Resumes => start.source = NoValue)
        /\ Config!ConfigValid(request.config, ProbabilityUnit)
    BY <2>1, ParametersStay DEF TrainingInv, Uncommitted
  <2>3. PendingRun.status = "pending"
    BY DEF PendingRun
  <2> QED
    BY <2>1, <2>2, <2>3 DEF TrainingInv, Uncommitted
<1>3. CASE BeginTraining
  <2>1. UNCHANGED <<request, start>> /\ phase = "created" /\ ~ Uncommitted
    BY <1>3 DEF BeginTraining, Uncommitted
  <2>2. /\ Prepared /\ Prepared' /\ (Resumes' <=> Resumes) /\ training = NoValue
        /\ (~ Resumes => start.source = NoValue)
        /\ Config!ConfigValid(request.config, ProbabilityUnit)
        /\ RequestedSteps' = RequestedSteps /\ (SourceDamaged' <=> SourceDamaged)
    BY <2>1, ParametersStay DEF TrainingInv, Uncommitted
  <2>3. Rows \in Int /\ StepsBefore \in Nat /\ RequestedSteps \in Nat \ {0}
    <3>1. Rows \in Int
      BY <2>1, DataIsCounted DEF HasData
    <3> QED
      BY <1>0, <2>1, <2>2, <3>1, SourceIsCounted, DurationIsWhole
  <2>4. DOMAIN run = DOMAIN PendingRun /\ "status" \in DOMAIN run
    BY <2>1 DEF RunInv, PendingRun
  <2>5. CASE Trainable /\ SourceLoads
    <3>1. /\ phase' = "training" /\ run' = [run EXCEPT !.status = "running", !.started = TRUE]
          /\ Ppo!Begin(InitialModel, run.train_rows, First, Schedule,
                       request.config.training_metrics)
      BY <1>3, <2>5 DEF BeginTraining, First
    <3>2. Loop' /\ training'.completed_steps = 0
      BY <1>0, <2>1, <2>2, <2>3, <2>5, <3>1, RunIsTrainable, InitialModelIs, LoopBegins
    <3>3. run'.status = "running"
      BY <2>4, <3>1
    <3>4. training'.completed_steps < RequestedSteps'
      BY <2>2, <2>3, <3>2
    <3> QED
      BY <1>0, <2>1, <2>2, <3>1, <3>2, <3>3, <3>4 DEF TrainingInv, Uncommitted
  <2>6. CASE ~ (Trainable /\ SourceLoads)
    <3>1. phase' = "failed" /\ run' = FailedRun /\ training' = training
      BY <1>3, <2>6 DEF BeginTraining, ppoVars
    <3>2. SourceDamaged
      BY <2>1, <2>6, RunIsTrainable, SourceIsLoaded
    <3>3. run'.status = "failed"
      BY <2>4, <3>1 DEF FailedRun
    <3> QED
      BY <1>0, <2>1, <2>2, <3>1, <3>2, <3>3 DEF TrainingInv, Uncommitted
  <2> QED
    BY <2>5, <2>6
<1>4. ASSUME phase = "training"
      PROVE  /\ Prepared /\ Loop /\ Rows \in Int /\ StepsBefore \in Nat
             /\ training.completed_steps < RequestedSteps /\ run.status = "running"
             /\ DOMAIN run = DOMAIN PendingRun /\ "status" \in DOMAIN run
  <2>1. ~ Uncommitted /\ HasData
    BY <1>4 DEF Uncommitted, HasData
  <2>2. Rows \in Int /\ StepsBefore \in Nat
    BY <2>1, DataIsCounted, SourceIsCounted
  <2>3. DOMAIN run = DOMAIN PendingRun /\ "status" \in DOMAIN run
    BY <2>1 DEF RunInv, PendingRun
  <2> QED
    BY <1>4, <2>1, <2>2, <2>3 DEF TrainingInv
<1>5. CASE CollectRollout
  <2>1. UNCHANGED <<request, phase, start, run>> /\ phase = "training" /\ Ppo!CollectRollout
    BY <1>5 DEF CollectRollout
  <2>2. LoopFrame' /\ LoopSteps' /\ LoopRows' /\ LoopCheckpoints' /\ LoopMetrics'
    BY <1>0, <1>4, <2>1, RolloutKeepsSteps, RolloutKeepsMetrics
  <2>3. training'.completed_steps < RequestedSteps'
    BY <1>4, <2>1, RolloutWrites, ParametersStay
  <2> QED
    BY <1>4, <2>1, <2>2, <2>3, ParametersStay DEF TrainingInv, Loop, Uncommitted
<1>6. CASE ReachBoundary
  <2> DEFINE end == Ppo!SegmentEnd
  <2>1. UNCHANGED <<request, start>> /\ phase = "training" /\ Ppo!SegmentEnded
    BY <1>6 DEF ReachBoundary
  <2>2. Ppo!SegmentExact /\ Table!CheckpointsAllowed({Ppo!BoundaryCheckpoint}, {[id |-> 0]})
    BY <1>0, <1>4, <2>1, SegmentEndsExactly
  <2>3. /\ Ppo!ReachBoundary
        /\ phase' = IF Ppo!IsFinal(end) THEN "requested" ELSE "training"
        /\ run' = IF Ppo!IsFinal(end)
                  THEN [run EXCEPT !.training_steps_completed = end,
                                   !.status = "completed", !.finished = TRUE]
                  ELSE [run EXCEPT !.training_steps_completed = end]
    BY <1>6, <2>2 DEF ReachBoundary
  <2>4. Loop' /\ training'.completed_steps = end
    BY <1>0, <1>4, <2>1, <2>3, BoundaryKeepsLoop
  <2>5. (Ppo!IsFinal(end) <=> end = RequestedSteps) /\ end <= RequestedSteps
        /\ end \in Nat /\ RequestedSteps \in Nat
    <3>0. Prepared /\ Loop /\ Rows \in Int /\ training.completed_steps < RequestedSteps
      BY <1>4, <2>1
    <3>1. end \in Boundaries
      BY <1>0, <3>0, NextBoundary
    <3>2. end \in 1 .. RequestedSteps /\ RequestedSteps \in Nat
      BY <1>0, <3>0, <3>1, LoopTypes
    <3>3. training.schedule.total = RequestedSteps
      BY <1>4, <2>1 DEF Loop, LoopFrame, Schedule
    <3> HIDE DEF end
    <3> QED
      BY <3>2, <3>3 DEF Ppo!IsFinal
  <2> HIDE DEF end
  <2>6. RequestedSteps' = RequestedSteps /\ (Prepared' <=> Prepared) /\ (Resumes' <=> Resumes)
    BY <2>1, ParametersStay
  <2>7. CASE Ppo!IsFinal(end)
    <3>1. phase' = "requested" /\ run'.status = "completed"
          /\ training'.completed_steps = RequestedSteps'
      BY <1>4, <2>1, <2>3, <2>4, <2>5, <2>6, <2>7
    <3> QED
      BY <1>4, <2>1, <2>4, <2>6, <3>1 DEF TrainingInv, Uncommitted
  <2>8. CASE ~ Ppo!IsFinal(end)
    <3>1. phase' = "training" /\ run'.status = "running"
          /\ training'.completed_steps < RequestedSteps'
      BY <1>4, <2>1, <2>3, <2>4, <2>5, <2>6, <2>8
    <3> QED
      BY <1>4, <2>1, <2>4, <2>6, <3>1 DEF TrainingInv, Uncommitted
  <2> QED
    BY <2>7, <2>8
<1>7. CASE Configure \/ KeepEntry \/ KeepFrame
  <2>1. /\ training' = training /\ start'.source = start.source
        /\ phase \in {"given", "verifying", "loading"}
        /\ training = NoValue /\ (~ Resumes => start.source = NoValue)
        /\ phase' \in {"verifying", "rejected", "loading", "resolving"}
        /\ phase = "given" =>
               phase' = "rejected" \/ Config!ConfigValid(request.config, ProbabilityUnit)
    BY <1>7 DEF Configure, KeepEntry, KeepFrame, ppoVars, DiskInv, TrainingInv, Uncommitted
  <2>2. phase' \notin {"given", "rejected"} =>
            Config!ConfigValid(request.config, ProbabilityUnit)
    BY <2>1 DEF TrainingInv
  <2>3. Resumes' <=> Resumes
    BY <1>0 DEF Resumes, Continuation
  <2> QED
    BY <1>0, <2>1, <2>2, <2>3 DEF TrainingInv, Uncommitted
<1>8. CASE Resolve
  <2>1. /\ phase = "resolving" /\ UNCHANGED <<training, run>>
        /\ \/ phase' = "rejected" /\ start' = start
           \/ /\ phase' = "creating" /\ Resolvable
              /\ start' = IF Continuation.mode = "fresh" THEN start
                          ELSE [start EXCEPT !.source = CHOOSE c \in Sources : TRUE]
    BY <1>8 DEF Resolve, ppoVars
  <2>2. Rows' = Rows
    BY <2>1 DEF Rows, DiskInv
  <2>3. (Prepared' <=> Prepared) /\ (Resumes' <=> Resumes)
    BY <1>0, <2>2, SplitStays DEF Resumes, Continuation
  <2>4. phase' = "creating" => Prepared
    BY <2>1 DEF TrainingInv, Prepared, Resolvable
  <2>5. Continuation.mode \in {"fresh", "resume"}
    BY <1>0, FieldsAssumption DEF Continuation
  <2>6. ~ Resumes => start' = start
    BY <2>1, <2>5 DEF Resumes
  <2> QED
    BY <1>0, <2>1, <2>3, <2>4, <2>6 DEF TrainingInv, Uncommitted
<1>9. CASE Read \/ ReadingFails \/ Import \/ CleanSource \/ UNCHANGED vars
  <2>1. UNCHANGED <<request, start, run, model, training>>
        /\ (phase' = phase \/ (phase' = "rejected" /\ Uncommitted))
    BY <1>9 DEF Read, ReadingFails, Import, CleanSource, vars, startVars, ppoVars, Uncommitted
  <2> QED
    BY <2>1, TrainingStays
<1> QED
  BY <1>1, <1>2, <1>3, <1>5, <1>6, <1>7, <1>8, <1>9, Steps DEF Train

-----------------------------------------------------------------------------
(* The theorem about the training *)

\* The parts a training needs.
TInv == IInv /\ TrainingInv

\* Every run is trained by a loop of this kind.
THEOREM TrainingInvariant == Spec => []TInv
<1>1. Init => TInv
  BY InvariantInit, TrainingInit DEF TInv
<1>2. TInv /\ [Next]_vars => TInv'
  BY InvariantKept, TrainingKept DEF TInv, IInv
<1> QED
  BY <1>1, <1>2, PTL DEF Spec

\* A loop executes every row of TRAIN equally often, but for the pass it is in.
LEMMA LoopIsExact ==
    ASSUME request \in Requests, Prepared, Rows \in Int, StepsBefore \in Nat, Loop
    PROVE  LET t      == training
               rows   == (t.start_index + 1) .. (t.rows - 1)
               visits == {t.executed[r] : r \in rows}
           IN  /\ \A k \in DOMAIN t.rollout_sizes :
                      /\ t.rollout_sizes[k] \in 1 .. request.config.ppo.n_steps
                      /\ t.rollout_sizes[k] % Batch = 0
               /\ SumOver(LAMBDA n : n, t.executed) = t.completed_steps + t.segment_steps
               /\ \A v, w \in visits : v - w <= 1
               /\ \A r \in DOMAIN t.executed \ rows : t.executed[r] = 0
               /\ Table!MetricsAllowed(t.metrics)
<1> DEFINE t == training
           rows == (t.start_index + 1) .. (t.rows - 1)
           visits == {t.executed[r] : r \in rows}
           before == Ppo!RunSteps
<1>1. /\ before \in Nat /\ before = t.completed_steps + t.segment_steps
      /\ Pass \in Nat \ {0} /\ First \in Nat
  BY LoopTypes
<1>2. /\ t.start_index = First /\ t.rows = First + 1 + Pass
      /\ t.executed = [r \in 0 .. First + Pass |->
                         IF First < r THEN Turns(before, Pass, r - First - 1) ELSE 0]
  BY DEF Loop, LoopFrame, LoopRows
<1>3. \A k \in DOMAIN t.rollout_sizes :
        /\ t.rollout_sizes[k] \in 1 .. request.config.ppo.n_steps
        /\ t.rollout_sizes[k] % Batch = 0
  <2>1. t.rollout_sizes \in Seq(Sizes)
    BY DEF Loop, LoopSteps
  <2>2. \A k \in DOMAIN t.rollout_sizes : t.rollout_sizes[k] \in Sizes
    BY <2>1
  <2> QED
    BY <2>2 DEF Sizes, RolloutLimit
<1> HIDE DEF before
<1>4. SumOver(LAMBDA n : n, t.executed) = before
  <2> DEFINE executed == [r \in 0 .. First + Pass |->
                            IF First < r THEN Turns(before, Pass, r - First - 1) ELSE 0]
  <2>1. SumOver(LAMBDA n : n, executed) = before
    BY <1>1, ExecutedSteps
  <2> QED
    BY <1>2, <2>1
<1>5. \A r \in rows : /\ r - First - 1 \in 0 .. Pass - 1
                      /\ t.executed[r] = Turns(before, Pass, r - First - 1)
  <2>1. rows = (First + 1) .. (First + Pass)
    BY <1>1, <1>2
  <2> HIDE DEF rows
  <2> TAKE r \in rows
  <2>2. r \in 0 .. First + Pass /\ First < r /\ r - First - 1 \in 0 .. Pass - 1
    BY <1>1, <2>1
  <2> HIDE DEF t
  <2> QED
    BY <1>2, <2>2
<1>6. \A v, w \in visits : v - w <= 1
  <2> TAKE v, w \in visits
  <2>1. PICK i, j \in 0 .. Pass - 1 : v = Turns(before, Pass, i) /\ w = Turns(before, Pass, j)
    BY <1>5
  <2> QED
    BY <1>1, <2>1, TurnsAreEven
<1>7. \A r \in DOMAIN t.executed \ rows : t.executed[r] = 0
  <2> TAKE r \in DOMAIN t.executed \ rows
  <2>1. r \in 0 .. First + Pass /\ ~ (First < r)
    <3>1. DOMAIN t.executed = 0 .. First + Pass /\ rows = (First + 1) .. (First + Pass)
      BY <1>1, <1>2
    <3> HIDE DEF rows
    <3> QED
      BY <1>1, <3>1
  <2> QED
    BY <1>2, <2>1
<1>8. Table!MetricsAllowed(t.metrics)
  <2>1. /\ \A m \in t.metrics : /\ m.run_step \in 1 .. before
                                /\ m.model_step = StepsBefore + m.run_step
                                /\ m.rollout_number \in Nat \ {0}
        /\ \A m, n \in t.metrics : m.run_step = n.run_step => m = n
    BY DEF Loop, LoopMetrics, before
  <2>2. \A m \in t.metrics : m.run_step >= 1 /\ m.model_step >= m.run_step /\ m.rollout_number >= 1
    BY <1>1, <2>1
  <2> QED
    BY <2>1, <2>2 DEF Table!MetricsAllowed
<1> QED
  BY <1>1, <1>3, <1>4, <1>6, <1>7, <1>8

\* The checkpoints of different boundaries are rows the table accepts.
LEMMA CheckpointsOfRun ==
    ASSUME StepsBefore \in Nat, NEW E \in SUBSET Nat
    PROVE  /\ {c.run_step : c \in {CheckpointAt(e) : e \in E}} = E
           /\ Table!CheckpointsAllowed({CheckpointAt(e) : e \in E}, {[id |-> 0]})
<1>1. \A e \in E : LET c == CheckpointAt(e)
                   IN  /\ c.id = e /\ c.run_id = 0 /\ c.run_step = e
                       /\ c.model_step = StepsBefore + e
                       /\ c.save_reason = IF e = RequestedSteps THEN "final" ELSE "periodic"
  BY DEF CheckpointAt
<1> DEFINE C == {CheckpointAt(e) : e \in E}
<1>2. \A c \in C : \E e \in E : c = CheckpointAt(e)
  OBVIOUS
<1>3. {c.run_step : c \in C} = E
  <2>1. \A e \in E : CheckpointAt(e) \in C /\ CheckpointAt(e).run_step = e
    BY <1>1
  <2>2. \A c \in C : c.run_step \in E
    BY <1>1, <1>2
  <2> HIDE DEF C
  <2> QED
    BY <2>1, <2>2
<1>4. \A c \in C : /\ c.save_reason \in Table!SaveReasons
                   /\ \E r \in {[id |-> 0]} : r.id = c.run_id
                   /\ 0 <= c.run_step /\ c.run_step <= c.model_step
  BY <1>1 DEF Table!SaveReasons
<1>5. \A c, d \in C :
        \/ c.id = d.id /\ c = d
        \/ /\ c.id # d.id
           /\ c.run_id = d.run_id /\ c.save_reason = d.save_reason =>
                  c.run_step # d.run_step /\ c.save_reason # "final"
  <2> TAKE c, d \in C
  <2>1. PICK e, f \in E : c = CheckpointAt(e) /\ d = CheckpointAt(f)
    OBVIOUS
  <2> QED
    BY <1>1, <2>1
<1> QED
  BY <1>3, <1>4, <1>5 DEF Table!CheckpointsAllowed

\* The steps of a run that has trained to its end.
LEMMA CompletedIsExact ==
    ASSUME request \in Requests, Prepared, Rows \in Int, StepsBefore \in Nat, Loop,
           training.completed_steps = RequestedSteps
    PROVE  LET t     == training
               every == t.metrics_every
           IN  /\ SumOver(LAMBDA n : n, t.executed) = RequestedSteps
               /\ model.num_timesteps = RequestedSteps + StepsBefore
               /\ request.config.training.duration_unit = "data_epochs" =>
                      \A r \in (t.start_index + 1) .. (t.rows - 1) :
                          t.executed[r] = request.config.training.duration_amount
               /\ {c.run_step : c \in t.checkpoints} = Ppo!EventSteps(Schedule)
               /\ Table!CheckpointsAllowed(t.checkpoints, {[id |-> 0]})
               /\ ~Null(every) =>
                      /\ \E m \in t.metrics : m.run_step = RequestedSteps
                      /\ \A due \in {n \in 1 .. RequestedSteps : n % every = 0} :
                            \E m \in t.metrics :
                                m.run_step \in due .. (due + request.config.ppo.n_steps - 1)
<1> DEFINE t == training
<1>1. /\ RequestedSteps \in Nat \ {0} /\ Ppo!RunSteps = RequestedSteps
      /\ Pass \in Nat \ {0} /\ First \in Nat
      /\ \A e \in Boundaries : e \in Nat /\ e \in 1 .. RequestedSteps
  BY LoopTypes DEF Loop, LoopSteps
<1>2. SumOver(LAMBDA n : n, t.executed) = RequestedSteps
  <2>1. SumOver(LAMBDA n : n, t.executed) = t.completed_steps + t.segment_steps
    BY LoopIsExact
  <2> QED
    BY <1>1, <2>1 DEF Ppo!RunSteps
<1>3. model.num_timesteps = RequestedSteps + StepsBefore
  BY <1>1 DEF Loop, LoopSteps
<1>4. ASSUME request.config.training.duration_unit = "data_epochs",
             NEW r \in (t.start_index + 1) .. (t.rows - 1)
      PROVE  t.executed[r] = request.config.training.duration_amount
  <2> DEFINE a == request.config.training.duration_amount
             j == r - First - 1
  <2>1. RequestedSteps = a * Pass /\ a \in Nat
    BY <1>4, DurationIsWhole, Settings DEF Prepared
  <2>2. r \in (First + 1) .. (First + Pass)
    BY <1>1, <1>4 DEF Loop, LoopFrame
  <2>3. j \in 0 .. Pass - 1 /\ r \in 0 .. First + Pass /\ First < r
    BY <1>1, <2>2
  <2>4. t.executed[r] = Turns(RequestedSteps, Pass, j)
    BY <1>1, <2>3 DEF Loop, LoopRows
  <2> HIDE DEF a, j
  <2>5. Turns(RequestedSteps, Pass, j) = a
    BY <1>1, <2>1, <2>3, TurnsAreEven
  <2> QED
    BY <2>4, <2>5 DEF a
<1>5. /\ {c.run_step : c \in t.checkpoints} = Ppo!EventSteps(Schedule)
      /\ Table!CheckpointsAllowed(t.checkpoints, {[id |-> 0]})
  <2>1. Passed = Boundaries
    BY <1>1 DEF Passed
  <2>2. t.checkpoints = {CheckpointAt(e) : e \in Boundaries} /\ Boundaries \in SUBSET Nat
    BY <1>1, <2>1 DEF Loop, LoopCheckpoints
  <2> QED
    BY <2>2, CheckpointsOfRun DEF Boundaries
<1>6. ~Null(t.metrics_every) =>
        /\ \E m \in t.metrics : m.run_step = RequestedSteps
        /\ \A due \in {n \in 1 .. RequestedSteps : n % t.metrics_every = 0} :
              \E m \in t.metrics :
                  m.run_step \in due .. (due + request.config.ppo.n_steps - 1)
  <2>1. t.metrics_every = request.config.training_metrics
    BY DEF Loop, LoopFrame
  <2> QED
    BY <1>1, <2>1 DEF Loop, LoopMetrics, MetricsDone, RolloutLimit
<1> QED
  BY <1>2, <1>3, <1>4, <1>5, <1>6

\* A run executes exactly the steps its row asks for, every row of TRAIN
\* equally often, however its boundaries cut the passes, and leaves the
\* checkpoints and the metrics its schedule says.
THEOREM TrainingIsExact == Spec => []TrainsExactly
<1>1. TInv => TrainsExactly
  <2> SUFFICES ASSUME TInv PROVE TrainsExactly
    OBVIOUS
  <2>1. DiskInv /\ DataInv /\ RunInv /\ SourceInv /\ TrainingInv /\ request \in Requests
    BY DEF TInv, IInv, DiskInv
  <2>2. ASSUME ~ Uncommitted PROVE Prepared /\ Rows \in Int /\ StepsBefore \in Nat
    BY <2>1, <2>2, DataIsCounted, SourceIsCounted DEF TrainingInv, HasData, Uncommitted
  <2>3. ~ Null(training) => ~ Uncommitted /\ Loop
    BY <2>1 DEF TrainingInv, Null
  <2>4. ASSUME ~ Null(run), run.status = "completed"
        PROVE  /\ ~ Uncommitted /\ Loop /\ training.completed_steps = RequestedSteps
               /\ run.training_steps_requested = RequestedSteps
               /\ run.duration_unit = request.config.training.duration_unit
               /\ run.duration_amount = request.config.training.duration_amount
    <3>1. ~ Uncommitted
      BY <2>1, <2>4 DEF RunInv, Null
    <3>2. Loop /\ training.completed_steps = RequestedSteps
      BY <2>1, <2>4, <3>1 DEF TrainingInv
    <3>3. /\ {"training_steps_requested", "duration_unit", "duration_amount"} \subseteq FixedColumns
          /\ PendingRun.training_steps_requested = RequestedSteps
          /\ PendingRun.duration_unit = request.config.training.duration_unit
          /\ PendingRun.duration_amount = request.config.training.duration_amount
      BY DEF PendingRun, FixedColumns
    <3> QED
      BY <2>1, <3>1, <3>2, <3>3 DEF RunInv
  <2>5. ~ Null(run) /\ run.status = "failed" => SourceDamaged
    BY <2>1 DEF TrainingInv, RunInv, Null
  <2>6. ~ Null(training) =>
         LET t      == training
             rows   == (t.start_index + 1) .. (t.rows - 1)
             visits == {t.executed[r] : r \in rows}
         IN  /\ \A k \in DOMAIN t.rollout_sizes :
                    /\ t.rollout_sizes[k] \in 1 .. request.config.ppo.n_steps
                    /\ t.rollout_sizes[k] % Batch = 0
             /\ SumOver(LAMBDA n : n, t.executed) = t.completed_steps + t.segment_steps
             /\ \A v, w \in visits : v - w <= 1
             /\ \A r \in DOMAIN t.executed \ rows : t.executed[r] = 0
             /\ Table!MetricsAllowed(t.metrics)
    BY <2>1, <2>2, <2>3, LoopIsExact
  <2>7. ~Null(run) /\ run.status = "completed" =>
         LET t     == training
             every == t.metrics_every
         IN  /\ SumOver(LAMBDA n : n, t.executed) = run.training_steps_requested
             /\ model.num_timesteps = run.training_steps_requested
                    + (IF Null(start.source) THEN 0 ELSE start.source.model_step)
             /\ run.duration_unit = "data_epochs" =>
                    \A r \in (t.start_index + 1) .. (t.rows - 1) :
                        t.executed[r] = run.duration_amount
             /\ {c.run_step : c \in t.checkpoints} = Ppo!EventSteps(Schedule)
             /\ Table!CheckpointsAllowed(t.checkpoints, {[id |-> 0]})
             /\ ~Null(every) =>
                    /\ \E m \in t.metrics : m.run_step = run.training_steps_requested
                    /\ \A due \in {n \in 1 .. run.training_steps_requested : n % every = 0} :
                          \E m \in t.metrics :
                              m.run_step \in due .. (due + request.config.ppo.n_steps - 1)
    <3> SUFFICES ASSUME ~Null(run), run.status = "completed"
                 PROVE
         LET t     == training
             every == t.metrics_every
         IN  /\ SumOver(LAMBDA n : n, t.executed) = run.training_steps_requested
             /\ model.num_timesteps = run.training_steps_requested
                    + (IF Null(start.source) THEN 0 ELSE start.source.model_step)
             /\ run.duration_unit = "data_epochs" =>
                    \A r \in (t.start_index + 1) .. (t.rows - 1) :
                        t.executed[r] = run.duration_amount
             /\ {c.run_step : c \in t.checkpoints} = Ppo!EventSteps(Schedule)
             /\ Table!CheckpointsAllowed(t.checkpoints, {[id |-> 0]})
             /\ ~Null(every) =>
                    /\ \E m \in t.metrics : m.run_step = run.training_steps_requested
                    /\ \A due \in {n \in 1 .. run.training_steps_requested : n % every = 0} :
                          \E m \in t.metrics :
                              m.run_step \in due .. (due + request.config.ppo.n_steps - 1)
      OBVIOUS
    <3> QED
      BY <2>1, <2>2, <2>4, CompletedIsExact DEF StepsBefore
  <2> QED
    BY <2>5, <2>6, <2>7 DEF TrainsExactly
<1> QED
  BY <1>1, TrainingInvariant, PTL

-----------------------------------------------------------------------------
(* The rows that are trained on and scored *)

\* Where the rows of a run begin in the dataset, and the first of a pass.
Offset == IF SplitByTime THEN Split.window_metadata.train.start - Lookback ELSE 0

PassStart == Offset + First + 1

\* A pass has the rows of TRAIN that an evaluation of TRAIN scores, and every
\* row of VALIDATION comes after them.
LEMMA PassRows ==
    ASSUME request \in Requests, Prepared, Rows \in Int
    PROVE  /\ Null(Split.window_metadata) <=> ~ SplitByTime
           /\ Offset \in Int /\ PassStart \in Int
           /\ PassStart = IF SplitByTime THEN Split.window_metadata.train.start
                          ELSE Lookback + ((Split.split_index - Lookback) % Batch)
           /\ PassStart + Pass = IF SplitByTime THEN Split.window_metadata.train.end
                                 ELSE Split.split_index
           /\ SplitByTime /\ ~ Null(request.config.data.validation_range) =>
                  /\ {Split.window_metadata.validation.start,
                      Split.window_metadata.validation.end} \subseteq Int
                  /\ PassStart + Pass <= Split.window_metadata.validation.start
           /\ ~ SplitByTime => Split.split_index < Rows
<1>1. /\ Batch \in Nat \ {0} /\ Lookback \in Nat \ {0}
      /\ Pass \in Nat \ {0} /\ First \in Nat
      /\ SplitByTime => Split.window_metadata.train.start \in Int
  BY Settings, SplitTrains DEF Prepared
<1>2. CASE SplitByTime
  <2> DEFINE wm == Split.window_metadata
             ranged == ~ Null(request.config.data.validation_range)
  <2>1. /\ TrainRange \in [start : Int, end : Int]
        /\ ranged => ValidationRange \in [start : Int, end : Int]
    BY <1>2, FieldsAssumption DEF SplitByTime, TrainRange, ValidationRange, Located
  <2>2. /\ Pass = wm.train.end - wm.train.start /\ First = Lookback - 1
        /\ wm.train.end = TrainRange.end
        /\ wm = [data_rows |-> Rows, train |-> [start |-> wm.train.start, end |-> wm.train.end],
                 validation |-> IF ranged THEN ValidationRange ELSE NoValue]
    BY <1>2 DEF Split, TimeRangeSplit, Pass, First
  <2>3. ranged => ValidationRange.start >= TrainRange.end
    BY <1>2 DEF Prepared, SplitPossible, TimeSplitAccepts
  <2> HIDE DEF wm, ranged
  <2>4. wm.train.start \in Int /\ wm.train.end \in Int
    BY <1>1, <1>2, <2>1, <2>2 DEF wm
  <2>5. wm # NoValue
    BY <2>1, <2>2, <2>4, NullAssumption
  <2>6. Offset = wm.train.start - Lookback /\ PassStart = Offset + First + 1
    BY <1>2 DEF Offset, PassStart, wm
  <2>7. /\ Offset \in Int /\ PassStart = wm.train.start /\ PassStart + Pass = wm.train.end
    BY <1>1, <2>2, <2>4, <2>6
  <2>8. ranged => wm.validation = ValidationRange
    BY <2>2
  <2>9. ranged => /\ {wm.validation.start, wm.validation.end} \subseteq Int
                  /\ PassStart + Pass <= wm.validation.start
    BY <2>1, <2>2, <2>3, <2>4, <2>7, <2>8
  <2> QED
    BY <1>2, <2>4, <2>5, <2>7, <2>9 DEF wm, ranged, Null
<1>3. CASE ~ SplitByTime
  <2> DEFINE x == RunSplitIndex - Lookback
             m == x % Batch
  <2>1. RunSplitIndex \in Int
    <3>1. TrainRatio[1] \in Int /\ TrainRatio[2] \in Nat \ {0}
      BY <1>3, FieldsAssumption DEF TrainRatio, SplitByTime, Null, Prepared,
         Config!ConfigValid, Config!DataValid, Config!Present
    <3>2. Rows * TrainRatio[1] \in Int
      BY <3>1
    <3> QED
      BY <3>1, <3>2 DEF RunSplitIndex, SplitIndex
  <2>2. Rows - RunSplitIndex >= 1
    BY <1>3 DEF Prepared, SplitPossible, SplitAccepts
  <2>3. /\ Pass = x - m /\ First = Lookback - 1 + m /\ Split.split_index = RunSplitIndex
        /\ Split.window_metadata = NoValue
    BY <1>3 DEF Split, BatchAligned, ChronologicalSplit, Pass, First
  <2>4. x \in Int
    BY <1>1, <2>1
  <2> HIDE DEF x
  <2>5. m \in Nat
    BY <1>1, <2>4, WholeMultiples
  <2> HIDE DEF m
  <2>6. Offset = 0 /\ PassStart = First + 1
    BY <1>1, <1>3 DEF Offset, PassStart
  <2>7. PassStart = Lookback + m /\ PassStart + Pass = RunSplitIndex /\ RunSplitIndex < Rows
    BY <1>1, <2>1, <2>2, <2>3, <2>5, <2>6 DEF x
  <2> QED
    BY <1>1, <1>3, <2>3, <2>6, <2>7 DEF m, x, Null
<1> QED
  BY <1>2, <1>3

\* The rows of a pass that have had their turn.
LEMMA RowsHadTurns ==
    ASSUME request \in Requests, Prepared, Rows \in Int, StepsBefore \in Nat, Loop,
           run.window_metadata = Split.window_metadata
    PROVE  /\ Trained \subseteq PassStart .. (PassStart + Pass - 1)
           /\ Pass <= Ppo!RunSteps => Trained = PassStart .. (PassStart + Pass - 1)
<1> DEFINE steps == Ppo!RunSteps
           executed == training.executed
<1>1. /\ steps \in Nat /\ Pass \in Nat \ {0} /\ First \in Nat
      /\ Offset \in Int /\ PassStart = Offset + First + 1
  BY LoopTypes, PassRows DEF PassStart
<1>2. executed = [r \in 0 .. First + Pass |->
                    IF First < r THEN Turns(steps, Pass, r - First - 1) ELSE 0]
  BY DEF Loop, LoopRows
<1>3. Trained = {Offset + r : r \in {x \in DOMAIN executed : executed[x] > 0}}
  BY DEF Trained, Offset
<1> HIDE DEF steps, executed
<1>4. \A x \in DOMAIN executed : executed[x] > 0 => x \in (First + 1) .. (First + Pass)
  BY <1>1, <1>2
<1>5. Trained \subseteq PassStart .. (PassStart + Pass - 1)
  <2> SUFFICES ASSUME NEW r \in Trained PROVE r \in PassStart .. (PassStart + Pass - 1)
    OBVIOUS
  <2>1. PICK x \in (First + 1) .. (First + Pass) : r = Offset + x
    BY <1>3, <1>4
  <2> QED
    BY <1>1, <2>1
<1>6. ASSUME Pass <= steps, NEW r \in PassStart .. (PassStart + Pass - 1)
      PROVE  r \in Trained
  <2> DEFINE x == r - Offset
  <2>1. x \in (First + 1) .. (First + Pass) /\ r = Offset + x /\ x - First - 1 \in 0 .. Pass - 1
    BY <1>1
  <2> HIDE DEF x
  <2>2. x \in DOMAIN executed /\ executed[x] = Turns(steps, Pass, x - First - 1)
    BY <1>1, <1>2, <2>1
  <2>3. Turns(steps, Pass, x - First - 1) > 0 /\ Turns(steps, Pass, x - First - 1) \in Nat
    BY <1>1, <1>6, <2>1, TurnsAreEven, TurnOf
  <2> QED
    BY <1>3, <2>1, <2>2, <2>3
<1> QED
  <2>1. Pass <= Ppo!RunSteps => PassStart .. (PassStart + Pass - 1) \subseteq Trained
    BY <1>6 DEF steps
  <2> QED
    BY <1>5, <2>1

\* The phases in which an evaluation has its row, and has not failed.
Scoring == phase \in {"pending", "running", "stepping", "completed"}

\* The columns of an evaluation that say what it scores.
RowColumns == {"evaluation_start_index", "lookback_rows", "steps_expected"}

\* The rows scored so far, one after the other from the first of the range.
TraceInv ==
    /\ phase \notin {"stepping", "completed", "failed"} => trace = EmptyTrace
    /\ phase \in {"stepping", "completed"} =>
         /\ \E S : trace.agent_equity \in Seq(S)
         /\ trace.execution_indices = [k \in 1 .. StepsDone |-> EvaluationRange.start + k - 1]
         /\ agent.current_index = Lookback - 1 + StepsDone
    /\ phase = "completed" => StepsDone = EvaluationRange.end - EvaluationRange.start

\* A run that is evaluated has trained to its end, and the row of its
\* evaluation keeps the range it was accepted with.
ScoringInv ==
    /\ Scoring \/ phase = "requested" =>
         /\ run.status = "completed"
         /\ run.training_steps_completed = RequestedSteps
    /\ Scoring => /\ ScopeAccepted /\ RangeAccepted
                  /\ DOMAIN row = DOMAIN PendingRow
                  /\ \A f \in RowColumns : row[f] = PendingRow[f]
    /\ TraceInv

\* What is scored depends on the request, the run and the data only.
LEMMA RangeStays ==
    ASSUME UNCHANGED <<request, start, run, reader>>
    PROVE  /\ EvaluationRange' = EvaluationRange /\ Lookback' = Lookback
           /\ RequestedSteps' = RequestedSteps
           /\ (ScopeAccepted' <=> ScopeAccepted) /\ (RangeAccepted' <=> RangeAccepted)
           /\ PendingRow' = PendingRow
<1>1. Lookback' = Lookback /\ Batch' = Batch /\ (SplitByTime' <=> SplitByTime)
  BY DEF Lookback, Environment, Batch, SplitByTime
<1>2. EvaluationRange' = EvaluationRange
  BY <1>1 DEF EvaluationRange
<1>3. (ScopeAccepted' <=> ScopeAccepted) /\ (RangeAccepted' <=> RangeAccepted)
  BY <1>1, <1>2 DEF ScopeAccepted, RangeAccepted
<1>4. PendingRow' = PendingRow
  BY <1>1, <1>2 DEF PendingRow
<1>5. RequestedSteps' = RequestedSteps
  BY SplitStays DEF Rows
<1> QED
  BY <1>1, <1>2, <1>3, <1>4, <1>5

\* The columns a pending row has.
LEMMA RowIs ==
    /\ PendingRow.evaluation_start_index = EvaluationRange.start
    /\ PendingRow.lookback_rows = Lookback
    /\ PendingRow.steps_expected = EvaluationRange.end - EvaluationRange.start
    /\ RowColumns \subseteq DOMAIN PendingRow
BY DEF PendingRow, RowColumns

\* A sequence grows by its end.
LEMMA ListGrows ==
    ASSUME NEW S, NEW s \in Seq(S), NEW e
    PROVE  /\ Append(s, e) \in Seq(S \cup {e}) /\ Len(Append(s, e)) = Len(s) + 1 /\ Len(s) \in Nat
           /\ \A k \in 1 .. Len(s) + 1 :
                  Append(s, e)[k] = IF k = Len(s) + 1 THEN e ELSE s[k]
<1>1. s \in Seq(S \cup {e})
  <2>1. Len(s) \in Nat /\ s \in [1 .. Len(s) -> S \cup {e}]
    OBVIOUS
  <2> QED
    BY <2>1
<1> QED
  BY <1>1

\* A step executes the row after the one it observes.
LEMMA StepExecutes ==
    ASSUME NEW e, NEW c, NEW market, NEW rows, NEW action
    PROVE  StepCore(e, c, market, rows, action).info.execution_index
             = StepCore(e, c, market, rows, action).environment.current_index
BY DEF StepCore, StepInfo

\* An evaluation of TRAIN scores the rows of a pass, one of VALIDATION only
\* rows after them, to the last.
LEMMA ScoredRange ==
    ASSUME request \in Requests, Prepared, Rows \in Int, ScopeAccepted,
           run.window_metadata = Split.window_metadata, run.split_index = Split.split_index,
           reader.frame = start.data
    PROVE  /\ EvaluationRange.start \in Int /\ EvaluationRange.end \in Int
           /\ request.data_scope = "run_training" =>
                  EvaluationRange.start = PassStart /\ EvaluationRange.end = PassStart + Pass
           /\ request.data_scope = "run_validation" =>
                  /\ PassStart + Pass <= EvaluationRange.start
                  /\ ~ SplitByTime => EvaluationRange.end = Rows
<1> DEFINE wm == Split.window_metadata
<1>1. /\ Null(wm) <=> ~ SplitByTime
      /\ PassStart \in Int /\ Pass \in Nat \ {0}
      /\ PassStart = IF SplitByTime THEN wm.train.start
                     ELSE Lookback + ((Split.split_index - Lookback) % Batch)
      /\ PassStart + Pass = IF SplitByTime THEN wm.train.end ELSE Split.split_index
      /\ SplitByTime /\ ~ Null(request.config.data.validation_range) =>
             /\ {wm.validation.start, wm.validation.end} \subseteq Int
             /\ PassStart + Pass <= wm.validation.start
  BY PassRows, SplitTrains
<1>2. reader.frame.rows = Rows
  BY DEF Rows
<1> HIDE DEF wm
<1>3. CASE request.data_scope = "run_training"
  <2>1. EvaluationRange.start = PassStart /\ EvaluationRange.end = PassStart + Pass
    BY <1>1, <1>3 DEF EvaluationRange, wm
  <2> QED
    BY <1>1, <1>3, <2>1
<1>4. CASE request.data_scope # "run_training" /\ ~ Null(request.range)
  <2>1. EvaluationRange = request.range /\ request.data_scope # "run_validation"
    BY <1>4 DEF EvaluationRange, ScopeAccepted
  <2> QED
    BY <1>4, <2>1, FieldsAssumption
<1>5. CASE request.data_scope # "run_training" /\ Null(request.range) /\ SplitByTime
  <2>1. EvaluationRange = wm.validation /\ ~ Null(request.config.data.validation_range)
    BY <1>1, <1>5 DEF EvaluationRange, ScopeAccepted, wm
  <2> QED
    BY <1>1, <1>5, <2>1
<1>6. CASE request.data_scope # "run_training" /\ Null(request.range) /\ ~ SplitByTime
  <2>1. EvaluationRange.start = Split.split_index /\ EvaluationRange.end = Rows
    BY <1>1, <1>2, <1>6 DEF EvaluationRange, wm
  <2> QED
    BY <1>1, <1>6, <2>1
<1> QED
  BY <1>3, <1>4, <1>5, <1>6

\* What is known of a run that is evaluated.
LEMMA ScoringRun ==
    ASSUME DiskInv, DataInv, RunInv, TrainingInv, ~ Uncommitted
    PROVE  /\ request \in Requests /\ Prepared /\ Rows \in Int
           /\ run.window_metadata = Split.window_metadata /\ run.split_index = Split.split_index
           /\ run.steps_per_data_epoch = Pass
           /\ DOMAIN run = DOMAIN PendingRun
           /\ {"status", "training_steps_completed"} \subseteq DOMAIN run
<1>1. request \in Requests /\ Prepared /\ Rows \in Int
  BY DataIsCounted DEF TrainingInv, DiskInv, HasData, Uncommitted
<1>2. /\ {"window_metadata", "split_index", "steps_per_data_epoch"} \subseteq FixedColumns
      /\ PendingRun.window_metadata = Split.window_metadata
      /\ PendingRun.split_index = Split.split_index
      /\ PendingRun.steps_per_data_epoch = Split.steps_per_data_epoch
      /\ {"status", "training_steps_completed"} \subseteq DOMAIN PendingRun
  BY DEF PendingRun, FixedColumns
<1> QED
  BY <1>1, <1>2 DEF RunInv, Pass

\* A step of the evaluation scores the next row,
LEMMA StepScores ==
    ASSUME NEW bar, NEW action, phase = "stepping", StepOn(bar, action),
           FrameInv, TraceInv, Lookback \in Int,
           EvaluationRange.start \in Int, EvaluationRange.end \in Int,
           \A f \in RowColumns : row[f] = PendingRow[f]
    PROVE  \/ phase' = "failed"
           \/ /\ phase' = phase /\ row' = row
              /\ \E S : trace'.agent_equity \in Seq(S)
              /\ StepsDone \in Nat /\ StepsDone' = StepsDone + 1
              /\ trace'.execution_indices
                   = [k \in 1 .. StepsDone' |-> EvaluationRange.start + k - 1]
              /\ agent'.current_index = Lookback - 1 + StepsDone'
<1> DEFINE market == WithBar(bar)
           a == StepCore(agent, Environment, market, LocalRows, action)
           l == StepCore(always_long, [Environment EXCEPT !.position_side = "long_only"],
                         market, LocalRows, 1)
           s == StepCore(always_short, [Environment EXCEPT !.position_side = "short_only"],
                         market, LocalRows, 1)
           index == row.evaluation_start_index - row.lookback_rows + a.info.execution_index
<1>1. CASE Fail
  BY <1>1 DEF Fail
<1>2. CASE /\ agent' = a.environment /\ trace' = Recorded(a, l, s)
           /\ phase' = phase /\ row' = row
  <2>1. /\ trace'.agent_equity = Append(trace.agent_equity, a.info.equity)
        /\ trace'.execution_indices = Append(trace.execution_indices, index)
    BY <1>2 DEF Recorded
  <2>2. /\ a.environment.current_index = agent.current_index + 1
        /\ a.info.execution_index = agent.current_index + 1
    BY StepMoves, StepExecutes DEF FrameInv
  <2>3. PICK S : trace.agent_equity \in Seq(S)
    BY DEF TraceInv
  <2> HIDE DEF a, l, s, market, index
  <2>4. /\ trace'.agent_equity \in Seq(S \cup {a.info.equity})
        /\ StepsDone \in Nat /\ StepsDone' = StepsDone + 1
    BY <2>1, <2>3, ListGrows DEF StepsDone
  <2>5. agent.current_index = Lookback - 1 + StepsDone
    BY DEF TraceInv
  <2>6. index = EvaluationRange.start + StepsDone
    <3>1. index = EvaluationRange.start - Lookback + (agent.current_index + 1)
      BY <2>2, RowIs DEF index, RowColumns
    <3> QED
      BY <2>4, <2>5, <3>1
  <2>7. trace'.execution_indices = [k \in 1 .. StepsDone' |-> EvaluationRange.start + k - 1]
    <3> DEFINE n == StepsDone
               first == EvaluationRange.start
               old == [k \in 1 .. n |-> first + k - 1]
               new == [k \in 1 .. n + 1 |-> first + k - 1]
    <3>1. trace.execution_indices = old /\ n \in Nat /\ first \in Int
      BY <2>4 DEF TraceInv
    <3> HIDE DEF n, first
    <3>2. old \in Seq(Int) /\ Len(old) = n /\ new \in Seq(Int) /\ Len(new) = n + 1
      BY <3>1
    <3>3. Append(old, index) \in Seq(Int) /\ Len(Append(old, index)) = n + 1
      BY <2>6, <3>1, <3>2 DEF n, first
    <3>4. \A k \in 1 .. n + 1 : Append(old, index)[k] = new[k]
      <4> TAKE k \in 1 .. n + 1
      <4>1. Append(old, index)[k] = IF k = n + 1 THEN index ELSE old[k]
        BY <3>1, <3>2, ListGrows
      <4> QED
        BY <2>6, <3>1, <4>1 DEF n, first
    <3> HIDE DEF old, new
    <3>5. Append(old, index) = new
      BY <3>1, <3>2, <3>3, <3>4
    <3> QED
      BY <2>1, <2>4, <3>1, <3>5 DEF n, first, new
  <2>8. agent'.current_index = Lookback - 1 + StepsDone'
    BY <1>2, <2>2, <2>4, <2>5
  <2> QED
    BY <1>2, <2>4, <2>7, <2>8
<1>3. Fail \/ (/\ agent' = a.environment /\ trace' = Recorded(a, l, s)
               /\ phase' = phase /\ row' = row)
  BY DEF StepOn, startVars
<1> QED
  BY <1>1, <1>2, <1>3

\* Nothing is scored at the start.
LEMMA ScoringInit == Init => ScoringInv
BY DEF Init, StartInit, ScoringInv, TraceInv, Scoring

\* A run is requested to be evaluated when its last boundary is reached.
LEMMA RequestedWhenDone ==
    ASSUME DiskInv, DataInv, RunInv, TrainingInv, ReachBoundary, phase' = "requested"
    PROVE  /\ run'.status = "completed" /\ run'.training_steps_completed = RequestedSteps'
<1>1. /\ phase = "training" /\ UNCHANGED <<request, start>> /\ Ppo!IsFinal(Ppo!SegmentEnd)
      /\ run' = [run EXCEPT !.training_steps_completed = Ppo!SegmentEnd,
                            !.status = "completed", !.finished = TRUE]
  BY DEF ReachBoundary
<1>2. {"status", "training_steps_completed"} \subseteq DOMAIN run /\ Loop
  BY <1>1, ScoringRun DEF Uncommitted, TrainingInv
<1>3. Ppo!SegmentEnd = RequestedSteps
  BY <1>1, <1>2 DEF Ppo!IsFinal, Loop, LoopFrame, Schedule
<1>4. RequestedSteps' = RequestedSteps
  BY <1>1, ParametersStay
<1> QED
  BY <1>1, <1>2, <1>3, <1>4

\* An evaluation keeps to the range it was accepted with.
LEMMA EvaluationScores ==
    ASSUME DiskInv, DataInv, RunInv, RowInv, TrainingInv, FrameInv, ScoringInv, Evaluate
    PROVE  ScoringInv'
<1>1. /\ EvaluationRange' = EvaluationRange /\ Lookback' = Lookback
      /\ RequestedSteps' = RequestedSteps
      /\ (ScopeAccepted' <=> ScopeAccepted) /\ (RangeAccepted' <=> RangeAccepted)
      /\ PendingRow' = PendingRow /\ run' = run
  <2>1. UNCHANGED <<request, start, run, reader>>
    BY EvaluateFrame DEF inputs
  <2> QED
    BY <2>1, RangeStays
<1>2. CASE Unreadable \/ Refuse \/ PrepareFails
  <2>1. /\ phase' \in {"unreadable", "refused", "failed"}
        /\ phase' = "failed" \/ (phase = "requested" /\ trace' = trace)
    BY <1>2 DEF Unreadable, Refuse, Answered, PrepareFails, Fail, evaluationVars
  <2> QED
    BY <2>1 DEF ScoringInv, TraceInv, Scoring
<1>3. CASE CreatePending
  <2>1. /\ phase = "requested" /\ phase' = "pending" /\ row' = PendingRow /\ trace' = trace
        /\ ScopeAccepted /\ RangeAccepted
    BY <1>3 DEF CreatePending, Answered, RequestAccepted
  <2> QED
    BY <1>1, <2>1 DEF ScoringInv, TraceInv, Scoring
<1>4. CASE MarkRunning
  <2>1. /\ phase = "pending" /\ phase' = "running" /\ trace' = trace
        /\ row' = [row EXCEPT !.status = "running", !.started = TRUE]
    BY <1>4 DEF MarkRunning
  <2>2. DOMAIN row' = DOMAIN row /\ \A f \in RowColumns : row'[f] = row[f]
    BY <2>1 DEF RowColumns
  <2> QED
    BY <1>1, <2>1, <2>2 DEF ScoringInv, TraceInv, Scoring
<1>5. CASE Prepare
  <2>1. /\ phase = "running" /\ phase' = "stepping" /\ trace' = trace /\ row' = row
        /\ agent' = ResetState(LocalObservation)
    BY <1>5 DEF Prepare
  <2>2. trace = EmptyTrace /\ row.lookback_rows = Lookback
    BY <2>1, RowIs DEF ScoringInv, TraceInv, Scoring, RowColumns
  <2>3. StepsDone' = 0 /\ trace'.execution_indices = <<>> /\ trace'.agent_equity \in Seq({})
    BY <2>1, <2>2 DEF StepsDone, EmptyTrace
  <2>4. request \in Requests /\ Prepared /\ Lookback \in Nat
    BY <2>1, ScoringRun, Settings DEF Prepared, Uncommitted
  <2>5. agent'.current_index = Lookback - 1 + 0
    BY <2>1, <2>2, <2>4 DEF ResetState, LocalObservation
  <2>6. [k \in 1 .. 0 |-> EvaluationRange.start + k - 1] = <<>>
    OBVIOUS
  <2>7. TraceInv'
    BY <1>1, <2>1, <2>3, <2>5, <2>6 DEF TraceInv
  <2> QED
    BY <1>1, <2>1, <2>7 DEF ScoringInv, Scoring
<1>6. CASE Step
  <2>1. \E bar, action : StepOn(bar, action)
    BY <1>6 DEF Step
  <2>2. PICK bar, action : StepOn(bar, action)
    BY <2>1
  <2>3. phase = "stepping"
    BY <1>6 DEF Step
  <2>4. /\ \A f \in RowColumns : row[f] = PendingRow[f]
        /\ TraceInv /\ ScopeAccepted /\ reader.frame = start.data
    BY <2>3 DEF ScoringInv, Scoring, RowInv, DataAgrees
  <2>5. /\ request \in Requests /\ Prepared /\ Rows \in Int
        /\ run.window_metadata = Split.window_metadata /\ run.split_index = Split.split_index
        /\ Lookback \in Int
    BY <2>3, ScoringRun, Settings DEF Prepared, Uncommitted
  <2>6. EvaluationRange.start \in Int /\ EvaluationRange.end \in Int
    BY <2>4, <2>5, ScoredRange
  <2>7. \/ phase' = "failed"
        \/ /\ phase' = phase /\ row' = row
           /\ \E S : trace'.agent_equity \in Seq(S)
           /\ trace'.execution_indices
                = [k \in 1 .. StepsDone' |-> EvaluationRange.start + k - 1]
           /\ agent'.current_index = Lookback - 1 + StepsDone'
    BY <2>2, <2>3, <2>4, <2>5, <2>6, StepScores
  <2>8. TraceInv'
    BY <1>1, <2>3, <2>7 DEF TraceInv
  <2> QED
    BY <1>1, <2>3, <2>7, <2>8 DEF ScoringInv, Scoring
<1>7. CASE Finish
  <2>1. /\ phase = "stepping" /\ StepsDone = row.steps_expected
        /\ \/ phase' = "failed"
           \/ /\ phase' = "completed" /\ row' = CompletedRow
              /\ UNCHANGED <<agent, trace>>
    BY <1>7 DEF Finish, Fail, environments
  <2>2. StepsDone = EvaluationRange.end - EvaluationRange.start
    BY <2>1, RowIs DEF ScoringInv, Scoring, RowColumns
  <2>3. ASSUME row' = CompletedRow
        PROVE  DOMAIN row' = DOMAIN row /\ \A f \in RowColumns : row'[f] = row[f]
    BY <2>3 DEF CompletedRow, RowColumns
  <2>4. TraceInv'
    BY <1>1, <2>1, <2>2 DEF ScoringInv, TraceInv, StepsDone
  <2> QED
    BY <1>1, <2>1, <2>3, <2>4 DEF ScoringInv, Scoring
<1> QED
  BY <1>2, <1>3, <1>4, <1>5, <1>6, <1>7 DEF Evaluate

\* Every step keeps what is known of the rows scored.
LEMMA ScoringKept ==
    ASSUME DiskInv, DataInv, RunInv, RowInv, TrainingInv, FrameInv, ScoringInv, [Next]_vars
    PROVE  ScoringInv'
<1>1. CASE Evaluate
  BY <1>1, EvaluationScores
<1>2. ASSUME UNCHANGED <<phase, request, start, run, evaluationVars>>,
             phase = "requested" \/ ~ Scoring \/ reader' = reader
      PROVE  ScoringInv'
  <2>1. RequestedSteps' = RequestedSteps
    BY <1>2, ParametersStay
  <2>2. UNCHANGED <<row, trace, agent, StepsDone>> /\ (Scoring' <=> Scoring)
    BY <1>2 DEF evaluationVars, environments, StepsDone, Scoring
  <2>3. CASE Scoring
    <3>1. UNCHANGED <<request, start, run, reader>>
      BY <1>2, <2>3 DEF Scoring
    <3>2. /\ EvaluationRange' = EvaluationRange /\ Lookback' = Lookback
          /\ (ScopeAccepted' <=> ScopeAccepted) /\ (RangeAccepted' <=> RangeAccepted)
          /\ PendingRow' = PendingRow
      BY <3>1, RangeStays
    <3>3. TraceInv'
      BY <1>2, <2>2, <3>2 DEF ScoringInv, TraceInv
    <3> QED
      BY <1>2, <2>1, <2>2, <3>2, <3>3 DEF ScoringInv
  <2>4. CASE ~ Scoring
    <3>1. TraceInv'
      BY <1>2, <2>2, <2>4 DEF ScoringInv, TraceInv, Scoring
    <3> QED
      BY <1>2, <2>1, <2>2, <2>4, <3>1 DEF ScoringInv
  <2> QED
    BY <2>3, <2>4
<1>3. ASSUME UNCHANGED evaluationVars, trace = EmptyTrace, phase' \notin {"requested"},
             ~ Scoring'
      PROVE  ScoringInv'
  BY <1>3 DEF ScoringInv, TraceInv, Scoring, evaluationVars
<1>4. CASE Train /\ UNCHANGED evaluationVars
  <2>1. /\ phase \in {"creating", "created", "training"}
        /\ phase' \in {"created", "rejected", "training", "failed", "requested"}
    BY <1>4, TrainFrame
  <2>2. trace = EmptyTrace /\ ~ Scoring'
    BY <2>1 DEF ScoringInv, TraceInv, Scoring
  <2>3. CASE phase' = "requested"
    <3>1. ReachBoundary
      BY <1>4, <2>1, <2>3 DEF Train, CreateRun, BeginTraining, CollectRollout
    <3>2. run'.status = "completed" /\ run'.training_steps_completed = RequestedSteps'
      BY <2>3, <3>1, RequestedWhenDone
    <3> QED
      BY <1>4, <2>2, <2>3, <3>2 DEF ScoringInv, TraceInv, evaluationVars
  <2> QED
    BY <1>3, <1>4, <2>2, <2>3
<1>5. CASE /\ UNCHANGED evaluationVars
           /\ Configure \/ Read \/ ReadingFails \/ KeepEntry \/ KeepFrame \/ Resolve
  <2>1. \/ UNCHANGED <<phase, request, start, run>> /\ ~ Scoring
        \/ /\ phase \in {"given", "verifying", "loading", "resolving"}
           /\ phase' \in {"verifying", "loading", "resolving", "creating", "rejected"}
    BY <1>5 DEF Configure, Read, ReadingFails, KeepEntry, KeepFrame, Resolve, Scoring
  <2>2. phase \in {"given", "verifying", "loading", "resolving"} => trace = EmptyTrace
    BY DEF ScoringInv, TraceInv
  <2> QED
    BY <1>2, <1>3, <1>5, <2>1, <2>2 DEF Scoring
<1>6. CASE ((Import \/ CleanSource) /\ UNCHANGED evaluationVars) \/ UNCHANGED vars
  <2>1. UNCHANGED <<phase, reader, request, start, run, evaluationVars>>
    BY <1>6 DEF Import, CleanSource, Data!ImportFile, Data!ImportManifest, vars, startVars
  <2> QED
    BY <1>2, <2>1
<1> QED
  BY <1>1, <1>4, <1>5, <1>6, Steps

\* The parts the scored rows need.
SInv == TInv /\ ScoringInv

\* Every evaluation scores the rows of its range one after the other.
THEOREM ScoringInvariant == Spec => []SInv
<1>1. Init => SInv
  BY InvariantInit, TrainingInit, ScoringInit DEF SInv, TInv
<1>2. SInv /\ [Next]_vars => SInv'
  BY InvariantKept, TrainingKept, ScoringKept DEF SInv, TInv, IInv
<1> QED
  BY <1>1, <1>2, PTL DEF Spec

\* No observation reaches a row that is not there yet, and none but the first
\* a row before the slice.
LEMMA ObservedRows ==
    ASSUME request \in Requests, Config!ConfigValid(request.config, ProbabilityUnit),
           NEW i \in Int, i >= Lookback - 1,
           NEW r \in ObservationRows(Environment.context, Environment.window, i)
    PROVE  r \in 0 .. i \/ (r = -1 /\ i = Lookback - 1 /\ Environment.window = Lookback)
<1> DEFINE ctx == Environment.context
           w == Environment.window
<1>1. /\ w \in Nat \ {0} /\ Lookback \in Nat \ {0} /\ w <= Lookback
      /\ \A h \in ctx.horizons, f \in ctx.rolling_features :
             h \in Int /\ h + ExtraSourceRows(f) <= Lookback
  BY HistoryRows
<1>2. \A h \in ctx.horizons : h > 0
  BY FieldsAssumption DEF Environment, ValidSpecification
<1>3. \/ \E f \in ctx.window_features, o \in (i - w + 1) .. i : r \in WindowFeatureRows(f, o)
      \/ \E f \in ctx.rolling_features, h \in ctx.horizons : r \in RollingFeatureRows(f, h, i)
  BY DEF ObservationRows
<1> HIDE DEF ctx, w
<1>4. ASSUME NEW f, NEW o \in (i - w + 1) .. i, r \in WindowFeatureRows(f, o)
      PROVE  r \in 0 .. i \/ (r = -1 /\ i = Lookback - 1 /\ w = Lookback)
  <2>1. r = o \/ r = o - 1
    BY <1>4 DEF WindowFeatureRows
  <2>2. o \in Int /\ i - w + 1 <= o /\ o <= i
    BY <1>1, <1>4
  <2> QED
    BY <1>1, <2>1, <2>2
<1>5. ASSUME NEW f \in ctx.rolling_features, NEW h \in ctx.horizons,
             r \in RollingFeatureRows(f, h, i)
      PROVE  r \in 0 .. i
  <2>1. h \in Int /\ h > 0 /\ h + ExtraSourceRows(f) <= Lookback
    BY <1>1, <1>2
  <2>2. CASE f \in {"log_return", "volatility"}
    <3>1. h + 1 <= Lookback
      BY <2>1, <2>2 DEF ExtraSourceRows
    <3>2. r \in (i - h) .. i
      BY <1>5, <2>1, <2>2 DEF RollingFeatureRows
    <3> QED
      BY <1>1, <2>1, <3>1, <3>2
  <2>3. CASE f \notin {"log_return", "volatility"}
    <3>1. h <= Lookback
      BY <2>1, <2>3 DEF ExtraSourceRows
    <3>2. r \in (i - h + 1) .. i
      BY <1>5, <2>3 DEF RollingFeatureRows
    <3> QED
      BY <1>1, <2>1, <3>1, <3>2
  <2> QED
    BY <2>2, <2>3
<1> QED
  BY <1>3, <1>4, <1>5 DEF w

\* A completed evaluation has scored its whole range.
LEMMA WholeRange ==
    ASSUME TraceInv, phase = "completed",
           EvaluationRange.start \in Int, EvaluationRange.end \in Int
    PROVE  {trace.execution_indices[k] : k \in DOMAIN trace.execution_indices}
             = EvaluationRange.start .. (EvaluationRange.end - 1)
<1> DEFINE first == EvaluationRange.start
           n == StepsDone
           indices == trace.execution_indices
<1>1. /\ indices = [k \in 1 .. n |-> first + k - 1]
      /\ n = EvaluationRange.end - first /\ n \in Int /\ first \in Int
  BY DEF TraceInv
<1> HIDE DEF n, indices, first
<1>2. \A k \in DOMAIN indices : indices[k] \in first .. (first + n - 1)
  BY <1>1
<1>3. \A r \in first .. (first + n - 1) :
        r - first + 1 \in DOMAIN indices /\ indices[r - first + 1] = r
  BY <1>1
<1>4. {indices[k] : k \in DOMAIN indices} = first .. (first + n - 1)
  BY <1>2, <1>3
<1>5. first + n - 1 = EvaluationRange.end - 1
  BY <1>1
<1> QED
  BY <1>4, <1>5 DEF indices, first

\* An evaluation of TRAIN scores the rows that were trained on and no others of
\* the dataset once a whole pass was made, one of VALIDATION only later rows to
\* the last; and the agent observes nothing that is not there, but for the
\* volume before the slice.
THEOREM RowsScored == Spec => []ScoredRows
<1>1. SInv => ScoredRows
  <2> SUFFICES ASSUME SInv PROVE ScoredRows
    OBVIOUS
  <2> DEFINE executed == {trace.execution_indices[k] : k \in DOMAIN trace.execution_indices}
  <2>1. /\ DiskInv /\ DataInv /\ RunInv /\ RowInv /\ SourceInv /\ TrainingInv
        /\ ScoringInv /\ TraceInv
    BY DEF SInv, TInv, IInv, ScoringInv
  <2>2. ASSUME Scoring
        PROVE  /\ request \in Requests /\ Prepared /\ Rows \in Int
               /\ run.window_metadata = Split.window_metadata
               /\ run.split_index = Split.split_index /\ run.steps_per_data_epoch = Pass
    BY <2>1, <2>2, ScoringRun DEF Uncommitted, Scoring
  <2>3. ASSUME phase = "completed"
        PROVE  /\ Trained \subseteq PassStart .. (PassStart + Pass - 1)
               /\ Pass <= run.training_steps_completed =>
                      Trained = PassStart .. (PassStart + Pass - 1)
               /\ run.training_steps_completed \in Int
               /\ executed = EvaluationRange.start .. (EvaluationRange.end - 1)
               /\ EvaluationRange.start < EvaluationRange.end
               /\ {EvaluationRange.start, EvaluationRange.end, PassStart, Pass, Rows} \subseteq Int
               /\ request.data_scope = "run_training" =>
                      EvaluationRange.start = PassStart /\ EvaluationRange.end = PassStart + Pass
               /\ request.data_scope = "run_validation" =>
                      /\ PassStart + Pass <= EvaluationRange.start
                      /\ ~ SplitByTime => EvaluationRange.end = Rows
               /\ run.steps_per_data_epoch = Pass
    <3>1. Scoring /\ ~ Uncommitted
      BY <2>3 DEF Scoring, Uncommitted
    <3>2. /\ run.training_steps_completed = RequestedSteps /\ run.status = "completed"
          /\ ScopeAccepted /\ RangeAccepted /\ reader.frame = start.data
      BY <2>1, <2>3, <3>1 DEF ScoringInv, RowInv, DataAgrees
    <3>3. StepsBefore \in Nat
      BY <2>1, <3>1, SourceIsCounted
    <3>4. Loop /\ Ppo!RunSteps = RequestedSteps /\ RequestedSteps \in Int
      <4>1. Loop /\ training.completed_steps = RequestedSteps
        BY <2>1, <2>3, <3>1, <3>2 DEF TrainingInv
      <4> QED
        BY <2>2, <3>1, <4>1, LoopTypes DEF Loop, LoopSteps
    <3>5. /\ Trained \subseteq PassStart .. (PassStart + Pass - 1)
          /\ Pass <= Ppo!RunSteps => Trained = PassStart .. (PassStart + Pass - 1)
      BY <2>2, <3>1, <3>3, <3>4, RowsHadTurns
    <3>6. /\ EvaluationRange.start \in Int /\ EvaluationRange.end \in Int
          /\ request.data_scope = "run_training" =>
                 EvaluationRange.start = PassStart /\ EvaluationRange.end = PassStart + Pass
          /\ request.data_scope = "run_validation" =>
                 /\ PassStart + Pass <= EvaluationRange.start
                 /\ ~ SplitByTime => EvaluationRange.end = Rows
      BY <2>2, <3>1, <3>2, ScoredRange
    <3>7. executed = EvaluationRange.start .. (EvaluationRange.end - 1)
      BY <2>1, <2>3, <3>6, WholeRange
    <3>8. PassStart \in Int /\ Pass \in Int
      BY <2>2, <3>1, PassRows, SplitTrains
    <3>9. EvaluationRange.start < EvaluationRange.end
      BY <3>2 DEF RangeAccepted
    <3> QED
      BY <2>2, <3>1, <3>2, <3>4, <3>5, <3>6, <3>7, <3>8, <3>9
  <2>4. phase = "completed" /\ request.data_scope = "run_training" =>
          /\ Trained \subseteq executed
          /\ executed # Trained => run.training_steps_completed < run.steps_per_data_epoch
    <3> HIDE DEF executed
    <3> QED
      BY <2>3
  <2>5. phase = "completed" /\ request.data_scope = "run_validation" =>
          /\ \A r \in executed, t \in Trained : t < r
          /\ ~ SplitByTime => Rows - 1 \in executed
    <3> SUFFICES ASSUME phase = "completed", request.data_scope = "run_validation"
                 PROVE  /\ \A r \in executed, t \in Trained : t < r
                        /\ ~ SplitByTime => Rows - 1 \in executed
      OBVIOUS
    <3> HIDE DEF executed
    <3>1. \A r \in executed : r \in Int /\ PassStart + Pass <= r
      BY <2>3
    <3>2. \A t \in Trained : t \in Int /\ t < PassStart + Pass
      BY <2>3
    <3>3. ~ SplitByTime => Rows - 1 \in executed
      BY <2>3
    <3> QED
      BY <2>3, <3>1, <3>2, <3>3
  <2>6. ASSUME phase = "stepping"
        PROVE  /\ Missing \subseteq {-1}
               /\ Missing # {} => StepsDone = 0 /\ Environment.window = Lookback
    <3>1. request \in Requests /\ Config!ConfigValid(request.config, ProbabilityUnit)
      BY <2>2, <2>6 DEF Scoring, Prepared
    <3>2. /\ agent.current_index = Lookback - 1 + StepsDone
          /\ \E S : trace.agent_equity \in Seq(S)
      BY <2>1, <2>6 DEF TraceInv
    <3>3. StepsDone \in Nat
      BY <3>2 DEF StepsDone
    <3>4. Lookback \in Nat \ {0}
      BY <3>1, HistoryRows
    <3>5. agent.current_index \in Int /\ agent.current_index >= Lookback - 1
      BY <3>2, <3>3, <3>4
    <3>6. \A r \in Missing : /\ r = -1 /\ agent.current_index = Lookback - 1
                             /\ Environment.window = Lookback
      BY <3>1, <3>5, ObservedRows DEF Missing
    <3> QED
      BY <3>2, <3>3, <3>4, <3>6
  <2> QED
    BY <2>4, <2>5, <2>6 DEF ScoredRows
<1> QED
  BY <1>1, ScoringInvariant, PTL

-----------------------------------------------------------------------------
(* NULL *)

\* No number, no fraction and no name of a streak is NULL.
LEMMA NullIs ==
    /\ \A x \in Int : ~ Null(x)
    /\ \A x \in Int \X Int : ~ Null(x)
    /\ \A x \in StreakTypes : ~ Null(x)
    /\ Null(NoValue)
BY NullAssumption, Zenon DEF Null

-----------------------------------------------------------------------------
(* The row of the run *)

\* The rows of the split, as the columns of the run have them.
LEMMA SplitCounts ==
    ASSUME request \in Requests, Prepared, Rows \in Int
    PROVE  /\ Split.split_index = Split.train_rows
           /\ Split.train_rows \in Nat \ {0} /\ Split.validation_rows \in Nat
<1>1. /\ Split.train_rows = First + 1 + Pass
      /\ First \in Nat /\ Pass \in Nat \ {0}
  BY SplitTrains
<1>2. CASE SplitByTime
  <2>1. ~ Null(request.config.data.validation_range) =>
            /\ {ValidationRange.start, ValidationRange.end} \subseteq Int
            /\ ValidationRange.start < ValidationRange.end
    BY <1>2, FieldsAssumption DEF ValidationRange, Located, Prepared, SplitPossible
  <2>2. Null(request.config.data.validation_range) =>
            ValidationRange.start = 0 /\ ValidationRange.end = 0
    BY DEF ValidationRange, Located
  <2>3. Split.split_index = Split.train_rows
        /\ Split.validation_rows = ValidationRange.end - ValidationRange.start
    BY <1>2 DEF Split
  <2> QED
    BY <1>1, <2>1, <2>2, <2>3
<1>3. CASE ~ SplitByTime
  <2>1. Split.split_index = RunSplitIndex /\ Split.train_rows = RunSplitIndex
        /\ Split.validation_rows = Rows - RunSplitIndex
    BY <1>3 DEF Split, BatchAligned, ChronologicalSplit
  <2>2. Rows - RunSplitIndex >= 1
    BY <1>3 DEF Prepared, SplitPossible, SplitAccepts
  <2> QED
    BY <1>1, <2>1, <2>2
<1> QED
  BY <1>2, <1>3

\* create_pending_run inserts a row that the constraints of runs allow.
LEMMA PendingRunAllowed ==
    ASSUME DiskInv, DataInv, SourceInv, TrainingInv, phase = "creating"
    PROVE  Table!RunAllowed(PendingRun)
<1>1. request \in Requests /\ Prepared /\ Rows \in Int
  BY DataIsCounted DEF TrainingInv, DiskInv, HasData
<1>2. /\ Continuation.mode \in {"fresh", "resume"}
      /\ NoValue \notin {request.config, request.config.run.name, Path}
  BY <1>1, FieldsAssumption DEF Continuation, Path
<1>3. /\ request.config.training.duration_unit \in {"data_epochs", "timesteps"}
      /\ request.config.training.duration_amount \in Nat \ {0}
  BY <1>1, Settings DEF Prepared, Config!ConfigValid, Config!TrainingValid
<1>4. start.entry.sha256 # NoValue
  <2>1. Path \in DOMAIN request.store.files /\ \E c : Seen(c) /\ Data!Matches(c, start.entry)
    BY DEF DataInv, HasData, DiskInv
  <2>2. FirstFile.sha256 # NoValue
    BY <1>1, <2>1, FieldsAssumption DEF FirstFile, Null
  <2>3. File.sha256 # NoValue
    BY <1>1, <2>1, <2>2, FieldsAssumption DEF DiskInv, Null
  <2> QED
    BY <2>1, <2>2, <2>3 DEF Seen, Data!Matches
<1>5. IF Resumes THEN ~ Null(start.source) /\ start.source.id # NoValue ELSE Null(start.source)
  BY <1>1, RequestAssumption, FieldsAssumption DEF SourceInv, TrainingInv, Null
<1>6. /\ Split.split_index = Split.train_rows
      /\ Split.train_rows \in Nat \ {0} /\ Split.validation_rows \in Nat
      /\ Split.steps_per_data_epoch \in Nat \ {0} /\ RequestedSteps \in Nat \ {0}
  BY <1>1, SplitCounts, SplitTrains, DurationIsWhole DEF Pass
<1> DEFINE r == PendingRun
<1>7. /\ r.status = "pending" /\ r.continuation_mode = Continuation.mode
      /\ r.source_checkpoint_id = IF Null(start.source) THEN NoValue ELSE start.source.id
      /\ r.duration_unit = request.config.training.duration_unit
      /\ r.duration_amount = request.config.training.duration_amount
      /\ r.name = request.config.run.name /\ r.normalized_config_json = request.config
      /\ r.data_path = Path /\ r.data_sha256 = start.entry.sha256
      /\ r.stopped_early = FALSE /\ r.early_stop_reason = FALSE
      /\ r.started = FALSE /\ r.finished = FALSE /\ r.error = FALSE
  BY DEF PendingRun
<1>8. /\ r.split_index = Split.split_index /\ r.train_rows = Split.train_rows
      /\ r.validation_rows = Split.validation_rows
      /\ r.steps_per_data_epoch = Split.steps_per_data_epoch
      /\ r.training_steps_requested = RequestedSteps /\ r.training_steps_completed = 0
  BY DEF PendingRun
<1> HIDE DEF r
<1>9. Table!RunColumns(r)
  <2>1. \A f \in {"name", "normalized_config_json", "data_path", "data_sha256"} : r[f] # NoValue
    BY <1>2, <1>4, <1>7
  <2>2. {r.stopped_early, r.early_stop_reason, r.started, r.finished, r.error} \subseteq BOOLEAN
    BY <1>7
  <2>3. {r.duration_amount, r.split_index, r.train_rows, r.validation_rows,
         r.steps_per_data_epoch, r.training_steps_requested, r.training_steps_completed}
          \subseteq Int
    BY <1>3, <1>6, <1>7, <1>8
  <2>4. /\ r.status \in Table!RunStatuses /\ r.continuation_mode \in {"fresh", "resume"}
        /\ r.duration_unit \in {"data_epochs", "timesteps"}
    BY <1>2, <1>3, <1>7 DEF Table!RunStatuses
  <2> QED
    BY <2>1, <2>2, <2>3, <2>4 DEF Table!RunColumns
<1>10. Table!ContinuationFields(r)
  BY <1>2, <1>5, <1>7 DEF Table!ContinuationFields, Resumes
<1>11. Table!RunRanges(r)
  BY <1>3, <1>6, <1>7, <1>8 DEF Table!RunRanges
<1>12. Table!EarlyStopFields(r) /\ Table!RunStatusFields(r)
  BY <1>7, <1>8 DEF Table!EarlyStopFields, Table!RunStatusFields
<1> QED
  BY <1>9, <1>10, <1>11, <1>12 DEF Table!RunAllowed, r

\* The columns of a run that its training writes.
ProgressColumns == {"status", "started", "finished", "error", "training_steps_completed"}

\* A row keeps to the constraints if its progress does.
LEMMA RunProgresses ==
    ASSUME NEW r, NEW q, Table!RunAllowed(r),
           {"name", "normalized_config_json", "data_path", "data_sha256"} \subseteq DOMAIN r,
           \A f \in {"name", "normalized_config_json", "data_path", "data_sha256",
                     "continuation_mode", "duration_unit", "source_checkpoint_id",
                     "stopped_early", "early_stop_reason", "duration_amount", "split_index",
                     "train_rows", "validation_rows", "steps_per_data_epoch",
                     "training_steps_requested"} : q[f] = r[f],
           {q.started, q.finished, q.error} \subseteq BOOLEAN,
           q.training_steps_completed \in 0 .. q.training_steps_requested,
           Table!RunStatusFields(q)
    PROVE  Table!RunAllowed(q)
<1>1. /\ q.continuation_mode = r.continuation_mode /\ q.duration_unit = r.duration_unit
      /\ q.source_checkpoint_id = r.source_checkpoint_id
      /\ q.stopped_early = r.stopped_early /\ q.early_stop_reason = r.early_stop_reason
      /\ q.duration_amount = r.duration_amount /\ q.split_index = r.split_index
      /\ q.train_rows = r.train_rows /\ q.validation_rows = r.validation_rows
      /\ q.steps_per_data_epoch = r.steps_per_data_epoch
      /\ q.training_steps_requested = r.training_steps_requested
  OBVIOUS
<1>2. /\ Table!RunColumns(r) /\ Table!ContinuationFields(r) /\ Table!RunRanges(r)
      /\ Table!EarlyStopFields(r)
  BY DEF Table!RunAllowed
<1>3. Table!RunColumns(q)
  <2>1. q.status \in Table!RunStatuses
    BY DEF Table!RunStatusFields, Table!RunStatuses
  <2>2. \A f \in {"name", "normalized_config_json", "data_path", "data_sha256"} : q[f] # NoValue
    BY <1>2 DEF Table!RunColumns
  <2>3. {q.stopped_early, q.early_stop_reason, q.started, q.finished, q.error} \subseteq BOOLEAN
    BY <1>1, <1>2 DEF Table!RunColumns
  <2>4. {q.duration_amount, q.split_index, q.train_rows, q.validation_rows,
         q.steps_per_data_epoch, q.training_steps_requested, q.training_steps_completed}
          \subseteq Int
    <3>1. {r.duration_amount, r.split_index, r.train_rows, r.validation_rows,
           r.steps_per_data_epoch, r.training_steps_requested} \subseteq Int
      BY <1>2 DEF Table!RunColumns
    <3>2. q.training_steps_completed \in Int
      OBVIOUS
    <3> QED
      BY <1>1, <3>1, <3>2
  <2> QED
    BY <1>1, <1>2, <2>1, <2>2, <2>3, <2>4 DEF Table!RunColumns
<1>4. Table!ContinuationFields(q) /\ Table!EarlyStopFields(q)
  BY <1>1, <1>2 DEF Table!ContinuationFields, Table!EarlyStopFields
<1>5. Table!RunRanges(q)
  BY <1>1, <1>2 DEF Table!RunRanges
<1> QED
  BY <1>3, <1>4, <1>5 DEF Table!RunAllowed

\* The training writes only allowed rows.
LEMMA RunStaysAllowed ==
    ASSUME DiskInv, DataInv, RunInv, TrainingInv, Train,
           ~ Uncommitted => Table!RunAllowed(run)
    PROVE  /\ ~ Uncommitted' => Table!RunAllowed(run)'
           /\ phase' = "failed" => run'.status = "failed"
<1> DEFINE shared == {"name", "normalized_config_json", "data_path", "data_sha256",
                      "continuation_mode", "duration_unit", "source_checkpoint_id",
                      "stopped_early", "early_stop_reason", "duration_amount", "split_index",
                      "train_rows", "validation_rows", "steps_per_data_epoch",
                      "training_steps_requested"}
<1>1. CASE CreateRun
  <2>1. \/ phase' = "created" /\ run' = PendingRun /\ Table!RunAllowed(PendingRun)
        \/ phase' = "rejected"
    BY <1>1 DEF CreateRun
  <2>2. CASE phase' = "created" /\ run' = PendingRun /\ Table!RunAllowed(PendingRun)
    <3>1. Table!RunAllowed(run')
      BY <2>2
    <3>2. Table!RunAllowed(run)'
      BY <3>1
    <3> QED
      BY <2>2, <3>2
  <2>3. CASE phase' = "rejected"
    BY <2>3 DEF Uncommitted
  <2> QED
    BY <2>1, <2>2, <2>3
<1>2. ASSUME ~ Uncommitted
      PROVE  /\ DOMAIN run = DOMAIN PendingRun
             /\ shared \cup ProgressColumns \subseteq DOMAIN run
             /\ shared \cap ProgressColumns = {}
             /\ run.training_steps_requested = RequestedSteps
             /\ run.stopped_early = FALSE
             /\ RequestedSteps \in Nat \ {0}
             /\ {run.started, run.finished, run.error} \subseteq BOOLEAN
             /\ Table!RunAllowed(run) /\ Table!RunStatusFields(run)
             /\ run.training_steps_completed \in 0 .. run.training_steps_requested
  <2>1. DOMAIN run = DOMAIN PendingRun /\ \A f \in FixedColumns : run[f] = PendingRun[f]
    BY <1>2 DEF RunInv
  <2>2. /\ shared \cup ProgressColumns \subseteq DOMAIN PendingRun
        /\ shared \cap ProgressColumns = {}
        /\ {"training_steps_requested", "stopped_early"} \subseteq FixedColumns
        /\ PendingRun.training_steps_requested = RequestedSteps
        /\ PendingRun.stopped_early = FALSE
    BY DEF PendingRun, FixedColumns, ProgressColumns
  <2>3. RequestedSteps \in Nat \ {0}
    BY <1>2, ScoringRun, DurationIsWhole
  <2>4. /\ Table!RunColumns(run) /\ Table!RunRanges(run) /\ Table!RunStatusFields(run)
    BY <1>2 DEF Table!RunAllowed
  <2> HIDE DEF shared
  <2>5. {run.started, run.finished, run.error} \subseteq BOOLEAN
    BY <2>4 DEF Table!RunColumns
  <2>6. run.training_steps_completed \in 0 .. run.training_steps_requested
    BY <2>4 DEF Table!RunRanges
  <2> QED
    BY <1>2, <2>1, <2>2, <2>3, <2>4, <2>5, <2>6
<1>3. ASSUME ~ Uncommitted, NEW q, \A f \in shared : q[f] = run[f],
             {q.started, q.finished, q.error} \subseteq BOOLEAN,
             q.training_steps_completed \in 0 .. q.training_steps_requested,
             Table!RunStatusFields(q)
      PROVE  Table!RunAllowed(q)
  BY <1>2, <1>3, RunProgresses
<1>4. ASSUME ~ Uncommitted, run' = FailedRun
      PROVE  Table!RunAllowed(run)' /\ run'.status = "failed"
  <2> DEFINE q == FailedRun
  <2>1. /\ \A f \in shared : q[f] = run[f]
        /\ q.status = "failed" /\ q.started = TRUE /\ q.finished = TRUE /\ q.error = TRUE
        /\ q.training_steps_completed = run.training_steps_completed
    BY <1>2, <1>4 DEF FailedRun, ProgressColumns
  <2>2. q.training_steps_requested = run.training_steps_requested
        /\ q.stopped_early = run.stopped_early
    BY <2>1
  <2> HIDE DEF q, shared
  <2>3. Table!RunStatusFields(q)
    BY <1>2, <1>4, <2>1, <2>2 DEF Table!RunStatusFields
  <2>4. {q.started, q.finished, q.error} \subseteq BOOLEAN
    BY <2>1
  <2>5. Table!RunAllowed(q)
    BY <1>2, <1>3, <1>4, <2>1, <2>2, <2>3, <2>4
  <2>6. Table!RunAllowed(run') /\ run'.status = "failed"
    BY <1>4, <2>1, <2>5 DEF q
  <2> QED
    BY <2>6
<1>5. CASE BeginTraining
  <2>1. phase = "created" /\ ~ Uncommitted
    BY <1>5 DEF BeginTraining, Uncommitted
  <2>2. run.status = "pending"
    BY <2>1 DEF TrainingInv
  <2>3. \/ phase' = "training" /\ run' = [run EXCEPT !.status = "running", !.started = TRUE]
        \/ phase' = "failed" /\ run' = FailedRun
    BY <1>5 DEF BeginTraining
  <2>4. CASE phase' = "training" /\ run' = [run EXCEPT !.status = "running", !.started = TRUE]
    <3> DEFINE q == [run EXCEPT !.status = "running", !.started = TRUE]
    <3>1. /\ \A f \in shared : q[f] = run[f]
          /\ q.status = "running" /\ q.started = TRUE /\ q.finished = run.finished
          /\ q.error = run.error /\ q.training_steps_completed = run.training_steps_completed
      BY <1>2, <2>1 DEF ProgressColumns
    <3>2. q.training_steps_requested = run.training_steps_requested
          /\ q.stopped_early = run.stopped_early
      BY <3>1
    <3>3. run.finished = FALSE /\ run.error = FALSE
      BY <1>2, <2>1, <2>2 DEF Table!RunStatusFields
    <3> HIDE DEF q, shared
    <3>4. Table!RunStatusFields(q)
      BY <1>2, <2>1, <3>1, <3>2, <3>3 DEF Table!RunStatusFields
    <3>5. {q.started, q.finished, q.error} \subseteq BOOLEAN
      BY <3>1, <3>3
    <3>6. Table!RunAllowed(q)
      BY <1>2, <1>3, <2>1, <3>1, <3>2, <3>4, <3>5
    <3>7. Table!RunAllowed(run')
      BY <2>4, <3>6 DEF q
    <3> QED
      BY <2>4, <3>7
  <2> QED
    BY <1>4, <2>1, <2>3, <2>4
<1>6. CASE CollectRollout
  <2>1. phase = "training" /\ phase' = phase /\ run' = run
    BY <1>6 DEF CollectRollout
  <2> QED
    BY <2>1 DEF Uncommitted
<1>7. CASE ReachBoundary
  <2> DEFINE end == Ppo!SegmentEnd
  <2>1. phase = "training" /\ ~ Uncommitted
    BY <1>7 DEF ReachBoundary, Uncommitted
  <2>2. /\ run.status = "running" /\ Loop /\ training.completed_steps < RequestedSteps
        /\ request \in Requests /\ Prepared /\ Rows \in Int
    BY <2>1, ScoringRun DEF TrainingInv
  <2>3. \/ phase' = "requested"
           /\ Ppo!IsFinal(end)
           /\ run' = [run EXCEPT !.training_steps_completed = end,
                                 !.status = "completed", !.finished = TRUE]
        \/ phase' = "training" /\ run' = [run EXCEPT !.training_steps_completed = end]
        \/ phase' = "failed" /\ run' = FailedRun
    BY <1>7 DEF ReachBoundary
  <2>4. end \in 1 .. RequestedSteps /\ (Ppo!IsFinal(end) => end = RequestedSteps)
    <3>1. end \in Boundaries
      BY <2>2, NextBoundary
    <3>2. end \in 1 .. RequestedSteps
      BY <2>2, <3>1, LoopTypes
    <3>3. training.schedule.total = RequestedSteps
      BY <2>2 DEF Loop, LoopFrame, Schedule
    <3> HIDE DEF end
    <3> QED
      BY <3>2, <3>3 DEF Ppo!IsFinal
  <2>5. run.started = TRUE /\ run.finished = FALSE /\ run.error = FALSE
    BY <1>2, <2>1, <2>2 DEF Table!RunStatusFields
  <2> HIDE DEF end
  <2>6. CASE /\ phase' = "requested" /\ Ppo!IsFinal(end)
             /\ run' = [run EXCEPT !.training_steps_completed = end,
                                   !.status = "completed", !.finished = TRUE]
    <3> DEFINE q == [run EXCEPT !.training_steps_completed = end,
                                !.status = "completed", !.finished = TRUE]
    <3>1. /\ \A f \in shared : q[f] = run[f]
          /\ q.status = "completed" /\ q.started = run.started /\ q.finished = TRUE
          /\ q.error = run.error /\ q.training_steps_completed = end
      BY <1>2, <2>1 DEF ProgressColumns
    <3>2. q.training_steps_requested = run.training_steps_requested
          /\ q.stopped_early = run.stopped_early
      BY <3>1
    <3> HIDE DEF q, shared
    <3>3. Table!RunStatusFields(q)
      BY <1>2, <2>1, <2>4, <2>5, <2>6, <3>1, <3>2 DEF Table!RunStatusFields
    <3>4. {q.started, q.finished, q.error} \subseteq BOOLEAN
      BY <2>5, <3>1
    <3>5. q.training_steps_completed \in 0 .. q.training_steps_requested
      BY <1>2, <2>1, <2>4, <3>1, <3>2
    <3>6. Table!RunAllowed(q)
      BY <1>3, <2>1, <3>1, <3>3, <3>4, <3>5
    <3>7. Table!RunAllowed(run')
      BY <2>6, <3>6 DEF q
    <3> QED
      BY <2>6, <3>7
  <2>7. CASE phase' = "training" /\ run' = [run EXCEPT !.training_steps_completed = end]
    <3> DEFINE q == [run EXCEPT !.training_steps_completed = end]
    <3>1. /\ \A f \in shared : q[f] = run[f]
          /\ q.status = run.status /\ q.started = run.started /\ q.finished = run.finished
          /\ q.error = run.error /\ q.training_steps_completed = end
      BY <1>2, <2>1 DEF ProgressColumns
    <3>2. q.training_steps_requested = run.training_steps_requested
          /\ q.stopped_early = run.stopped_early
      BY <3>1
    <3> HIDE DEF q, shared
    <3>3. Table!RunStatusFields(q)
      BY <1>2, <2>1, <2>2, <2>5, <3>1, <3>2 DEF Table!RunStatusFields
    <3>4. {q.started, q.finished, q.error} \subseteq BOOLEAN
      BY <2>5, <3>1
    <3>5. q.training_steps_completed \in 0 .. q.training_steps_requested
      BY <1>2, <2>1, <2>4, <3>1, <3>2
    <3>6. Table!RunAllowed(q)
      BY <1>3, <2>1, <3>1, <3>3, <3>4, <3>5
    <3>7. Table!RunAllowed(run')
      BY <2>7, <3>6 DEF q
    <3> QED
      BY <2>7, <3>7
  <2> QED
    BY <1>4, <2>1, <2>3, <2>6, <2>7
<1> QED
  BY <1>1, <1>5, <1>6, <1>7 DEF Train

-----------------------------------------------------------------------------
(* The model of the run *)

\* The phases from the first rollout on, in which the run has not failed.
HasModel == phase \in {"training", "requested", "pending", "running", "stepping", "completed"}

\* A model with the observations and the actions of the run, whose favoured
\* action, if it has one, goes long.
Fits ==
    /\ {"spaces", "favoured"} \subseteq DOMAIN model
    /\ model.spaces = Spaces(Environment)
    /\ \/ model.favoured = NoValue
       \/ model.favoured = 1 /\ PositionTargets(Environment.position_side)[2] = 1

FitInv == HasModel \/ model # NoValue => Fits

\* The model a run begins with fits it.
LEMMA InitialModelFits ==
    ASSUME Config!ConfigValid(request.config, ProbabilityUnit), SourceLoads
    PROVE  LET m == InitialModel
           IN  /\ {"spaces", "favoured"} \subseteq DOMAIN m
               /\ m.spaces = Spaces(Environment)
               /\ \/ m.favoured = NoValue
                  \/ m.favoured = 1 /\ PositionTargets(Environment.position_side)[2] = 1
<1>1. CASE Null(start.source)
  <2>1. Environment.position_side \in {"long_only", "short_only", "long_short"}
    BY DEF Config!ConfigValid, Config!EnvironmentValid, Environment
  <2>2. request.config.ppo.initial_long_probability # NoValue
          => Environment.position_side # "short_only"
    BY DEF Config!ConfigValid, Config!InitialProbabilityValid, Config!Present, Environment
  <2>3. Environment.position_side # "short_only"
          => PositionTargets(Environment.position_side)[2] = 1
    BY <2>1 DEF PositionTargets
  <2> QED
    BY <1>1, <2>2, <2>3 DEF InitialModel, Ppo!FreshModel, Ppo!FavouredAction
<1>2. CASE ~ Null(start.source)
  BY <1>2 DEF InitialModel, Ppo!LoadedModel, SourceLoads, Ppo!ModelLoads
<1> QED
  BY <1>1, <1>2

\* The model goes on fitting its run.
LEMMA FitKept ==
    ASSUME TrainingInv, ModelInv, FitInv, [Next]_vars
    PROVE  FitInv'
<1>0. request' = request /\ Environment' = Environment
  BY RequestStays DEF Environment
<1>1. ASSUME model' = model, HasModel' => HasModel PROVE FitInv'
  BY <1>0, <1>1 DEF FitInv, Fits
<1>2. CASE BeginTraining
  <2>1. phase = "created" /\ model = NoValue
        /\ Config!ConfigValid(request.config, ProbabilityUnit)
    BY <1>2 DEF BeginTraining, ModelInv, TrainingInv
  <2>2. CASE Trainable /\ SourceLoads
    <3>1. model' = InitialModel
      BY <1>2, <2>2 DEF BeginTraining, Ppo!Begin
    <3>2. Fits'
      BY <1>0, <2>1, <2>2, <3>1, InitialModelFits DEF Fits
    <3> QED
      BY <3>2 DEF FitInv
  <2>3. CASE ~ (Trainable /\ SourceLoads)
    BY <1>2, <2>1, <2>3 DEF BeginTraining, ppoVars, FitInv, HasModel
  <2> QED
    BY <2>2, <2>3
<1>3. CASE CollectRollout
  <2>1. phase = "training" /\ phase' = phase
        /\ \E n : model' = [model EXCEPT !.num_timesteps = n]
    BY <1>3 DEF CollectRollout, Ppo!CollectRollout
  <2>2. Fits
    BY <2>1 DEF FitInv, HasModel
  <2>3. Fits'
    BY <1>0, <2>1, <2>2 DEF Fits
  <2> QED
    BY <2>3 DEF FitInv
<1>4. CASE CreateRun \/ ReachBoundary
  <2>1. /\ model' = model
        /\ \/ phase' \in {"created", "rejected"}
           \/ phase = "training"
           \/ phase' = "failed"
    BY <1>4 DEF CreateRun, ReachBoundary, ppoVars, Ppo!ReachBoundary
  <2> QED
    BY <1>1, <2>1 DEF HasModel
<1>5. CASE Evaluate
  BY <1>1, <1>5, EvaluateFrame DEF inputs, ppoVars, HasModel
<1>6. CASE Configure \/ Read \/ ReadingFails \/ KeepEntry \/ KeepFrame \/ Resolve
           \/ Import \/ CleanSource \/ UNCHANGED vars
  <2>1. model' = model
        /\ (phase' = phase
            \/ phase' \in {"verifying", "rejected", "loading", "resolving", "creating"})
    BY <1>6 DEF Configure, Read, ReadingFails, KeepEntry, KeepFrame, Resolve, Import,
       CleanSource, vars, startVars, ppoVars
  <2> QED
    BY <1>1, <2>1 DEF HasModel
<1> QED
  BY <1>2, <1>3, <1>4, <1>5, <1>6, Steps DEF Train

-----------------------------------------------------------------------------
(* The answer of the evaluation service *)

\* What the request says of a definition that fits the run.
Completable ==
    /\ DefinitionAccepted /\ ScopeAccepted /\ Null(request.range)
    /\ Config!ActionSpaceValid(request.evaluation, Environment.position_side)

\* A pass begins behind the history.
LEMMA PassFollowsHistory ==
    ASSUME request \in Requests, Prepared, Rows \in Int
    PROVE  /\ Lookback <= PassStart /\ PassStart + Pass <= Rows
           /\ SplitByTime /\ ~ Null(request.config.data.validation_range) =>
                  /\ Split.window_metadata.validation = ValidationRange
                  /\ ValidationRange.start < ValidationRange.end
                  /\ ValidationRange.end <= Rows
           /\ SplitByTime => Split.window_metadata.data_rows = Rows
           /\ ~ SplitByTime => Split.train_rows + Split.validation_rows = Rows
<1>1. /\ Batch \in Nat \ {0} /\ Lookback \in Nat \ {0}
      /\ Pass \in Nat \ {0} /\ First \in Nat /\ First >= Lookback - 1
      /\ Offset \in Int /\ PassStart = Offset + First + 1
  BY Settings, SplitTrains, PassRows DEF Prepared, PassStart
<1>2. CASE SplitByTime
  <2> DEFINE actual == ActualStart(TrainRange.start, TrainRange.end, Lookback, Batch,
                                   request.config.data.alignment)
             wm == Split.window_metadata
  <2>1. wm.train.start = actual /\ wm.data_rows = Rows
    BY <1>2 DEF Split, TimeRangeSplit
  <2>2. actual >= Lookback
    BY <1>2 DEF Prepared, SplitPossible, TimeSplitAccepts
  <2>3. PassStart = wm.train.start /\ PassStart + Pass = wm.train.end
    BY <1>2, PassRows
  <2>4. wm.train.end = TrainRange.end /\ TrainRange.end <= Rows
    <3>1. wm.train.end = TrainRange.end
      BY <1>2 DEF Split, TimeRangeSplit
    <3>2. request.config.data.train_range.end \in Int
      BY <1>2, FieldsAssumption DEF SplitByTime
    <3>3. TrainRange.end <= Rows
      BY <1>2, <3>2 DEF TrainRange, Located, SplitByTime
    <3> QED
      BY <3>1, <3>3
  <2>5. ~ Null(request.config.data.validation_range) =>
            /\ wm.validation = ValidationRange
            /\ ValidationRange.start < ValidationRange.end
            /\ ValidationRange.end <= Rows
    <3> SUFFICES ASSUME ~ Null(request.config.data.validation_range)
                 PROVE  /\ wm.validation = ValidationRange
                        /\ ValidationRange.start < ValidationRange.end
                        /\ ValidationRange.end <= Rows
      OBVIOUS
    <3>1. wm.validation = ValidationRange
      BY <1>2 DEF Split
    <3>2. ValidationRange.start < ValidationRange.end
      BY <1>2 DEF Prepared, SplitPossible
    <3>3. request.config.data.validation_range.end \in Int
      BY FieldsAssumption
    <3>4. ValidationRange.end <= Rows
      BY <3>3 DEF ValidationRange, Located
    <3> QED
      BY <3>1, <3>2, <3>4
  <2> HIDE DEF wm, actual
  <2> QED
    BY <1>2, <2>1, <2>2, <2>3, <2>4, <2>5 DEF wm
<1>3. CASE ~ SplitByTime
  <2>1. Offset = 0 /\ PassStart + Pass = Split.split_index /\ Split.split_index < Rows
    BY <1>3, PassRows DEF Offset
  <2>2. Split.train_rows = Split.split_index
        /\ Split.validation_rows = Rows - Split.split_index
    BY <1>3 DEF Split, BatchAligned, ChronologicalSplit
  <2>3. Split.train_rows = First + 1 + Pass
    BY SplitTrains
  <2> QED
    BY <1>1, <1>3, <2>1, <2>2, <2>3
<1> QED
  BY <1>2, <1>3

\* The range of a scope of the run is accepted.
LEMMA RangeIsAccepted ==
    ASSUME request \in Requests, Prepared, Rows \in Int, ScopeAccepted, Null(request.range),
           run.window_metadata = Split.window_metadata, run.split_index = Split.split_index,
           reader.frame = start.data
    PROVE  RangeAccepted /\ EvaluationRange.start \in Int /\ EvaluationRange.end \in Int
<1> DEFINE wm == Split.window_metadata
           r == EvaluationRange
<1>1. /\ Null(wm) <=> ~ SplitByTime
      /\ PassStart \in Int /\ Pass \in Nat \ {0} /\ Lookback \in Nat \ {0}
      /\ Lookback <= PassStart /\ PassStart + Pass <= Rows
      /\ ~ SplitByTime => PassStart + Pass = Split.split_index /\ Split.split_index < Rows
  BY PassRows, SplitTrains, PassFollowsHistory, Settings DEF Prepared
<1>2. reader.frame.rows = Rows
  BY DEF Rows
<1>3. r.start \in Int /\ r.end \in Int
  BY ScoredRange
<1> HIDE DEF wm
<1>4. CASE request.data_scope = "run_training"
  <2>1. r.start = PassStart /\ r.end = PassStart + Pass
    BY <1>4, ScoredRange
  <2> QED
    BY <1>1, <1>2, <1>3, <2>1 DEF RangeAccepted
<1>5. CASE request.data_scope # "run_training" /\ SplitByTime
  <2>1. ~ Null(request.config.data.validation_range)
    BY <1>5 DEF ScopeAccepted
  <2>2. r = wm.validation
    BY <1>1, <1>5 DEF EvaluationRange, wm
  <2>3. /\ wm.validation = ValidationRange
        /\ ValidationRange.start < ValidationRange.end /\ ValidationRange.end <= Rows
        /\ PassStart + Pass <= wm.validation.start
    BY <1>5, <2>1, PassFollowsHistory, PassRows DEF wm
  <2> HIDE DEF r
  <2>4. Lookback <= r.start /\ r.start < r.end /\ r.end <= Rows
    BY <1>1, <1>3, <2>2, <2>3
  <2> QED
    BY <1>1, <1>2, <1>3, <2>4 DEF RangeAccepted, r
<1>6. CASE request.data_scope # "run_training" /\ ~ SplitByTime
  <2>1. r.start = Split.split_index /\ r.end = Rows
    BY <1>1, <1>2, <1>6 DEF EvaluationRange, wm
  <2> QED
    BY <1>1, <1>2, <1>3, <1>6, <2>1 DEF RangeAccepted
<1> QED
  BY <1>3, <1>4, <1>5, <1>6

\* The constraints of evaluations allow the pending row.
LEMMA PendingRowAllowed ==
    ASSUME request \in Requests, Prepared, Rows \in Int, RangeAccepted, DefinitionAccepted,
           EvaluationRange.start \in Int, EvaluationRange.end \in Int,
           reader.frame = start.data, ~ Null(run.data_sha256)
    PROVE  RowAllowed(PendingRow)
<1> DEFINE r == PendingRow
           range == EvaluationRange
<1>1. /\ r.status = "pending" /\ r.started = FALSE /\ r.finished = FALSE /\ r.error = FALSE
      /\ r.policy_mode = request.evaluation.policy_mode
      /\ r.threshold_action = request.evaluation.threshold_action
      /\ r.probability_threshold = request.evaluation.probability_threshold
      /\ r.data_scope = request.data_scope /\ r.data_sha256 = run.data_sha256
      /\ r.data_rows = reader.frame.rows
  BY DEF PendingRow
<1>2. /\ r.evaluation_start_index = range.start /\ r.evaluation_end_index = range.end
      /\ r.lookback_rows = Lookback /\ r.steps_expected = range.end - range.start
      /\ r.steps_completed = 0
  BY DEF PendingRow
<1>3. /\ 0 < range.start /\ range.start < range.end /\ range.end <= Rows
      /\ range.start \in Int /\ range.end \in Int /\ reader.frame.rows = Rows
  BY DEF RangeAccepted, Rows
<1>4. Lookback \in Nat \ {0}
  BY Settings DEF Prepared
<1> HIDE DEF r, range
<1>5. DefinitionColumns(r)
  <2>1. request.data_scope \in DataScopes
    BY MarketAssumption
  <2>2. {r.data_rows, r.evaluation_start_index, r.evaluation_end_index, r.lookback_rows,
         r.steps_expected, r.steps_completed} \subseteq Int
    BY <1>1, <1>2, <1>3, <1>4
  <2>3. ~ Null(r.data_sha256)
    BY <1>1
  <2>4. \A f \in {"data_sha256", "data_rows", "evaluation_start_index", "evaluation_end_index",
                  "lookback_rows", "steps_expected", "steps_completed"} : ~Null(r[f])
    BY <2>2, <2>3, NullIs
  <2> QED
    BY <1>1, <2>1, <2>4 DEF DefinitionColumns, EvaluationStatuses
<1>6. PolicyFields(r)
  <2>1. request.evaluation.policy_mode \in PolicyModes
    BY MarketAssumption
  <2> QED
    BY <1>1, <2>1 DEF PolicyFields, PolicyModes, DefinitionAccepted, Config!PolicyFieldsValid,
       Config!Present, Null
<1>7. RangeChecks(r)
  BY <1>1, <1>2, <1>3, <1>4 DEF RangeChecks
<1>8. StatusFields(r)
  BY <1>1, <1>2 DEF StatusFields
<1>9. RowAllowed(r)
  BY <1>1, <1>5, <1>6, <1>7, <1>8 DEF RowAllowed
<1> QED
  BY <1>9 DEF r

\* Whether a request fits its run never changes.
LEMMA CompletableStays ==
    ASSUME request' = request
    PROVE  Completable' <=> Completable
<1>1. Environment' = Environment /\ (SplitByTime' <=> SplitByTime)
  BY DEF Environment, SplitByTime
<1> QED
  BY <1>1 DEF Completable, DefinitionAccepted, ScopeAccepted

\* The service accepts a request that fits the run.
LEMMA RequestIsAccepted ==
    ASSUME DiskInv, ReaderInv, DataInv, RunInv, TrainingInv, Table!RunAllowed(run), Completable,
           phase = "requested", reader.stage = "loaded", SourceDataMatches
    PROVE  RequestAccepted
<1>1. reader.frame = start.data
  BY AnswerMatches
<1>2. /\ request \in Requests /\ Prepared /\ Rows \in Int
      /\ run.window_metadata = Split.window_metadata /\ run.split_index = Split.split_index
  BY ScoringRun DEF Uncommitted
<1>3. DefinitionAccepted /\ ScopeAccepted /\ Null(request.range)
  BY DEF Completable
<1>4. RangeAccepted /\ EvaluationRange.start \in Int /\ EvaluationRange.end \in Int
  BY <1>1, <1>2, <1>3, RangeIsAccepted
<1>5. ~ Null(run.data_sha256)
  BY DEF Table!RunAllowed, Table!RunColumns, Null
<1>6. RowAllowed(PendingRow)
  BY <1>1, <1>2, <1>3, <1>4, <1>5, PendingRowAllowed
<1> QED
  BY <1>3, <1>4, <1>6 DEF RequestAccepted
=============================================================================

---------------------------- MODULE QueueSelection ----------------------------
(***************************************************************************)
(* The arguments of the queue command (src/run_search_queue.py): which     *)
(* combinations parse_args accepts, which positions of the manifest a      *)
(* selection names, and what a managed session lets its caller decide.     *)
(***************************************************************************)
EXTENDS Integers, Sequences, FiniteSets, SequencesExt

CONSTANTS Total,        \* configurations in the manifest
          Refused       \* the command ends with an error

ASSUME SelectionAssumption == Total \in Nat \ {0}

(* parse_queue_selection: the tokens "first" or "first-last", as pairs.    *)
TokenAccepted(token) == 1 <= token[1] /\ token[1] <= token[2]

ParseQueueSelection(tokens) ==
    IF tokens = <<>> \/ \E k \in DOMAIN tokens : ~TokenAccepted(tokens[k])
    THEN Refused
    ELSE SetToSortSeq(UNION {tokens[k][1] .. tokens[k][2] : k \in DOMAIN tokens}, <)

(* resolve_queue_selection: --start-at, --select, or everything.           *)
From(first) == [k \in 1 .. (Total - first + 1) |-> first + k - 1]

Selected(args) ==
    LET positions == ParseQueueSelection(args.select)
    IN  IF args.startAt # 0
        THEN IF args.startAt \in 1 .. Total THEN From(args.startAt) ELSE Refused
        ELSE IF args.select = <<>> THEN From(1)
        ELSE IF positions = Refused THEN Refused
        ELSE IF \E k \in DOMAIN positions : positions[k] > Total THEN Refused
        ELSE positions

(* parse_args.  Without --workers (0 here) the legacy queue runs.          *)
(* Temperatures in tenths of a degree.                                     *)
ParseAccepted(args) ==
    /\ ~(args.startAt # 0 /\ args.select # <<>>)
    /\ args.workers \in {0, 1, 2, 4}
    /\ args.threads >= 1
    /\ args.workers # 0 => args.threads = 1
    /\ args.serial => args.workers # 0
    /\ args.split => args.workers \in {1, 2}
    /\ 0 < args.resume /\ args.resume < args.limit /\ args.limit < args.abort /\ args.abort <= 1000

(* run_managed_queue fixes everything but the choice of positions.         *)
Fixed == [workers |-> 2, threads |-> 1, serial |-> TRUE, split |-> TRUE,
          resume |-> 845, limit |-> 915, abort |-> 975]

ManagedArguments(args) == [x \in DOMAIN args \cup DOMAIN Fixed |->
                              IF x \in DOMAIN Fixed THEN Fixed[x] ELSE args[x]]

ArgumentsAccepted(args) ==
    /\ DOMAIN args \cap DOMAIN Fixed = {}
    /\ ParseAccepted(ManagedArguments(args))
=============================================================================

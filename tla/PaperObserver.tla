--------------------------- MODULE PaperObserver ---------------------------
(***************************************************************************)
(* One paper observation directory (paper/observer.py): the LOCK file, the *)
(* state observation.json, the immutable batch files, the run files, the   *)
(* current result and checkpoint, and the invocation log. observe_strategy *)
(* runs as a sequence of steps, one per file it writes, in the order of    *)
(* the code; a process may die between any two and leaves LOCK behind. A   *)
(* result is what the strategy did at each event it was given. The         *)
(* checkpoint also holds how the strategy goes on from it: one that        *)
(* exports less than it knows may decide otherwise than it would have.     *)
(***************************************************************************)
EXTENDS Integers, SequencesExt

CONSTANTS Clients,           \* processes that may run `paper observe`
          BatchIds,          \* batch identifiers a caller may use
          Contents,          \* event sets a batch may hold; an event is its sort key
          Configs,           \* config_hash: strategy, execution, risk, policy, scaling mode
          Checkpointed,      \* the configurations in incremental_checkpoint mode
          Forgetful,         \* those of them whose exported state may lack something
          Decided,           \* Decided[e]: what the strategy does at event e
          Astray,            \* what it may do instead when something was lost
          Interval,          \* full_replay_interval_batches
          NoConfig           \* there is no observation.json

ASSUME ObserverAssumption ==
  /\ Checkpointed \subseteq Configs
  /\ Forgetful \subseteq Checkpointed
  /\ NoConfig \notin Configs
  /\ \A events \in Contents :
       events # {} /\ events \subseteq Nat \ {0} /\ IsFiniteSet(events)
  /\ {Decided} \cup Astray \subseteq [UNION Contents -> {"buy", "sell", "hold"}]
  /\ Interval \in Nat \ {0}

VARIABLES lock,              \* LOCK exists
          observation,       \* observation.json
          batchFiles,        \* the files under batches/ and what they hold
          runFiles,          \* the files under runs/ and what they hold
          current,           \* current-result.json, <<>> when there is none
          checkpoint,        \* current-checkpoint.json, NoCheckpoint when there is none
          invocations,       \* invocations.jsonl
          at,                \* the step each process is at
          call               \* its arguments and what it holds in memory

files == <<observation, batchFiles, runFiles, current, checkpoint, invocations>>
vars  == <<lock, files, at, call>>

Journal == INSTANCE PaperJournal WITH
  batches <- observation.batches,
  runs    <- observation.runs,
  frozen  <- observation.status = "frozen"

Batch    == Journal!Batch
Results  == Journal!Results
Observation ==
  [status  : {"absent", "observing", "frozen"},
   config  : Configs \cup {NoConfig},
   batches : Seq(Batch),
   runs    : Seq(Results)]

NoObservation == [status |-> "absent", config |-> NoConfig, batches |-> <<>>, runs |-> <<>>]
NoCheckpoint  == [last |-> 0, acted |-> <<>>, does |-> Decided]

Steps == {"idle", "locked", "batch", "evaluate", "run", "current", "checkpoint", "state", "log"}

TypeOK ==
  /\ lock \in BOOLEAN
  /\ observation \in Observation
  /\ DOMAIN batchFiles \subseteq BatchIds
  /\ Range(batchFiles) \subseteq Contents \cup {{}}
  /\ DOMAIN runFiles \in {1..Len(observation.runs), 1..Len(observation.runs) + 1}
  /\ Range(runFiles) \subseteq Results
  /\ current \in Results
  /\ checkpoint \in [last : Nat, acted : Results, does : {Decided} \cup Astray]
  /\ invocations \in Seq([status   : {"observing", "frozen", "unended", "torn"},
                          sequence : Nat, batch : BatchIds])
  /\ at \in [Clients -> Steps]
  /\ \A c, d \in Clients : at[c] # "idle" /\ at[d] # "idle" => lock /\ c = d

NoCall == [row |-> <<>>, config |-> NoConfig, state |-> NoObservation, result |-> <<>>]

Init ==
  /\ lock = FALSE
  /\ observation = NoObservation
  /\ batchFiles = <<>> /\ runFiles = <<>>
  /\ current = <<>> /\ checkpoint = NoCheckpoint
  /\ invocations = <<>>
  /\ at = [c \in Clients |-> "idle"]
  /\ call = [c \in Clients |-> NoCall]
-----------------------------------------------------------------------------
(* _exclusive_lock, and the state read under it *)

(* LOCK is opened without O_EXCL. *)
AcquireAnyway(c, row, config) ==
  /\ at[c] = "idle"
  /\ lock' = TRUE
  /\ at' = [at EXCEPT ![c] = "locked"]
  /\ call' = [call EXCEPT ![c] = [NoCall EXCEPT !.row = row, !.config = config]]
  /\ UNCHANGED files

Acquire(c, row, config) ==
  /\ at[c] = "idle" /\ ~lock
  /\ lock' = TRUE
  /\ at' = [at EXCEPT ![c] = "locked"]
  /\ call' = [call EXCEPT ![c] = [NoCall EXCEPT !.row = row, !.config = config]]
  /\ UNCHANGED files

Release(c) ==
  /\ lock' = FALSE
  /\ at'   = [at EXCEPT ![c] = "idle"]
  /\ call' = [call EXCEPT ![c] = NoCall]

Goto(c, step, state) ==
  /\ at'   = [at EXCEPT ![c] = step]
  /\ call' = [call EXCEPT ![c].state = state]
  /\ UNCHANGED lock

(* A directory with one file written. *)
With(directory, name, content) ==
  [n \in DOMAIN directory \cup {name} |-> IF n = name THEN content ELSE directory[n]]

Row(c)     == call[c].row
Config(c)  == call[c].config
Incremental(c) == Config(c) \in Checkpointed

Loaded(c) == IF observation.status = "absent"
             THEN [NoObservation EXCEPT !.status = "observing", !.config = Config(c)]
             ELSE observation

Known(row) == row.id \in Journal!Ids(observation.batches)

Drifted(c)   == Loaded(c).config # Config(c)
Duplicate(c) == Row(c) \in Range(observation.batches)

Frozen(state) == [state EXCEPT !.status = "frozen"]

(* Frozen, already observed, or an untracked file in the way: no change.    *)
Refuse(c) ==
  /\ at[c] = "locked"
  /\ \/ observation.status = "frozen"
     \/ ~Drifted(c) /\ Duplicate(c)
     \/ ~Drifted(c) /\ ~Known(Row(c)) /\ Row(c).id \in DOMAIN batchFiles
  /\ Release(c)
  /\ UNCHANGED files

(* config_drift, batch_conflict *)
FreezeOnEntry(c) ==
  /\ at[c] = "locked"
  /\ observation.status # "frozen"
  /\ Drifted(c) \/ (Known(Row(c)) /\ ~Duplicate(c))
  /\ Goto(c, "state", Frozen(Loaded(c)))
  /\ UNCHANGED files

(* batch_path.open("xb") *)
CreateBatch(c) ==
  /\ at[c] = "locked"
  /\ observation.status # "frozen" /\ ~Drifted(c)
  /\ ~Known(Row(c)) /\ Row(c).id \notin DOMAIN batchFiles
  /\ batchFiles' = With(batchFiles, Row(c).id, {})
  /\ Goto(c, "batch", Loaded(c))
  /\ UNCHANGED <<observation, runFiles, current, checkpoint, invocations>>

WriteBatch(c) ==
  /\ at[c] = "batch"
  /\ batchFiles' = [batchFiles EXCEPT ![Row(c).id] = Row(c).events]
  /\ Goto(c, "evaluate", [call[c].state EXCEPT !.batches = Append(@, Row(c))])
  /\ UNCHANGED <<observation, runFiles, current, checkpoint, invocations>>
-----------------------------------------------------------------------------
(* The evaluation of the stored batch *)

(* _load_batches: every file holds what was recorded, no event comes twice. *)
Intact(rows) ==
  /\ \A n \in DOMAIN rows : batchFiles[rows[n].id] = rows[n].events
  /\ \A m, n \in DOMAIN rows : m # n => rows[m].events \cap rows[n].events = {}

(* What the batches hold when read back. *)
ReadBack(rows) == UNION {batchFiles[rows[n].id] : n \in DOMAIN rows}

(* The run of all of them from scratch: Replay when Intact. *)
Clean(c) == Journal!Acts(ReadBack(call[c].state.batches), Decided)

Result(c) ==
  IF Incremental(c)
  THEN checkpoint.acted \o Journal!Acts(Row(c).events, checkpoint.does)
  ELSE Clean(c)

(* The worker refuses to continue a checkpoint with an earlier event.       *)
Continues(c) == Incremental(c) => \A e \in Row(c).events : e > checkpoint.last

(* historical_prefix_divergence, only looked for in cumulative mode.        *)
PrefixStable(c) == ~Incremental(c) => IsPrefix(current, Result(c))

Sequence(state) == Len(state.runs) + 1

(* The audits come one batch late. *)
AuditPassesLate(c) ==
  Incremental(c) /\ Journal!AuditDue(Len(call[c].state.runs)) =>
    Journal!Totals(Result(c)) = Journal!Totals(Clean(c))

(* checkpoint_replay_divergence: the final portfolio and the number of      *)
(* signals, of fills and the costs are compared, not what led to them.      *)
AuditPasses(c) ==
  Incremental(c) /\ Journal!AuditDue(Sequence(call[c].state)) =>
    Journal!Totals(Result(c)) = Journal!Totals(Clean(c))

Evaluated(c) ==
  /\ Intact(call[c].state.batches)
  /\ Continues(c) /\ PrefixStable(c) /\ AuditPasses(c)

(* A breach of the observation policy, a failing worker or a risk limit may *)
(* always be found; a batch that does not evaluate is found out.            *)
FreezeOnEvaluation(c) ==
  /\ at[c] = "evaluate"
  /\ Goto(c, "state", Frozen(call[c].state))
  /\ UNCHANGED files

(* A run file left by a dead process is written over. *)
RunFileNeverInTheWay(c) == FALSE

RunFileExists(c) == Sequence(call[c].state) \in DOMAIN runFiles

(* "paper run sequence already exists" *)
RefuseSequence(c) ==
  /\ at[c] = "evaluate" /\ Evaluated(c) /\ RunFileExists(c)
  /\ Release(c)
  /\ UNCHANGED files

Accept(c) ==
  /\ at[c] = "evaluate" /\ Evaluated(c) /\ ~RunFileExists(c)
  /\ at'   = [at EXCEPT ![c] = "run"]
  /\ call' = [call EXCEPT ![c].result = Result(c)]
  /\ UNCHANGED <<lock, files>>
-----------------------------------------------------------------------------
(* The writes of an accepted batch, each an os.replace *)

WriteRun(c) ==
  /\ at[c] = "run"
  /\ runFiles' = With(runFiles, Sequence(call[c].state), call[c].result)
  /\ Goto(c, "current", call[c].state)
  /\ UNCHANGED <<observation, batchFiles, current, checkpoint, invocations>>

Committed(c) == [call[c].state EXCEPT !.runs = Append(@, call[c].result)]

WriteCurrent(c) ==
  /\ at[c] = "current"
  /\ current' = call[c].result
  /\ IF Incremental(c)
     THEN Goto(c, "checkpoint", call[c].state)
     ELSE Goto(c, "state", Committed(c))
  /\ UNCHANGED <<observation, batchFiles, runFiles, checkpoint, invocations>>

(* How the strategy goes on from what it exports. *)
Exported(c) == IF Config(c) \in Forgetful THEN {checkpoint.does} \cup Astray ELSE {Decided}

(* The engine's part of the checkpoint continues the result in any case.    *)
WriteCheckpoint(c) ==
  /\ at[c] = "checkpoint"
  /\ \E does \in Exported(c) :
       checkpoint' = [last |-> Last(call[c].result).event, acted |-> call[c].result, does |-> does]
  /\ Goto(c, "state", Committed(c))
  /\ UNCHANGED <<observation, batchFiles, runFiles, current, invocations>>

(* The state, of a freeze or of a commit. *)
WriteState(c) ==
  /\ at[c] = "state"
  /\ observation' = call[c].state
  /\ Goto(c, "log", call[c].state)
  /\ UNCHANGED <<batchFiles, runFiles, current, checkpoint, invocations>>

(* A freeze is logged under the number of the last run. *)
EntryOfLastRun(c, status) ==
  [status |-> status, sequence |-> Len(call[c].state.runs), batch |-> Row(c).id]

Entry(c, status) ==
  [status   |-> status,
   sequence |-> Len(call[c].state.runs) + (IF call[c].state.status = "frozen" THEN 1 ELSE 0),
   batch    |-> Row(c).id]

LogReads == \A n \in DOMAIN invocations : invocations[n].status # "torn"

(* The log with a line written at its end: behind an entry that lacks only  *)
(* its newline the two make one line that cannot be read.                   *)
Logged(entry) ==
  IF invocations # <<>> /\ Last(invocations).status = "unended"
  THEN [invocations EXCEPT ![Len(invocations)].status = "torn"]
  ELSE Append(invocations, entry)

(* _append_invocation: a torn last line cannot be read, and the call raises *)
(* with the state already written.                                          *)
AppendInvocation(c) ==
  /\ at[c] = "log"
  /\ invocations' = IF LogReads THEN Logged(Entry(c, call[c].state.status)) ELSE invocations
  /\ Release(c)
  /\ UNCHANGED <<observation, batchFiles, runFiles, current, checkpoint>>
-----------------------------------------------------------------------------
(* The environment *)

(* The process dies: what it wrote stays, and so does LOCK; the line it was *)
(* appending may be torn, or whole but for its newline.                     *)
Crash(c) ==
  /\ at[c] # "idle"
  /\ at'   = [at EXCEPT ![c] = "idle"]
  /\ call' = [call EXCEPT ![c] = NoCall]
  /\ \/ UNCHANGED invocations
     \/ /\ at[c] = "log" /\ LogReads
        /\ \E left \in {"torn", "unended"} : invocations' = Logged(Entry(c, left))
  /\ UNCHANGED <<lock, observation, batchFiles, runFiles, current, checkpoint>>

(* An operator removes the LOCK a dead process left.                        *)
Unlock ==
  /\ lock /\ \A c \in Clients : at[c] = "idle"
  /\ lock' = FALSE
  /\ UNCHANGED <<files, at, call>>

(* Someone rewrites the file of a batch that is already tracked.            *)
Edit(row) ==
  /\ Known(row) /\ batchFiles[row.id] # row.events
  /\ batchFiles' = [batchFiles EXCEPT ![row.id] = row.events]
  /\ UNCHANGED <<lock, observation, runFiles, current, checkpoint, invocations, at, call>>

Step(c) ==
  \/ Refuse(c) \/ FreezeOnEntry(c) \/ CreateBatch(c) \/ WriteBatch(c)
  \/ FreezeOnEvaluation(c) \/ RefuseSequence(c) \/ Accept(c)
  \/ WriteRun(c) \/ WriteCurrent(c) \/ WriteCheckpoint(c)
  \/ WriteState(c) \/ AppendInvocation(c)

Next ==
  \/ \E c \in Clients :
       \/ \E row \in Batch, config \in Configs : Acquire(c, row, config)
       \/ Step(c)
       \/ Crash(c)
  \/ Unlock
  \/ \E row \in Batch : Edit(row)

Spec == Init /\ [][Next]_vars
(* Once the host stays up a call that was started runs to its end, a LOCK   *)
(* left behind is removed, and callers keep submitting their batches.       *)
Fairness ==
  /\ \A c \in Clients : WF_vars(Step(c))
  /\ WF_vars(Unlock)
  /\ \A c \in Clients, row \in Batch, config \in Configs : SF_vars(Acquire(c, row, config))

FairSpec == Spec /\ Fairness
-----------------------------------------------------------------------------
(* Properties *)

(* Whatever died, was retried or was edited, the observation is a journal:  *)
(* batches accepted one at a time and never rewritten, no event accepted    *)
(* twice, no result that takes back what an earlier one did, no step after  *)
(* a freeze; and every audited result has the portfolio, the signals, fills *)
(* and costs of a clean replay of what is tracked, a strategy that loses    *)
(* state included (observer.py:428).                                        *)
ImplementsJournal == Journal!JournalSpec

(* A faithful strategy's committed results are the clean replay of the      *)
(* batches tracked at that point - a checkpoint or a result a dead process  *)
(* left ahead of the state is never built upon.                             *)
ResultsReplay ==
  observation.config \notin Forgetful =>
    \A n \in DOMAIN observation.runs :
      observation.runs[n] = Journal!Replay(SubSeq(observation.batches, 1, n))

(* The invocation log never runs ahead of the state, names each sequence    *)
(* number once and in order, and ends with the freeze.                      *)
LogFollowsState ==
  /\ \A n \in DOMAIN invocations :
       LET entry == invocations[n]
       IN /\ entry.status = "observing" =>
               /\ entry.sequence <= Len(observation.runs)
               /\ observation.batches[entry.sequence].id = entry.batch
          /\ entry.status = "frozen" =>
               observation.status = "frozen" /\ n = Len(invocations)
  /\ \A m, n \in DOMAIN invocations :
       m < n => invocations[m].sequence < invocations[n].sequence

(* "Resumable" (observer.py:1; docs/public/CLI_CONTRACT.md:46): when the    *)
(* host stops failing, a batch whose file was begun is in the end tracked   *)
(* by the observation, or the observation is frozen.                        *)
InterruptedBatchIsResumed ==
  <>[][\A c \in Clients : ~Crash(c)]_vars =>
    \A id \in BatchIds :
      id \in DOMAIN batchFiles ~>
        id \in Journal!Ids(observation.batches) \/ observation.status = "frozen"
=============================================================================

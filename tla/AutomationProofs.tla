-------------------------- MODULE AutomationProofs --------------------------
(***************************************************************************)
(* What a scheduled job guarantees for every number of invocations, every  *)
(* specification and every number of attempts.                             *)
(***************************************************************************)
EXTENDS Automation, TLAPS

(* Nothing starts for a specification that is refused. *)
Admitted == \A r \in Runners : pc[r] \in RunnerSteps => spec.valid

(* A snapshot that is open is where it was opened, or was renamed with its *)
(* directory; a directory that holds none is held by nobody.               *)
Holding ==
  \A r \in Runners :
    /\ worker[r].handle = "staging" =>
         /\ staging[worker[r].attempt] # Absent
         /\ staging[worker[r].attempt].snapshot # "none"
    /\ worker[r].handle = "commit" => commit # Absent

TypeInv == TypeOK /\ Admitted /\ Holding

Record == [at      : {"none", "succeeded", "failed"} \cup WorkerSteps,
           attempt : Attempts,
           handle  : {"none", "staging", "commit", "gone"}]
-----------------------------------------------------------------------------
LEMMA StepNames ==
  /\ "new" \notin RunnerSteps /\ \A e \in Ended : e \notin RunnerSteps
  /\ \A e \in {"none", "succeeded", "failed"} : e \notin WorkerSteps
BY DEF RunnerSteps, Ended, WorkerSteps

LEMMA InitTyped == Init => TypeInv
<1>. SUFFICES ASSUME Init PROVE TypeInv
  OBVIOUS
<1>1. Idle \in Record /\ Idle.handle = "none"
  BY AttemptsAssumption DEF Idle, Record, Attempts, WorkerSteps
<1>a. 1 \in Attempts
  BY AttemptsAssumption DEF Attempts
<1>b. /\ staging \in [Attempts -> Directory \cup {Absent}]
      /\ attempt \in [Runners -> Attempts]
      /\ published \in [Runners -> BOOLEAN]
      /\ worker \in [Runners -> Record]
      /\ pc \in [Runners -> {"new"} \cup RunnerSteps \cup Ended]
  BY <1>1, <1>a DEF Init
<1>2. TypeOK
  BY <1>b DEF Init, TypeOK, Record
<1>3. Admitted
  BY StepNames DEF Init, Admitted
<1>4. Holding
  BY <1>1 DEF Init, Holding
<1>. QED BY <1>2, <1>3, <1>4 DEF TypeInv

(* Removing the files of a directory leaves it held by nobody. *)
LEMMA EmptiedTyped ==
  ASSUME TypeInv, NEW r \in Runners, Emptied(r), UNCHANGED commit
  PROVE  /\ staging' \in [Attempts -> Directory \cup {Absent}]
         /\ worker' \in [Runners -> Record]
         /\ Holding'
<1>. DEFINE a == attempt[r]
<1>1. /\ a \in Attempts /\ worker \in [Runners -> Record]
      /\ staging \in [Attempts -> Directory \cup {Absent}]
  BY DEF TypeInv, TypeOK, Record
<1>2. Empty \in Directory
  BY DEF Empty, Directory
<1>3. \A q \in Runners : [worker[q] EXCEPT !.handle = "gone"] \in Record
  BY <1>1 DEF Record
<1>4. \A q \in Runners : /\ worker'[q] \in Record
                         /\ worker'[q].attempt = worker[q].attempt
                         /\ worker'[q].handle \in {worker[q].handle, "gone"}
                         /\ worker'[q].handle = "staging" => worker[q].attempt # a
  BY <1>1, <1>3 DEF Emptied, Unlinked, Record
<1>5. worker' \in [Runners -> Record]
  BY <1>4 DEF Emptied, Unlinked
<1>6. staging' \in [Attempts -> Directory \cup {Absent}]
  BY <1>1, <1>2 DEF Emptied
<1>7. Holding'
  BY <1>1, <1>4 DEF Emptied, TypeInv, Holding, Record
<1>. QED BY <1>5, <1>6, <1>7

LEMMA Shapes ==
  /\ Empty \in Directory /\ Empty.snapshot = "none" /\ Whole \in Directory
  /\ \A d \in Directory, x \in {"none", "empty", "whole"} :
       /\ [d EXCEPT !.snapshot = x] \in Directory
       /\ [d EXCEPT !.snapshot = x].snapshot = x
       /\ [d EXCEPT !.snapshot = x].manifest = d.manifest
  /\ \A d \in Directory : /\ [d EXCEPT !.manifest = TRUE] \in Directory
                          /\ [d EXCEPT !.manifest = TRUE].snapshot = d.snapshot
                          /\ [d EXCEPT !.manifest = TRUE].manifest = TRUE
BY DEF Empty, Whole, Directory

(* A step of a runner that leaves the directories and the workers alone.   *)
LEMMA QuietTyped ==
  ASSUME TypeInv, NEW r \in Runners, pc[r] \in RunnerSteps,
         UNCHANGED <<context, staging, commit, worker>>,
         NEW step \in RunnerSteps \cup Ended, Goto(r, step),
         receipt' \in Receipt \cup {Absent}, inputs' \in BOOLEAN, incident' \in BOOLEAN,
         attempt' \in [Runners -> Attempts], published' \in [Runners -> BOOLEAN]
  PROVE  TypeInv'
<1>1. /\ pc' \in [Runners -> {"new"} \cup RunnerSteps \cup Ended]
      /\ \A q \in Runners : q # r => pc'[q] = pc[q]
  BY DEF TypeInv, TypeOK, Goto
<1>2. TypeOK'
  BY <1>1 DEF TypeInv, TypeOK, context
<1>3. Admitted'
  BY <1>1 DEF TypeInv, Admitted, context
<1>4. Holding'
  BY DEF TypeInv, Holding
<1>. QED BY <1>2, <1>3, <1>4 DEF TypeInv

(* The other steps of a runner. *)
LEMMA MovesTyped ==
  ASSUME TypeInv, NEW r \in Runners, pc[r] \in RunnerSteps,
         UNCHANGED <<context, receipt, inputs, incident, attempt>>,
         NEW step \in RunnerSteps \cup Ended, Goto(r, step),
         staging' \in [Attempts -> Directory \cup {Absent}],
         commit' \in Directory \cup {Absent},
         published' \in [Runners -> BOOLEAN],
         worker' \in [Runners -> Record],
         Holding'
  PROVE  TypeInv'
<1>1. /\ pc' \in [Runners -> {"new"} \cup RunnerSteps \cup Ended]
      /\ \A q \in Runners : q # r => pc'[q] = pc[q]
  BY DEF TypeInv, TypeOK, Goto
<1>2. TypeOK'
  BY <1>1 DEF TypeInv, TypeOK, context, Record
<1>3. Admitted'
  BY <1>1 DEF TypeInv, Admitted, context
<1>. QED BY <1>2, <1>3 DEF TypeInv

LEMMA RunnerTyped ==
  ASSUME TypeInv, NEW r \in Runners, RunnerStep(r)
  PROVE  TypeInv'
<1>. DEFINE a == attempt[r]
<1>0. /\ a \in Attempts /\ worker \in [Runners -> Record] /\ worker[r] \in Record
      /\ staging \in [Attempts -> Directory \cup {Absent}]
      /\ commit \in Directory \cup {Absent}
      /\ published \in [Runners -> BOOLEAN] /\ attempt \in [Runners -> Attempts]
      /\ receipt \in Receipt \cup {Absent} /\ inputs \in BOOLEAN /\ incident \in BOOLEAN
  BY DEF TypeInv, TypeOK, Record
<1>1. CASE WriteInputs(r)
  <2>1. "clear" \in RunnerSteps /\ pc[r] \in RunnerSteps
    BY <1>1 DEF WriteInputs, RunnerSteps
  <2>. QED BY <1>0, <1>1, <2>1, QuietTyped DEF WriteInputs, local
<1>2. CASE ClearStaging(r)
  <2>1. {"mkdir", "rmdir"} \subseteq RunnerSteps /\ pc[r] \in RunnerSteps
    BY <1>2 DEF ClearStaging, RunnerSteps
  <2>2. CASE staging[a] = Absent
    BY <1>0, <1>2, <2>1, <2>2, QuietTyped DEF ClearStaging, local
  <2>3. CASE staging[a] # Absent
    BY <1>0, <1>2, <2>1, <2>3, EmptiedTyped, MovesTyped DEF ClearStaging, local
  <2>. QED BY <2>2, <2>3
<1>3. CASE RemoveStaging(r)
  <2>1. "mkdir" \in RunnerSteps /\ "raised" \in Ended /\ pc[r] \in RunnerSteps
    BY <1>3 DEF RemoveStaging, RunnerSteps, Ended
  <2>2. CASE staging[a] # Empty
    BY <1>0, <1>3, <2>1, <2>2, QuietTyped DEF RemoveStaging, local
  <2>3. CASE staging[a] = Empty
    <3>1. Holding'
      BY <1>0, <1>3, <2>3, Shapes DEF RemoveStaging, TypeInv, Holding, Record
    <3>. QED BY <1>0, <1>3, <2>1, <2>3, <3>1, MovesTyped DEF RemoveStaging, local
  <2>. QED BY <2>2, <2>3
<1>4. CASE Spawn(r)
  <2>1. "wait" \in RunnerSteps /\ "raised" \in Ended /\ pc[r] \in RunnerSteps
    BY <1>4 DEF Spawn, RunnerSteps, Ended
  <2>2. CASE staging[a] # Absent
    BY <1>0, <1>4, <2>1, <2>2, QuietTyped DEF Spawn, local
  <2>3. CASE staging[a] = Absent
    <3>1. [at |-> "read", attempt |-> a, handle |-> "none"] \in Record
      BY <1>0 DEF Record, WorkerSteps
    <3>2. /\ worker' \in [Runners -> Record]
          /\ worker'[r].handle = "none" /\ \A q \in Runners : q # r => worker'[q] = worker[q]
      BY <1>0, <1>4, <2>3, <3>1 DEF Spawn
    <3>3. staging' \in [Attempts -> Directory \cup {Absent}]
      BY <1>0, <1>4, <2>3, Shapes DEF Spawn
    <3>4. Holding'
      BY <1>0, <1>4, <2>3, <3>2 DEF Spawn, TypeInv, Holding, Record
    <3>. QED BY <1>0, <1>4, <2>1, <2>3, <3>2, <3>3, <3>4, MovesTyped DEF Spawn, local
  <2>. QED BY <2>2, <2>3
<1>5. CASE WorkerEnded(r)
  <2>1. {"promote", "sweep"} \subseteq RunnerSteps /\ pc[r] \in RunnerSteps
    BY <1>5 DEF WorkerEnded, RunnerSteps
  <2>. QED BY <1>0, <1>5, <2>1, QuietTyped DEF WorkerEnded, local, files
<1>6. CASE TimeOut(r)
  <2>1. "sweep" \in RunnerSteps /\ pc[r] \in RunnerSteps
    BY <1>6 DEF TimeOut, RunnerSteps
  <2>2. /\ worker' \in [Runners -> Record]
        /\ worker'[r].handle = "none" /\ \A q \in Runners : q # r => worker'[q] = worker[q]
    BY <1>0, <1>6 DEF TimeOut, Record
  <2>3. Holding'
    BY <1>6, <2>2 DEF TimeOut, TypeInv, Holding, files
  <2>. QED BY <1>0, <1>6, <2>1, <2>2, <2>3, MovesTyped DEF TimeOut, local, files
<1>7. CASE Promote(r)
  <2>1. {"rename", "sweep"} \subseteq RunnerSteps /\ pc[r] \in RunnerSteps
    BY <1>7 DEF Promote, RunnerSteps
  <2>. QED BY <1>0, <1>7, <2>1, QuietTyped DEF Promote, local, files
<1>8. CASE Rename(r)
  <2>1. "sweep" \in RunnerSteps /\ pc[r] \in RunnerSteps
    BY <1>8 DEF Rename, RunnerSteps
  <2>2. CASE ~(staging[a] # Absent /\ commit \in {Absent, Empty})
    BY <1>0, <1>8, <2>1, <2>2, QuietTyped DEF Rename
  <2>3. CASE staging[a] # Absent /\ commit \in {Absent, Empty}
    <3>1. \A q \in Runners : [worker[q] EXCEPT !.handle = "commit"] \in Record
      BY <1>0 DEF Record
    <3>2. /\ worker' \in [Runners -> Record]
          /\ \A q \in Runners :
               /\ worker'[q].attempt = worker[q].attempt
               /\ worker'[q].handle = "staging" =>
                    worker[q].handle = "staging" /\ worker[q].attempt # a
      BY <1>0, <1>8, <2>3, <3>1 DEF Rename, Record
    <3>3. /\ staging' \in [Attempts -> Directory \cup {Absent}]
          /\ commit' \in Directory /\ commit' # Absent
      BY <1>0, <1>8, <2>3 DEF Rename
    <3>4. Holding'
      BY <1>0, <1>8, <2>3, <3>2, <3>3 DEF Rename, TypeInv, Holding, Record
    <3>5. published' \in [Runners -> BOOLEAN]
      BY <1>0, <1>8, <2>3 DEF Rename
    <3>. QED BY <1>0, <1>8, <2>1, <3>2, <3>3, <3>4, <3>5, MovesTyped DEF Rename
  <2>. QED BY <2>2, <2>3
<1>9. CASE Sweep(r)
  <2>1. {"settle", "sweep_rmdir"} \subseteq RunnerSteps /\ pc[r] \in RunnerSteps
    BY <1>9 DEF Sweep, RunnerSteps
  <2>2. CASE staging[a] = Absent
    BY <1>0, <1>9, <2>1, <2>2, QuietTyped DEF Sweep, local
  <2>3. CASE staging[a] # Absent
    BY <1>0, <1>9, <2>1, <2>3, EmptiedTyped, MovesTyped DEF Sweep, local
  <2>. QED BY <2>2, <2>3
<1>10. CASE SweepDirectory(r)
  <2>1. "settle" \in RunnerSteps /\ pc[r] \in RunnerSteps
    BY <1>10 DEF SweepDirectory, RunnerSteps
  <2>2. staging' \in [Attempts -> Directory \cup {Absent}]
    BY <1>0, <1>10 DEF SweepDirectory
  <2>3. Holding'
    BY <1>0, <1>10, Shapes DEF SweepDirectory, TypeInv, Holding, Record
  <2>. QED BY <1>0, <1>10, <2>1, <2>2, <2>3, MovesTyped DEF SweepDirectory, local
<1>11. CASE Retry(r)
  <2>1. "clear" \in RunnerSteps /\ pc[r] \in RunnerSteps
    BY <1>11 DEF Retry, RunnerSteps
  <2>2. spec \in Specs /\ spec.valid
    BY <2>1 DEF TypeInv, TypeOK, Admitted
  <2>3. a + 1 \in Attempts
    BY <1>0, <1>11, <2>2, AttemptsAssumption DEF Retry, MayRetry, Attempts
  <2>4. attempt' \in [Runners -> Attempts]
    BY <1>0, <1>11, <2>3 DEF Retry
  <2>. QED BY <1>0, <1>11, <2>1, <2>4, QuietTyped DEF Retry, files
<1>12. CASE Settle(r)
  <2>1. {"receipt", "incident"} \subseteq RunnerSteps /\ pc[r] \in RunnerSteps
    BY <1>12 DEF Settle, RunnerSteps
  <2>. QED BY <1>0, <1>12, <2>1, QuietTyped DEF Settle, local
<1>13. CASE FileIncident(r)
  <2>1. "receipt" \in RunnerSteps /\ pc[r] \in RunnerSteps
    BY <1>13 DEF FileIncident, RunnerSteps
  <2>. QED BY <1>0, <1>13, <2>1, QuietTyped DEF FileIncident, local
<1>14. CASE WriteReceipt(r)
  <2>1. "returned" \in Ended /\ pc[r] \in RunnerSteps
    BY <1>14 DEF WriteReceipt, RunnerSteps, Ended
  <2>2. receipt' \in Receipt
    BY <1>0, <1>14 DEF WriteReceipt, Receipt
  <2>. QED BY <1>0, <1>14, <2>1, <2>2, QuietTyped DEF WriteReceipt, local
<1>. QED BY <1>1, <1>2, <1>3, <1>4, <1>5, <1>6, <1>7, <1>8, <1>9, <1>10, <1>11, <1>12, <1>13,
            <1>14 DEF RunnerStep

(* A step of a worker changes its own record and one of the directories.   *)
LEMMA WorkerMovesTyped ==
  ASSUME TypeInv, NEW r \in Runners, UNCHANGED <<context, receipt, inputs, incident, pc, local>>,
         staging' \in [Attempts -> Directory \cup {Absent}],
         commit' \in Directory \cup {Absent},
         worker' \in [Runners -> Record],
         Holding'
  PROVE  TypeInv'
<1>1. TypeOK'
  BY DEF TypeInv, TypeOK, context, local, Record
<1>2. Admitted'
  BY DEF TypeInv, Admitted, context
<1>. QED BY <1>1, <1>2 DEF TypeInv

LEMMA WorkerTyped ==
  ASSUME TypeInv, NEW r \in Runners, WorkerStep(r)
  PROVE  TypeInv'
<1>. DEFINE a == worker[r].attempt
<1>0. /\ a \in Attempts /\ worker \in [Runners -> Record] /\ worker[r] \in Record
      /\ staging \in [Attempts -> Directory \cup {Absent}]
      /\ commit \in Directory \cup {Absent}
  BY DEF TypeInv, TypeOK, Record
<1>a. ASSUME NEW step \in {"failed", "succeeded"} \cup WorkerSteps, NEW handle \in {"none", "staging"},
             WorkerGoes(r, step, handle)
      PROVE  /\ worker' \in [Runners -> Record]
             /\ worker'[r].attempt = a /\ worker'[r].handle = handle
             /\ \A q \in Runners : q # r => worker'[q] = worker[q]
  BY <1>0, <1>a DEF WorkerGoes, Record
<1>1. CASE WorkerReads(r)
  <2>1. /\ worker' \in [Runners -> Record]
        /\ worker'[r].handle = "none" /\ \A q \in Runners : q # r => worker'[q] = worker[q]
    BY <1>1, <1>a DEF WorkerReads, WorkerSteps
  <2>2. Holding'
    BY <1>1, <2>1 DEF WorkerReads, WorkerFiles, TypeInv, Holding
  <2>. QED BY <1>0, <1>1, <2>1, <2>2, WorkerMovesTyped DEF WorkerReads, WorkerFiles
<1>2. CASE WorkerOpens(r)
  <2>1. /\ worker' \in [Runners -> Record]
        /\ worker'[r].attempt = a /\ worker'[r].handle = "staging"
        /\ \A q \in Runners : q # r => worker'[q] = worker[q]
    BY <1>2, <1>a DEF WorkerOpens, WorkerSteps
  <2>2. /\ [Empty EXCEPT !.snapshot = "empty"] \in Directory
        /\ [Empty EXCEPT !.snapshot = "empty"].snapshot = "empty"
    BY Shapes
  <2>3. /\ staging' \in [Attempts -> Directory \cup {Absent}]
        /\ staging'[a] \in Directory /\ staging'[a].snapshot = "empty"
        /\ \A b \in Attempts : b # a => staging'[b] = staging[b]
    BY <1>0, <1>2, <2>2, Shapes DEF WorkerOpens
  <2>4. Holding'
    BY <1>0, <1>2, <2>1, <2>3, AbsentAssumption DEF WorkerOpens, TypeInv, Holding, Record
  <2>. QED BY <1>0, <1>2, <2>1, <2>3, <2>4, WorkerMovesTyped DEF WorkerOpens, WorkerFiles
<1>3. CASE WorkerWrites(r)
  <2>1. /\ worker' \in [Runners -> Record]
        /\ worker'[r].attempt = a /\ worker'[r].handle = "none"
        /\ \A q \in Runners : q # r => worker'[q] = worker[q]
    BY <1>3, <1>a DEF WorkerWrites, WorkerSteps
  <2>2. /\ staging' \in [Attempts -> Directory \cup {Absent}]
        /\ \A b \in Attempts : staging[b] # Absent /\ staging[b].snapshot # "none"
                                => staging'[b] # Absent /\ staging'[b].snapshot # "none"
    <3>1. CASE worker[r].handle = "staging"
      <4>1. staging[a] \in Directory
        BY <1>0, <3>1 DEF TypeInv, Holding
      <4>2. /\ [staging[a] EXCEPT !.snapshot = "whole"] \in Directory
            /\ [staging[a] EXCEPT !.snapshot = "whole"].snapshot = "whole"
        BY <4>1, Shapes
      <4>. QED BY <1>0, <1>3, <3>1, <4>2, AbsentAssumption DEF WorkerWrites
    <3>2. CASE worker[r].handle # "staging"
      BY <1>0, <1>3, <3>2 DEF WorkerWrites
    <3>. QED BY <3>1, <3>2
  <2>3. /\ commit' \in Directory \cup {Absent}
        /\ commit # Absent => commit' # Absent
    <3>1. CASE worker[r].handle = "commit"
      <4>1. commit \in Directory
        BY <1>0, <3>1 DEF TypeInv, Holding
      <4>. QED BY <1>3, <3>1, <4>1, Shapes, AbsentAssumption DEF WorkerWrites
    <3>2. CASE worker[r].handle # "commit"
      BY <1>0, <1>3, <3>2 DEF WorkerWrites
    <3>. QED BY <3>1, <3>2
  <2>4. Holding'
    BY <1>0, <2>1, <2>2, <2>3 DEF TypeInv, Holding, Record
  <2>. QED BY <1>3, <2>1, <2>2, <2>3, <2>4, WorkerMovesTyped DEF WorkerWrites, WorkerFiles
<1>4. CASE WorkerReports(r)
  <2>1. /\ worker' \in [Runners -> Record]
        /\ worker'[r].attempt = a /\ worker'[r].handle = "none"
        /\ \A q \in Runners : q # r => worker'[q] = worker[q]
    BY <1>4, <1>a DEF WorkerReports, WorkerSteps
  <2>2. /\ staging' \in [Attempts -> Directory \cup {Absent}]
        /\ \A b \in Attempts : staging[b] # Absent /\ staging[b].snapshot # "none"
                                => staging'[b] # Absent /\ staging'[b].snapshot # "none"
    <3>1. CASE staging[a] = Absent
      BY <1>0, <1>4, <3>1 DEF WorkerReports
    <3>2. CASE staging[a] # Absent
      <4>1. staging[a] \in Directory
        BY <1>0, <3>2
      <4>2. /\ [staging[a] EXCEPT !.manifest = TRUE] \in Directory
            /\ [staging[a] EXCEPT !.manifest = TRUE].snapshot = staging[a].snapshot
        BY <4>1, Shapes
      <4>. QED BY <1>0, <1>4, <3>2, <4>2, AbsentAssumption DEF WorkerReports
    <3>. QED BY <3>1, <3>2
  <2>3. Holding'
    BY <1>0, <1>4, <2>1, <2>2 DEF WorkerReports, TypeInv, Holding, Record
  <2>. QED BY <1>0, <1>4, <2>1, <2>2, <2>3, WorkerMovesTyped DEF WorkerReports, WorkerFiles
<1>. QED BY <1>1, <1>2, <1>3, <1>4 DEF WorkerStep

LEMMA NextTyped == TypeInv /\ [Next]_vars => TypeInv'
<1>. SUFFICES ASSUME TypeInv, [Next]_vars PROVE TypeInv'
  OBVIOUS
<1>1. CASE UNCHANGED vars
  BY <1>1 DEF vars, files, local, TypeInv, TypeOK, Admitted, Holding
<1>2. ASSUME NEW r \in Runners, Admit(r) PROVE TypeInv'
  <2>1. /\ "inputs" \in RunnerSteps /\ "raised" \in Ended /\ "returned" \in Ended
        /\ "raised" \notin RunnerSteps /\ "returned" \notin RunnerSteps
    BY DEF RunnerSteps, Ended
  <2>2. pc' \in [Runners -> {"new"} \cup RunnerSteps \cup Ended]
    BY <1>2, <2>1 DEF Admit, Goto, TypeInv, TypeOK
  <2>3. TypeOK'
    <3>1. overlapped' \in BOOLEAN
      BY <1>2, Zenon DEF Admit
    <3>. QED BY <1>2, <2>2, <3>1 DEF Admit, TypeInv, TypeOK, files, local
  <2>4. Admitted'
    BY <1>2, <2>1 DEF Admit, Admissible, Goto, TypeInv, TypeOK, Admitted
  <2>5. Holding'
    BY <1>2 DEF Admit, files, TypeInv, Holding
  <2>. QED BY <2>3, <2>4, <2>5 DEF TypeInv
<1>3. ASSUME NEW r \in Runners, Die(r) PROVE TypeInv'
  <2>1. "dead" \in Ended
    BY DEF Ended
  <2>. QED BY <1>3, <2>1, QuietTyped DEF Die, files, local, TypeInv, TypeOK
<1>4. CASE WorldChanges
  BY <1>4 DEF WorldChanges, files, local, TypeInv, TypeOK, Admitted, Holding
<1>. QED BY <1>1, <1>2, <1>3, <1>4, RunnerTyped, WorkerTyped DEF Next

LEMMA AlwaysTyped == Spec => []TypeInv
BY InitTyped, NextTyped, PTL DEF Spec

(* Type correctness of a job: its files, its runners and their workers. *)
THEOREM TypeCorrect == Spec => []TypeOK
<1>1. TypeInv => TypeOK
  BY DEF TypeInv
<1>. QED BY <1>1, AlwaysTyped, PTL
-----------------------------------------------------------------------------
(***************************************************************************)
(* The job is done once.  A runner that took its rename for done is backed *)
(* by a commit directory, and nothing ever removes one.                    *)
(***************************************************************************)
PublishedIsCommitted == \A r \in Runners : published[r] => commit # Absent

(* What a step may do to the two things the abstract job speaks of.        *)
LEMMA StepEffects ==
  ASSUME TypeInv, PublishedIsCommitted, [Next]_vars
  PROVE  /\ commit # Absent => commit' # Absent
         /\ PublishedIsCommitted'
         /\ \/ receipt' = receipt
            \/ /\ commit' = commit
               /\ receipt' \in Receipt
               /\ receipt'.status = "complete" => commit # Absent
<1>. DEFINE Goal == /\ commit # Absent => commit' # Absent
                    /\ PublishedIsCommitted'
                    /\ \/ receipt' = receipt
                       \/ /\ commit' = commit
                          /\ receipt' \in Receipt
                          /\ receipt'.status = "complete" => commit # Absent
<1>q. ASSUME UNCHANGED <<receipt, commit, published>> PROVE Goal
  BY <1>q DEF PublishedIsCommitted
<1>1. CASE UNCHANGED vars
  BY <1>1, <1>q DEF vars, files, local
<1>2. CASE WorldChanges
  BY <1>2, <1>q DEF WorldChanges, files, local
<1>3. ASSUME NEW r \in Runners, Admit(r) \/ Die(r) PROVE Goal
  BY <1>3, <1>q DEF Admit, Die, files, local
<1>4. ASSUME NEW r \in Runners, RunnerStep(r) PROVE Goal
  <2>1. CASE Rename(r)
    <3>1. CASE ~(staging[attempt[r]] # Absent /\ commit \in {Absent, Empty})
      BY <2>1, <3>1, <1>q DEF Rename
    <3>2. CASE staging[attempt[r]] # Absent /\ commit \in {Absent, Empty}
      <4>1. commit' # Absent /\ receipt' = receipt
        BY <2>1, <3>2 DEF Rename
      <4>. QED BY <4>1 DEF PublishedIsCommitted
    <3>. QED BY <3>1, <3>2
  <2>2. CASE WriteReceipt(r)
    <3>1. receipt' = [status   |-> IF published[r] THEN "complete" ELSE "frozen",
                      attempts |-> attempt[r], by |-> r]
      BY <2>2 DEF WriteReceipt
    <3>2. attempt[r] \in Attempts
      BY DEF TypeInv, TypeOK
    <3>3. receipt' \in Receipt
      BY <3>1, <3>2 DEF Receipt
    <3>4. receipt'.status = "complete" => commit # Absent
      BY <3>1 DEF PublishedIsCommitted
    <3>. QED BY <2>2, <3>3, <3>4 DEF WriteReceipt, local, PublishedIsCommitted
  <2>3. CASE \/ WriteInputs(r) \/ ClearStaging(r) \/ RemoveStaging(r) \/ Spawn(r)
             \/ WorkerEnded(r) \/ TimeOut(r) \/ Promote(r) \/ Sweep(r) \/ SweepDirectory(r)
             \/ Retry(r) \/ Settle(r) \/ FileIncident(r)
    BY <2>3, <1>q DEF WriteInputs, ClearStaging, RemoveStaging, Spawn, WorkerEnded, TimeOut,
       Promote, Sweep, SweepDirectory, Retry, Settle, FileIncident, files, local
  <2>. QED BY <1>4, <2>1, <2>2, <2>3 DEF RunnerStep
<1>5. ASSUME NEW r \in Runners, WorkerStep(r) PROVE Goal
  <2>1. CASE WorkerWrites(r) /\ worker[r].handle = "commit"
    <3>1. commit # Absent /\ commit \in Directory
      BY <2>1 DEF TypeInv, TypeOK, Holding
    <3>2. commit' # Absent
      BY <2>1, <3>1, Shapes, AbsentAssumption DEF WorkerWrites
    <3>. QED BY <2>1, <3>2 DEF WorkerWrites, WorkerFiles, local, PublishedIsCommitted
  <2>2. CASE ~(WorkerWrites(r) /\ worker[r].handle = "commit")
    BY <1>5, <2>2, <1>q DEF WorkerStep, WorkerReads, WorkerOpens, WorkerWrites, WorkerReports,
       WorkerFiles, local
  <2>. QED BY <2>1, <2>2
<1>. QED BY <1>1, <1>2, <1>3, <1>4, <1>5 DEF Next

LEMMA AlwaysBacked == Spec => []PublishedIsCommitted
<1>1. Init => PublishedIsCommitted
  BY DEF Init, PublishedIsCommitted
<1>2. TypeInv /\ PublishedIsCommitted /\ [Next]_vars => PublishedIsCommitted'
  BY StepEffects
<1>. QED BY <1>1, <1>2, AlwaysTyped, PTL DEF Spec

(* However the invocations of one key overlap, die and leave workers       *)
(* behind, the outputs are published once, and "complete" is said only     *)
(* after that: every step is one of the abstract job, or none of it.       *)
THEOREM DoneOnce == Spec => ImplementsOnceOnly
<1>1. Init => Job!Init
  BY DEF Init, Job!Init
<1>2. TypeInv /\ PublishedIsCommitted /\ [Next]_vars => [Job!Next]_Job!vars
  <2>. SUFFICES ASSUME TypeInv, PublishedIsCommitted, [Next]_vars
                PROVE  [Job!Next]_Job!vars
    OBVIOUS
  <2>1. receipt \in Receipt \cup {Absent}
    BY DEF TypeInv, TypeOK
  <2>2. CASE receipt' = receipt
    <3>1. CASE commit = Absent /\ commit' # Absent
      BY <2>2, <3>1 DEF Job!Next, Job!Commit
    <3>2. CASE (commit' # Absent) = (commit # Absent)
      BY <2>2, <3>2 DEF Job!vars
    <3>. QED BY <3>1, <3>2, StepEffects
  <2>3. CASE /\ commit' = commit
             /\ receipt' \in Receipt
             /\ receipt'.status = "complete" => commit # Absent
    <3>1. receipt' # Absent /\ receipt'.status \in {"complete", "frozen"}
      BY <2>3, AbsentAssumption DEF Receipt
    <3>2. CASE receipt'.status = "complete"
      BY <2>3, <3>1, <3>2 DEF Job!Next, Job!Complete
    <3>3. CASE receipt'.status = "frozen"
      BY <2>3, <3>1, <3>3 DEF Job!Next, Job!Freeze
    <3>. QED BY <3>1, <3>2, <3>3
  <2>. QED BY <2>2, <2>3, StepEffects
<1>. QED BY <1>1, <1>2, AlwaysTyped, AlwaysBacked, PTL DEF Spec, Job!Spec, ImplementsOnceOnly
-----------------------------------------------------------------------------
(***************************************************************************)
(* Invocations that do not overlap.  A runner waits while its worker works *)
(* and a file is open only while it is written; and as long as nobody was  *)
(* invoked beside another, whoever is at work is alone, has no receipt     *)
(* before it, and finds in its directories what it put there.              *)
(***************************************************************************)
InOrder ==
  \A r \in Runners :
    /\ pc[r] = "new" \/ pc[r] \in RunnerSteps \ {"wait"} => ~Working(r)
    /\ worker[r].handle # "none" => worker[r].at = "write"

OnCourse(r) ==
  /\ pc[r] = "wait" =>
       /\ worker[r].attempt = attempt[r]
       /\ worker[r].at = "write" => worker[r].handle = "staging"
       /\ worker[r].at = "manifest" =>
            staging[attempt[r]] # Absent /\ staging[attempt[r]].snapshot = "whole"
       /\ worker[r].at = "succeeded" => staging[attempt[r]] = Whole
  /\ pc[r] \in {"promote", "rename"} => staging[attempt[r]] = Whole
  /\ pc[r] \in RunnerSteps /\ published[r] => commit = Whole

Sole ==
  /\ \A q, r \in Runners : Live(q) /\ Live(r) => q = r
  /\ \A r \in Runners : /\ pc[r] \in RunnerSteps => receipt = Absent
                        /\ worker[r].handle # "commit"
                        /\ OnCourse(r)
  /\ receipt # Absent /\ receipt.status = "complete" => commit = Whole

(* Who has not started has published nothing. *)
Unstarted == \A r \in Runners : pc[r] = "new" => ~published[r]

Undisturbed == InOrder /\ Unstarted /\ (~overlapped => Sole)

LEMMA InitUndisturbed == Init => Undisturbed
<1>1. Init => \A r \in Runners : /\ pc[r] = "new" /\ "new" \notin RunnerSteps
                                 /\ worker[r].at = "none" /\ worker[r].handle = "none"
                                 /\ receipt = Absent /\ ~Working(r) /\ ~Live(r)
  BY StepNames DEF Init, Idle, Working, Live
<1>2. Init => InOrder
  BY <1>1 DEF InOrder
<1>3. Init => Sole
  BY <1>1 DEF Sole, OnCourse, Init
<1>4. Init => Unstarted
  BY DEF Init, Unstarted
<1>. QED BY <1>2, <1>3, <1>4 DEF Undisturbed

(* Where a step of one process leaves the order of things.                 *)
LEMMA OrderStep ==
  ASSUME TypeInv, InOrder, [Next]_vars
  PROVE  InOrder'
<1>0. /\ worker \in [Runners -> Record] /\ pc \in [Runners -> {"new"} \cup RunnerSteps \cup Ended]
      /\ "new" \notin RunnerSteps \cup Ended /\ RunnerSteps \cap Ended = {}
  BY DEF TypeInv, TypeOK, Record, RunnerSteps, Ended
<1>1. CASE UNCHANGED <<pc, worker>>
  BY <1>1 DEF InOrder, Working
<1>2. ASSUME NEW r \in Runners, Admit(r) \/ Die(r) PROVE InOrder'
  BY <1>0, <1>2 DEF Admit, Die, Goto, InOrder, Working, local, files, RunnerSteps
<1>3. ASSUME NEW r \in Runners, RunnerStep(r) PROVE InOrder'
  <2>1. CASE UNCHANGED worker
    <3>1. pc' = [pc EXCEPT ![r] = pc'[r]] /\ pc[r] \in RunnerSteps
      BY <1>0, <1>3, <2>1 DEF RunnerStep, WriteInputs, ClearStaging, RemoveStaging, Spawn,
         WorkerEnded, TimeOut, Promote, Rename, Sweep, SweepDirectory, Retry, Settle,
         FileIncident, WriteReceipt, Goto, RunnerSteps
    <3>2. pc[r] = "wait" => ~Working(r)
      <4>1. pc[r] = "wait" => WorkerEnded(r) \/ TimeOut(r)
        BY <1>3 DEF RunnerStep, WriteInputs, ClearStaging, RemoveStaging, Spawn, Promote,
           Rename, Sweep, SweepDirectory, Retry, Settle, FileIncident, WriteReceipt
      <4>2. TimeOut(r) => worker'[r].at = "failed"
        BY <1>0 DEF TimeOut, Record
      <4>. QED BY <2>1, <4>1, <4>2, StepNames DEF WorkerEnded, Working
    <3>. QED BY <1>0, <2>1, <3>1, <3>2 DEF InOrder, Working
  <2>2. CASE ClearStaging(r) \/ Sweep(r)
    <3>1. worker' = worker \/ worker' = Unlinked(attempt[r])
      BY <2>2 DEF ClearStaging, Sweep, Emptied
    <3>2. \A q \in Runners : worker'[q].at = worker[q].at
                            /\ (worker'[q].handle # "none" => worker[q].handle # "none")
      BY <1>0, <3>1 DEF Unlinked, Record
    <3>3. \A q \in Runners : q # r => pc'[q] = pc[q]
      BY <1>0, <2>2 DEF ClearStaging, Sweep, Goto
    <3>4. pc[r] \in RunnerSteps \ {"wait"}
      BY <2>2 DEF ClearStaging, Sweep, RunnerSteps
    <3>. QED BY <3>2, <3>3, <3>4 DEF InOrder, Working
  <2>3. CASE Spawn(r)
    <3>1. CASE staging[attempt[r]] # Absent
      BY <2>1, <2>3, <3>1 DEF Spawn
    <3>2. CASE staging[attempt[r]] = Absent
      <4>1. /\ pc'[r] = "wait" /\ worker'[r].handle = "none"
            /\ \A q \in Runners : q # r => pc'[q] = pc[q] /\ worker'[q] = worker[q]
        BY <1>0, <2>3, <3>2 DEF Spawn, Goto
      <4>. QED BY <1>0, <4>1 DEF InOrder, Working
    <3>. QED BY <3>1, <3>2
  <2>4. CASE TimeOut(r)
    <3>1. /\ worker'[r].at = "failed" /\ worker'[r].handle = "none"
          /\ \A q \in Runners : q # r => pc'[q] = pc[q] /\ worker'[q] = worker[q]
      BY <1>0, <2>4 DEF TimeOut, Goto, Record
    <3>. QED BY <3>1, StepNames DEF InOrder, Working
  <2>5. CASE Rename(r)
    <3>1. \A q \in Runners : /\ worker'[q].at = worker[q].at
                             /\ worker'[q].handle # "none" => worker[q].handle # "none"
      BY <1>0, <2>5 DEF Rename, Record
    <3>2. \A q \in Runners : q # r => pc'[q] = pc[q]
      BY <1>0, <2>5 DEF Rename, Goto
    <3>3. pc[r] \in RunnerSteps \ {"wait"}
      BY <2>5 DEF Rename, RunnerSteps
    <3>. QED BY <3>1, <3>2, <3>3 DEF InOrder, Working
  <2>6. CASE \/ WriteInputs(r) \/ RemoveStaging(r) \/ WorkerEnded(r) \/ Promote(r)
             \/ SweepDirectory(r) \/ Retry(r) \/ Settle(r) \/ FileIncident(r) \/ WriteReceipt(r)
    BY <2>1, <2>6 DEF WriteInputs, RemoveStaging, WorkerEnded, Promote, SweepDirectory, Retry,
       Settle, FileIncident, WriteReceipt
  <2>. QED BY <1>3, <2>2, <2>3, <2>4, <2>5, <2>6 DEF RunnerStep
<1>4. ASSUME NEW r \in Runners, WorkerStep(r) PROVE InOrder'
  <2>a. ASSUME NEW step, NEW handle, WorkerGoes(r, step, handle)
        PROVE  /\ worker'[r].at = step /\ worker'[r].handle = handle
               /\ \A q \in Runners : q # r => worker'[q] = worker[q]
    BY <1>0, <2>a DEF WorkerGoes, Record
  <2>1. /\ UNCHANGED pc /\ Working(r)
        /\ \A q \in Runners : q # r => worker'[q] = worker[q]
        /\ worker'[r].handle # "none" => worker'[r].at = "write"
    <3>1. CASE WorkerReads(r)
      BY <2>a, <3>1 DEF WorkerReads, WorkerFiles, Working, WorkerSteps
    <3>2. CASE WorkerOpens(r)
      BY <2>a, <3>2 DEF WorkerOpens, WorkerFiles, Working, WorkerSteps
    <3>3. CASE WorkerWrites(r)
      BY <2>a, <3>3 DEF WorkerWrites, WorkerFiles, Working, WorkerSteps
    <3>4. CASE WorkerReports(r)
      BY <2>a, <3>4 DEF WorkerReports, WorkerFiles, Working, WorkerSteps
    <3>. QED BY <1>4, <3>1, <3>2, <3>3, <3>4 DEF WorkerStep
  <2>. QED BY <2>1 DEF InOrder, Working
<1>. QED BY <1>1, <1>2, <1>3, <1>4 DEF Next, vars, WorldChanges

LEMMA UnstartedStep ==
  ASSUME TypeInv, Unstarted, [Next]_vars
  PROVE  Unstarted'
<1>0. /\ pc \in [Runners -> {"new"} \cup RunnerSteps \cup Ended]
      /\ published \in [Runners -> BOOLEAN]
  BY DEF TypeInv, TypeOK
<1>1. ASSUME UNCHANGED published, NEW r \in Runners, NEW step, step # "new", Goto(r, step)
      PROVE  Unstarted'
  BY <1>0, <1>1 DEF Goto, Unstarted
<1>2. CASE UNCHANGED <<pc, published>>
  BY <1>2 DEF Unstarted
<1>3. ASSUME NEW r \in Runners, Admit(r) \/ Die(r) PROVE Unstarted'
  BY <1>1, <1>3 DEF Admit, Die, local
<1>4. ASSUME NEW r \in Runners, RunnerStep(r) PROVE Unstarted'
  <2>1. CASE Rename(r)
    <3>1. \A q \in Runners \ {r} : pc'[q] = pc[q] /\ published'[q] = published[q]
      BY <1>0, <2>1 DEF Rename, Goto
    <3>2. pc'[r] = "sweep"
      BY <1>0, <2>1 DEF Rename, Goto
    <3>. QED BY <3>1, <3>2 DEF Unstarted
  <2>2. CASE ~Rename(r)
    BY <1>1, <1>4, <2>2 DEF RunnerStep, WriteInputs, ClearStaging, RemoveStaging, Spawn,
       WorkerEnded, TimeOut, Promote, Sweep, SweepDirectory, Retry, Settle, FileIncident,
       WriteReceipt, local
  <2>. QED BY <2>1, <2>2
<1>5. ASSUME NEW r \in Runners, WorkerStep(r) PROVE Unstarted'
  BY <1>2, <1>5 DEF WorkerStep, WorkerReads, WorkerOpens, WorkerWrites, WorkerReports,
     WorkerFiles, local
<1>. QED BY <1>2, <1>3, <1>4, <1>5 DEF Next, vars, WorldChanges, local

(* With one process at work, only what its step does to its own course has *)
(* to be looked at.                                                        *)
LEMMA SoleStep ==
  ASSUME Sole, NEW r \in Runners, Live(r),
         \A q \in Runners \ {r} : /\ pc'[q] = pc[q] \/ pc'[q] \notin RunnerSteps
                                 /\ worker'[q] = worker[q],
         pc'[r] \in RunnerSteps => receipt' = Absent,
         worker'[r].handle # "commit",
         OnCourse(r)',
         receipt' # Absent /\ receipt'.status = "complete" => commit' = Whole
  PROVE  Sole'
<1>1. \A q \in Runners \ {r} : ~Live(q)
  BY DEF Sole
<1>2. \A q \in Runners \ {r} : /\ pc'[q] \notin RunnerSteps /\ ~Working(q)'
                              /\ worker'[q].handle # "commit"
  BY <1>1 DEF Live, Working, Sole
<1>3. \A q \in Runners \ {r} : ~Live(q)' /\ OnCourse(q)'
  BY <1>2 DEF Live, OnCourse, RunnerSteps
<1>. QED BY <1>2, <1>3 DEF Sole

(* Nobody else holds an open file. *)
LEMMA Alone ==
  ASSUME TypeInv, InOrder, Sole, NEW r \in Runners, Live(r), NEW q \in Runners \ {r}
  PROVE  pc[q] \notin RunnerSteps /\ ~Working(q) /\ worker[q].handle = "none"
<1>1. ~Live(q)
  BY DEF Sole
<1>2. "write" \in WorkerSteps
  BY DEF WorkerSteps
<1>. QED BY <1>1, <1>2 DEF Live, Working, InOrder

LEMMA SoleRunner ==
  ASSUME TypeInv, InOrder, Sole, NEW r \in Runners, RunnerStep(r), InOrder'
  PROVE  Sole'
<1>. DEFINE a == attempt[r]
<1>0. /\ worker \in [Runners -> Record] /\ pc \in [Runners -> {"new"} \cup RunnerSteps \cup Ended]
      /\ a \in Attempts /\ attempt \in [Runners -> Attempts]
      /\ staging \in [Attempts -> Directory \cup {Absent}]
      /\ published \in [Runners -> BOOLEAN]
  BY DEF TypeInv, TypeOK, Record
<1>1. pc[r] \in RunnerSteps
  BY <1>0 DEF RunnerStep, WriteInputs, ClearStaging, RemoveStaging, Spawn,
     WorkerEnded, TimeOut, Promote, Rename, Sweep, SweepDirectory, Retry, Settle,
     FileIncident, WriteReceipt, RunnerSteps
<1>2. /\ Live(r) /\ receipt = Absent /\ worker[r].handle # "commit" /\ OnCourse(r)
      /\ published[r] => commit = Whole
  BY <1>1 DEF Live, Sole, OnCourse
<1>3. \A q \in Runners \ {r} : worker[q].handle = "none"
  BY <1>2, Alone
<1>4. \A step : Goto(r, step) => /\ pc'[r] = step
                                /\ \A q \in Runners \ {r} : pc'[q] = pc[q]
  BY <1>0 DEF Goto
(* A runner that does not wait has no open file either. *)
<1>5. pc[r] # "wait" => worker[r].handle = "none"
  BY <1>1 DEF InOrder, Working, WorkerSteps
<1>6. pc[r] # "wait" => Unlinked(a) = worker
  <2>1. \A q \in Runners : pc[r] # "wait" => worker[q].handle # "staging"
    BY <1>3, <1>5
  <2>. QED BY <1>0, <2>1 DEF Unlinked
(* A step to where nothing is asked of the directories but the commit. *)
<1>q. ASSUME UNCHANGED <<receipt, commit, published, worker>>,
             NEW step, Goto(r, step), step \notin {"wait", "promote", "rename"}
      PROVE  Sole'
  <2>1. OnCourse(r)'
    BY <1>0, <1>2, <1>4, <1>q DEF OnCourse
  <2>. QED BY <1>2, <1>4, <1>q, <2>1, SoleStep
<1>7. CASE \/ WriteInputs(r) \/ RemoveStaging(r) \/ SweepDirectory(r) \/ Retry(r) \/ Settle(r)
           \/ FileIncident(r)
  BY <1>7, <1>q DEF WriteInputs, RemoveStaging, SweepDirectory, Retry, Settle, FileIncident,
     files, local
<1>8. CASE ClearStaging(r) \/ Sweep(r)
  BY <1>8, <1>6, <1>q DEF ClearStaging, Sweep, Emptied, local
<1>9. CASE Spawn(r)
  <2>1. CASE staging[a] # Absent
    BY <1>9, <2>1, <1>q DEF Spawn, local
  <2>2. CASE staging[a] = Absent
    <3>1. /\ worker'[r] = [at |-> "read", attempt |-> a, handle |-> "none"]
          /\ \A q \in Runners \ {r} : worker'[q] = worker[q]
      BY <1>0, <1>9, <2>2 DEF Spawn
    <3>2. OnCourse(r)'
      BY <1>0, <1>2, <1>4, <1>9, <2>2, <3>1 DEF Spawn, OnCourse, local
    <3>. QED BY <1>2, <1>4, <1>9, <2>2, <3>1, <3>2, SoleStep DEF Spawn
  <2>. QED BY <2>1, <2>2
<1>10. CASE WorkerEnded(r)
  <2>1. OnCourse(r)'
    BY <1>0, <1>2, <1>4, <1>10 DEF WorkerEnded, OnCourse, files, local
  <2>. QED BY <1>2, <1>4, <1>10, <2>1, SoleStep DEF WorkerEnded, files
<1>11. CASE TimeOut(r)
  <2>1. /\ worker'[r].handle = "none"
        /\ \A q \in Runners \ {r} : worker'[q] = worker[q]
    BY <1>0, <1>11 DEF TimeOut, Record
  <2>2. OnCourse(r)'
    BY <1>0, <1>2, <1>4, <1>11 DEF TimeOut, OnCourse, files, local
  <2>. QED BY <1>2, <1>4, <1>11, <2>1, <2>2, SoleStep DEF TimeOut, files
<1>12. CASE Promote(r)
  <2>1. OnCourse(r)'
    BY <1>0, <1>2, <1>4, <1>12 DEF Promote, OnCourse, files, local
  <2>. QED BY <1>2, <1>4, <1>12, <2>1, SoleStep DEF Promote, files
<1>13. CASE Rename(r)
  <2>1. pc[r] = "rename" /\ staging[a] = Whole
    BY <1>2, <1>13 DEF Rename, OnCourse
  <2>2. CASE ~(staging[a] # Absent /\ commit \in {Absent, Empty})
    BY <1>13, <2>2, <1>q DEF Rename
  <2>3. CASE staging[a] # Absent /\ commit \in {Absent, Empty}
    <3>1. \A q \in Runners : worker[q].handle # "staging"
      BY <1>3, <1>5, <2>1
    <3>2. worker' = worker /\ commit' = Whole
      BY <1>0, <1>13, <2>1, <2>3, <3>1 DEF Rename
    <3>3. OnCourse(r)'
      BY <1>4, <1>13, <3>2 DEF Rename, OnCourse
    <3>. QED BY <1>2, <1>4, <1>13, <3>2, <3>3, SoleStep DEF Rename
  <2>. QED BY <2>2, <2>3
<1>14. CASE WriteReceipt(r)
  <2>1. receipt' = [status   |-> IF published[r] THEN "complete" ELSE "frozen",
                    attempts |-> attempt[r], by |-> r]
    BY <1>14 DEF WriteReceipt
  <2>2. receipt'.status = "complete" => commit' = Whole
    BY <1>2, <1>14, <2>1 DEF WriteReceipt
  <2>3. pc'[r] = "returned" /\ "returned" \notin RunnerSteps
    BY <1>4, <1>14 DEF WriteReceipt, RunnerSteps
  <2>4. OnCourse(r)'
    BY <2>3 DEF OnCourse
  <2>. QED BY <1>2, <1>4, <1>14, <2>2, <2>3, <2>4, SoleStep DEF WriteReceipt
<1>. QED BY <1>7, <1>8, <1>9, <1>10, <1>11, <1>12, <1>13, <1>14 DEF RunnerStep

LEMMA SoleWorker ==
  ASSUME TypeInv, InOrder, Sole, NEW r \in Runners, WorkerStep(r)
  PROVE  Sole'
<1>. DEFINE a == worker[r].attempt
<1>0. /\ worker \in [Runners -> Record] /\ a \in Attempts
      /\ staging \in [Attempts -> Directory \cup {Absent}]
  BY DEF TypeInv, TypeOK, Record
<1>1. Working(r) /\ UNCHANGED <<pc, receipt, attempt, published>>
  BY DEF WorkerStep, WorkerReads, WorkerOpens, WorkerWrites, WorkerReports, WorkerFiles,
     local, Working, WorkerSteps
<1>2. /\ Live(r) /\ worker[r].handle # "commit" /\ OnCourse(r)
      /\ pc[r] \in RunnerSteps => receipt = Absent
      /\ receipt # Absent /\ receipt.status = "complete" => commit = Whole
  BY <1>1 DEF Live, Sole
<1>3. pc[r] \notin {"promote", "rename"} /\ "wait" \in RunnerSteps
  BY <1>1 DEF InOrder, RunnerSteps
<1>a. ASSUME NEW step, NEW handle, WorkerGoes(r, step, handle)
      PROVE  /\ worker'[r].at = step /\ worker'[r].handle = handle /\ worker'[r].attempt = a
             /\ \A q \in Runners \ {r} : worker'[q] = worker[q]
  BY <1>0, <1>a DEF WorkerGoes, Record
(* The snapshot is written where it was opened: never in the commit.       *)
<1>4. commit' = commit
  BY <1>2 DEF WorkerStep, WorkerReads, WorkerOpens, WorkerWrites, WorkerReports
<1>5. CASE WorkerReads(r)
  <2>1. OnCourse(r)'
    BY <1>1, <1>2, <1>3, <1>4, <1>5, <1>a DEF WorkerReads, OnCourse
  <2>. QED BY <1>1, <1>2, <1>4, <1>5, <1>a, <2>1, SoleStep DEF WorkerReads
<1>6. CASE WorkerOpens(r)
  <2>1. OnCourse(r)'
    BY <1>1, <1>2, <1>3, <1>4, <1>6, <1>a DEF WorkerOpens, OnCourse
  <2>. QED BY <1>1, <1>2, <1>4, <1>6, <1>a, <2>1, SoleStep DEF WorkerOpens
<1>7. CASE WorkerWrites(r)
  <2>1. /\ worker'[r].at = "manifest" /\ worker'[r].handle = "none" /\ worker'[r].attempt = a
        /\ \A q \in Runners \ {r} : worker'[q] = worker[q]
    BY <1>7, <1>a DEF WorkerWrites
  <2>2. pc[r] = "wait" => staging'[a] # Absent /\ staging'[a].snapshot = "whole"
    <3>. SUFFICES ASSUME pc[r] = "wait"
                  PROVE  staging'[a] # Absent /\ staging'[a].snapshot = "whole"
      OBVIOUS
    <3>1. worker[r].handle = "staging"
      BY <1>2, <1>7 DEF WorkerWrites, OnCourse
    <3>2. staging[a] \in Directory
      BY <1>0, <3>1 DEF TypeInv, Holding
    <3>. QED BY <1>0, <1>7, <3>1, <3>2, Shapes, AbsentAssumption DEF WorkerWrites
  <2>3. OnCourse(r)'
    BY <1>1, <1>2, <1>3, <1>4, <2>1, <2>2 DEF OnCourse
  <2>. QED BY <1>1, <1>2, <1>4, <2>1, <2>3, SoleStep
<1>8. CASE WorkerReports(r)
  <2>1. CASE staging[a] = Absent
    <3>1. /\ worker'[r].at = "failed" /\ worker'[r].handle = "none" /\ worker'[r].attempt = a
          /\ \A q \in Runners \ {r} : worker'[q] = worker[q]
      BY <1>8, <1>a, <2>1 DEF WorkerReports
    <3>2. OnCourse(r)'
      BY <1>1, <1>2, <1>3, <1>4, <3>1 DEF OnCourse
    <3>. QED BY <1>1, <1>2, <1>4, <3>1, <3>2, SoleStep
  <2>2. CASE staging[a] # Absent
    <3>1. /\ worker'[r].at = "succeeded" /\ worker'[r].handle = "none" /\ worker'[r].attempt = a
          /\ \A q \in Runners \ {r} : worker'[q] = worker[q]
      BY <1>8, <1>a, <2>2 DEF WorkerReports
    <3>2. pc[r] = "wait" => staging'[a] = Whole
      <4>. SUFFICES ASSUME pc[r] = "wait" PROVE staging'[a] = Whole
        OBVIOUS
      <4>1. staging[a] \in Directory /\ staging[a].snapshot = "whole"
        BY <1>0, <1>2, <1>8, <2>2 DEF WorkerReports, OnCourse
      <4>2. [staging[a] EXCEPT !.manifest = TRUE] = Whole
        <5>1. \A d \in Directory : d.snapshot = "whole" /\ d.manifest = TRUE => d = Whole
          BY DEF Directory, Whole
        <5>2. /\ [staging[a] EXCEPT !.manifest = TRUE] \in Directory
              /\ [staging[a] EXCEPT !.manifest = TRUE].snapshot = "whole"
              /\ [staging[a] EXCEPT !.manifest = TRUE].manifest = TRUE
          BY <4>1, Shapes
        <5>. QED BY <5>1, <5>2
      <4>. QED BY <1>0, <1>8, <2>2, <4>2 DEF WorkerReports
    <3>3. OnCourse(r)'
      BY <1>1, <1>2, <1>3, <1>4, <3>1, <3>2 DEF OnCourse
    <3>. QED BY <1>1, <1>2, <1>4, <3>1, <3>3, SoleStep
  <2>. QED BY <2>1, <2>2
<1>. QED BY <1>5, <1>6, <1>7, <1>8 DEF WorkerStep

(* An invocation that meets nobody at work, and finds no receipt, starts   *)
(* out alone.                                                              *)
LEMMA SoleAdmit ==
  ASSUME TypeInv, InOrder, Unstarted, Sole, NEW r \in Runners, Admit(r), ~overlapped'
  PROVE  Sole'
<1>0. /\ pc \in [Runners -> {"new"} \cup RunnerSteps \cup Ended] /\ pc[r] = "new"
      /\ UNCHANGED <<receipt, staging, commit, attempt, published, worker>>
  BY DEF Admit, TypeInv, TypeOK, files, local
<1>1. /\ \A q \in Runners \ {r} : pc'[q] = pc[q]
      /\ pc'[r] \in {"inputs", "raised", "returned"}
      /\ pc'[r] = "inputs" => receipt = Absent
  BY <1>0 DEF Admit, Goto
<1>2. \A q \in Runners \ {r} : ~Live(q)
  BY DEF Admit
<1>3. ~Working(r)
  BY <1>0 DEF InOrder
<1>4. \A q \in Runners \ {r} : ~Live(q)'
  BY <1>0, <1>1, <1>2 DEF Live, Working
<1>5. pc'[r] \in RunnerSteps => pc'[r] = "inputs"
  BY <1>1 DEF RunnerSteps
<1>6. ~published[r]
  BY <1>0 DEF Unstarted
<1>. QED BY <1>0, <1>1, <1>4, <1>5, <1>6 DEF Sole, OnCourse, Live

LEMMA UndisturbedStep ==
  TypeInv /\ Undisturbed /\ [Next]_vars => Undisturbed'
<1>. SUFFICES ASSUME TypeInv, Undisturbed, [Next]_vars PROVE Undisturbed'
  OBVIOUS
<1>1. InOrder' /\ Unstarted'
  BY OrderStep, UnstartedStep DEF Undisturbed
<1>. SUFFICES ASSUME ~overlapped' PROVE Sole'
  BY <1>1 DEF Undisturbed
<1>2. ~overlapped
  BY Zenon DEF Next, Admit, Die, WorldChanges, RunnerStep, WriteInputs, ClearStaging, RemoveStaging,
     Spawn, WorkerEnded, TimeOut, Promote, Rename, Sweep, SweepDirectory, Retry, Settle,
     FileIncident, WriteReceipt, WorkerStep, WorkerReads, WorkerOpens, WorkerWrites,
     WorkerReports, WorkerFiles, context, vars
<1>3. Sole
  BY <1>2 DEF Undisturbed
<1>4. CASE UNCHANGED <<receipt, staging, commit, pc, attempt, published, worker>>
  BY <1>3, <1>4 DEF Sole, OnCourse, Live, Working
<1>5. ASSUME NEW r \in Runners, Admit(r) PROVE Sole'
  BY <1>3, <1>5, SoleAdmit DEF Undisturbed
<1>6. ASSUME NEW r \in Runners, RunnerStep(r) PROVE Sole'
  BY <1>1, <1>3, <1>6, SoleRunner DEF Undisturbed
<1>7. ASSUME NEW r \in Runners, WorkerStep(r) PROVE Sole'
  BY <1>3, <1>7, SoleWorker DEF Undisturbed
<1>8. ASSUME NEW r \in Runners, Die(r) PROVE Sole'
  <2>1. /\ pc'[r] = "dead" /\ \A q \in Runners \ {r} : pc'[q] = pc[q]
        /\ "dead" \notin RunnerSteps
        /\ UNCHANGED <<receipt, staging, commit, attempt, published, worker>>
    BY <1>8 DEF Die, Goto, TypeInv, TypeOK, files, local, RunnerSteps
  <2>2. Live(r)
    BY <1>8 DEF Die, Live
  <2>3. OnCourse(r)'
    BY <2>1 DEF OnCourse
  <2>. QED BY <1>3, <2>1, <2>2, <2>3, SoleStep DEF Sole
<1>. QED BY <1>4, <1>5, <1>6, <1>7, <1>8 DEF Next, vars, files, local, WorldChanges

LEMMA AlwaysUndisturbed == Spec => []Undisturbed
BY InitUndisturbed, UndisturbedStep, AlwaysTyped, PTL DEF Spec

(* Among invocations that do not overlap, a "complete" receipt stands for  *)
(* the snapshot the worker finished and the manifest that names it.        *)
THEOREM CompleteReceiptsAreBacked == Spec => []CompleteIsBacked
<1>1. Undisturbed => CompleteIsBacked
  BY DEF Undisturbed, Sole, CompleteIsBacked
<1>. QED BY <1>1, AlwaysUndisturbed, PTL

(* Among invocations that do not overlap, a receipt never changes.         *)
THEOREM ReceiptsStay == Spec => ReceiptsAreFinal
<1>1. Undisturbed /\ Undisturbed' /\ [Next]_vars
      => [(receipt # Absent /\ ~overlapped') => receipt' = receipt]_vars
  <2>. SUFFICES ASSUME Undisturbed, [Next]_vars, receipt # Absent, ~overlapped'
                PROVE  receipt' = receipt
    OBVIOUS
  <2>1. ASSUME NEW r \in Runners, WriteReceipt(r) PROVE FALSE
    <3>1. ~overlapped /\ pc[r] \in RunnerSteps
      BY <2>1 DEF WriteReceipt, context, RunnerSteps
    <3>. QED BY <3>1 DEF Undisturbed, Sole
  <2>. QED BY <2>1, Zenon DEF Next, Admit, Die, WorldChanges, RunnerStep, WriteInputs, ClearStaging,
       RemoveStaging, Spawn, WorkerEnded, TimeOut, Promote, Rename, Sweep, SweepDirectory, Retry,
       Settle, FileIncident, WorkerStep, WorkerReads, WorkerOpens, WorkerWrites, WorkerReports,
       WorkerFiles, vars, files
<1>. QED BY <1>1, AlwaysUndisturbed, PTL DEF Spec, ReceiptsAreFinal
=============================================================================

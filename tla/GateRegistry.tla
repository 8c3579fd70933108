---------------------------- MODULE GateRegistry ----------------------------
(***************************************************************************)
(* What the receipt ledger promises the rest of the system, with its file, *)
(* lock and hash chain abstracted away: which exact packages are recorded, *)
(* and what each gate decided about each of them. A package is an exact    *)
(* identity (package_id at one path): editing a directory that is not yet  *)
(* recorded makes another package of it, and editing a recorded one makes  *)
(* the whole ledger fail verification.                                     *)
(***************************************************************************)
EXTENDS PipelinePolicy

CONSTANTS Packages,    \* exact package identities
          NoPackage,   \* null
          Parent,      \* Parent[p]: the package p's run receipt says it supersedes
          Judgements   \* the possible values of `judgement` (see below)

(* A gate's own reading of a package: research_gate follows the verdict     *)
(* report, the two later gates either pass a package or block it.           *)
Judgement == {j \in [Packages -> [Gates -> Outcomes]] :
                \A p \in Packages, g \in Gates \ {"research_gate"} :
                  j[p][g] \in {"pass", "blocked"}}

ASSUME RegistryAssumption ==
  /\ NoPackage \notin Packages
  /\ Parent \in [Packages -> Packages \cup {NoPackage}]
  /\ Judgements \subseteq Judgement

VARIABLES made,       \* packages that exist on disk with their exact content
          runs,       \* packages whose run is recorded in the ledger
          decided,    \* decided[p][g]: the recorded decision of gate g on p
          trusted,    \* verify_ledger_file finds no issue
          judgement   \* what each package's own evidence earns at each gate

registryVars == <<made, runs, decided, trusted, judgement>>

RegistryTypeOK ==
  /\ made \subseteq Packages
  /\ runs \subseteq Packages
  /\ decided \in [Packages -> [Gates -> Outcomes \cup {NoDecision}]]
  /\ trusted \in BOOLEAN
  /\ judgement \in [Packages -> [Gates -> Outcomes]]

RegistryInit ==
  /\ made = {p \in Packages : Parent[p] = NoPackage}
  /\ runs = {}
  /\ decided = [p \in Packages |-> [g \in Gates |-> NoDecision]]
  /\ trusted = TRUE
  /\ judgement \in Judgements
-----------------------------------------------------------------------------
Passed(p, g) == decided[p][g] = "pass"

(* The prior gate is not asked for. *)
EvaluationIgnoringPriorGate(p, g) == judgement[p][g]

(* A gate that has to wait for its prior gate answers in the vocabulary of  *)
(* workflow states.                                                         *)
EvaluationInWorkflowTerms(p, g) ==
  IF g \in DOMAIN PriorGate /\ ~Passed(p, PriorGate[g])
  THEN "waiting"
  ELSE judgement[p][g]

(* evaluate_gate: the package's own evidence, unless the prior gate has not *)
(* passed for this exact package, which blocks it.                          *)
Evaluation(p, g) ==
  IF g \in DOMAIN PriorGate /\ ~Passed(p, PriorGate[g])
  THEN "blocked"
  ELSE judgement[p][g]
-----------------------------------------------------------------------------
(* A package directory is assembled: a first one by the research engine, a  *)
(* successor by create_superseding_package, which copies a recorded package *)
(* under a run id that names it as predecessor. Putting an edited directory *)
(* back as it was is the same step.                                         *)
Assemble(p) ==
  /\ p \notin made
  /\ Parent[p] \in runs \cup {NoPackage}
  /\ made' = made \cup {p}
  /\ UNCHANGED <<runs, decided, trusted, judgement>>

(* An unrecorded directory is edited: that exact package is gone.           *)
Rework(p) ==
  /\ p \in made \ runs
  /\ made' = made \ {p}
  /\ UNCHANGED <<runs, decided, trusted, judgement>>

(* append_ledger_entry, for a package not recorded yet. The directory is    *)
(* read before the receipt is written and nothing keeps it from being       *)
(* edited in between; the ledger then fails verification from the moment    *)
(* the receipt is in it.                                                    *)
RecordRun(p) ==
  /\ trusted
  /\ p \notin runs
  /\ Parent[p] \in runs \cup {NoPackage}
  /\ runs' = runs \cup {p}
  /\ made' = made \cup {p}
  /\ trusted' \in IF p \in made THEN BOOLEAN ELSE {FALSE}
  /\ UNCHANGED <<decided, judgement>>

(* append_gate_decision: what is recorded is the authoritative evaluation   *)
(* under the ledger as it stands, and it is recorded once.                  *)
RecordDecision(p, g) ==
  /\ trusted
  /\ p \in runs
  /\ decided[p][g] = NoDecision
  /\ decided' = [decided EXCEPT ![p][g] = Evaluation(p, g)]
  /\ trusted' \in BOOLEAN
  /\ UNCHANGED <<made, runs, judgement>>

(* A recorded package is edited, or an append is cut short: from then on    *)
(* every reader refuses the ledger, until the files are put back.           *)
LoseTrust ==
  /\ trusted
  /\ trusted' = FALSE
  /\ UNCHANGED <<made, runs, decided, judgement>>

RegainTrust ==
  /\ ~trusted
  /\ trusted' = TRUE
  /\ UNCHANGED <<made, runs, decided, judgement>>

RegistryNext ==
  \/ \E p \in Packages : Assemble(p) \/ Rework(p) \/ RecordRun(p)
  \/ \E p \in Packages, g \in Gates : RecordDecision(p, g)
  \/ LoseTrust
  \/ RegainTrust

RegistrySpec == RegistryInit /\ [][RegistryNext]_registryVars
-----------------------------------------------------------------------------
(* A pass is earned on the exact package: a paper pass rests on a research  *)
(* pass, and a risk pass on both, of that same package - never of the       *)
(* predecessor it was copied from (gates.py, evaluate_gate).                *)
PassesAreEarned ==
  \A p \in Packages, g \in DOMAIN PriorGate :
    Passed(p, g) => Passed(p, PriorGate[g])

(* Only recorded packages are decided, and a recorded successor's           *)
(* predecessor is recorded too (ledger.py, run_lineage_issue).              *)
LineageIsRecorded ==
  \A p \in Packages :
    /\ p \in runs => p \in made /\ Parent[p] \in runs \cup {NoPackage}
    /\ \A g \in Gates : decided[p][g] # NoDecision => p \in runs

(* The ledger is append-only: a recorded run stays recorded and a decision, *)
(* once recorded, is never replaced ("gate_decision_retryable: false").     *)
DecisionsAreFinal ==
  [][ /\ runs \subseteq runs'
      /\ \A p \in Packages, g \in Gates :
           decided[p][g] # NoDecision => decided'[p][g] = decided[p][g] ]_registryVars
=============================================================================

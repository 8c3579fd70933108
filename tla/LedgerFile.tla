----------------------------- MODULE LedgerFile -----------------------------
(***************************************************************************)
(* The receipt ledger as it is kept: a JSONL file appended to under an     *)
(* exclusive flock (ledger.py), decision files written once beside the     *)
(* packages they decide on (gates.py), and package directories nothing     *)
(* keeps from being edited. Clients are processes that evaluate a gate,    *)
(* file its decision and append receipts; one may die at any point, and    *)
(* its lock is then released by the kernel. The hash chain is abstracted   *)
(* to what it gives: entries are only ever added at the end.               *)
(***************************************************************************)
EXTENDS PipelinePolicy, Sequences

CONSTANTS Packages, NoPackage, Parent, Judgements,
          Clients,
          Keys,           \* (events, descriptor) keys of holdout registrations
          DecidableGates, \* the gates the clients evaluate
          MaxEntries      \* bound on the length of the file

ASSUME LedgerAssumption ==
  /\ NoPackage \notin Packages
  /\ Parent \in [Packages -> Packages \cup {NoPackage}]
  /\ Judgements \subseteq [Packages -> [Gates -> Outcomes]]
  /\ DecidableGates \subseteq Gates
  /\ MaxEntries \in Nat

VARIABLES log,        \* the entries the file holds in full, in order
          tail,       \* how the file ends: after a newline, with an entry complete
                      \* but for its newline, or with part of an entry
          joined,     \* some line holds two entries, or one and part of the next
          disk,       \* what each package directory holds
          filed,      \* filed[p][g]: the outcome in gate_decision.<g> of package p
          judgement,
          pc, job     \* per client: where it is, and the entry it works on

vars == <<log, tail, joined, disk, filed, judgement, pc, job>>

RunEntry(p)            == [kind |-> "run", package |-> p]
DecisionEntry(p, g, r) == [kind |-> "gate_decision", package |-> p, gate |-> g, result |-> r]
Registration(k, n)     == [kind |-> "robustness_registration", key |-> k, attempt |-> n]

Entries == {RunEntry(p) : p \in Packages}
             \cup {DecisionEntry(p, g, r) : p \in Packages, g \in Gates, r \in Outcomes}
             \cup {Registration(k, n) : k \in Keys, n \in 1..MaxEntries}
NoJob   == [kind |-> "none"]
Tails   == {"newline", "open", "partial"}
Holding == {"locked", "built", "writing", "ending"}  \* where a client holds the flock

TypeOK ==
  /\ log \in Seq(Entries) /\ Len(log) <= MaxEntries
  /\ tail \in Tails /\ joined \in BOOLEAN
  /\ disk \in [Packages -> {"absent", "intact", "edited"}]
  /\ filed \in [Packages -> [Gates -> Outcomes \cup {NoDecision}]]
  /\ pc \in [Clients -> Holding \cup {"idle", "evaluated"}]
  /\ job \in [Clients -> Entries \cup {NoJob}]

Init ==
  /\ log = <<>> /\ tail = "newline" /\ joined = FALSE
  /\ disk = [p \in Packages |-> IF Parent[p] = NoPackage THEN "intact" ELSE "absent"]
  /\ filed = [p \in Packages |-> [g \in Gates |-> NoDecision]]
  /\ judgement \in Judgements
  /\ pc = [c \in Clients |-> "idle"]
  /\ job = [c \in Clients |-> NoJob]
-----------------------------------------------------------------------------
(* Reading and verifying the file *)

In(entries, e)   == \E i \in DOMAIN entries : entries[i] = e
RunIn(es, p)     == In(es, RunEntry(p))
PassedIn(es, p, g) == In(es, DecisionEntry(p, g, "pass"))
Decided(es, p, g)  == \E i \in DOMAIN es : /\ es[i].kind = "gate_decision"
                                           /\ es[i].package = p /\ es[i].gate = g
Attempts(es, k) == Cardinality({i \in DOMAIN es : /\ es[i].kind = "robustness_registration"
                                                  /\ es[i].key = k})

(* evaluate_gate over a list of entries it may trust. *)
EvaluateOn(es, p, g) ==
  IF g \in DOMAIN PriorGate /\ ~PassedIn(es, p, PriorGate[g])
  THEN "blocked"
  ELSE judgement[p][g]

LineageHolds(es, p) == Parent[p] # NoPackage => RunIn(es, Parent[p])

(* verify_ledger_semantics, one entry on top of a trusted prefix. *)
Replays(prefix, e) ==
  CASE e.kind = "run"           -> LineageHolds(prefix, e.package) /\ ~RunIn(prefix, e.package)
    [] e.kind = "gate_decision" -> /\ RunIn(prefix, e.package)
                                   /\ e.result = EvaluateOn(prefix, e.package, e.gate)
    [] OTHER                    -> e.attempt = Attempts(prefix, e.key) + 1

LogReplays == \A i \in DOMAIN log : Replays(SubSeq(log, 1, i - 1), log[i])

(* verify_ledger_artifacts *)
ArtifactsMatch == \A i \in DOMAIN log :
                    log[i].kind # "robustness_registration" => disk[log[i].package] = "intact"

(* read_ledger_entries: every line is one JSON object. A last line that     *)
(* lacks only its newline reads like any other.                             *)
Readable == tail # "partial" /\ ~joined

(* verify_ledger_file *)
Verifies == Readable /\ ArtifactsMatch /\ LogReplays
-----------------------------------------------------------------------------
(* gate evaluate: not under the lock. A ledger that cannot be trusted makes *)
(* the later gates block; an unreadable one makes the evaluation fail.       *)
Evaluate(c, p, g) ==
  LET prior == g \in DOMAIN PriorGate
  IN /\ pc[c] = "idle" /\ disk[p] = "intact"
     /\ prior => Readable
     /\ job' = [job EXCEPT ![c] =
          DecisionEntry(p, g, IF prior /\ ~Verifies THEN "blocked" ELSE EvaluateOn(log, p, g))]
     /\ pc' = [pc EXCEPT ![c] = "evaluated"]
     /\ UNCHANGED <<log, tail, joined, disk, filed, judgement>>

(* The decision file is overwritten by a later evaluation. *)
FileAgain(c) ==
  /\ pc[c] = "evaluated"
  /\ filed' = [filed EXCEPT ![job[c].package][job[c].gate] = job[c].result]
  /\ pc' = [pc EXCEPT ![c] = "idle"]
  /\ job' = [job EXCEPT ![c] = NoJob]
  /\ UNCHANGED <<log, tail, joined, disk, judgement>>

(* write_gate_decision: os.link creates the file or fails.                  *)
File(c) ==
  /\ pc[c] = "evaluated"
  /\ filed' = [filed EXCEPT ![job[c].package][job[c].gate] =
                 IF @ = NoDecision THEN job[c].result ELSE @]
  /\ pc' = [pc EXCEPT ![c] = "idle"]
  /\ job' = [job EXCEPT ![c] = NoJob]
  /\ UNCHANGED <<log, tail, joined, disk, judgement>>
-----------------------------------------------------------------------------
(* Appending, under locked_ledger *)

(* A platform without fcntl: nobody waits. *)
LockFreeWithoutFcntl == TRUE

LockFree == \A c \in Clients : pc[c] \notin Holding

(* What the append would add: the receipt, the filed decision, or the next  *)
(* attempt of a registration key.                                           *)
RunCandidates          == {RunEntry(p) : p \in Packages}
DecisionCandidates     == {DecisionEntry(x[1], x[2], filed[x[1]][x[2]]) :
                             x \in {y \in Packages \X DecidableGates :
                                      filed[y[1]][y[2]] # NoDecision}}
RegistrationCandidates == {Registration(k, Attempts(log, k) + 1) : k \in Keys}

Lock(c) ==
  /\ pc[c] = "idle" /\ LockFree
  /\ Len(log) < MaxEntries
  /\ \E e \in RunCandidates \cup DecisionCandidates \cup RegistrationCandidates :
       job' = [job EXCEPT ![c] = e]
  /\ pc' = [pc EXCEPT ![c] = "locked"]
  /\ UNCHANGED <<log, tail, joined, disk, filed, judgement>>

(* The filed decision is believed, not evaluated again. *)
AgreesUnread(e) == TRUE

(* append_gate_decision evaluates the gate again, now under the lock.       *)
Agrees(e) == e.result = EvaluateOn(log, e.package, e.gate)

AlreadyDecided(e) == Decided(log, e.package, e.gate)

(* The checks of append_ledger_entry and append_gate_decision.              *)
Acceptable(e) ==
  CASE e.kind = "run"           -> /\ disk[e.package] = "intact"
                                   /\ LineageHolds(log, e.package) /\ ~RunIn(log, e.package)
    [] e.kind = "gate_decision" -> /\ disk[e.package] = "intact" /\ RunIn(log, e.package)
                                   /\ Agrees(e) /\ ~AlreadyDecided(e)
    [] OTHER                    -> TRUE

Build(c) ==
  /\ pc[c] = "locked" /\ Verifies /\ Acceptable(job[c])
  /\ pc' = [pc EXCEPT ![c] = "built"]
  /\ UNCHANGED <<log, tail, joined, disk, filed, judgement, job>>

(* Refused, or recorded already: nothing is written.                        *)
GiveUp(c) ==
  /\ pc[c] = "locked" /\ ~(Verifies /\ Acceptable(job[c]))
  /\ pc' = [pc EXCEPT ![c] = "idle"]
  /\ job' = [job EXCEPT ![c] = NoJob]
  /\ UNCHANGED <<log, tail, joined, disk, filed, judgement>>

(* append_locked_entry: the entry and its newline go out in one write at    *)
(* the end of the file, whatever the file ends in. The write may stop after *)
(* any byte of it: the client dies there, or the write is reported short.   *)
StartWriting(c) ==
  /\ pc[c] = "built"
  /\ tail' = "partial"
  /\ joined' = (joined \/ tail = "open")
  /\ pc' = [pc EXCEPT ![c] = "writing"]
  /\ UNCHANGED <<log, disk, filed, judgement, job>>

WriteEntry(c) ==
  /\ pc[c] = "writing"
  /\ log' = Append(log, job[c])
  /\ tail' = "open"
  /\ pc' = [pc EXCEPT ![c] = "ending"]
  /\ UNCHANGED <<joined, disk, filed, judgement, job>>

EndLine(c) ==
  /\ pc[c] = "ending"
  /\ tail' = "newline"
  /\ pc' = [pc EXCEPT ![c] = "idle"]
  /\ job' = [job EXCEPT ![c] = NoJob]
  /\ UNCHANGED <<log, joined, disk, filed, judgement>>

(* The kernel releases the lock; the file stays as far as it was written.   *)
Crash(c) ==
  /\ pc[c] # "idle"
  /\ pc' = [pc EXCEPT ![c] = "idle"]
  /\ job' = [job EXCEPT ![c] = NoJob]
  /\ UNCHANGED <<log, tail, joined, disk, filed, judgement>>
-----------------------------------------------------------------------------
(* The world around the file *)

(* create_superseding_package *)
Supersede(p) ==
  /\ disk[p] = "absent" /\ Parent[p] # NoPackage
  /\ Verifies /\ RunIn(log, Parent[p]) /\ disk[Parent[p]] = "intact"
  /\ disk' = [disk EXCEPT ![p] = "intact"]
  /\ UNCHANGED <<log, tail, joined, filed, judgement, pc, job>>

Edit(p) ==
  /\ disk[p] = "intact"
  /\ disk' = [disk EXCEPT ![p] = "edited"]
  /\ UNCHANGED <<log, tail, joined, filed, judgement, pc, job>>

PutBack(p) ==
  /\ disk[p] = "edited"
  /\ disk' = [disk EXCEPT ![p] = "intact"]
  /\ UNCHANGED <<log, tail, joined, filed, judgement, pc, job>>

(* An operator cuts off the partial entry a dead client left and gives each *)
(* entry a line of its own.                                                 *)
Repair ==
  /\ ~Readable /\ \A c \in Clients : pc[c] \notin {"writing", "ending"}
  /\ tail' = "newline" /\ joined' = FALSE
  /\ UNCHANGED <<log, disk, filed, judgement, pc, job>>

Next ==
  \/ \E c \in Clients, p \in Packages, g \in DecidableGates : Evaluate(c, p, g)
  \/ \E c \in Clients : \/ File(c) \/ Lock(c) \/ Build(c) \/ GiveUp(c)
                        \/ StartWriting(c) \/ WriteEntry(c) \/ EndLine(c) \/ Crash(c)
  \/ \E p \in Packages : Supersede(p) \/ Edit(p) \/ PutBack(p)
  \/ Repair

Spec == Init /\ [][Next]_vars
-----------------------------------------------------------------------------
(* Properties *)

(* Whatever clients raced, died or filed stale decisions, the entries the   *)
(* file holds replay in their order: lineage, prior gates, decisions and    *)
(* attempt numbers follow from the entries before them, so what an append   *)
(* accepted incrementally, verify_ledger_semantics never rejects (ledger.py)*)
(* - wherever the file can be read at all: an append that finds an entry    *)
(* whole but for its newline is let through, writes on the same line, and   *)
(* nobody reads the file again until it is repaired (joined).               *)
LedgerReplays == LogReplays

(* A gate's decision on a package is in the ledger at most once, and it is  *)
(* the one on file beside the package, which no later evaluation replaced.  *)
OneDecisionAsFiled ==
  \A i \in DOMAIN log : log[i].kind = "gate_decision" =>
    /\ log[i].result = filed[log[i].package][log[i].gate]
    /\ \A k \in DOMAIN log :
         /\ log[k].kind = "gate_decision"
         /\ log[k].package = log[i].package /\ log[k].gate = log[i].gate
         => k = i

(* The file implements the registry. An append in flight hides, from the    *)
(* registry, the loss of trust that happens under its hands: the registry   *)
(* sees it with the entry, or when the append is abandoned.                 *)
InFlight        == \E c \in Clients : pc[c] \in {"built", "writing"}
RecordedRuns    == {p \in Packages : RunIn(log, p)}
RecordedOutcome == [p \in Packages |-> [g \in Gates |->
                      IF \E r \in Outcomes : In(log, DecisionEntry(p, g, r))
                      THEN CHOOSE r \in Outcomes : In(log, DecisionEntry(p, g, r))
                      ELSE NoDecision]]

Registry == INSTANCE GateRegistry
              WITH made    <- RecordedRuns \cup {p \in Packages : disk[p] = "intact"},
                   runs    <- RecordedRuns,
                   decided <- RecordedOutcome,
                   trusted <- Verifies \/ InFlight

(* Every step of the file is a step of the registry or leaves it unchanged: *)
(* what Workflow assumes of the ledger, the file delivers under concurrent  *)
(* appends, crashes and edits.                                              *)
ImplementsRegistry == Registry!RegistrySpec
=============================================================================

-------------------------- MODULE LedgerFileProofs --------------------------
(***************************************************************************)
(* What the ledger's file guarantees for every number of clients, packages *)
(* and registration keys, however they race, die or edit directories: its  *)
(* entries replay, a decision is recorded once and as filed, and the file  *)
(* implements the registry the workflow relies on.                         *)
(***************************************************************************)
EXTENDS LedgerFile, SequenceTheorems, FiniteSetTheorems, TLAPS

Decides(e)   == e.kind = "gate_decision"
Registers(e) == e.kind = "robustness_registration"

(* The flock has one holder. *)
Sole == \A c, d \in Clients : pc[c] \in Holding /\ pc[d] \in Holding => c = d

(* What a client's entry still is, at each place of the client: what was    *)
(* checked under the lock stays true until the entry is written.            *)
Prepared(c) ==
  LET e == job[c] IN
  /\ pc[c] = "evaluated" => Decides(e)
  /\ pc[c] \in {"locked", "built", "writing"} =>
       /\ e \in Entries /\ Len(log) < MaxEntries
       /\ Decides(e)   => e.result = filed[e.package][e.gate]
       /\ Registers(e) => Replays(log, e)
  /\ pc[c] \in {"built", "writing"} =>
       /\ Replays(log, e)
       /\ Decides(e) => ~AlreadyDecided(e)

(* A package directory exists only over a recorded predecessor. *)
Rooted == \A p \in Packages : disk[p] # "absent" => LineageHolds(log, p)

IInv ==
  /\ TypeOK
  /\ judgement \in [Packages -> [Gates -> Outcomes]]
  /\ Sole
  /\ \A c \in Clients : Prepared(c)
  /\ Rooted
  /\ LogReplays
  /\ OneDecisionAsFiled
-----------------------------------------------------------------------------
(* Entries and lists of entries *)

LEMMA EntryKinds ==
  /\ \A e \in Entries :
       \/ \E p \in Packages : e = RunEntry(p)
       \/ \E p \in Packages, g \in Gates, r \in Outcomes : e = DecisionEntry(p, g, r)
       \/ \E k \in Keys, n \in 1..MaxEntries : e = Registration(k, n)
  /\ \A p : RunEntry(p).kind = "run" /\ RunEntry(p).package = p
  /\ \A p, g, r : /\ Decides(DecisionEntry(p, g, r)) /\ DecisionEntry(p, g, r).package = p
                  /\ DecisionEntry(p, g, r).gate = g /\ DecisionEntry(p, g, r).result = r
  /\ \A k, n : Registers(Registration(k, n)) /\ Registration(k, n).key = k
               /\ Registration(k, n).attempt = n
BY DEF Entries, RunEntry, DecisionEntry, Registration, Decides, Registers

(* An entry is determined by what it says. *)
LEMMA EntryFields ==
  ASSUME NEW e \in Entries
  PROVE  /\ e.kind = "run" => e.package \in Packages /\ e = RunEntry(e.package)
         /\ Decides(e) => /\ e.package \in Packages /\ e.gate \in Gates /\ e.result \in Outcomes
                          /\ e = DecisionEntry(e.package, e.gate, e.result)
         /\ Registers(e) => e.key \in Keys /\ e = Registration(e.key, e.attempt)
         /\ e.kind = "run" \/ Decides(e) \/ Registers(e)
<1>1. CASE \E p \in Packages : e = RunEntry(p)
  BY <1>1 DEF RunEntry, Decides, Registers
<1>2. CASE \E p \in Packages, g \in Gates, r \in Outcomes : e = DecisionEntry(p, g, r)
  BY <1>2 DEF DecisionEntry, Decides, Registers
<1>3. CASE \E k \in Keys, n \in 1..MaxEntries : e = Registration(k, n)
  BY <1>3 DEF Registration, Decides, Registers
<1>. QED BY <1>1, <1>2, <1>3, EntryKinds

(* What a list of entries becomes when one is appended.                     *)
LEMMA Appending ==
  ASSUME NEW es \in Seq(Entries), NEW e \in Entries
  PROVE  /\ Append(es, e) \in Seq(Entries)
         /\ Len(Append(es, e)) = Len(es) + 1
         /\ DOMAIN Append(es, e) = DOMAIN es \cup {Len(es) + 1}
         /\ DOMAIN es = 1..Len(es) /\ Len(es) \in Nat
         /\ \A i \in DOMAIN es : Append(es, e)[i] = es[i]
         /\ Append(es, e)[Len(es) + 1] = e
         /\ \A x : In(Append(es, e), x) <=> In(es, x) \/ x = e
<1>1. /\ Append(es, e) \in Seq(Entries) /\ Len(Append(es, e)) = Len(es) + 1
      /\ DOMAIN es = 1..Len(es) /\ Len(es) \in Nat
      /\ DOMAIN Append(es, e) = 1..(Len(es) + 1)
      /\ \A i \in DOMAIN es : Append(es, e)[i] = es[i]
      /\ Append(es, e)[Len(es) + 1] = e
  OBVIOUS
<1>2. 1..(Len(es) + 1) = (1..Len(es)) \cup {Len(es) + 1}
  BY <1>1
<1>. QED BY <1>1, <1>2 DEF In

(* The prefixes a list is replayed over stay what they are.                 *)
LEMMA Prefixes ==
  ASSUME NEW es \in Seq(Entries), NEW e \in Entries
  PROVE  /\ \A i \in DOMAIN es : SubSeq(Append(es, e), 1, i - 1) = SubSeq(es, 1, i - 1)
         /\ SubSeq(Append(es, e), 1, Len(es)) = es
         /\ \A i \in DOMAIN es : \A x : In(SubSeq(es, 1, i - 1), x) => In(es, x)
<1>. DEFINE new == Append(es, e)
<1>1. /\ new \in Seq(Entries) /\ Len(es) \in Nat /\ DOMAIN es = 1..Len(es)
      /\ \A j \in 1..Len(es) : new[j] = es[j] /\ es[j] \in Entries
  BY Appending
<1>2. ASSUME NEW n \in 0..Len(es)
      PROVE  SubSeq(new, 1, n) = SubSeq(es, 1, n)
  <2>1. /\ SubSeq(new, 1, n) \in Seq(Entries) /\ SubSeq(es, 1, n) \in Seq(Entries)
        /\ Len(SubSeq(new, 1, n)) = n /\ Len(SubSeq(es, 1, n)) = n
        /\ \A j \in 1..n : SubSeq(new, 1, n)[j] = new[j] /\ SubSeq(es, 1, n)[j] = es[j]
    BY <1>1, SubSeqProperties
  <2>. QED BY <1>1, <2>1, SeqEqual
<1>3. SubSeq(new, 1, Len(es)) = es
  BY <1>1, <1>2, SubSeqFull
<1>4. ASSUME NEW i \in DOMAIN es, NEW x, In(SubSeq(es, 1, i - 1), x)
      PROVE  In(es, x)
  <2>1. /\ SubSeq(es, 1, i - 1) \in Seq(Entries) /\ Len(SubSeq(es, 1, i - 1)) = i - 1
        /\ \A j \in 1..(i - 1) : SubSeq(es, 1, i - 1)[j] = es[j]
    BY <1>1, SubSeqProperties
  <2>2. DOMAIN SubSeq(es, 1, i - 1) = 1..(i - 1)
    BY <2>1
  <2>. QED BY <1>1, <1>4, <2>1, <2>2 DEF In
<1>. QED BY <1>1, <1>2, <1>3, <1>4

LEMMA AttemptsBounded ==
  ASSUME NEW es \in Seq(Entries), NEW k
  PROVE  Attempts(es, k) \in 0..Len(es)
<1>. DEFINE S == {i \in DOMAIN es : es[i].kind = "robustness_registration" /\ es[i].key = k}
<1>0. Len(es) \in Nat
  OBVIOUS
<1>1. IsFiniteSet(1..Len(es)) /\ Cardinality(1..Len(es)) = Len(es)
  BY <1>0, FS_Interval
<1>2. S \subseteq 1..Len(es)
  OBVIOUS
<1>3. IsFiniteSet(S) /\ Cardinality(S) <= Len(es)
  BY <1>1, <1>2, FS_Subset
<1>4. Cardinality(S) \in Nat
  BY <1>3, FS_CardinalityType
<1>5. Attempts(es, k) = Cardinality(S)
  BY DEF Attempts
<1>. QED BY <1>0, <1>3, <1>4, <1>5
-----------------------------------------------------------------------------
LEMMA Places ==
  /\ Holding = {"locked", "built", "writing", "ending"}
  /\ "idle" \notin Holding /\ "evaluated" \notin Holding
BY DEF Holding

LEMMA OutcomesDecide == NoDecision \notin Outcomes
BY DEF NoDecision, Outcomes

LEMMA Initially == Init => IInv
<1>. SUFFICES ASSUME Init PROVE IInv
  OBVIOUS
<1>1. TypeOK
  <2>1. <<>> \in Seq(Entries) /\ Len(<<>>) <= MaxEntries
    BY LedgerAssumption
  <2>. QED BY <2>1, LedgerAssumption DEF Init, TypeOK, Tails
<1>2. Sole /\ \A c \in Clients : Prepared(c)
  BY Places DEF Init, Sole, Prepared
<1>3. Rooted
  BY DEF Init, Rooted, LineageHolds
<1>4. LogReplays /\ OneDecisionAsFiled
  BY DEF Init, LogReplays, OneDecisionAsFiled
<1>. QED BY <1>1, <1>2, <1>3, <1>4, LedgerAssumption DEF Init, IInv

(* What a step of one client has to show that changes no file but the end   *)
(* of the ledger.                                                           *)
LEMMA ClientStep ==
  ASSUME IInv, NEW c \in Clients, NEW to \in Holding \cup {"idle", "evaluated"},
         NEW e \in Entries \cup {NoJob},
         pc' = [pc EXCEPT ![c] = to], job' = [job EXCEPT ![c] = e],
         UNCHANGED <<log, disk, filed, judgement>>,
         tail' \in Tails, joined' \in BOOLEAN,
         to \in Holding => pc[c] \in Holding \/ LockFree,
         Prepared(c)'
  PROVE  IInv'
<1>1. /\ pc' \in [Clients -> Holding \cup {"idle", "evaluated"}] /\ pc'[c] = to
      /\ job' \in [Clients -> Entries \cup {NoJob}]
      /\ \A d \in Clients \ {c} : pc'[d] = pc[d] /\ job'[d] = job[d]
  BY DEF IInv, TypeOK
<1>2. TypeOK'
  BY <1>1 DEF IInv, TypeOK
<1>3. Sole'
  BY <1>1 DEF IInv, Sole, LockFree
<1>4. \A x : AlreadyDecided(x)' = AlreadyDecided(x)
  BY DEF AlreadyDecided
<1>5. ASSUME NEW d \in Clients \ {c}
      PROVE  Prepared(d)'
  <2>1. Prepared(d)
    BY DEF IInv
  <2>. QED BY <1>1, <1>4, <2>1 DEF Prepared, Replays, EvaluateOn
<1>6. Rooted' /\ LogReplays' /\ OneDecisionAsFiled'
  BY DEF IInv, Rooted, LogReplays, OneDecisionAsFiled, Replays, EvaluateOn
<1>. QED BY <1>2, <1>3, <1>5, <1>6 DEF IInv

(* A client that gives up, is refused or dies. *)
LEMMA Ending ==
  ASSUME IInv, NEW c \in Clients,
         pc' = [pc EXCEPT ![c] = "idle"], job' = [job EXCEPT ![c] = NoJob],
         tail' \in Tails, joined' \in BOOLEAN, UNCHANGED <<log, disk, filed, judgement>>
  PROVE  IInv'
<1>1. pc'[c] = "idle"
  BY DEF IInv, TypeOK
<1>2. Prepared(c)'
  BY <1>1, Places DEF Prepared
<1>3. tail' \in Tails /\ joined' \in BOOLEAN
  BY DEF IInv, TypeOK
<1>. QED BY <1>2, <1>3, ClientStep, Places

LEMMA EvaluateInv ==
  ASSUME IInv, NEW c \in Clients, NEW p \in Packages, NEW g \in DecidableGates, Evaluate(c, p, g)
  PROVE  IInv'
<1>1. g \in Gates /\ judgement[p][g] \in Outcomes
  BY LedgerAssumption DEF IInv
<1>. DEFINE r == IF g \in DOMAIN PriorGate /\ ~Verifies THEN "blocked" ELSE EvaluateOn(log, p, g)
            e == DecisionEntry(p, g, r)
<1>2. r \in Outcomes
  BY <1>1 DEF EvaluateOn, Outcomes
<1>3. e \in Entries /\ Decides(e)
  BY <1>1, <1>2, EntryKinds DEF Entries
<1>4. /\ pc' = [pc EXCEPT ![c] = "evaluated"] /\ job' = [job EXCEPT ![c] = e]
      /\ UNCHANGED <<log, tail, joined, disk, filed, judgement>>
  BY DEF Evaluate
<1>. HIDE DEF e
<1>5. pc'[c] = "evaluated" /\ job'[c] = e /\ tail' \in Tails /\ joined' \in BOOLEAN
  BY <1>4 DEF IInv, TypeOK
<1>6. Prepared(c)'
  BY <1>3, <1>5, Places DEF Prepared
<1>. QED BY <1>3, <1>4, <1>5, <1>6, ClientStep, Places

LEMMA FileInv ==
  ASSUME IInv, NEW c \in Clients, File(c)
  PROVE  IInv'
<1>. DEFINE e == job[c]
<1>1. /\ pc[c] = "evaluated" /\ e \in Entries /\ Decides(e)
      /\ pc' = [pc EXCEPT ![c] = "idle"] /\ job' = [job EXCEPT ![c] = NoJob]
      /\ UNCHANGED <<log, tail, joined, disk, judgement>>
  BY DEF File, IInv, TypeOK, Prepared, Decides, NoJob
<1>2. e.package \in Packages /\ e.gate \in Gates /\ e.result \in Outcomes
  BY <1>1, EntryFields
<1>3. /\ filed' \in [Packages -> [Gates -> Outcomes \cup {NoDecision}]]
      /\ \A p \in Packages, g \in Gates :
           filed[p][g] # NoDecision => filed'[p][g] = filed[p][g]
  <2>1. filed' = [filed EXCEPT ![e.package][e.gate] =
                    IF filed[e.package][e.gate] = NoDecision THEN e.result
                    ELSE filed[e.package][e.gate]]
    BY DEF File
  <2>. QED BY <1>2, <2>1 DEF IInv, TypeOK
<1>4. /\ pc'[c] = "idle"
      /\ \A d \in Clients \ {c} : pc'[d] = pc[d] /\ job'[d] = job[d]
  BY <1>1 DEF IInv, TypeOK
<1>5. TypeOK' /\ Sole'
  BY <1>1, <1>3, <1>4, Places DEF IInv, TypeOK, Sole
<1>6. \A x : AlreadyDecided(x)' = AlreadyDecided(x)
  BY <1>1 DEF AlreadyDecided
<1>7. ASSUME NEW d \in Clients
      PROVE  Prepared(d)'
  <2>1. CASE d = c
    BY <1>4, <2>1, Places DEF Prepared
  <2>2. CASE d # c
    <3>1. Prepared(d) /\ pc'[d] = pc[d] /\ job'[d] = job[d]
      BY <1>4, <2>2 DEF IInv
    <3>2. pc[d] \in {"locked", "built", "writing"} /\ Decides(job[d]) =>
             job[d].result = filed'[job[d].package][job[d].gate]
      BY <1>3, <3>1, EntryFields, OutcomesDecide DEF Prepared
    <3>. QED BY <1>1, <1>6, <3>1, <3>2 DEF Prepared, Replays, EvaluateOn
  <2>. QED BY <2>1, <2>2
<1>8. OneDecisionAsFiled'
  <2>1. ASSUME NEW i \in DOMAIN log, Decides(log[i])
        PROVE  /\ log[i].package \in Packages /\ log[i].gate \in Gates
               /\ log[i].result \in Outcomes
    BY <2>1, EntryFields DEF IInv, TypeOK
  <2>. QED BY <1>1, <1>3, <2>1, OutcomesDecide DEF IInv, OneDecisionAsFiled, Decides
<1>9. Rooted' /\ LogReplays'
  BY <1>1 DEF IInv, Rooted, LogReplays, Replays, EvaluateOn
<1>. QED BY <1>1, <1>5, <1>7, <1>8, <1>9 DEF IInv
-----------------------------------------------------------------------------
(* Appending under the lock *)

(* What a client may bring under the lock. *)
LEMMA Candidates ==
  ASSUME IInv, Len(log) < MaxEntries,
         NEW e \in RunCandidates \cup DecisionCandidates \cup RegistrationCandidates
  PROVE  /\ e \in Entries
         /\ Decides(e)   => e.result = filed[e.package][e.gate]
         /\ Registers(e) => Replays(log, e)
<1>1. CASE e \in RunCandidates
  BY <1>1, EntryKinds DEF RunCandidates, Entries, Decides, Registers
<1>2. CASE e \in DecisionCandidates
  <2>1. PICK p \in Packages, g \in DecidableGates :
               e = DecisionEntry(p, g, filed[p][g]) /\ filed[p][g] # NoDecision
    BY <1>2 DEF DecisionCandidates
  <2>2. g \in Gates /\ filed[p][g] \in Outcomes
    BY <2>1, LedgerAssumption DEF IInv, TypeOK
  <2>3. /\ Decides(e) /\ e.package = p /\ e.gate = g /\ e.result = filed[p][g]
        /\ ~Registers(e)
    BY <2>1, EntryKinds DEF Decides, Registers
  <2>. QED BY <2>1, <2>2, <2>3 DEF Entries
<1>3. CASE e \in RegistrationCandidates
  <2>1. PICK k \in Keys : e = Registration(k, Attempts(log, k) + 1)
    BY <1>3 DEF RegistrationCandidates
  <2>2. Attempts(log, k) \in 0..Len(log) /\ Len(log) \in Nat
    BY AttemptsBounded DEF IInv, TypeOK
  <2>3. Attempts(log, k) + 1 \in 1..MaxEntries
    BY <2>2, LedgerAssumption
  <2>4. Registers(e) /\ e.key = k /\ e.attempt = Attempts(log, k) + 1
    BY <2>1, EntryKinds
  <2>5. Replays(log, e)
    BY <2>4 DEF Replays, Registers
  <2>. QED BY <2>1, <2>3, <2>4, <2>5 DEF Entries, Decides, Registers
<1>. QED BY <1>1, <1>2, <1>3

LEMMA LockInv ==
  ASSUME IInv, NEW c \in Clients, Lock(c)
  PROVE  IInv'
<1>1. PICK e \in RunCandidates \cup DecisionCandidates \cup RegistrationCandidates :
             job' = [job EXCEPT ![c] = e]
  BY DEF Lock
<1>2. /\ pc' = [pc EXCEPT ![c] = "locked"] /\ LockFree /\ Len(log) < MaxEntries
      /\ UNCHANGED <<log, tail, joined, disk, filed, judgement>>
  BY DEF Lock
<1>3. /\ e \in Entries
      /\ Decides(e)   => e.result = filed[e.package][e.gate]
      /\ Registers(e) => Replays(log, e)
  BY <1>2, Candidates
<1>4. pc'[c] = "locked" /\ job'[c] = e /\ tail' \in Tails /\ joined' \in BOOLEAN
  BY <1>1, <1>2 DEF IInv, TypeOK
<1>5. Prepared(c)'
  BY <1>2, <1>3, <1>4 DEF Prepared, Replays, EvaluateOn
<1>. QED BY <1>1, <1>2, <1>3, <1>4, <1>5, ClientStep, Places

(* What is acceptable under the lock replays. *)
LEMMA AcceptableReplays ==
  ASSUME IInv, NEW e \in Entries, Acceptable(e), Registers(e) => Replays(log, e)
  PROVE  Replays(log, e) /\ (Decides(e) => ~AlreadyDecided(e))
BY EntryFields DEF Acceptable, Replays, Agrees, Decides, Registers

LEMMA BuildInv ==
  ASSUME IInv, NEW c \in Clients, Build(c)
  PROVE  IInv'
<1>1. /\ pc[c] = "locked" /\ Verifies /\ Acceptable(job[c])
      /\ pc' = [pc EXCEPT ![c] = "built"]
      /\ UNCHANGED <<log, tail, joined, disk, filed, judgement, job>>
  BY DEF Build
<1>2. /\ pc'[c] = "built" /\ job' = [job EXCEPT ![c] = job[c]] /\ pc[c] \in Holding
      /\ job[c] \in Entries /\ tail' \in Tails /\ joined' \in BOOLEAN
  BY <1>1, Places DEF IInv, TypeOK, Prepared
<1>3. Replays(log, job[c]) /\ (Decides(job[c]) => ~AlreadyDecided(job[c]))
  BY <1>1, <1>2, AcceptableReplays DEF IInv, Prepared
<1>4. AlreadyDecided(job[c])' = AlreadyDecided(job[c])
  BY <1>1 DEF AlreadyDecided
<1>5. Prepared(c)
  BY DEF IInv
<1>6. Prepared(c)'
  BY <1>1, <1>2, <1>3, <1>4, <1>5 DEF Prepared, Replays, EvaluateOn
<1>. QED BY <1>1, <1>2, <1>6, ClientStep, Places

LEMMA GiveUpInv ==
  ASSUME IInv, NEW c \in Clients, GiveUp(c) \/ EndLine(c) \/ Crash(c)
  PROVE  IInv'
<1>1. UNCHANGED <<tail, joined>> \/ (tail' = "newline" /\ UNCHANGED joined)
  BY DEF GiveUp, EndLine, Crash
<1>2. tail' \in Tails /\ joined' \in BOOLEAN
  BY <1>1 DEF IInv, TypeOK, Tails
<1>. QED BY <1>2, Ending DEF GiveUp, EndLine, Crash

LEMMA StartWritingInv ==
  ASSUME IInv, NEW c \in Clients, StartWriting(c)
  PROVE  IInv'
<1>1. /\ pc[c] = "built" /\ tail' = "partial" /\ joined' \in BOOLEAN
      /\ pc' = [pc EXCEPT ![c] = "writing"] /\ UNCHANGED <<log, disk, filed, judgement, job>>
  BY DEF StartWriting, IInv, TypeOK
<1>2. /\ pc'[c] = "writing" /\ job' = [job EXCEPT ![c] = job[c]] /\ pc[c] \in Holding
      /\ job[c] \in Entries /\ tail' \in Tails
  BY <1>1, Places DEF IInv, TypeOK, Prepared, Tails
<1>3. AlreadyDecided(job[c])' = AlreadyDecided(job[c])
  BY <1>1 DEF AlreadyDecided
<1>4. Prepared(c)
  BY DEF IInv
<1>5. Prepared(c)'
  BY <1>1, <1>2, <1>3, <1>4 DEF Prepared, Replays, EvaluateOn
<1>. QED BY <1>1, <1>2, <1>5, ClientStep, Places

(* An entry that was prepared is what a verification expects at its place.  *)
LEMMA WriteEntryInv ==
  ASSUME IInv, NEW c \in Clients, WriteEntry(c)
  PROVE  IInv'
<1>. DEFINE e == job[c]
<1>1. /\ pc[c] = "writing" /\ log' = Append(log, e) /\ tail' = "open"
      /\ pc' = [pc EXCEPT ![c] = "ending"] /\ UNCHANGED <<joined, disk, filed, judgement, job>>
  BY DEF WriteEntry
<1>2. /\ e \in Entries /\ Len(log) < MaxEntries /\ log \in Seq(Entries)
      /\ Decides(e) => e.result = filed[e.package][e.gate] /\ ~AlreadyDecided(e)
      /\ Replays(log, e)
  BY <1>1, Places DEF IInv, TypeOK, Prepared
<1>. HIDE DEF e
<1>3. /\ log' \in Seq(Entries) /\ Len(log') = Len(log) + 1
      /\ DOMAIN log' = DOMAIN log \cup {Len(log) + 1} /\ Len(log) \in Nat
      /\ DOMAIN log = 1..Len(log)
      /\ \A i \in DOMAIN log : log'[i] = log[i]
      /\ log'[Len(log) + 1] = e
      /\ \A x : In(log', x) <=> In(log, x) \/ x = e
  BY <1>1, <1>2, Appending
<1>4. /\ \A i \in DOMAIN log : SubSeq(log', 1, i - 1) = SubSeq(log, 1, i - 1)
      /\ SubSeq(log', 1, Len(log)) = log
  BY <1>1, <1>2, Prefixes
<1>5. /\ pc'[c] = "ending"
      /\ \A d \in Clients \ {c} : pc'[d] = pc[d] /\ job'[d] = job[d] /\ pc[d] \notin Holding
  BY <1>1, Places DEF IInv, TypeOK, Sole
<1>6. TypeOK'
  <2>1. log' \in Seq(Entries) /\ Len(log') <= MaxEntries
    BY <1>2, <1>3, LedgerAssumption
  <2>2. /\ pc' \in [Clients -> Holding \cup {"idle", "evaluated"}]
        /\ job' \in [Clients -> Entries \cup {NoJob}]
    BY <1>1, Places DEF IInv, TypeOK
  <2>. QED BY <1>1, <2>1, <2>2 DEF IInv, TypeOK, Tails
<1>7. Sole' /\ \A d \in Clients : Prepared(d)'
  BY <1>5, Places DEF IInv, Sole, Prepared
<1>8. Rooted'
  BY <1>1, <1>3 DEF IInv, Rooted, LineageHolds, RunIn
<1>9. LogReplays'
  <2>1. \A x, y : Replays(x, y)' = Replays(x, y)
    BY <1>1 DEF Replays, EvaluateOn
  <2>2. ASSUME NEW i \in DOMAIN log
        PROVE  Replays(SubSeq(log', 1, i - 1), log'[i])
    BY <1>3, <1>4 DEF IInv, LogReplays
  <2>3. Replays(SubSeq(log', 1, (Len(log) + 1) - 1), log'[Len(log) + 1])
    <3>1. (Len(log) + 1) - 1 = Len(log)
      BY <1>3
    <3>. QED BY <1>2, <1>3, <1>4, <3>1
  <2>4. \A i \in DOMAIN log' : Replays(SubSeq(log', 1, i - 1), log'[i])
    BY <1>3, <2>2, <2>3
  <2>. QED BY <1>1, <2>4 DEF LogReplays, Replays, EvaluateOn
<1>10. OneDecisionAsFiled'
  <2>1. \A i \in DOMAIN log :
           Decides(e) /\ Decides(log[i]) => ~(log[i].package = e.package /\ log[i].gate = e.gate)
    BY <1>2 DEF AlreadyDecided, Decided, Decides
  <2>. QED BY <1>1, <1>2, <1>3, <2>1 DEF IInv, OneDecisionAsFiled, Decides
<1>. QED BY <1>1, <1>6, <1>7, <1>8, <1>9, <1>10 DEF IInv
-----------------------------------------------------------------------------
(* The world around the file *)

LEMMA DiskInv ==
  ASSUME IInv, NEW p \in Packages, Supersede(p) \/ Edit(p) \/ PutBack(p)
  PROVE  IInv'
<1>1. /\ disk' \in [Packages -> {"absent", "intact", "edited"}]
      /\ \A q \in Packages : disk'[q] # "absent" => disk[q] # "absent" \/ LineageHolds(log, q)
      /\ UNCHANGED <<log, tail, joined, filed, judgement, pc, job>>
  BY DEF Supersede, Edit, PutBack, IInv, TypeOK, LineageHolds
<1>2. TypeOK' /\ Sole' /\ Rooted'
  BY <1>1 DEF IInv, TypeOK, Sole, Rooted
<1>3. \A x : AlreadyDecided(x)' = AlreadyDecided(x)
  BY <1>1 DEF AlreadyDecided
<1>4. \A d \in Clients : Prepared(d)'
  BY <1>1, <1>3 DEF IInv, Prepared, Replays, EvaluateOn
<1>5. LogReplays' /\ OneDecisionAsFiled'
  BY <1>1 DEF IInv, LogReplays, OneDecisionAsFiled, Replays, EvaluateOn
<1>. QED BY <1>1, <1>2, <1>4, <1>5 DEF IInv

LEMMA RepairInv ==
  ASSUME IInv, Repair
  PROVE  IInv'
<1>1. tail' = "newline" /\ joined' = FALSE /\ UNCHANGED <<log, disk, filed, judgement, pc, job>>
  BY DEF Repair
<1>2. TypeOK' /\ Sole' /\ Rooted'
  BY <1>1 DEF Tails, IInv, TypeOK, Sole, Rooted
<1>3. \A x : AlreadyDecided(x)' = AlreadyDecided(x)
  BY <1>1 DEF AlreadyDecided
<1>4. \A d \in Clients : Prepared(d)'
  BY <1>1, <1>3 DEF IInv, Prepared, Replays, EvaluateOn
<1>5. LogReplays' /\ OneDecisionAsFiled'
  BY <1>1 DEF IInv, LogReplays, OneDecisionAsFiled, Replays, EvaluateOn
<1>. QED BY <1>1, <1>2, <1>4, <1>5 DEF IInv

LEMMA NextInv == IInv /\ [Next]_vars => IInv'
<1>. SUFFICES ASSUME IInv, [Next]_vars PROVE IInv'
  OBVIOUS
<1>1. CASE UNCHANGED vars
  <2>1. \A x : AlreadyDecided(x)' = AlreadyDecided(x)
    BY <1>1 DEF AlreadyDecided, vars
  <2>2. \A d \in Clients : Prepared(d)'
    BY <1>1, <2>1 DEF vars, IInv, Prepared, Replays, EvaluateOn
  <2>. QED BY <1>1, <2>2 DEF vars, IInv, TypeOK, Sole, Rooted, LogReplays, OneDecisionAsFiled,
                        Replays, EvaluateOn
<1>2. ASSUME NEW c \in Clients, NEW p \in Packages, NEW g \in DecidableGates, Evaluate(c, p, g)
      PROVE  IInv'
  BY <1>2, EvaluateInv
<1>3. ASSUME NEW c \in Clients,
             \/ File(c) \/ Lock(c) \/ Build(c) \/ GiveUp(c)
             \/ StartWriting(c) \/ WriteEntry(c) \/ EndLine(c) \/ Crash(c)
      PROVE  IInv'
  BY <1>3, FileInv, LockInv, BuildInv, GiveUpInv, StartWritingInv, WriteEntryInv
<1>4. ASSUME NEW p \in Packages, Supersede(p) \/ Edit(p) \/ PutBack(p)
      PROVE  IInv'
  BY <1>4, DiskInv
<1>. QED BY <1>1, <1>2, <1>3, <1>4, RepairInv DEF Next

(* The strengthened invariant of the ledger: types, one holder of the flock  *)
(* (ledger.py's exclusive lock around verify and append), what a client that *)
(* verified knows of the lines, and a log every line of which can be re-read.*)
THEOREM Invariant == Spec => []IInv
<1>. QED BY Initially, NextInv, PTL DEF Spec

(* Whatever clients raced, died or filed stale decisions, the entries of    *)
(* the ledger replay in their order (ledger.py, verify_ledger_semantics);   *)
(* that each has a line of its own, and can be read, is not claimed.        *)
THEOREM EntriesReplay == Spec => []LedgerReplays
<1>1. IInv => LedgerReplays
  BY DEF IInv, LedgerReplays
<1>. QED BY <1>1, Invariant, PTL

(* A decision is in the ledger once, and it is the one on file beside its   *)
(* package (append_gate_decision over write_gate_decision).                 *)
THEOREM DecidedOnceAsFiled == Spec => []OneDecisionAsFiled
<1>1. IInv => OneDecisionAsFiled
  BY DEF IInv
<1>. QED BY <1>1, Invariant, PTL
-----------------------------------------------------------------------------
(* The refinement of the registry *)

Made  == RecordedRuns \cup {p \in Packages : disk[p] = "intact"}
Trust == Verifies \/ InFlight

(* What a list says of a gate's decision on a package. *)
OutcomeIn(es, p, g) ==
  IF \E r \in Outcomes : In(es, DecisionEntry(p, g, r))
  THEN CHOOSE r \in Outcomes : In(es, DecisionEntry(p, g, r))
  ELSE NoDecision

LEMMA RegistryView ==
  /\ RecordedOutcome = [p \in Packages |-> [g \in Gates |-> OutcomeIn(log, p, g)]]
  /\ RecordedOutcome' = [p \in Packages |-> [g \in Gates |-> OutcomeIn(log', p, g)]]
  /\ RecordedRuns = {p \in Packages : In(log, RunEntry(p))}
  /\ RecordedRuns' = {p \in Packages : In(log', RunEntry(p))}
BY DEF RecordedOutcome, RecordedRuns, OutcomeIn, RunIn

LEMMA InitRefines == Init => Registry!RegistryInit
<1>. SUFFICES ASSUME Init PROVE Registry!RegistryInit
  OBVIOUS
<1>1. log = <<>> /\ \A x : ~In(log, x)
  BY DEF Init, In
<1>2. RecordedRuns = {} /\ RecordedOutcome = [p \in Packages |-> [g \in Gates |-> NoDecision]]
  BY <1>1, RegistryView DEF OutcomeIn
<1>3. {p \in Packages : disk[p] = "intact"} = {p \in Packages : Parent[p] = NoPackage}
  BY DEF Init
<1>4. Verifies
  BY <1>1 DEF Init, Verifies, Readable, ArtifactsMatch, LogReplays
<1>5. (Verifies \/ InFlight) = TRUE
  BY <1>4
<1>6. RecordedRuns \cup {p \in Packages : disk[p] = "intact"} = {p \in Packages : Parent[p] = NoPackage}
  BY <1>2, <1>3
<1>. QED BY <1>2, <1>5, <1>6 DEF Init, Registry!RegistryInit,
              Registry!Gates, Registry!NoDecision, Gates, NoDecision

(* A step after which the same is recorded and on disk can only have made   *)
(* the ledger lose or regain trust.                                         *)
LEMMA TrustOnly ==
  ASSUME RecordedRuns' = RecordedRuns, RecordedOutcome' = RecordedOutcome,
         Made' = Made, UNCHANGED judgement
  PROVE  [Registry!RegistryNext]_(Registry!registryVars)
<1>1. Trust \in BOOLEAN /\ Trust' \in BOOLEAN
  BY DEF Trust, Verifies, InFlight
<1>2. CASE Trust' = Trust
  BY <1>2 DEF Trust, Made, Registry!registryVars
<1>3. CASE Trust /\ Trust' = FALSE
  BY <1>3 DEF Trust, Made, Registry!RegistryNext, Registry!LoseTrust
<1>4. CASE ~Trust /\ Trust' = TRUE
  BY <1>4 DEF Trust, Made, Registry!RegistryNext, Registry!RegainTrust
<1>. QED BY <1>1, <1>2, <1>3, <1>4

LEMMA SameLog ==
  ASSUME UNCHANGED log
  PROVE  RecordedRuns' = RecordedRuns /\ RecordedOutcome' = RecordedOutcome
BY RegistryView

(* Nothing in the ledger is about a package that is not recorded. *)
LEMMA UnrecordedIsUnmentioned ==
  ASSUME IInv, NEW p \in Packages, p \notin RecordedRuns, NEW i \in DOMAIN log,
         log[i].kind # "robustness_registration"
  PROVE  log[i].package # p
<1>1. log[i] \in Entries /\ log \in Seq(Entries)
  BY DEF IInv, TypeOK
<1>2. CASE log[i].kind = "run"
  BY <1>1, <1>2, EntryFields, RegistryView DEF In
<1>3. CASE Decides(log[i])
  <2>1. RunIn(SubSeq(log, 1, i - 1), log[i].package)
    BY <1>3 DEF IInv, LogReplays, Replays, Decides
  <2>2. In(log, RunEntry(log[i].package))
    BY <1>1, <2>1, Prefixes DEF RunIn
  <2>. QED BY <2>2, RegistryView
<1>. QED BY <1>1, <1>2, <1>3, EntryFields DEF Registers

(* What happens to such a directory does not touch the trust.               *)
LEMMA UnrecordedIsHarmless ==
  ASSUME IInv, NEW p \in Packages, p \notin RecordedRuns,
         \A q \in Packages \ {p} : disk'[q] = disk[q],
         UNCHANGED <<log, tail, joined, judgement, pc>>
  PROVE  Trust' = Trust
<1>1. ArtifactsMatch' = ArtifactsMatch
  <2>1. \A i \in DOMAIN log :
           log[i].kind # "robustness_registration" => log[i].package \in Packages \ {p}
    BY UnrecordedIsUnmentioned, EntryFields DEF IInv, TypeOK, Registers, Decides
  <2>. QED BY <2>1 DEF ArtifactsMatch
<1>2. LogReplays' = LogReplays
  BY DEF LogReplays, Replays, EvaluateOn
<1>3. InFlight' = InFlight
  BY DEF InFlight
<1>. QED BY <1>1, <1>2, <1>3 DEF Trust, Verifies, Readable

LEMMA DiskRefines ==
  ASSUME IInv, NEW p \in Packages, Supersede(p) \/ Edit(p) \/ PutBack(p)
  PROVE  [Registry!RegistryNext]_(Registry!registryVars)
<1>1. /\ UNCHANGED <<log, tail, joined, judgement, pc>>
      /\ \A q \in Packages \ {p} : disk'[q] = disk[q]
      /\ disk[p] = "intact" => disk'[p] = "edited"
      /\ disk[p] # "intact" => disk'[p] = "intact"
  BY DEF Supersede, Edit, PutBack, IInv, TypeOK
<1>2. RecordedRuns' = RecordedRuns /\ RecordedOutcome' = RecordedOutcome
  BY <1>1, SameLog
<1>3. CASE p \in RecordedRuns
  <2>1. Made' = Made
    BY <1>1, <1>2, <1>3 DEF Made
  <2>. QED BY <1>1, <1>2, <2>1, TrustOnly
<1>4. CASE p \notin RecordedRuns
  <2>1. Trust' = Trust
    BY <1>1, <1>4, UnrecordedIsHarmless
  <2>2. CASE disk[p] = "intact"
    <3>1. Made' = Made \ {p} /\ p \in Made
      BY <1>1, <1>2, <1>4, <2>2 DEF Made
    <3>2. Registry!Rework(p)
      BY <1>1, <1>2, <1>4, <2>1, <3>1 DEF Trust, Made, Registry!Rework
    <3>. QED BY <3>2 DEF Registry!RegistryNext
  <2>3. CASE disk[p] # "intact"
    <3>1. Made' = Made \cup {p} /\ p \notin Made
      BY <1>1, <1>2, <1>4, <2>3 DEF Made
    <3>2. LineageHolds(log, p)
      BY <2>3 DEF Supersede, Edit, PutBack, IInv, Rooted, LineageHolds
    <3>3. Parent[p] \in RecordedRuns \cup {NoPackage}
      BY <3>2, LedgerAssumption, RegistryView DEF LineageHolds, RunIn
    <3>4. Registry!Assemble(p)
      BY <1>1, <1>2, <2>1, <3>1, <3>3 DEF Trust, Made, Registry!Assemble
    <3>. QED BY <3>4 DEF Registry!RegistryNext
  <2>. QED BY <2>2, <2>3
<1>. QED BY <1>3, <1>4

(* The visible step of an append: the entry joins what is recorded.         *)
LEMMA WriteEntryRefines ==
  ASSUME IInv, NEW c \in Clients, WriteEntry(c)
  PROVE  [Registry!RegistryNext]_(Registry!registryVars)
<1>. DEFINE e == job[c]
<1>1. /\ pc[c] = "writing" /\ log' = Append(log, e)
      /\ pc' = [pc EXCEPT ![c] = "ending"] /\ UNCHANGED <<disk, judgement>>
  BY DEF WriteEntry
<1>2. /\ e \in Entries /\ log \in Seq(Entries)
      /\ Decides(e) => ~AlreadyDecided(e)
      /\ Replays(log, e)
  BY <1>1, Places DEF IInv, TypeOK, Prepared
<1>. HIDE DEF e
<1>3. Trust
  BY <1>1 DEF Trust, InFlight
<1>8. ~InFlight'
  BY <1>1, Places DEF InFlight, IInv, TypeOK, Sole
<1>4. \A x : In(log', x) <=> In(log, x) \/ x = e
  BY <1>1, <1>2, Appending
<1>5. CASE e.kind = "run"
  <2>1. PICK p \in Packages : e = RunEntry(p) /\ e.package = p
    BY <1>2, <1>5, EntryFields
  <2>2. LineageHolds(log, p) /\ ~RunIn(log, p)
    BY <1>2, <1>5, <2>1 DEF Replays
  <2>3. RecordedRuns' = RecordedRuns \cup {p} /\ p \notin RecordedRuns
    BY <1>4, <2>1, <2>2, RegistryView DEF RunIn, RunEntry
  <2>4. RecordedOutcome' = RecordedOutcome
    <3>1. \A q, g, r : In(log', DecisionEntry(q, g, r)) <=> In(log, DecisionEntry(q, g, r))
      BY <1>4, <2>1 DEF RunEntry, DecisionEntry
    <3>2. \A q, g : OutcomeIn(log', q, g) = OutcomeIn(log, q, g)
      BY <3>1 DEF OutcomeIn
    <3>. QED BY <3>2, RegistryView
  <2>5. Parent[p] \in RecordedRuns \cup {NoPackage}
    BY <2>1, <2>2, LedgerAssumption, RegistryView DEF LineageHolds, RunIn
  <2>6. Trust' \in IF p \in Made THEN BOOLEAN ELSE {FALSE}
    <3>1. CASE p \in Made
      BY <3>1 DEF Trust, Verifies, InFlight
    <3>2. CASE p \notin Made
      <4>1. disk'[p] # "intact"
        BY <1>1, <2>1, <3>2 DEF Made
      <4>2. Len(log) + 1 \in DOMAIN log' /\ log'[Len(log) + 1] = e
        BY <1>1, <1>2, Appending
      <4>3. ~ArtifactsMatch'
        BY <1>5, <2>1, <4>1, <4>2 DEF ArtifactsMatch
      <4>. QED BY <1>8, <3>2, <4>3 DEF Trust, Verifies
    <3>. QED BY <3>1, <3>2
  <2>7. Made' = Made \cup {p}
    BY <1>1, <2>3 DEF Made
  <2>8. Registry!RecordRun(p)
    BY <1>1, <1>3, <2>3, <2>4, <2>5, <2>6, <2>7 DEF Trust, Made, Registry!RecordRun
  <2>. QED BY <2>8 DEF Registry!RegistryNext
<1>6. CASE Decides(e)
  <2>1. PICK p \in Packages, g \in Gates, r \in Outcomes :
           e = DecisionEntry(p, g, r) /\ e.package = p /\ e.gate = g /\ e.result = r
    BY <1>2, <1>6, EntryFields
  <2>2. RunIn(log, p) /\ r = EvaluateOn(log, p, g)
    BY <1>2, <1>6, <2>1 DEF Replays, Decides
  <2>3. \A x : ~In(log, DecisionEntry(p, g, x))
    BY <1>2, <1>6, <2>1 DEF AlreadyDecided, Decided, In, DecisionEntry
  <2>4. RecordedRuns' = RecordedRuns /\ p \in RecordedRuns
    BY <1>4, <2>1, <2>2, RegistryView DEF RunIn, RunEntry, DecisionEntry
  <2>5. /\ OutcomeIn(log, p, g) = NoDecision /\ OutcomeIn(log', p, g) = r
        /\ \A q, h : ~(q = p /\ h = g) => OutcomeIn(log', q, h) = OutcomeIn(log, q, h)
    <3>1. \A q, h, x : In(log', DecisionEntry(q, h, x)) <=>
                         In(log, DecisionEntry(q, h, x)) \/ (q = p /\ h = g /\ x = r)
      BY <1>4, <2>1 DEF DecisionEntry
    <3>2. OutcomeIn(log, p, g) = NoDecision
      BY <2>3 DEF OutcomeIn
    <3>3. \A x : In(log', DecisionEntry(p, g, x)) <=> x = r
      BY <2>3, <3>1
    <3>4. OutcomeIn(log', p, g) = r
      BY <2>1, <3>3 DEF OutcomeIn
    <3>5. ASSUME NEW q, NEW h, ~(q = p /\ h = g)
          PROVE  OutcomeIn(log', q, h) = OutcomeIn(log, q, h)
      <4>1. \A x : In(log', DecisionEntry(q, h, x)) <=> In(log, DecisionEntry(q, h, x))
        BY <3>1, <3>5
      <4>. QED BY <4>1 DEF OutcomeIn
    <3>. QED BY <3>2, <3>4, <3>5
  <2>6. RecordedOutcome' = [RecordedOutcome EXCEPT ![p][g] = r] /\ RecordedOutcome[p][g] = NoDecision
    BY <2>1, <2>5, RegistryView
  <2>7. r = Registry!Evaluation(p, g)
    <3>1. ASSUME NEW h \in Gates
          PROVE  PassedIn(log, p, h) <=> RecordedOutcome[p][h] = "pass"
      <4>1. PassedIn(log, p, h) => OutcomeIn(log, p, h) = "pass"
        <5>1. \A x, y : In(log, DecisionEntry(p, h, x)) /\ In(log, DecisionEntry(p, h, y)) => x = y
          BY DEF IInv, OneDecisionAsFiled, In, DecisionEntry
        <5>. QED BY <5>1 DEF PassedIn, OutcomeIn, Outcomes
      <4>2. OutcomeIn(log, p, h) = "pass" => PassedIn(log, p, h)
        BY DEF OutcomeIn, PassedIn, NoDecision
      <4>. QED BY <2>1, <3>1, <4>1, <4>2, RegistryView
    <3>2. g \in DOMAIN PriorGate => PriorGate[g] \in Gates
      BY DEF PriorGate, Gates
    <3>. QED BY <2>2, <3>1, <3>2
         DEF EvaluateOn, Registry!Evaluation, Registry!Passed, Registry!PriorGate, PriorGate
  <2>8. Trust' \in BOOLEAN /\ Made' = Made
    BY <1>1, <2>4 DEF Trust, Verifies, InFlight, Made
  <2>9. Registry!RecordDecision(p, g)
    BY <1>1, <1>3, <2>4, <2>6, <2>7, <2>8 DEF Trust, Made, Registry!RecordDecision, Registry!NoDecision, NoDecision
  <2>. QED BY <2>1, <2>9 DEF Registry!RegistryNext, Registry!Gates, Gates
<1>7. CASE Registers(e)
  <2>1. \A p, g, r : e # RunEntry(p) /\ e # DecisionEntry(p, g, r)
    BY <1>7 DEF Registers, RunEntry, DecisionEntry
  <2>2. RecordedRuns' = RecordedRuns
    BY <1>4, <2>1, RegistryView
  <2>3. \A q, g : OutcomeIn(log', q, g) = OutcomeIn(log, q, g)
    BY <1>4, <2>1 DEF OutcomeIn
  <2>4. RecordedOutcome' = RecordedOutcome /\ Made' = Made
    BY <1>1, <2>2, <2>3, RegistryView DEF Made
  <2>. QED BY <1>1, <2>2, <2>4, TrustOnly
<1>. QED BY <1>2, <1>5, <1>6, <1>7, EntryFields

LEMMA StepRefines ==
  ASSUME IInv, [Next]_vars
  PROVE  [Registry!RegistryNext]_(Registry!registryVars)
<1>1. ASSUME UNCHANGED <<log, disk, judgement>>
      PROVE  [Registry!RegistryNext]_(Registry!registryVars)
  <2>1. RecordedRuns' = RecordedRuns /\ RecordedOutcome' = RecordedOutcome
    BY <1>1, SameLog
  <2>2. Made' = Made
    BY <1>1, <2>1 DEF Made
  <2>. QED BY <1>1, <2>1, <2>2, TrustOnly
<1>2. CASE UNCHANGED vars
  BY <1>1, <1>2 DEF vars
<1>3. ASSUME NEW c \in Clients, NEW p \in Packages, NEW g \in DecidableGates, Evaluate(c, p, g)
      PROVE  UNCHANGED <<log, disk, judgement>>
  BY <1>3 DEF Evaluate
<1>4. ASSUME NEW c \in Clients,
             File(c) \/ Lock(c) \/ Build(c) \/ GiveUp(c) \/ StartWriting(c) \/ EndLine(c) \/ Crash(c)
      PROVE  UNCHANGED <<log, disk, judgement>>
  BY <1>4 DEF File, Lock, Build, GiveUp, StartWriting, EndLine, Crash
<1>5. CASE Repair
  BY <1>1, <1>5 DEF Repair
<1>. QED BY <1>1, <1>2, <1>3, <1>4, <1>5, WriteEntryRefines, DiskRefines DEF Next

(* What the workflow assumes of the ledger, its file delivers under         *)
(* concurrent appends, crashes and edits.                                   *)
THEOREM RegistryImplemented == Spec => ImplementsRegistry
<1>1. IInv /\ [Next]_vars => [Registry!RegistryNext]_(Registry!registryVars)
  BY StepRefines
<1>. QED BY <1>1, InitRefines, Invariant, PTL DEF Spec, ImplementsRegistry, Registry!RegistrySpec
=============================================================================

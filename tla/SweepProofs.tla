----------------------------- MODULE SweepProofs -----------------------------
(***************************************************************************)
(* What sweeps and assemblers guarantee for every number of them, whatever *)
(* the plans, the cells and the edits of the strategy file.                *)
(***************************************************************************)
EXTENDS Sweep, SequenceTheorems, FiniteSetTheorems, WellFoundedInduction, TLAPS

Places == {"new"} \cup SweepSteps \cup SweepEnds

(* Who got to create the registration of its output, and did not die.      *)
Holders     == {"created", "registered", "recorded", "running", "written",
                "raised", "rejected", "blocked", "complete"}
Registrants == Holders \ {"created"}

Shaped(j) == j = [at |-> j.at, plan |-> j.plan, registered |-> j.registered,
                  receipt |-> j.receipt, trials |-> j.trials, cells |-> j.cells]

Shapes ==
  /\ job = [s \in Sweeps |-> job[s]]
  /\ \A s \in Sweeps : Shaped(job[s]) /\ job[s].at \in Places
  /\ registration = [o \in Outputs |-> registration[o]]
  /\ report = [o \in Outputs |-> report[o]]

Held(s) ==
  LET o == OutputOf[s] IN
  /\ job[s].at # "new" => job[s].registered # Nothing
  /\ job[s].at \in Holders => registration[o] # Nothing
  /\ job[s].at = "created" => report[o] = Nothing
  /\ job[s].at \in Registrants => registration[o] = job[s].registered
  /\ job[s].at = "written" => report[o].status \in {"blocked", "complete"}

(* A live holder is the only one at its output. *)
Alone ==
  \A s, t \in Sweeps :
    s # t /\ OutputOf[s] = OutputOf[t] /\ job[s].at \in Holders => job[t].at \notin Holders

Told(o) ==
  /\ registration[o] = Nothing => report[o] = Nothing
  /\ report[o] # Nothing => registration[o] = report[o].registration

SweepInv ==
  /\ Shapes
  /\ source \in Sources
  /\ \A s \in Sweeps : Held(s)
  /\ Alone
  /\ \A o \in Outputs : Told(o)
-----------------------------------------------------------------------------
LEMMA InitSweepInv == Init => SweepInv
<1>. SUFFICES ASSUME Init PROVE SweepInv
  OBVIOUS
<1>1. \A s \in Sweeps : job[s] = [ at |-> "new", plan |-> Nothing, registered |-> Nothing,
                                   receipt |-> Nothing, trials |-> 0, cells |-> <<>> ]
  BY DEF Init
<1>2. "new" \notin Holders /\ "new" \in Places
  BY DEF Holders, Places
<1>3. Shapes
  BY <1>1, <1>2 DEF Init, Shapes, Shaped
<1>4. \A s \in Sweeps : Held(s)
  BY <1>1, <1>2 DEF Held, Registrants
<1>. QED BY <1>1, <1>2, <1>3, <1>4 DEF Init, SweepInv, Alone, Told

(* What a step of one sweep has to show. *)
LEMMA OneSweep ==
  ASSUME SweepInv, NEW s \in Sweeps, Shapes', UNCHANGED source,
         \A t \in Sweeps \ {s} : job'[t] = job[t],
         Held(s)', Told(OutputOf[s])',
         \A o \in Outputs \ {OutputOf[s]} :
           registration'[o] = registration[o] /\ report'[o] = report[o],
         \/ job[s].at \in Holders
         \/ registration[OutputOf[s]] = Nothing
         \/ UNCHANGED <<registration, report>> /\ job'[s].at \notin Holders
  PROVE  SweepInv'
<1>1. OutputOf[s] \in Outputs /\ \A t \in Sweeps : OutputOf[t] \in Outputs
  BY SweepAssumption
<1>2. \A t \in Sweeps \ {s} : Held(t)
  BY DEF SweepInv
<1>3. ASSUME NEW t \in Sweeps \ {s}, OutputOf[t] = OutputOf[s]
      PROVE  \/ job[t].at \notin Holders
             \/ UNCHANGED <<registration, report>> /\ job'[s].at \notin Holders
  BY <1>2, <1>3 DEF SweepInv, Alone, Held
<1>4. ASSUME NEW t \in Sweeps \ {s}
      PROVE  Held(t)'
  <2>1. Held(t) /\ job'[t] = job[t]
    BY <1>2
  <2>2. CASE OutputOf[t] # OutputOf[s]
    BY <1>1, <2>1, <2>2 DEF Held
  <2>3. CASE job[t].at \notin Holders
    BY <2>1, <2>3 DEF Held, Registrants, Holders
  <2>4. CASE UNCHANGED <<registration, report>>
    BY <2>1, <2>4 DEF Held
  <2>. QED BY <1>3, <2>2, <2>3, <2>4
<1>5. Alone'
  <2>. SUFFICES ASSUME NEW t \in Sweeps, NEW u \in Sweeps, t # u, OutputOf[t] = OutputOf[u],
                       job'[t].at \in Holders, job'[u].at \in Holders
                PROVE  FALSE
    BY DEF Alone
  <2>1. CASE t # s /\ u # s
    BY <2>1 DEF SweepInv, Alone
  <2>2. CASE t = s
    BY <1>3, <2>2
  <2>3. CASE u = s
    BY <1>3, <2>3
  <2>. QED BY <2>1, <2>2, <2>3
<1>6. \A o \in Outputs : Told(o)'
  BY DEF SweepInv, Told
<1>. QED BY <1>4, <1>5, <1>6 DEF SweepInv

LEMMA GoesOn ==
  ASSUME Shapes, NEW s \in Sweeps, NEW to \in Places, Go(s, to)
  PROVE  /\ job' = [t \in Sweeps |-> job'[t]]
         /\ \A t \in Sweeps : Shaped(job'[t]) /\ job'[t].at \in Places
         /\ \A t \in Sweeps \ {s} : job'[t] = job[t]
         /\ job'[s].at = to /\ job'[s].registered = job[s].registered
BY DEF Shapes, Shaped, Go

(* A step that goes on and sets one more field. *)
LEMMA GoesOnWith ==
  ASSUME Shapes, NEW s \in Sweeps, NEW to \in Places, NEW mid, mid = [job EXCEPT ![s].at = to],
         NEW x, \/ job' = [mid EXCEPT ![s].trials = x]
                \/ job' = [mid EXCEPT ![s].receipt = x]
  PROVE  /\ job' = [t \in Sweeps |-> job'[t]]
         /\ \A t \in Sweeps : Shaped(job'[t]) /\ job'[t].at \in Places
         /\ \A t \in Sweeps \ {s} : job'[t] = job[t]
         /\ job'[s].at = to /\ job'[s].registered = job[s].registered
<1>1. /\ mid = [t \in Sweeps |-> mid[t]]
      /\ \A t \in Sweeps : Shaped(mid[t]) /\ mid[t].at \in Places
      /\ \A t \in Sweeps \ {s} : mid[t] = job[t]
      /\ mid[s].at = to /\ mid[s].registered = job[s].registered
  BY DEF Shapes, Shaped
<1>2. /\ job' = [t \in Sweeps |-> job'[t]]
      /\ \A t \in Sweeps \ {s} : job'[t] = mid[t]
      /\ job'[s] \in {[mid[s] EXCEPT !.trials = x], [mid[s] EXCEPT !.receipt = x]}
  BY <1>1
<1>3. Shaped(job'[s]) /\ job'[s].at = to /\ job'[s].registered = job[s].registered
  BY <1>1, <1>2 DEF Shaped
<1>. QED BY <1>1, <1>2, <1>3

LEMMA BeginInv ==
  ASSUME SweepInv, NEW s \in Sweeps, Begin(s)
  PROVE  SweepInv'
<1>1. /\ job[s].at = "new" /\ UNCHANGED <<source, registration, report>>
      /\ source \in Sources /\ Shapes
  BY DEF Begin, SweepInv
<1>2. PICK plan \in Plans, to \in {"planned", "refused"} :
        job' = [[[job EXCEPT ![s].at = to]
                      EXCEPT ![s].plan = plan]
                      EXCEPT ![s].registered = RegistrationOf(s, plan, source)]
  BY DEF Begin
<1>3. RegistrationOf(s, plan, source) # Nothing
  BY <1>1, NothingAssumption
<1>. DEFINE reg == RegistrationOf(s, plan, source)
<1>. HIDE DEF reg
<1>4. PICK mid : mid = [job EXCEPT ![s].at = to]
  OBVIOUS
<1>5. /\ mid = [t \in Sweeps |-> mid[t]]
      /\ \A t \in Sweeps : Shaped(mid[t]) /\ mid[t].at \in Places
      /\ \A t \in Sweeps \ {s} : mid[t] = job[t]
      /\ mid[s].at = to
  BY <1>1, <1>4 DEF Shapes, Shaped, Places, SweepSteps, SweepEnds
<1>6. PICK next : next = [mid EXCEPT ![s].plan = plan]
  OBVIOUS
<1>7. /\ next = [t \in Sweeps |-> next[t]]
      /\ \A t \in Sweeps : Shaped(next[t]) /\ next[t].at \in Places
      /\ \A t \in Sweeps \ {s} : next[t] = job[t]
      /\ next[s].at = to
  BY <1>5, <1>6 DEF Shaped
<1>8. job' = [next EXCEPT ![s].registered = reg]
  BY <1>2, <1>4, <1>6 DEF reg
<1>9. /\ job' = [t \in Sweeps |-> job'[t]]
      /\ \A t \in Sweeps : Shaped(job'[t]) /\ job'[t].at \in Places
      /\ \A t \in Sweeps \ {s} : job'[t] = job[t]
      /\ job'[s].at = to /\ job'[s].registered # Nothing
  BY <1>3, <1>7, <1>8 DEF Shaped, reg
<1>10. to \notin Holders
  BY DEF Holders
<1>11. Held(s)'
  BY <1>9, <1>10 DEF Held, Registrants, Holders
<1>12. Told(OutputOf[s])'
  BY <1>1, SweepAssumption DEF SweepInv, Told
<1>13. Shapes'
  BY <1>1, <1>9 DEF Shapes
<1>. QED BY <1>1, <1>9, <1>10, <1>11, <1>12, <1>13, OneSweep

LEMMA CreateRegistrationInv ==
  ASSUME SweepInv, NEW s \in Sweeps, CreateRegistration(s)
  PROVE  SweepInv'
<1>. DEFINE o == OutputOf[s]
<1>1. /\ job[s].at = "planned" /\ UNCHANGED <<source, report>> /\ Shapes /\ Held(s)
      /\ o \in Outputs /\ Told(o)
  BY SweepAssumption DEF CreateRegistration, SweepInv
<1>2. CASE registration[o] = Nothing
  <2>1. registration' = [registration EXCEPT ![o] = Unwritten] /\ Go(s, "created")
    BY <1>2 DEF CreateRegistration
  <2>2. /\ job' = [t \in Sweeps |-> job'[t]]
        /\ \A t \in Sweeps : Shaped(job'[t]) /\ job'[t].at \in Places
        /\ \A t \in Sweeps \ {s} : job'[t] = job[t]
        /\ job'[s].at = "created" /\ job'[s].registered = job[s].registered
    BY <1>1, <2>1, GoesOn DEF Places, SweepSteps
  <2>3. registration'[o] = Unwritten /\ report[o] = Nothing
    BY <1>1, <1>2, <2>1 DEF Shapes, Told
  <2>4. Held(s)' /\ Told(o)'
    BY <1>1, <2>2, <2>3, NothingAssumption DEF Held, Told, Registrants
  <2>5. Shapes'
    BY <1>1, <2>1, <2>2 DEF Shapes
  <2>. QED BY <1>1, <1>2, <2>1, <2>2, <2>4, <2>5, OneSweep DEF Shapes
<1>3. CASE registration[o] # Nothing
  <2>1. UNCHANGED registration /\ Go(s, "refused")
    BY <1>3 DEF CreateRegistration
  <2>2. /\ job' = [t \in Sweeps |-> job'[t]]
        /\ \A t \in Sweeps : Shaped(job'[t]) /\ job'[t].at \in Places
        /\ \A t \in Sweeps \ {s} : job'[t] = job[t]
        /\ job'[s].at = "refused" /\ job'[s].registered = job[s].registered
    BY <1>1, <2>1, GoesOn DEF Places, SweepEnds
  <2>3. Held(s)' /\ Told(o)' /\ job'[s].at \notin Holders
    BY <1>1, <2>1, <2>2 DEF Held, Told, Registrants, Holders
  <2>4. Shapes'
    BY <1>1, <2>1, <2>2 DEF Shapes
  <2>. QED BY <1>1, <2>1, <2>2, <2>3, <2>4, OneSweep
<1>. QED BY <1>2, <1>3

LEMMA WriteRegistrationInv ==
  ASSUME SweepInv, NEW s \in Sweeps, WriteRegistration(s)
  PROVE  SweepInv'
<1>. DEFINE o == OutputOf[s]
<1>1. /\ job[s].at = "created" /\ UNCHANGED <<source, report>> /\ Shapes /\ Held(s)
      /\ o \in Outputs /\ Go(s, "registered")
      /\ registration' = [registration EXCEPT ![o] = job[s].registered]
  BY SweepAssumption DEF WriteRegistration, SweepInv
<1>2. /\ job' = [t \in Sweeps |-> job'[t]]
      /\ \A t \in Sweeps : Shaped(job'[t]) /\ job'[t].at \in Places
      /\ \A t \in Sweeps \ {s} : job'[t] = job[t]
      /\ job'[s].at = "registered" /\ job'[s].registered = job[s].registered
  BY <1>1, GoesOn DEF Places, SweepSteps
<1>3. registration'[o] = job[s].registered /\ job[s].registered # Nothing /\ report[o] = Nothing
  BY <1>1 DEF Shapes, Held
<1>4. Held(s)' /\ Told(o)' /\ job[s].at \in Holders
  BY <1>1, <1>2, <1>3 DEF Held, Told, Holders
<1>5. Shapes'
  BY <1>1, <1>2 DEF Shapes
<1>. QED BY <1>1, <1>2, <1>4, <1>5, OneSweep DEF Shapes

(* A registered sweep goes on, and the files stay what they are. *)
LEMMA RegistrantInv ==
  ASSUME SweepInv, NEW s \in Sweeps, job[s].at \in Registrants,
         UNCHANGED <<source, registration, report>>,
         NEW to \in Places \ {"new", "created"}, to = "written" => job[s].at = "written",
         job' = [t \in Sweeps |-> job'[t]],
         \A t \in Sweeps : Shaped(job'[t]) /\ job'[t].at \in Places,
         \A t \in Sweeps \ {s} : job'[t] = job[t],
         job'[s].at = to, job'[s].registered = job[s].registered
  PROVE  SweepInv'
<1>1. Held(s) /\ OutputOf[s] \in Outputs /\ Shapes /\ Told(OutputOf[s])
  BY SweepAssumption DEF SweepInv
<1>2. Held(s)' /\ Told(OutputOf[s])' /\ job[s].at \in Holders
  BY <1>1 DEF Held, Told, Registrants, Holders
<1>3. Shapes'
  BY <1>1 DEF Shapes
<1>. QED BY <1>2, <1>3, OneSweep

LEMMA AppendReceiptInv ==
  ASSUME SweepInv, NEW s \in Sweeps, AppendReceipt(s)
  PROVE  SweepInv'
<1>1. /\ job[s].at = "registered" /\ UNCHANGED <<source, registration, report>> /\ Shapes
      /\ "recorded" \in Places \ {"new", "created"} /\ "registered" \in Registrants
  BY DEF AppendReceipt, SweepInv, Places, SweepSteps, Registrants, Holders
<1>2. PICK attempt :
        job' = [[job EXCEPT ![s].at = "recorded"] EXCEPT ![s].receipt = attempt]
  BY DEF AppendReceipt
<1>3. PICK mid : mid = [job EXCEPT ![s].at = "recorded"]
  OBVIOUS
<1>4. job' = [mid EXCEPT ![s].receipt = attempt]
  BY <1>2, <1>3
<1>5. /\ job' = [t \in Sweeps |-> job'[t]]
      /\ \A t \in Sweeps : Shaped(job'[t]) /\ job'[t].at \in Places
      /\ \A t \in Sweeps \ {s} : job'[t] = job[t]
      /\ job'[s].at = "recorded" /\ job'[s].registered = job[s].registered
  BY <1>1, <1>3, <1>4, GoesOnWith
<1>. QED BY <1>1, <1>5, RegistrantInv

LEMMA CountTrialsInv ==
  ASSUME SweepInv, NEW s \in Sweeps, CountTrials(s) \/ CountOwnVariants(s)
  PROVE  SweepInv'
<1>1. /\ job[s].at \in {"recorded", "registered"} /\ UNCHANGED <<source, registration, report>>
      /\ Shapes
      /\ "running" \in Places \ {"new", "created"} /\ {"recorded", "registered"} \subseteq Registrants
  BY DEF CountTrials, CountOwnVariants, SweepInv, Places, SweepSteps, Registrants, Holders
<1>2. PICK trials :
        job' = [[job EXCEPT ![s].at = "running"] EXCEPT ![s].trials = trials]
  BY DEF CountTrials, CountOwnVariants
<1>3. PICK mid : mid = [job EXCEPT ![s].at = "running"]
  OBVIOUS
<1>4. job' = [mid EXCEPT ![s].trials = trials]
  BY <1>2, <1>3
<1>5. /\ job' = [t \in Sweeps |-> job'[t]]
      /\ \A t \in Sweeps : Shaped(job'[t]) /\ job'[t].at \in Places
      /\ \A t \in Sweeps \ {s} : job'[t] = job[t]
      /\ job'[s].at = "running" /\ job'[s].registered = job[s].registered
  BY <1>1, <1>3, <1>4, GoesOnWith
<1>. QED BY <1>1, <1>5, RegistrantInv

LEMMA RunFoldInv ==
  ASSUME SweepInv, NEW s \in Sweeps, RunFold(s)
  PROVE  SweepInv'
<1>1. /\ job[s].at = "running" /\ UNCHANGED <<source, registration, report>> /\ Shapes
      /\ "running" \in Places \ {"new", "created"} /\ "running" \in Registrants
  BY DEF RunFold, SweepInv, Places, SweepSteps, Registrants, Holders
<1>2. PICK cells : job' = [job EXCEPT ![s].cells = cells]
  BY DEF RunFold
<1>3. /\ job' = [t \in Sweeps |-> job'[t]]
      /\ \A t \in Sweeps : Shaped(job'[t]) /\ job'[t].at \in Places
      /\ \A t \in Sweeps \ {s} : job'[t] = job[t]
      /\ job'[s].at = "running" /\ job'[s].registered = job[s].registered
  BY <1>1, <1>2 DEF Shapes, Shaped
<1>. QED BY <1>1, <1>3, RegistrantInv

(* A report is of the registration it is given, complete or blocked. *)
LEMMA ReportsTell ==
  ASSUME NEW cells, NEW plan, NEW registered, NEW receipt, NEW trials
  PROVE  LET r == ReportOf(cells, plan, registered, receipt, trials)
         IN r.registration = registered /\ r.status \in {"blocked", "complete"}
BY DEF ReportOf

LEMMA WriteReportInv ==
  ASSUME SweepInv, NEW s \in Sweeps, WriteReport(s)
  PROVE  SweepInv'
<1>. DEFINE o == OutputOf[s]
<1>1. /\ job[s].at = "running" /\ UNCHANGED <<source, registration>> /\ Shapes /\ Held(s)
      /\ o \in Outputs /\ "running" \in Registrants
      /\ {"raised", "written"} \subseteq Places \ {"new", "created"}
  BY SweepAssumption
     DEF WriteReport, SweepInv, Places, SweepSteps, SweepEnds, Registrants, Holders
<1>2. CASE UNCHANGED report /\ Go(s, "raised")
  <2>1. /\ job' = [t \in Sweeps |-> job'[t]]
        /\ \A t \in Sweeps : Shaped(job'[t]) /\ job'[t].at \in Places
        /\ \A t \in Sweeps \ {s} : job'[t] = job[t]
        /\ job'[s].at = "raised" /\ job'[s].registered = job[s].registered
    BY <1>1, <1>2, GoesOn
  <2>. QED BY <1>1, <1>2, <2>1, RegistrantInv
<1>3. ASSUME NEW r, r.registration = job[s].registered, r.status \in {"blocked", "complete"},
             report' = [report EXCEPT ![o] = r], Go(s, "written")
      PROVE  SweepInv'
  <2>1. /\ job' = [t \in Sweeps |-> job'[t]]
        /\ \A t \in Sweeps : Shaped(job'[t]) /\ job'[t].at \in Places
        /\ \A t \in Sweeps \ {s} : job'[t] = job[t]
        /\ job'[s].at = "written" /\ job'[s].registered = job[s].registered
    BY <1>1, <1>3, GoesOn
  <2>2. report'[o] = r /\ registration[o] = job[s].registered /\ job[s].registered # Nothing
    BY <1>1, <1>3 DEF Shapes, Held, Registrants
  <2>3. Held(s)' /\ Told(o)' /\ job[s].at \in Holders
    BY <1>1, <1>3, <2>1, <2>2 DEF Held, Told, Registrants
  <2>4. Shapes'
    BY <1>1, <1>3, <2>1 DEF Shapes
  <2>. QED BY <1>1, <1>3, <2>1, <2>3, <2>4, OneSweep DEF Shapes
<1>4. PICK r : /\ r = ReportOf(job[s].cells, job[s].plan, job[s].registered,
                                job[s].receipt, job[s].trials)
               /\ r.registration = job[s].registered /\ r.status \in {"blocked", "complete"}
  BY ReportsTell
<1>5. \/ UNCHANGED report /\ Go(s, "raised")
      \/ report' = [report EXCEPT ![o] = r] /\ Go(s, "written")
  BY <1>4 DEF WriteReport
<1>. QED BY <1>2, <1>3, <1>4, <1>5

LEMMA ValidateReportInv ==
  ASSUME SweepInv, NEW s \in Sweeps, ValidateReport(s)
  PROVE  SweepInv'
<1>1. /\ job[s].at = "written" /\ UNCHANGED <<source, registration, report>> /\ Shapes /\ Held(s)
      /\ "written" \in Registrants
      /\ {"rejected", "blocked", "complete"} \subseteq Places \ {"new", "created", "written"}
  BY DEF ValidateReport, SweepInv, Places, SweepEnds, Registrants, Holders
<1>2. PICK to \in {"rejected", "blocked", "complete"} : Go(s, to)
  BY <1>1 DEF ValidateReport, Held
<1>3. /\ job' = [t \in Sweeps |-> job'[t]]
      /\ \A t \in Sweeps : Shaped(job'[t]) /\ job'[t].at \in Places
      /\ \A t \in Sweeps \ {s} : job'[t] = job[t]
      /\ job'[s].at = to /\ job'[s].registered = job[s].registered
  BY <1>1, <1>2, GoesOn
<1>. QED BY <1>1, <1>2, <1>3, RegistrantInv

LEMMA DieInv ==
  ASSUME SweepInv, NEW s \in Sweeps, Die(s)
  PROVE  SweepInv'
<1>1. /\ job[s].at \in SweepSteps /\ UNCHANGED <<source, registration, report>>
      /\ Shapes /\ Held(s) /\ Go(s, "dead") /\ "dead" \in Places /\ "new" \notin SweepSteps
      /\ "dead" \notin Holders /\ Told(OutputOf[s])
  BY SweepAssumption DEF Die, SweepInv, Places, SweepEnds, SweepSteps, Holders
<1>2. /\ job' = [t \in Sweeps |-> job'[t]]
      /\ \A t \in Sweeps : Shaped(job'[t]) /\ job'[t].at \in Places
      /\ \A t \in Sweeps \ {s} : job'[t] = job[t]
      /\ job'[s].at = "dead" /\ job'[s].registered = job[s].registered
  BY <1>1, GoesOn
<1>3. Held(s)' /\ Told(OutputOf[s])'
  BY <1>1, <1>2 DEF Held, Told, Registrants
<1>4. Shapes'
  BY <1>1, <1>2 DEF Shapes
<1>. QED BY <1>1, <1>2, <1>3, <1>4, OneSweep

LEMMA NextSweepInv == SweepInv /\ [Next]_vars => SweepInv'
<1>. SUFFICES ASSUME SweepInv, [Next]_vars PROVE SweepInv'
  OBVIOUS
<1>1. ASSUME NEW s \in Sweeps, SweepStep(s) \/ Die(s)
      PROVE  SweepInv'
  BY <1>1, BeginInv, CreateRegistrationInv, WriteRegistrationInv, AppendReceiptInv,
     CountTrialsInv, RunFoldInv, WriteReportInv, ValidateReportInv, DieInv DEF SweepStep
<1>2. ASSUME UNCHANGED <<registration, report, job>>, source' \in Sources
      PROVE  SweepInv'
  BY <1>2 DEF SweepInv, Shapes, Held, Alone, Told
<1>3. SweepInv => source \in Sources
  BY DEF SweepInv
<1>4. CASE EditSource
  BY <1>2, <1>4 DEF EditSource
<1>5. ASSUME NEW d \in {"work", "package"}, NEW o \in Outputs, BindReproduction(d, o)
      PROVE  SweepInv'
  BY <1>2, <1>3, <1>5 DEF BindReproduction
<1>6. ASSUME NEW a \in Assemblers, NEW o \in Outputs, ReadEvidence(a, o)
      PROVE  SweepInv'
  BY <1>2, <1>3, <1>6 DEF ReadEvidence, evidence
<1>7. ASSUME NEW a \in Assemblers, AssemblyStep(a) \/ DieAssembling(a)
      PROVE  SweepInv'
  BY <1>2, <1>3, <1>7 DEF AssemblyStep, Supersede, Fill, Finish, DieAssembling, evidence
<1>8. CASE UNCHANGED vars
  BY <1>2, <1>3, <1>8 DEF vars, evidence
<1>. QED BY <1>1, <1>4, <1>5, <1>6, <1>7, <1>8 DEF Next

(* The report at an output is of the registration beside it, and is held   *)
(* by one sweep that did not die: _persist_registration is create-only.    *)
THEOREM ReportsKeepTheirRegistration == Spec => []ReportsAreOfTheirRegistration
<1>1. SweepInv => ReportsAreOfTheirRegistration
  <2>. SUFFICES ASSUME SweepInv PROVE ReportsAreOfTheirRegistration
    OBVIOUS
  <2>1. \A o \in Reported : registration[o] = report[o].registration
    BY DEF Reported, SweepInv, Told
  <2>2. /\ SweepSteps \ {"planned"} \subseteq Holders
        /\ Places \ Holders \subseteq {"new", "planned", "refused", "dead"}
    BY DEF Places, SweepSteps, SweepEnds, Holders
  <2>3. ASSUME NEW s \in Sweeps, NEW t \in Sweeps, s # t, OutputOf[s] = OutputOf[t],
               {job[s].at, job[t].at} \cap (SweepSteps \ {"planned"}) # {}
        PROVE  {job[s].at, job[t].at} \cap {"new", "planned", "refused", "dead"} # {}
    <3>1. job[s].at \notin Holders \/ job[t].at \notin Holders
      BY <2>3 DEF SweepInv, Alone
    <3>2. job[s].at \in Places /\ job[t].at \in Places
      BY DEF SweepInv, Shapes
    <3>. QED BY <2>2, <3>1, <3>2
  <2>. QED BY <2>1, <2>3 DEF ReportsAreOfTheirRegistration
<1>. QED BY <1>1, InitSweepInv, NextSweepInv, PTL DEF Spec
-----------------------------------------------------------------------------
(* An assembler goes on only with a report that claims promotion, and no   *)
(* other gets into a candidate.                                            *)
Packed(package) == package = [ by |-> package.by, report |-> package.report,
                               reproduction |-> package.reproduction ]

AssemblyInv ==
  /\ assembly = [a \in Assemblers |-> assembly[a]]
  /\ \A a \in Assemblers :
       /\ assembly[a] = [at |-> assembly[a].at, report |-> assembly[a].report]
       /\ assembly[a].at \in AssemblySteps => assembly[a].report.promotion_eligible
  /\ candidate = [t \in Targets |-> candidate[t]]
  /\ \A t \in Targets :
       candidate[t] # Nothing =>
         /\ Packed(candidate[t])
         /\ candidate[t].report # Nothing => candidate[t].report.promotion_eligible

LEMMA InitAssemblyInv == Init => AssemblyInv
BY DEF Init, AssemblyInv, AssemblySteps

(* An assembler that ends, its target kept or removed. *)
LEMMA EndsInv ==
  ASSUME AssemblyInv, NEW a \in Assemblers, NEW to \in {"refused", "assembled", "dead"},
         assembly' = [assembly EXCEPT ![a].at = to],
         candidate' \in {candidate, [candidate EXCEPT ![TargetOf[a]] = Nothing]}
  PROVE  AssemblyInv'
<1>1. to \notin AssemblySteps
  BY DEF AssemblySteps
<1>2. /\ assembly' = [b \in Assemblers |-> assembly'[b]]
      /\ \A b \in Assemblers :
           /\ assembly'[b] = [at |-> assembly'[b].at, report |-> assembly'[b].report]
           /\ assembly'[b].at \in AssemblySteps => assembly'[b].report.promotion_eligible
  BY <1>1 DEF AssemblyInv
<1>3. /\ candidate' = [t \in Targets |-> candidate'[t]]
      /\ \A t \in Targets : candidate'[t] \in {candidate[t], Nothing}
  BY DEF AssemblyInv
<1>. QED BY <1>2, <1>3 DEF AssemblyInv, Packed

LEMMA ReadEvidenceInv ==
  ASSUME AssemblyInv, NEW a \in Assemblers, NEW o \in Outputs, ReadEvidence(a, o)
  PROVE  AssemblyInv'
<1>1. CASE assembly' = [assembly EXCEPT ![a].at = "refused"] /\ UNCHANGED candidate
  BY <1>1, EndsInv
<1>2. CASE /\ assembly' = [assembly EXCEPT ![a] = [at |-> "read", report |-> report[o]]]
           /\ report[o].promotion_eligible /\ UNCHANGED candidate
  BY <1>2 DEF AssemblyInv, Packed
<1>. QED BY <1>1, <1>2 DEF ReadEvidence

LEMMA SupersedeInv ==
  ASSUME AssemblyInv, NEW a \in Assemblers, Supersede(a)
  PROVE  AssemblyInv'
<1>1. CASE Abandon(a)
  BY <1>1, EndsInv DEF Abandon
<1>2. CASE /\ candidate' = [candidate EXCEPT ![TargetOf[a]] =
                [by |-> a, report |-> Nothing, reproduction |-> reproduction["package"]]]
           /\ assembly' = [assembly EXCEPT ![a].at = "copied"]
  <2>1. assembly[a].at \in AssemblySteps
    BY DEF Supersede, AssemblySteps
  <2>2. /\ assembly' = [b \in Assemblers |-> assembly'[b]]
        /\ \A b \in Assemblers :
             /\ assembly'[b] = [at |-> assembly'[b].at, report |-> assembly'[b].report]
             /\ assembly'[b].at \in AssemblySteps => assembly'[b].report.promotion_eligible
    BY <1>2, <2>1 DEF AssemblyInv
  <2>3. /\ candidate' = [t \in Targets |-> candidate'[t]]
        /\ \A t \in Targets :
             \/ candidate'[t] = candidate[t]
             \/ Packed(candidate'[t]) /\ candidate'[t].report = Nothing
    BY <1>2 DEF AssemblyInv, Packed
  <2>. QED BY <2>2, <2>3 DEF AssemblyInv
<1>. QED BY <1>1, <1>2 DEF Supersede

LEMMA FillInv ==
  ASSUME AssemblyInv, NEW a \in Assemblers, Fill(a)
  PROVE  AssemblyInv'
<1>1. CASE Abandon(a)
  BY <1>1, EndsInv DEF Abandon
<1>2. CASE /\ candidate[TargetOf[a]] # Nothing
           /\ candidate' = [candidate EXCEPT ![TargetOf[a]].report = assembly[a].report]
           /\ assembly' = [assembly EXCEPT ![a].at = "filled"]
  <2>1. assembly[a].at \in AssemblySteps /\ assembly[a].report.promotion_eligible
    BY DEF Fill, AssemblySteps, AssemblyInv
  <2>2. /\ assembly' = [b \in Assemblers |-> assembly'[b]]
        /\ \A b \in Assemblers :
             /\ assembly'[b] = [at |-> assembly'[b].at, report |-> assembly'[b].report]
             /\ assembly'[b].at \in AssemblySteps => assembly'[b].report.promotion_eligible
    BY <1>2, <2>1 DEF AssemblyInv
  <2>3. /\ candidate' = [t \in Targets |-> candidate'[t]]
        /\ \A t \in Targets :
             \/ candidate'[t] = candidate[t]
             \/ Packed(candidate'[t]) /\ candidate'[t].report = assembly[a].report
    BY <1>2, SweepAssumption DEF AssemblyInv, Packed
  <2>. QED BY <2>1, <2>2, <2>3 DEF AssemblyInv
<1>. QED BY <1>1, <1>2 DEF Fill

LEMMA FinishInv ==
  ASSUME AssemblyInv, NEW a \in Assemblers, Finish(a) \/ DieAssembling(a)
  PROVE  AssemblyInv'
BY EndsInv DEF Finish, DieAssembling, Abandon

LEMMA NextAssemblyInv == AssemblyInv /\ [Next]_vars => AssemblyInv'
<1>. SUFFICES ASSUME AssemblyInv, [Next]_vars PROVE AssemblyInv'
  OBVIOUS
<1>1. ASSUME UNCHANGED packages PROVE AssemblyInv'
  BY <1>1 DEF packages, AssemblyInv
<1>2. ASSUME NEW s \in Sweeps, SweepStep(s) \/ Die(s)
      PROVE  UNCHANGED packages
  BY <1>2 DEF SweepStep, Begin, CreateRegistration, WriteRegistration, AppendReceipt,
     CountTrials, CountOwnVariants, RunFold, WriteReport, ValidateReport, Die
<1>3. ASSUME NEW a \in Assemblers, NEW o \in Outputs, ReadEvidence(a, o)
      PROVE  AssemblyInv'
  BY <1>3, ReadEvidenceInv
<1>4. ASSUME NEW a \in Assemblers, AssemblyStep(a) \/ DieAssembling(a)
      PROVE  AssemblyInv'
  BY <1>4, SupersedeInv, FillInv, FinishInv DEF AssemblyStep
<1>. QED BY <1>1, <1>2, <1>3, <1>4 DEF Next, EditSource, BindReproduction, vars

(* Only the last validation makes a candidate, and it found nothing.       *)
LEMMA AssembledIsValidated ==
  ASSUME AssemblyInv, [Next]_vars, NEW a \in Assemblers,
         assembly'[a].at = "assembled", assembly[a].at # "assembled"
  PROVE  LET package == candidate[TargetOf[a]]
         IN /\ package # Nothing /\ package.report # Nothing
            /\ IssuesOf(package.report, ledger, package.reproduction) = {}
            /\ UNCHANGED <<candidate, ledger>>
<1>1. ASSUME UNCHANGED assembly PROVE FALSE
  BY <1>1
<1>2. ASSUME NEW s \in Sweeps, SweepStep(s) \/ Die(s)
      PROVE  UNCHANGED assembly
  BY <1>2 DEF SweepStep, Begin, CreateRegistration, WriteRegistration, AppendReceipt,
     CountTrials, CountOwnVariants, RunFold, WriteReport, ValidateReport, Die, packages
<1>3. ASSUME NEW b \in Assemblers, NEW to, to # "assembled",
             assembly' = [assembly EXCEPT ![b].at = to]
      PROVE  FALSE
  BY <1>3 DEF AssemblyInv
<1>4. ASSUME NEW b \in Assemblers, NEW o \in Outputs, ReadEvidence(b, o)
      PROVE  FALSE
  <2>1. CASE assembly' = [assembly EXCEPT ![b].at = "refused"]
    BY <1>3, <2>1
  <2>2. CASE assembly' = [assembly EXCEPT ![b] = [at |-> "read", report |-> report[o]]]
    BY <2>2 DEF AssemblyInv
  <2>. QED BY <1>4, <2>1, <2>2 DEF ReadEvidence
<1>5. ASSUME NEW b \in Assemblers, Supersede(b) \/ Fill(b) \/ DieAssembling(b) \/ Abandon(b)
      PROVE  FALSE
  BY <1>3, <1>5 DEF Supersede, Fill, DieAssembling, Abandon
<1>6. PICK b \in Assemblers : Finish(b)
  BY <1>1, <1>2, <1>4, <1>5
     DEF Next, EditSource, BindReproduction, vars, packages, AssemblyStep
<1>7. ~Abandon(b) /\ assembly' = [assembly EXCEPT ![b].at = "assembled"]
  BY <1>5, <1>6 DEF Finish
<1>8. a = b
  BY <1>7 DEF AssemblyInv
<1>. QED BY <1>6, <1>7, <1>8 DEF Finish, evidence

(* A report without issues is of the latest receipt at its key.            *)
LEMMA AcceptedIsCurrent ==
  ASSUME NEW r, NEW l, NEW binding, IssuesOf(r, l, binding) = {}
  PROVE  LedgerIsCurrent(r, l)
<1>1. ContractIssues(r, l, binding) = {}
  BY DEF IssuesOf
<1>. QED BY <1>1, Zenon DEF ContractIssues, Flag

(* At the moment a candidate is assembled its report has counted every     *)
(* trial then in the ledger: validate_package runs on the final package.   *)
THEOREM AssembledCountsAllTrials == Spec => CandidatesCountAllTrials
<1>1. ASSUME AssemblyInv, [Next]_vars, NEW a \in Assemblers,
             assembly'[a].at = "assembled", assembly[a].at # "assembled"
      PROVE  LET r == candidate'[TargetOf[a]].report
             IN r.trials = TrialsOf(SameKey(ledger', r.registration))
  <2>. DEFINE package == candidate[TargetOf[a]]
  <2>1. /\ package # Nothing /\ package.report # Nothing
        /\ IssuesOf(package.report, ledger, package.reproduction) = {}
        /\ UNCHANGED <<candidate, ledger>>
    BY <1>1, AssembledIsValidated
  <2>2. LedgerIsCurrent(package.report, ledger)
    BY <2>1, AcceptedIsCurrent
  <2>3. package.report.promotion_eligible
    BY <1>1, <2>1, SweepAssumption DEF AssemblyInv
  <2>4. package.report.trials = TrialsOf(SameKey(ledger, package.report.registration))
    BY <2>2, <2>3 DEF LedgerIsCurrent, RequiresLedger
  <2>. QED BY <2>1, <2>4
<1>2. AssemblyInv /\ [Next]_vars =>
        [\A a \in Assemblers :
            assembly'[a].at = "assembled" /\ assembly[a].at # "assembled" =>
               LET r == candidate'[TargetOf[a]].report
               IN r.trials = TrialsOf(SameKey(ledger', r.registration))]_vars
  BY <1>1
<1>. QED BY <1>2, InitAssemblyInv, NextAssemblyInv, PTL DEF Spec, CandidatesCountAllTrials
-----------------------------------------------------------------------------
(* Recursive definitions over a sequence, by the table that they fill      *)

(* Every set of naturals that is not empty has a least element. *)
LEMMA LeastElement ==
  ASSUME NEW S \in SUBSET Nat, S # {}
  PROVE  \E x \in S : \A y \in S : x <= y
<1>1. PICK x \in S : \A y \in S : ~ (<<y, x>> \in OpToRel(<, Nat))
  BY NatLessThanWellFounded, WFMin, Zenon
<1>2. ASSUME NEW y \in S PROVE x <= y
  <2>1. <<y, x>> \in Nat \X Nat /\ <<y, x>>[1] = y /\ <<y, x>>[2] = x
    OBVIOUS
  <2>2. ~ (y < x)
    BY <1>1, <2>1, Zenon DEF OpToRel
  <2>. QED BY <2>2
<1>. QED BY <1>2

(* A table filled from 0 to n, each entry from the one before it. *)
Fills(f, n, T, b, step) ==
  f \in [0..n -> T] /\ f[0] = b /\ \A i \in 1..n : f[i] = step[i][f[i - 1]]

(* There is such a table, for every step from one entry to the next. *)
LEMMA Recursion ==
  ASSUME NEW T, NEW b \in T, NEW n \in Nat, NEW step \in [1..n -> [T -> T]]
  PROVE  \E f : Fills(f, n, T, b, step)
<1>. DEFINE Bad == {m \in 0..n : ~ \E f : /\ f \in [0..m -> T] /\ f[0] = b
                                          /\ \A i \in 1..m : f[i] = step[i][f[i - 1]]}
<1>1. ASSUME Bad # {} PROVE FALSE
  <2>1. Bad \in SUBSET Nat
    OBVIOUS
  <2>. HIDE DEF Bad
  <2>2. PICK m \in Bad : \A k \in Bad : m <= k
    BY <1>1, <2>1, LeastElement
  <2>. USE DEF Bad
  <2>3. m # 0
    <3>1. ASSUME m = 0 PROVE FALSE
      <4>. DEFINE f == [i \in 0..0 |-> b]
      <4>1. f \in [0..m -> T] /\ f[0] = b /\ 1..m = {}
        BY <3>1
      <4>. HIDE DEF f
      <4>. QED BY <2>2, <4>1
    <3>. QED BY <3>1
  <2>4. m \in 1..n /\ m - 1 \in 0..n /\ m - 1 \notin Bad
    BY <2>2, <2>3
  <2>5. PICK g : /\ g \in [0..(m - 1) -> T] /\ g[0] = b
                 /\ \A i \in 1..(m - 1) : g[i] = step[i][g[i - 1]]
    BY <2>4
  <2>. DEFINE f == [i \in 0..m |-> IF i = m THEN step[m][g[m - 1]] ELSE g[i]]
  <2>6. \A i \in 0..m : i # m => i \in 0..(m - 1)
    BY <2>4
  <2>7. f \in [0..m -> T] /\ f[0] = b
    BY <2>4, <2>5, <2>6
  <2>8. ASSUME NEW i \in 1..m
        PROVE  f[i] = step[i][f[i - 1]]
    <3>1. i - 1 \in 0..m /\ i - 1 # m /\ i \in 0..m
      BY <2>4
    <3>2. f[i - 1] = g[i - 1]
      BY <3>1
    <3>3. CASE i = m
      BY <3>1, <3>2, <3>3
    <3>4. CASE i # m
      <4>1. i \in 1..(m - 1)
        BY <2>4, <3>4
      <4>. QED BY <2>5, <3>1, <3>2, <3>4, <4>1
    <3>. QED BY <3>3, <3>4
  <2>. HIDE DEF f
  <2>. QED BY <2>2, <2>7, <2>8
<1>. HIDE DEF Bad
<1>2. n \notin Bad
  BY <1>1
<1>. QED BY <1>2 DEF Fills, Bad

(* Induction up to n, the property given as the set of those that have it. *)
LEMMA UpTo ==
  ASSUME NEW n \in Nat, NEW S, 0 \in S, \A i \in 1..n : i - 1 \in S => i \in S
  PROVE  \A i \in 0..n : i \in S
<1>. DEFINE Bad == {i \in 0..n : i \notin S}
<1>1. ASSUME Bad # {} PROVE FALSE
  <2>1. Bad \in SUBSET Nat
    OBVIOUS
  <2>. HIDE DEF Bad
  <2>2. PICK i \in Bad : \A j \in Bad : i <= j
    BY <1>1, <2>1, LeastElement
  <2>. USE DEF Bad
  <2>3. i \in 1..n /\ i - 1 \in 0..n /\ ~ i <= i - 1
    BY <2>2
  <2>. QED BY <2>2, <2>3
<1>. QED BY <1>1

(* Any table that runs up a sequence ends in its total. *)
LEMMA TotalIs ==
  ASSUME NEW s \in Seq(Int), NEW f \in [0..Len(s) -> Int], f[0] = 0,
         \A i \in 1..Len(s) : f[i] = f[i - 1] + s[i]
  PROVE  Total(s) = f[Len(s)]
<1>. DEFINE n == Len(s)
            P(g) == g = [i \in 0..n |-> IF i = 0 THEN 0 ELSE g[i - 1] + s[i]]
<1>1. n \in Nat /\ 0 \in 0..n /\ \A i \in 0..n : i # 0 <=> i \in 1..n
  OBVIOUS
<1>2. Total(s) = (CHOOSE g : P(g))[n]
  BY DEF Total
<1>. HIDE DEF n
<1>3. P(f)
  BY <1>1 DEF n
<1>4. ASSUME NEW g, P(g) PROVE g[n] = f[n]
  <2>1. \A i \in 0..n : g[i] = IF i = 0 THEN 0 ELSE g[i - 1] + s[i]
    BY <1>4
  <2>. HIDE DEF P
  <2>2. g[0] = f[0] /\ \A i \in 1..n : g[i - 1] = f[i - 1] => g[i] = f[i]
    BY <1>1, <2>1 DEF n
  <2>. DEFINE S == {i \in 0..n : g[i] = f[i]}
  <2>3. 0 \in S /\ \A i \in 1..n : i - 1 \in S => i \in S
    BY <1>1, <2>2
  <2>. HIDE DEF S
  <2>4. \A i \in 0..n : i \in S
    BY <1>1, <2>3, UpTo
  <2>5. n \in S
    BY <1>1, <2>4
  <2>. QED BY <2>5 DEF S
<1>. HIDE DEF P
<1>. QED BY <1>2, <1>3, <1>4 DEF n

(* And there is one. *)
LEMMA TotalTable ==
  ASSUME NEW s \in Seq(Int)
  PROVE  \E f \in [0..Len(s) -> Int] : f[0] = 0 /\ \A i \in 1..Len(s) : f[i] = f[i - 1] + s[i]
<1>. DEFINE step == [i \in 1..Len(s) |-> [t \in Int |-> t + s[i]]]
<1>1. step \in [1..Len(s) -> [Int -> Int]] /\ Len(s) \in Nat /\ 0 \in Int
  OBVIOUS
<1>2. \A i \in 1..Len(s) : \A t \in Int : step[i][t] = t + s[i]
  OBVIOUS
<1>. HIDE DEF step
<1>3. PICK f : Fills(f, Len(s), Int, 0, step)
  BY <1>1, Recursion, Zenon
<1>4. \A i \in 1..Len(s) : f[i - 1] \in Int
  BY <1>3 DEF Fills
<1>5. ASSUME NEW i \in 1..Len(s)
      PROVE  f[i] = f[i - 1] + s[i]
  <2>1. f[i] = step[i][f[i - 1]] /\ f[i - 1] \in Int
    BY <1>3, <1>4 DEF Fills
  <2>. QED BY <1>2, <2>1
<1>. QED BY <1>3, <1>5 DEF Fills

(* A running total of counts only rises. *)
LEMMA TotalOfPrefix ==
  ASSUME NEW s \in Seq(Nat), NEW m \in 0..Len(s)
  PROVE  /\ Total(s) \in Nat /\ Total(SubSeq(s, 1, m)) \in Nat
         /\ Total(SubSeq(s, 1, m)) <= Total(s)
<1>. DEFINE n == Len(s)
<1>1. s \in Seq(Int) /\ n \in Nat /\ \A i \in 1..n : s[i] \in Nat
  OBVIOUS
<1>2. PICK f \in [0..n -> Int] : f[0] = 0 /\ \A i \in 1..n : f[i] = f[i - 1] + s[i]
  BY <1>1, TotalTable
<1>3. Total(s) = f[n]
  BY <1>1, <1>2, TotalIs
<1>4. /\ SubSeq(s, 1, m) \in Seq(Int) /\ Len(SubSeq(s, 1, m)) = m
      /\ \A i \in 1..m : SubSeq(s, 1, m)[i] = s[i]
  BY <1>1, SubSeqProperties
<1>. HIDE DEF n
<1>5. m \in 0..n
  BY DEF n
<1>6. Total(SubSeq(s, 1, m)) = f[m]
  <2>. DEFINE g == [i \in 0..m |-> f[i]]
  <2>1. /\ g \in [0..m -> Int] /\ g[0] = 0
        /\ \A i \in 1..m : g[i] = g[i - 1] + SubSeq(s, 1, m)[i]
    BY <1>1, <1>2, <1>4, <1>5, SMTT(30)
  <2>2. g[m] = f[m]
    BY <1>5
  <2>. HIDE DEF g
  <2>. QED BY <1>4, <2>1, <2>2, TotalIs
<1>7. \A i \in 0..n : f[i] \in Nat /\ (m <= i => f[m] <= f[i])
  <2>. DEFINE S == {i \in 0..n : f[i] \in Nat /\ (m <= i => f[m] <= f[i])}
  <2>1. 0 \in S
    BY <1>1, <1>2, <1>5
  <2>2. ASSUME NEW i \in 1..n, i - 1 \in S PROVE i \in S
    <3>1. f[i] = f[i - 1] + s[i] /\ s[i] \in Nat /\ f[i - 1] \in Nat /\ i \in 0..n
      BY <1>1, <1>2, <2>2
    <3>2. CASE m <= i - 1
      <4>1. f[m] <= f[i - 1] /\ f[m] \in Int
        BY <1>2, <1>5, <2>2, <3>2
      <4>. QED BY <3>1, <4>1
    <3>3. CASE ~ m <= i - 1
      <4>1. m <= i => m = i
        BY <1>5, <3>3
      <4>. QED BY <3>1, <4>1
    <3>. QED BY <3>2, <3>3
  <2>. HIDE DEF S
  <2>3. \A i \in 0..n : i \in S
    BY <1>1, <2>1, <2>2, UpTo
  <2>. QED BY <2>3 DEF S
<1>. QED BY <1>1, <1>3, <1>5, <1>6, <1>7

(* What is registered, and the receipts there are. *)
Registrations == {RegistrationOf(s, plan, content) : s \in Sweeps, plan \in Plans, content \in Sources}

Receipt == [ registration : Registrations, variants : Nat, attempt : Nat ]

(* The table that SameKey fills. *)
KeyTable(f, es, reg) ==
  /\ f \in [0..Len(es) -> Seq(Receipt)]
  /\ f[0] = <<>>
  /\ \A i \in 1..Len(es) :
       f[i] = IF es[i].registration.key = reg.key THEN Append(f[i - 1], es[i]) ELSE f[i - 1]

(* Any such table ends in the receipts at the key. *)
LEMMA SameKeyIs ==
  ASSUME NEW es \in Seq(Receipt), NEW reg, NEW f, KeyTable(f, es, reg)
  PROVE  SameKey(es, reg) = f[Len(es)]
<1>. DEFINE n == Len(es)
            P(g) == g = [i \in 0..n |->
                           IF i = 0 THEN <<>>
                           ELSE IF es[i].registration.key = reg.key
                             THEN Append(g[i - 1], es[i])
                             ELSE g[i - 1]]
<1>1. n \in Nat /\ 0 \in 0..n /\ \A i \in 0..n : i # 0 <=> i \in 1..n
  OBVIOUS
<1>2. SameKey(es, reg) = (CHOOSE g : P(g))[n]
  BY DEF SameKey
<1>. HIDE DEF n
<1>3. P(f)
  BY <1>1 DEF n, KeyTable
<1>4. ASSUME NEW g, P(g) PROVE g[n] = f[n]
  <2>1. \A i \in 0..n : g[i] = IF i = 0 THEN <<>>
                               ELSE IF es[i].registration.key = reg.key
                                 THEN Append(g[i - 1], es[i])
                                 ELSE g[i - 1]
    BY <1>4
  <2>. HIDE DEF P
  <2>2. g[0] = f[0] /\ \A i \in 1..n : g[i - 1] = f[i - 1] => g[i] = f[i]
    BY <1>1, <2>1 DEF n, KeyTable
  <2>. DEFINE S == {i \in 0..n : g[i] = f[i]}
  <2>3. 0 \in S /\ \A i \in 1..n : i - 1 \in S => i \in S
    BY <1>1, <2>2
  <2>. HIDE DEF S
  <2>4. \A i \in 0..n : i \in S
    BY <1>1, <2>3, UpTo
  <2>5. n \in S
    BY <1>1, <2>4
  <2>. QED BY <2>5 DEF S
<1>. HIDE DEF P
<1>. QED BY <1>2, <1>3, <1>4 DEF n

(* And there is one. *)
LEMMA SameKeyTable ==
  ASSUME NEW es \in Seq(Receipt), NEW reg
  PROVE  \E f : KeyTable(f, es, reg)
<1>. DEFINE step == [i \in 1..Len(es) |-> [t \in Seq(Receipt) |->
                       IF es[i].registration.key = reg.key THEN Append(t, es[i]) ELSE t]]
<1>1. step \in [1..Len(es) -> [Seq(Receipt) -> Seq(Receipt)]] /\ Len(es) \in Nat /\ <<>> \in Seq(Receipt)
  OBVIOUS
<1>2. \A i \in 1..Len(es) : \A t \in Seq(Receipt) :
        step[i][t] = IF es[i].registration.key = reg.key THEN Append(t, es[i]) ELSE t
  OBVIOUS
<1>. HIDE DEF step
<1>3. PICK f : Fills(f, Len(es), Seq(Receipt), <<>>, step)
  BY <1>1, Recursion, Zenon
<1>4. \A i \in 1..Len(es) : f[i - 1] \in Seq(Receipt)
  BY <1>3 DEF Fills
<1>5. ASSUME NEW i \in 1..Len(es)
      PROVE  f[i] = IF es[i].registration.key = reg.key THEN Append(f[i - 1], es[i]) ELSE f[i - 1]
  <2>1. f[i] = step[i][f[i - 1]]
    BY <1>3 DEF Fills
  <2>. QED BY <1>2, <1>4, <2>1, Zenon
<1>. QED BY <1>3, <1>5 DEF Fills, KeyTable

(* The receipts at a key are receipts. *)
LEMMA SameKeyType ==
  ASSUME NEW es \in Seq(Receipt), NEW reg
  PROVE  SameKey(es, reg) \in Seq(Receipt) /\ Len(SameKey(es, reg)) \in Nat
<1>1. PICK f : KeyTable(f, es, reg)
  BY SameKeyTable
<1>2. SameKey(es, reg) = f[Len(es)]
  BY <1>1, SameKeyIs
<1>. QED BY <1>1, <1>2 DEF KeyTable

(* The receipts at a key are added to, and nothing else happens to them. *)
LEMMA SameKeyGrows ==
  ASSUME NEW es \in Seq(Receipt), NEW e \in Receipt, NEW reg
  PROVE  SameKey(Append(es, e), reg) = IF e.registration.key = reg.key
                                         THEN Append(SameKey(es, reg), e)
                                         ELSE SameKey(es, reg)
<1>. DEFINE n == Len(es)
            new == Append(es, e)
            next(t, x) == IF x.registration.key = reg.key THEN Append(t, x) ELSE t
<1>1. /\ n \in Nat /\ new \in Seq(Receipt) /\ Len(new) = n + 1 /\ new[n + 1] = e
      /\ \A i \in 1..n : new[i] = es[i]
  OBVIOUS
<1>2. PICK f : KeyTable(f, es, reg)
  BY SameKeyTable
<1>3. SameKey(es, reg) = f[Len(es)]
  BY <1>2, SameKeyIs
<1>4. f[n] \in Seq(Receipt) /\ SameKey(es, reg) = f[n]
  BY <1>1, <1>2, <1>3 DEF KeyTable
<1>. DEFINE g == [i \in 0..(n + 1) |-> IF i = n + 1 THEN next(f[n], e) ELSE f[i]]
<1>. HIDE DEF n, new, next
<1>5. /\ \A i \in 0..(n + 1) : i # n + 1 => i \in 0..n
      /\ \A i \in 1..(n + 1) : i # n + 1 => i \in 1..n
      /\ \A i \in 1..(n + 1) : i - 1 \in 0..n /\ i - 1 # n + 1 /\ i - 1 \in 0..(n + 1)
      /\ \A i \in 1..(n + 1) : i = n + 1 => i - 1 = n
  BY <1>1
<1>6. next(f[n], e) \in Seq(Receipt)
  BY <1>4 DEF next
<1>7. g \in [0..(n + 1) -> Seq(Receipt)] /\ g[0] = <<>> /\ g[n + 1] = next(f[n], e)
  BY <1>1, <1>2, <1>5, <1>6 DEF n, KeyTable
<1>8. ASSUME NEW i \in 1..(n + 1) PROVE g[i] = next(g[i - 1], new[i])
  <2>1. g[i - 1] = f[i - 1]
    BY <1>5
  <2>2. CASE i = n + 1
    BY <1>1, <1>5, <1>7, <2>1, <2>2
  <2>3. CASE i # n + 1
    <3>1. i \in 1..n /\ g[i] = f[i] /\ new[i] = es[i]
      BY <1>1, <1>5, <2>3
    <3>. QED BY <1>2, <2>1, <3>1 DEF n, next, KeyTable
  <2>. QED BY <2>2, <2>3
<1>. HIDE DEF g
<1>9. SameKey(new, reg) = g[n + 1]
  <2>1. \A i \in 1..Len(new) :
          g[i] = IF new[i].registration.key = reg.key THEN Append(g[i - 1], new[i]) ELSE g[i - 1]
    BY <1>1, <1>8 DEF next
  <2>2. KeyTable(g, new, reg)
    BY <1>1, <1>7, <2>1 DEF KeyTable
  <2>3. SameKey(new, reg) = g[Len(new)]
    BY <1>1, <2>2, SameKeyIs
  <2>. QED BY <1>1, <2>3
<1>. QED BY <1>4, <1>7, <1>9 DEF new, next

(* Fewer receipts, no more trials. *)
LEMMA TrialsOfPrefix ==
  ASSUME NEW es \in Seq(Receipt), NEW m \in 0..Len(es)
  PROVE  /\ TrialsOf(es) \in Nat /\ TrialsOf(SubSeq(es, 1, m)) \in Nat
         /\ TrialsOf(SubSeq(es, 1, m)) <= TrialsOf(es)
<1>. DEFINE s == [i \in DOMAIN es |-> es[i].variants]
            p == SubSeq(es, 1, m)
            q == [i \in DOMAIN p |-> p[i].variants]
<1>1. /\ Len(es) \in Nat /\ DOMAIN es = 1..Len(es) /\ s \in Seq(Nat) /\ Len(s) = Len(es)
      /\ \A i \in 1..Len(es) : es[i] \in Receipt
  <2>1. Len(es) \in Nat /\ DOMAIN es = 1..Len(es) /\ \A i \in 1..Len(es) : es[i] \in Receipt
    OBVIOUS
  <2>2. s \in [1..Len(es) -> Nat]
    BY <2>1 DEF Receipt
  <2>. QED BY <2>1, <2>2
<1>2. p \in Seq(Receipt) /\ Len(p) = m /\ DOMAIN p = 1..m /\ \A i \in 1..m : p[i] = es[i]
  BY SubSeqProperties
<1>3. /\ SubSeq(s, 1, m) \in Seq(Nat) /\ Len(SubSeq(s, 1, m)) = m
      /\ \A i \in 1..m : SubSeq(s, 1, m)[i] = s[i]
  BY <1>1, SubSeqProperties
<1>4. q = SubSeq(s, 1, m)
  <2>1. q \in Seq(Nat) /\ Len(q) = m /\ \A i \in 1..m : q[i] = p[i].variants
    <3>1. q \in [1..m -> Nat] /\ m \in Nat
      BY <1>1, <1>2 DEF Receipt
    <3>. QED BY <1>2, <3>1
  <2>2. \A i \in 1..m : q[i] = SubSeq(s, 1, m)[i]
    BY <1>1, <1>2, <1>3, <2>1
  <2>. HIDE DEF q, s
  <2>. QED BY <1>3, <2>1, <2>2, SeqEqual
<1>5. TrialsOf(es) = Total(s) /\ TrialsOf(p) = Total(q)
  BY DEF TrialsOf
<1>. HIDE DEF s, p, q
<1>6. m \in 0..Len(s)
  BY <1>1
<1>. QED BY <1>1, <1>4, <1>5, <1>6, TotalOfPrefix DEF p
-----------------------------------------------------------------------------
(* What becomes of the records of the sweeps, field by field. *)
Keeps(s) ==
  /\ job'[s].plan = job[s].plan /\ job'[s].registered = job[s].registered
  /\ job'[s].cells = job[s].cells

Others(s) == \A t \in Sweeps \ {s} : job'[t] = job[t]

LEMMA GoDoes ==
  ASSUME Shapes, NEW s \in Sweeps, NEW to, Go(s, to)
  PROVE  /\ Others(s) /\ Keeps(s) /\ job'[s].at = to
         /\ job'[s].receipt = job[s].receipt /\ job'[s].trials = job[s].trials
BY DEF Shapes, Shaped, Go, Keeps, Others

LEMMA BeginDoes ==
  ASSUME Shapes, NEW s \in Sweeps, Begin(s)
  PROVE  /\ Others(s) /\ job'[s].at \in {"planned", "refused"}
         /\ job'[s].plan \in Plans
         /\ job'[s].at = "planned" => InputsAreLegal(job'[s].plan)
         /\ job'[s].registered = RegistrationOf(s, job'[s].plan, source)
         /\ job'[s].receipt = job[s].receipt /\ job'[s].cells = job[s].cells
<1>1. PICK plan \in Plans, to \in {"planned", "refused"} :
        /\ to = "planned" => InputsAreLegal(plan)
        /\ job' = [[[job EXCEPT ![s].at = to]
                         EXCEPT ![s].plan = plan]
                         EXCEPT ![s].registered = RegistrationOf(s, plan, source)]
  <2>1. PICK plan \in Plans :
          job' = [job EXCEPT ![s].at = IF InputsAreLegal(plan) THEN "planned" ELSE "refused",
                             ![s].plan = plan,
                             ![s].registered = RegistrationOf(s, plan, source)]
    BY DEF Begin
  <2>2. CASE InputsAreLegal(plan)
    BY <2>1, <2>2
  <2>3. CASE ~ InputsAreLegal(plan)
    BY <2>1, <2>3
  <2>. QED BY <2>2, <2>3
<1>2. PICK reg : reg = RegistrationOf(s, plan, source)
  OBVIOUS
<1>3. PICK mid : mid = [job EXCEPT ![s].at = to]
  OBVIOUS
<1>4. PICK next : next = [mid EXCEPT ![s].plan = plan]
  OBVIOUS
<1>5. /\ mid = [t \in Sweeps |-> mid[t]] /\ Shaped(mid[s])
      /\ \A t \in Sweeps \ {s} : mid[t] = job[t]
      /\ mid[s].at = to /\ mid[s].receipt = job[s].receipt /\ mid[s].cells = job[s].cells
  BY <1>3 DEF Shapes, Shaped
<1>6. /\ next = [t \in Sweeps |-> next[t]] /\ Shaped(next[s])
      /\ \A t \in Sweeps \ {s} : next[t] = job[t]
      /\ next[s].at = to /\ next[s].plan = plan
      /\ next[s].receipt = job[s].receipt /\ next[s].cells = job[s].cells
  BY <1>4, <1>5 DEF Shaped
<1>7. job' = [next EXCEPT ![s].registered = reg]
  BY <1>1, <1>2, <1>3, <1>4
<1>8. /\ \A t \in Sweeps \ {s} : job'[t] = job[t]
      /\ job'[s].at = to /\ job'[s].plan = plan /\ job'[s].registered = reg
      /\ job'[s].receipt = job[s].receipt /\ job'[s].cells = job[s].cells
  BY <1>6, <1>7 DEF Shaped
<1>. QED BY <1>1, <1>2, <1>8 DEF Others

LEMMA AppendReceiptDoes ==
  ASSUME Shapes, NEW s \in Sweeps, AppendReceipt(s)
  PROVE  /\ Others(s) /\ Keeps(s) /\ job'[s].at = "recorded"
         /\ job'[s].receipt = Len(SameKey(ledger, job[s].registered)) + 1
<1>1. PICK attempt : attempt = Len(SameKey(ledger, job[s].registered)) + 1
  OBVIOUS
<1>2. job' = [[job EXCEPT ![s].at = "recorded"] EXCEPT ![s].receipt = attempt]
  BY <1>1 DEF AppendReceipt
<1>3. PICK mid : mid = [job EXCEPT ![s].at = "recorded"]
  OBVIOUS
<1>4. /\ mid = [t \in Sweeps |-> mid[t]] /\ Shaped(mid[s])
      /\ \A t \in Sweeps \ {s} : mid[t] = job[t]
      /\ mid[s].at = "recorded" /\ mid[s].plan = job[s].plan
      /\ mid[s].registered = job[s].registered /\ mid[s].cells = job[s].cells
  BY <1>3 DEF Shapes, Shaped
<1>5. job' = [mid EXCEPT ![s].receipt = attempt]
  BY <1>2, <1>3
<1>. QED BY <1>1, <1>4, <1>5 DEF Others, Keeps, Shaped

LEMMA CountDoes ==
  ASSUME Shapes, NEW s \in Sweeps, NEW trials,
         job' = [job EXCEPT ![s].at = "running", ![s].trials = trials]
  PROVE  /\ Others(s) /\ Keeps(s) /\ job'[s].at = "running"
         /\ job'[s].receipt = job[s].receipt /\ job'[s].trials = trials
<1>1. PICK mid : mid = [job EXCEPT ![s].at = "running"]
  OBVIOUS
<1>2. /\ mid = [t \in Sweeps |-> mid[t]] /\ Shaped(mid[s])
      /\ \A t \in Sweeps \ {s} : mid[t] = job[t]
      /\ mid[s].at = "running" /\ mid[s].plan = job[s].plan /\ mid[s].receipt = job[s].receipt
      /\ mid[s].registered = job[s].registered /\ mid[s].cells = job[s].cells
  BY <1>1 DEF Shapes, Shaped
<1>3. job' = [mid EXCEPT ![s].trials = trials]
  BY <1>1
<1>. QED BY <1>2, <1>3 DEF Others, Keeps, Shaped

LEMMA RunFoldDoes ==
  ASSUME Shapes, NEW s \in Sweeps, RunFold(s)
  PROVE  /\ Others(s)
         /\ \E outcome \in FoldOutcomes[job[s].plan.mode_of_execution] :
              job'[s].cells = Append(job[s].cells, outcome)
         /\ job'[s].at = job[s].at /\ job'[s].plan = job[s].plan
         /\ job'[s].registered = job[s].registered
         /\ job'[s].receipt = job[s].receipt /\ job'[s].trials = job[s].trials
<1>1. PICK outcome \in FoldOutcomes[job[s].plan.mode_of_execution] :
        job' = [job EXCEPT ![s].cells = Append(job[s].cells, outcome)]
  BY DEF RunFold
<1>2. PICK cells : cells = Append(job[s].cells, outcome)
  OBVIOUS
<1>3. job' = [job EXCEPT ![s].cells = cells]
  BY <1>1, <1>2
<1>4. /\ \A t \in Sweeps \ {s} : job'[t] = job[t]
      /\ job'[s].cells = cells
      /\ job'[s].at = job[s].at /\ job'[s].plan = job[s].plan
      /\ job'[s].registered = job[s].registered
      /\ job'[s].receipt = job[s].receipt /\ job'[s].trials = job[s].trials
  BY <1>3 DEF Shapes, Shaped
<1>. QED BY <1>2, <1>4, Zenon DEF Others
-----------------------------------------------------------------------------
(* A count that covers the receipts at the key up to the one it is of. *)
Covered(receipt, trials, registered, l) ==
  /\ receipt \in 0..Len(SameKey(l, registered))
  /\ trials >= TrialsOf(SubSeq(SameKey(l, registered), 1, receipt))

Claim(s) ==
  /\ job[s].at # "new" => job[s].registered \in Registrations
  /\ job[s].at \in {"new", "planned", "created", "registered"} => job[s].receipt = Nothing
  /\ job[s].at = "recorded" =>
       job[s].receipt \in 0..Len(SameKey(ledger, job[s].registered))
  /\ job[s].at = "running" /\ job[s].receipt # Nothing =>
       Covered(job[s].receipt, job[s].trials, job[s].registered, ledger)

Covers(o) ==
  report[o] # Nothing /\ report[o].receipt # Nothing =>
    Covered(report[o].receipt, report[o].trials, report[o].registration, ledger)

TrialsInv ==
  /\ ledger \in Seq(Receipt)
  /\ \A s \in Sweeps : Claim(s)
  /\ \A o \in Outputs : Covers(o)

LEMMA InitTrialsInv == Init => TrialsInv
<1>. SUFFICES ASSUME Init PROVE TrialsInv
  OBVIOUS
<1>1. ledger \in Seq(Receipt)
  BY DEF Init
<1>2. \A s \in Sweeps : job[s].at = "new" /\ job[s].receipt = Nothing
  BY DEF Init
<1>3. \A o \in Outputs : report[o] = Nothing
  BY DEF Init
<1>. QED BY <1>1, <1>2, <1>3 DEF TrialsInv, Claim, Covers

(* Another receipt does not take anything from what was covered. *)
LEMMA CoveredStays ==
  ASSUME NEW l \in Seq(Receipt), NEW e \in Receipt, NEW registered
  PROVE  /\ SameKey(l, registered) \in Seq(Receipt)
         /\ Len(SameKey(l, registered)) \in Nat
         /\ Len(SameKey(l, registered)) <= Len(SameKey(Append(l, e), registered))
         /\ Len(SameKey(Append(l, e), registered)) \in Nat
         /\ \A receipt, trials :
              Covered(receipt, trials, registered, l) =>
                Covered(receipt, trials, registered, Append(l, e))
<1>. DEFINE old == SameKey(l, registered)
            new == SameKey(Append(l, e), registered)
<1>1. old \in Seq(Receipt) /\ new \in {old, Append(old, e)}
  BY SameKeyType, SameKeyGrows
<1>. HIDE DEF old, new
<1>2. Len(old) \in Nat /\ Len(new) \in Nat /\ Len(old) <= Len(new) /\ new \in Seq(Receipt)
      /\ \A i \in 1..Len(old) : new[i] = old[i]
  BY <1>1, SMTT(30)
<1>3. ASSUME NEW receipt \in 0..Len(old)
      PROVE  SubSeq(new, 1, receipt) = SubSeq(old, 1, receipt) /\ receipt \in 0..Len(new)
  <2>1. receipt \in 0..Len(new)
    BY <1>2
  <2>2. /\ SubSeq(new, 1, receipt) \in Seq(Receipt) /\ SubSeq(old, 1, receipt) \in Seq(Receipt)
        /\ Len(SubSeq(new, 1, receipt)) = receipt /\ Len(SubSeq(old, 1, receipt)) = receipt
        /\ \A i \in 1..receipt : SubSeq(new, 1, receipt)[i] = new[i] /\ SubSeq(old, 1, receipt)[i] = old[i]
    <3>. receipt \in Nat /\ receipt <= Len(old) /\ receipt <= Len(new) /\ old \in Seq(Receipt) /\ new \in Seq(Receipt)
      BY <1>1, <1>2, <2>1
    <3>. QED BY SMTT(30)
  <2>3. \A i \in 1..receipt : new[i] = old[i]
    BY <1>2
  <2>. QED BY <2>1, <2>2, <2>3, SeqEqual
<1>. QED BY <1>1, <1>2, <1>3 DEF Covered, old, new

(* What a step of one sweep that registers nothing has to show. *)
LEMMA OneClaims ==
  ASSUME TrialsInv, NEW s \in Sweeps, Others(s), UNCHANGED ledger, Claim(s)',
         \A o \in Outputs : report'[o] = report[o] \/ Covers(o)'
  PROVE  TrialsInv'
<1>1. \A t \in Sweeps : Claim(t)'
  BY DEF TrialsInv, Claim, Others
<1>2. \A o \in Outputs : Covers(o)'
  BY DEF TrialsInv, Covers
<1>. QED BY <1>1, <1>2 DEF TrialsInv

LEMMA BeginClaims ==
  ASSUME SweepInv, TrialsInv, NEW s \in Sweeps, Begin(s)
  PROVE  TrialsInv'
<1>1. /\ Shapes /\ source \in Sources /\ job[s].at = "new" /\ Claim(s)
      /\ UNCHANGED <<ledger, report>>
  BY DEF SweepInv, TrialsInv, Begin
<1>2. /\ Others(s) /\ job'[s].at \in {"planned", "refused"} /\ job'[s].plan \in Plans
      /\ job'[s].registered = RegistrationOf(s, job'[s].plan, source)
      /\ job'[s].receipt = job[s].receipt
  BY <1>1, BeginDoes
<1>3. job'[s].registered \in Registrations
  BY <1>1, <1>2 DEF Registrations
<1>4. Claim(s)'
  BY <1>1, <1>2, <1>3 DEF Claim
<1>. QED BY <1>1, <1>2, <1>4, OneClaims

LEMMA GoClaims ==
  ASSUME SweepInv, TrialsInv, NEW s \in Sweeps,
         \/ CreateRegistration(s) \/ WriteRegistration(s) \/ ValidateReport(s) \/ Die(s)
  PROVE  TrialsInv'
<1>1. /\ Shapes /\ Claim(s) /\ UNCHANGED <<ledger, report>> /\ job[s].at \in SweepSteps
  BY DEF SweepInv, TrialsInv, CreateRegistration, WriteRegistration, ValidateReport, Die, SweepSteps
<1>2. PICK to : /\ Go(s, to)
                /\ to \notin {"new", "planned", "recorded", "running"}
                /\ to \in {"created", "registered"} => job[s].at \in {"planned", "created"}
  <2>1. CASE CreateRegistration(s)
    BY <2>1 DEF CreateRegistration
  <2>2. CASE WriteRegistration(s)
    BY <2>2 DEF WriteRegistration
  <2>3. CASE ValidateReport(s)
    <3>1. Held(s) /\ job[s].at = "written"
      BY <2>3 DEF SweepInv, ValidateReport
    <3>2. report[OutputOf[s]].status \in {"blocked", "complete"}
      BY <3>1 DEF Held
    <3>. QED BY <2>3, <3>2 DEF ValidateReport
  <2>4. CASE Die(s)
    BY <2>4 DEF Die
  <2>. QED BY <2>1, <2>2, <2>3, <2>4
<1>3. /\ Others(s) /\ Keeps(s) /\ job'[s].at = to
      /\ job'[s].receipt = job[s].receipt /\ job'[s].trials = job[s].trials
  BY <1>1, <1>2, GoDoes
<1>4. Claim(s)'
  BY <1>1, <1>2, <1>3 DEF Claim, Keeps, SweepSteps
<1>. QED BY <1>1, <1>3, <1>4, OneClaims

LEMMA AppendReceiptClaims ==
  ASSUME SweepInv, TrialsInv, NEW s \in Sweeps, AppendReceipt(s)
  PROVE  TrialsInv'
<1>. DEFINE reg == job[s].registered
            l == Len(SameKey(ledger, reg))
            e == [registration |-> reg, variants |-> Cardinality(Variants), attempt |-> l + 1]
<1>1. /\ Shapes /\ job[s].at = "registered" /\ reg \in Registrations /\ UNCHANGED report
      /\ ledger \in Seq(Receipt) /\ ledger' = Append(ledger, e)
  BY DEF SweepInv, TrialsInv, Claim, AppendReceipt
<1>2. /\ Others(s) /\ Keeps(s) /\ job'[s].at = "recorded" /\ job'[s].receipt = l + 1
  BY <1>1, AppendReceiptDoes
<1>3. SameKey(ledger, reg) \in Seq(Receipt) /\ Cardinality(Variants) \in Nat
  BY <1>1, SameKeyType, VariantsAssumption, FS_CardinalityType
<1>4. e \in Receipt /\ l \in Nat /\ e.registration = reg
  BY <1>1, <1>3 DEF Receipt
<1>. HIDE DEF e
<1>5. SameKey(ledger', reg) = Append(SameKey(ledger, reg), e)
  BY <1>1, <1>4, SameKeyGrows
<1>6. Len(SameKey(ledger', reg)) = l + 1
  BY <1>3, <1>5
<1>. HIDE DEF l
<1>7. Claim(s)'
  BY <1>1, <1>2, <1>4, <1>6 DEF Claim, Keeps
<1>8. \A registered :
        /\ Len(SameKey(ledger, registered)) \in Nat /\ Len(SameKey(ledger', registered)) \in Nat
        /\ Len(SameKey(ledger, registered)) <= Len(SameKey(ledger', registered))
        /\ \A receipt, trials :
             Covered(receipt, trials, registered, ledger) => Covered(receipt, trials, registered, ledger')
  BY <1>1, <1>4, CoveredStays
<1>9. ASSUME NEW t \in Sweeps \ {s} PROVE Claim(t)'
  <2>1. Claim(t) /\ job'[t] = job[t]
    BY <1>2 DEF TrialsInv, Others
  <2>2. job[t].receipt \in 0..Len(SameKey(ledger, job[t].registered)) =>
          job[t].receipt \in 0..Len(SameKey(ledger', job[t].registered))
    BY <1>8
  <2>. QED BY <1>8, <2>1, <2>2 DEF Claim
<1>10. \A o \in Outputs : Covers(o)'
  BY <1>1, <1>8 DEF TrialsInv, Covers
<1>11. ledger' \in Seq(Receipt)
  BY <1>1, <1>4
<1>. QED BY <1>7, <1>9, <1>10, <1>11 DEF TrialsInv

LEMMA CountTrialsClaims ==
  ASSUME SweepInv, TrialsInv, NEW s \in Sweeps, CountTrials(s)
  PROVE  TrialsInv'
<1>. DEFINE matching == SameKey(ledger, job[s].registered)
<1>1. /\ Shapes /\ Claim(s) /\ job[s].at = "recorded" /\ UNCHANGED <<ledger, report>>
      /\ ledger \in Seq(Receipt)
      /\ job' = [job EXCEPT ![s].at = "running", ![s].trials = TrialsOf(matching)]
  BY DEF SweepInv, TrialsInv, CountTrials
<1>2. /\ Others(s) /\ Keeps(s) /\ job'[s].at = "running"
      /\ job'[s].receipt = job[s].receipt /\ job'[s].trials = TrialsOf(matching)
  BY <1>1, CountDoes
<1>3. matching \in Seq(Receipt) /\ job[s].receipt \in 0..Len(matching)
  <2>1. matching \in Seq(Receipt)
    BY <1>1, SameKeyType
  <2>. QED BY <1>1, <2>1 DEF Claim
<1>. HIDE DEF matching
<1>4. /\ TrialsOf(matching) \in Nat /\ TrialsOf(SubSeq(matching, 1, job[s].receipt)) \in Nat
      /\ TrialsOf(SubSeq(matching, 1, job[s].receipt)) <= TrialsOf(matching)
  BY <1>3, TrialsOfPrefix
<1>5. Claim(s)'
  BY <1>1, <1>2, <1>3, <1>4 DEF Claim, Keeps, Covered, matching
<1>. QED BY <1>1, <1>2, <1>5, OneClaims

LEMMA RunClaims ==
  ASSUME SweepInv, TrialsInv, NEW s \in Sweeps, CountOwnVariants(s) \/ RunFold(s)
  PROVE  TrialsInv'
<1>1. Shapes /\ Claim(s) /\ UNCHANGED <<ledger, report>>
  BY DEF SweepInv, TrialsInv, CountOwnVariants, RunFold
<1>2. CASE CountOwnVariants(s)
  <2>1. /\ job[s].at = "registered"
        /\ job' = [job EXCEPT ![s].at = "running", ![s].trials = Cardinality(Variants)]
    BY <1>2 DEF CountOwnVariants
  <2>2. Others(s) /\ Keeps(s) /\ job'[s].at = "running" /\ job'[s].receipt = job[s].receipt
    BY <1>1, <2>1, CountDoes
  <2>3. Claim(s)'
    BY <1>1, <2>1, <2>2 DEF Claim, Keeps
  <2>. QED BY <1>1, <2>2, <2>3, OneClaims
<1>3. CASE RunFold(s)
  <2>1. /\ Others(s) /\ job'[s].at = job[s].at /\ job'[s].registered = job[s].registered
        /\ job'[s].receipt = job[s].receipt /\ job'[s].trials = job[s].trials
    BY <1>1, <1>3, RunFoldDoes
  <2>2. Claim(s)'
    BY <1>1, <2>1 DEF Claim
  <2>. QED BY <1>1, <2>1, <2>2, OneClaims
<1>. QED BY <1>2, <1>3

LEMMA WriteReportClaims ==
  ASSUME SweepInv, TrialsInv, NEW s \in Sweeps, WriteReport(s)
  PROVE  TrialsInv'
<1>1. /\ Shapes /\ Claim(s) /\ UNCHANGED ledger /\ job[s].at = "running"
      /\ OutputOf[s] \in Outputs
  BY SweepAssumption DEF SweepInv, TrialsInv, WriteReport
<1>2. PICK r : /\ r = ReportOf(job[s].cells, job[s].plan, job[s].registered,
                                job[s].receipt, job[s].trials)
               /\ r.registration = job[s].registered
               /\ r.receipt = job[s].receipt /\ r.trials = job[s].trials
  <2>. DEFINE r == ReportOf(job[s].cells, job[s].plan, job[s].registered,
                            job[s].receipt, job[s].trials)
  <2>1. /\ r.registration = job[s].registered
        /\ r.receipt = job[s].receipt /\ r.trials = job[s].trials
    BY DEF ReportOf
  <2>. HIDE DEF r
  <2>. QED BY <2>1 DEF r
<1>3. \/ UNCHANGED report /\ Go(s, "raised")
      \/ report' = [report EXCEPT ![OutputOf[s]] = r] /\ Go(s, "written")
  BY <1>2 DEF WriteReport
<1>4. PICK to \in {"raised", "written"} : Go(s, to)
  BY <1>3
<1>5. Others(s) /\ Keeps(s) /\ job'[s].at = to /\ job'[s].receipt = job[s].receipt
  BY <1>1, <1>4, GoDoes
<1>6. Claim(s)'
  BY <1>1, <1>5 DEF Claim, Keeps
<1>7. ASSUME NEW o \in Outputs PROVE report'[o] = report[o] \/ Covers(o)'
  <2>1. report'[o] = report[o] \/ report'[o] = r
    BY <1>1, <1>3 DEF Shapes
  <2>2. r.receipt # Nothing => Covered(r.receipt, r.trials, r.registration, ledger)
    BY <1>1, <1>2 DEF Claim
  <2>. QED BY <1>1, <2>1, <2>2 DEF Covers
<1>. QED BY <1>1, <1>5, <1>6, <1>7, OneClaims

LEMMA NextTrialsInv == SweepInv /\ TrialsInv /\ [Next]_vars => TrialsInv'
<1>. SUFFICES ASSUME SweepInv, TrialsInv, [Next]_vars PROVE TrialsInv'
  OBVIOUS
<1>1. ASSUME NEW s \in Sweeps, SweepStep(s) \/ Die(s)
      PROVE  TrialsInv'
  BY <1>1, BeginClaims, GoClaims, AppendReceiptClaims, CountTrialsClaims, RunClaims,
     WriteReportClaims DEF SweepStep
<1>2. ASSUME UNCHANGED <<ledger, report, job>>
      PROVE  TrialsInv'
  BY <1>2 DEF TrialsInv, Claim, Covers
<1>3. ASSUME NEW d \in {"work", "package"}, NEW o \in Outputs, BindReproduction(d, o)
      PROVE  TrialsInv'
  BY <1>2, <1>3 DEF BindReproduction
<1>4. ASSUME NEW a \in Assemblers, NEW o \in Outputs, ReadEvidence(a, o)
      PROVE  TrialsInv'
  BY <1>2, <1>4 DEF ReadEvidence, evidence
<1>5. ASSUME NEW a \in Assemblers, AssemblyStep(a) \/ DieAssembling(a)
      PROVE  TrialsInv'
  BY <1>2, <1>5 DEF AssemblyStep, Supersede, Fill, Finish, DieAssembling, evidence
<1>6. CASE EditSource
  BY <1>2, <1>6 DEF EditSource
<1>7. CASE UNCHANGED vars
  BY <1>2, <1>7 DEF vars, evidence
<1>. QED BY <1>1, <1>3, <1>4, <1>5, <1>6, <1>7 DEF Next

(* A report that says which receipt it holds has deflated its statistics   *)
(* by every trial registered at its key up to that one, whatever sweeps    *)
(* race, die, or register from another source: run_strategy_sweep counts   *)
(* after its own receipt is in, and receipts are never taken back.         *)
THEOREM ReportsCountTrials == Spec => []TrialsAreCounted
<1>1. TrialsInv => TrialsAreCounted
  BY DEF TrialsInv, Covers, Covered, TrialsAreCounted, Reported
<1>. QED BY <1>1, InitSweepInv, NextSweepInv, InitTrialsInv, NextTrialsInv, PTL DEF Spec
-----------------------------------------------------------------------------
(* Folds cut one stride after the other *)

(* A product with a natural number is monotone. *)
LEMMA Products ==
  ASSUME NEW a \in Int, NEW b \in Int, NEW c \in Nat, a <= b
  PROVE  a * c \in Int /\ b * c \in Int /\ a * c <= b * c
<1>1. PICK d \in Nat : b = a + d
  <2>1. b - a \in Nat /\ b = a + (b - a)
    OBVIOUS
  <2>. QED BY <2>1
<1>2. b * c = a * c + d * c /\ d * c \in Nat /\ a * c \in Int
  BY <1>1
<1>. QED BY <1>2

(* The folds are cut one stride after the other. *)
Cut(plan) ==
  /\ plan \in Plans
  /\ plan.mode = "purged_walk_forward"
  /\ SizesAreLegal(plan)

(* The sizes of a legal plan, and the stride they make. *)
LEMMA CutSizes ==
  ASSUME NEW plan, Cut(plan)
  PROVE  /\ plan.observations \in Nat \ {0} /\ plan.train_size \in Nat \ {0}
         /\ plan.test_size \in Nat \ {0} /\ plan.purge \in Nat /\ plan.embargo \in Nat
         /\ Stride(plan) \in Nat \ {0}
         /\ Stride(plan) = plan.purge + plan.test_size + plan.embargo
<1>1. {plan.observations, plan.train_size, plan.test_size, plan.purge, plan.embargo} \subseteq Int
  BY PlansAssumption, Zenon DEF Cut
<1>2. /\ plan.observations > 0 /\ plan.train_size > 0 /\ plan.test_size > 0
      /\ plan.purge >= 0 /\ plan.embargo >= 0
  BY DEF Cut, SizesAreLegal
<1>. QED BY <1>1, <1>2 DEF Stride

(* The training of a later fold ends at least a stride later. *)
LEMMA Cursors ==
  ASSUME NEW plan, Cut(plan), NEW k \in Nat \ {0}
  PROVE  /\ Cursor(plan, k) \in Nat \ {0}
         /\ Cursor(plan, k + 1) = Cursor(plan, k) + Stride(plan)
         /\ \A j \in 1..k : Cursor(plan, j) \in Nat /\ Cursor(plan, j) <= Cursor(plan, k)
         /\ \A j \in 1..(k - 1) : Cursor(plan, j) + Stride(plan) <= Cursor(plan, k)
<1>. DEFINE d == Stride(plan)
            t == plan.train_size
<1>1. d \in Nat \ {0} /\ t \in Nat \ {0}
  BY CutSizes
<1>2. \A i : Cursor(plan, i) = t + (i - 1) * d
  BY DEF Cursor
<1>. HIDE DEF d, t
<1>3. ASSUME NEW i \in Nat \ {0} PROVE (i - 1) * d \in Nat /\ Cursor(plan, i) \in Nat \ {0}
  BY <1>1, <1>2, <1>3
<1>4. Cursor(plan, k + 1) = Cursor(plan, k) + d
  <2>1. ((k + 1) - 1) * d = (k - 1) * d + d
    BY <1>1
  <2>. QED BY <1>1, <1>2, <1>3, <2>1
<1>5. ASSUME NEW j \in 1..k PROVE Cursor(plan, j) \in Nat /\ Cursor(plan, j) <= Cursor(plan, k)
  <2>1. j - 1 \in Int /\ k - 1 \in Int /\ j - 1 <= k - 1 /\ j \in Nat \ {0}
    OBVIOUS
  <2>2. (j - 1) * d \in Int /\ (k - 1) * d \in Int /\ (j - 1) * d <= (k - 1) * d
    BY <1>1, <2>1, Products
  <2>3. \A x, y \in Int : x <= y => t + x <= t + y
    BY <1>1
  <2>4. t + (j - 1) * d <= t + (k - 1) * d
    BY <2>2, <2>3
  <2>5. Cursor(plan, j) = t + (j - 1) * d /\ Cursor(plan, k) = t + (k - 1) * d
    BY <1>2
  <2>6. Cursor(plan, j) <= Cursor(plan, k)
    BY <2>4, <2>5, Zenon
  <2>. QED BY <1>3, <2>1, <2>6
<1>6. ASSUME NEW j \in 1..(k - 1) PROVE Cursor(plan, j) + d <= Cursor(plan, k)
  <2>1. j + 1 \in 1..k /\ j \in Nat \ {0}
    OBVIOUS
  <2>2. Cursor(plan, j + 1) <= Cursor(plan, k)
    BY <1>5, <2>1
  <2>3. ((j + 1) - 1) * d = (j - 1) * d + d /\ (j - 1) * d \in Nat
    BY <1>1, <1>3, <2>1
  <2>4. t + ((j + 1) - 1) * d = (t + (j - 1) * d) + d
    BY <1>1, <2>3
  <2>5. Cursor(plan, j + 1) = Cursor(plan, j) + d
    BY <1>2, <2>4, Zenon
  <2>. QED BY <2>2, <2>5
<1>. QED BY <1>3, <1>4, <1>5, <1>6 DEF d

(* FoldCount counts a prefix of the folds: exactly those that fit. *)
LEMMA FoldsThatFit ==
  ASSUME NEW plan, Cut(plan)
  PROVE  /\ FoldCount(plan) \in Nat
         /\ \A k \in 1..FoldCount(plan) : FoldFits(plan, k)
<1>. DEFINE o == plan.observations
            F == {k \in 1..o : FoldFits(plan, k)}
<1>1. o \in Nat \ {0} /\ plan.purge \in Nat /\ plan.test_size \in Nat
  BY CutSizes
<1>2. ASSUME NEW k \in F, NEW j \in 1..k PROVE j \in F
  <2>1. j \in 1..o /\ k \in Nat \ {0} /\ FoldFits(plan, k)
    BY <1>1, <1>2
  <2>2. Cursor(plan, j) \in Nat /\ Cursor(plan, j) <= Cursor(plan, k) /\ Cursor(plan, k) \in Nat
    BY <2>1, Cursors
  <2>3. FoldFits(plan, j)
    BY <1>1, <2>1, <2>2 DEF FoldFits
  <2>. QED BY <2>1, <2>3
<1>3. FoldCount(plan) = Cardinality(F)
  BY DEF FoldCount
<1>4. \A k \in F : FoldFits(plan, k) /\ k \in 1..o
  OBVIOUS
<1>. HIDE DEF F
<1>5. CASE F = {}
  BY <1>3, <1>5, FS_EmptySet
<1>6. CASE F # {}
  <2>. DEFINE D == {o - k : k \in F}
  <2>1. D \in SUBSET Nat /\ D # {}
    BY <1>1, <1>4, <1>6
  <2>2. PICK d \in D : \A e \in D : d <= e
    BY <2>1, LeastElement
  <2>3. PICK m \in F : d = o - m
    BY <2>2
  <2>4. ASSUME NEW k \in F PROVE k <= m
    <3>1. o - k \in D /\ k \in 1..o /\ m \in 1..o
      BY <1>4, <2>3
    <3>2. o - m <= o - k
      BY <2>2, <2>3, <3>1
    <3>. QED BY <1>1, <3>1, <3>2
  <2>5. F = 1..m
    <3>1. m \in 1..o
      BY <1>4
    <3>2. \A k \in F : k \in 1..m
      BY <1>4, <2>4, <3>1
    <3>3. \A k \in 1..m : k \in F
      BY <1>2
    <3>. QED BY <3>2, <3>3
  <2>6. Cardinality(F) = m /\ m \in Nat
    BY <1>1, <1>4, <2>3, <2>5, FS_Interval
  <2>. QED BY <1>3, <1>4, <2>5, <2>6
<1>. QED BY <1>5, <1>6

(* The numbers of the k-th fold. *)
CutAs(plan, fold, k) ==
  LET c == Cursor(plan, k) IN
  /\ fold.train_start = 0 /\ fold.train_end = c
  /\ fold.test_start = c + plan.purge
  /\ fold.test_end = c + plan.purge + plan.test_size
  /\ fold.purged = Window(c, c + plan.purge)
  /\ fold.embargoed =
       Window(fold.test_end, Min({plan.observations, fold.test_end + plan.embargo}))

(* What NormalizedFolds makes of a plan to be cut. *)
LEMMA PurgedFolds ==
  ASSUME NEW plan, Cut(plan)
  PROVE  /\ FoldCount(plan) \in Nat
         /\ DOMAIN NormalizedFolds(plan) = 1..FoldCount(plan)
         /\ Len(NormalizedFolds(plan)) = FoldCount(plan)
         /\ \A k \in 1..FoldCount(plan) : CutAs(plan, NormalizedFolds(plan)[k], k)
<1>. DEFINE n == FoldCount(plan)
<1>1. n \in Nat
  BY FoldsThatFit
<1>2. NormalizedFolds(plan) = [k \in 1..n |-> WalkForwardFold(plan, k)]
  BY DEF NormalizedFolds, Cut
<1>. HIDE DEF n
<1>3. DOMAIN NormalizedFolds(plan) = 1..n /\ Len(NormalizedFolds(plan)) = n
  BY <1>1, <1>2
<1>4. ASSUME NEW k \in 1..n PROVE CutAs(plan, NormalizedFolds(plan)[k], k)
  <2>1. NormalizedFolds(plan)[k] = WalkForwardFold(plan, k)
    BY <1>2
  <2>2. CutAs(plan, WalkForwardFold(plan, k), k)
    BY DEF CutAs, WalkForwardFold
  <2>. QED BY <2>1, <2>2
<1>. QED BY <1>1, <1>3, <1>4 DEF n

(* Windows that follow each other share nothing. *)
LEMMA Apart ==
  ASSUME NEW a \in Int, NEW b \in Int, NEW c \in Int, NEW d \in Int, b <= c
  PROVE  Window(a, b) \cap Window(c, d) = {} /\ Window(c, d) \cap Window(a, b) = {}
<1>1. ASSUME NEW x \in Window(a, b), x \in Window(c, d) PROVE FALSE
  BY <1>1 DEF Window
<1>. QED BY <1>1

(* No fold tests what it trained on or purged, nor what another one tests. *)
LEMMA FoldsAreApart ==
  ASSUME NEW plan, Cut(plan), NEW folds, folds = NormalizedFolds(plan), NEW k \in DOMAIN folds
  PROVE  LET tested(i)  == Window(folds[i].test_start, folds[i].test_end)
             trained(i) == Window(folds[i].train_start, folds[i].train_end + plan.purge)
         IN /\ tested(k) \cap trained(k) = {}
            /\ \A j \in 1..(k - 1) : tested(j) \cap tested(k) = {}
<1>1. /\ FoldCount(plan) \in Nat /\ k \in 1..FoldCount(plan)
      /\ \A i \in 1..FoldCount(plan) : CutAs(plan, folds[i], i)
  BY PurgedFolds
<1>2. /\ plan.purge \in Nat /\ plan.test_size \in Nat /\ plan.embargo \in Nat
      /\ Stride(plan) = plan.purge + plan.test_size + plan.embargo
  BY CutSizes
<1>3. k \in Nat \ {0} /\ Cursor(plan, k) \in Nat
      /\ \A j \in 1..(k - 1) : Cursor(plan, j) \in Nat
                               /\ Cursor(plan, j) + Stride(plan) <= Cursor(plan, k)
  BY <1>1, Cursors
<1>4. /\ folds[k].test_start \in Int /\ folds[k].test_end \in Int /\ folds[k].train_start \in Int
      /\ folds[k].train_end + plan.purge \in Int
      /\ folds[k].train_end + plan.purge <= folds[k].test_start
  <2>1. CutAs(plan, folds[k], k)
    BY <1>1
  <2>2. folds[k].train_end + plan.purge = folds[k].test_start
    BY <2>1, Zenon DEF CutAs
  <2>. QED BY <1>2, <1>3, <2>1, <2>2 DEF CutAs
<1>5. ASSUME NEW j \in 1..(k - 1)
      PROVE  /\ folds[j].test_start \in Int /\ folds[j].test_end \in Int
             /\ folds[j].test_end <= folds[k].test_start
  <2>1. CutAs(plan, folds[j], j) /\ CutAs(plan, folds[k], k)
    BY <1>1
  <2>2. /\ Cursor(plan, j) \in Nat
        /\ Cursor(plan, j) + (plan.purge + plan.test_size + plan.embargo) <= Cursor(plan, k)
    BY <1>2, <1>3
  <2>. QED BY <1>2, <1>3, <2>1, <2>2 DEF CutAs
<1>. QED BY <1>4, <1>5, Apart

(* The lesser of two numbers, and the greater. *)
LEMMA MinOfTwo ==
  ASSUME NEW a \in Int, NEW b \in Int
  PROVE  /\ a <= b => Min({a, b}) = a
         /\ b <= a => Min({a, b}) = b
<1>1. a <= b => a \in {a, b} /\ \A y \in {a, b} : a =< y
  OBVIOUS
<1>2. b <= a => b \in {a, b} /\ \A y \in {a, b} : b =< y
  OBVIOUS
<1>3. \A x \in {a, b} : (\A y \in {a, b} : x =< y) => x =< a /\ x =< b /\ x \in Int
  OBVIOUS
<1>4. (\E x \in {a, b} : \A y \in {a, b} : x =< y) =>
        Min({a, b}) \in {a, b} /\ \A y \in {a, b} : Min({a, b}) =< y
  BY DEF Min
<1>5. Min({a, b}) \in {a, b} /\ \A y \in {a, b} : Min({a, b}) =< y
  BY <1>1, <1>2, <1>4
<1>. QED BY <1>5

LEMMA MaxOfTwo ==
  ASSUME NEW a \in Int, NEW b \in Int
  PROVE  /\ a <= b => Max({a, b}) = b
         /\ b <= a => Max({a, b}) = a
<1>1. \E x \in {a, b} : \A y \in {a, b} : x >= y
  <2>1. CASE a <= b
    BY <2>1
  <2>2. CASE b <= a
    BY <2>2
  <2>. QED BY <2>1, <2>2
<1>2. Max({a, b}) \in {a, b} /\ \A y \in {a, b} : Max({a, b}) >= y
  BY <1>1 DEF Max
<1>. QED BY <1>2

(* A window holds as many events as lie between its bounds. *)
LEMMA WindowSize ==
  ASSUME NEW a \in Int, NEW b \in Int, a <= b
  PROVE  Cardinality(Window(a, b)) = b - a
<1>1. Cardinality(a..(b - 1)) = IF a > b - 1 THEN 0 ELSE (b - 1) - a + 1
  BY FS_Interval
<1>. QED BY <1>1 DEF Window

(* What validation asks of one fold of a report. *)
FoldHolds(folds, plan, k) ==
  /\ IsOrdered(folds[k])
  /\ PurgeIsKept(folds[k], plan.purge)
  /\ EmbargoIsKept(folds[k], plan.embargo, k = Len(folds))
  /\ k > 1 => ~ (folds[k].test_start <
                   folds[k - 1].test_end + Cardinality(folds[k - 1].embargoed))

(* Folds of which each holds raise no issue. *)
LEMMA FoldsHold ==
  ASSUME NEW folds, NEW plan, \A k \in DOMAIN folds : FoldHolds(folds, plan, k)
  PROVE  FoldIssues(folds, plan) = {}
BY DEF FoldHolds, FoldIssues

(* A fold keeps its embargo whole unless the sample ends in it. *)
LEMMA EmbargoOf ==
  ASSUME NEW end \in Int, NEW embargo \in Nat, NEW total \in Int, end <= total,
         NEW e, e = Window(end, Min({total, end + embargo}))
  PROVE  /\ Cardinality(e) <= embargo /\ e = Window(end, end + Cardinality(e))
         /\ end + embargo <= total =>
              e = Window(end, end + embargo) /\ Cardinality(e) = embargo
<1>. DEFINE m == Min({total, end + embargo})
<1>1. m \in Int /\ end <= m /\ m <= end + embargo /\ (end + embargo <= total => m = end + embargo)
  BY MinOfTwo
<1>. HIDE DEF m
<1>2. e = Window(end, m)
  BY DEF m
<1>3. Cardinality(e) = m - end
  BY <1>1, <1>2, WindowSize
<1>4. m - end <= embargo /\ end + (m - end) = m
  BY <1>1
<1>5. end + embargo <= total => m = end + embargo /\ m - end = embargo
  BY <1>1
<1>. QED BY <1>2, <1>3, <1>4, <1>5

(* Validation finds nothing wrong with the folds a legal plan is cut into. *)
LEMMA PurgedFoldsHold ==
  ASSUME NEW plan, Cut(plan)
  PROVE  FoldIssues(NormalizedFolds(plan), plan) = {}
<1>. DEFINE folds == NormalizedFolds(plan)
            n == FoldCount(plan)
<1>1. /\ n \in Nat /\ DOMAIN folds = 1..n /\ Len(folds) = n
      /\ \A k \in 1..n : CutAs(plan, folds[k], k)
  BY PurgedFolds
<1>2. /\ plan.purge \in Nat /\ plan.test_size \in Nat \ {0} /\ plan.embargo \in Nat
      /\ plan.observations \in Nat
      /\ Stride(plan) = plan.purge + plan.test_size + plan.embargo
  BY CutSizes
<1>3. \A k \in 1..n : FoldFits(plan, k)
  BY FoldsThatFit
<1>. HIDE DEF folds, n
<1>4. ASSUME NEW k \in 1..n
      PROVE  /\ Cursor(plan, k) \in Nat \ {0}
             /\ folds[k].test_end \in Int /\ folds[k].test_end <= plan.observations
             /\ k < n => folds[k].test_end + plan.embargo <= plan.observations
             /\ k < n => folds[k].test_end + plan.embargo = Cursor(plan, k + 1)
  <2>1. CutAs(plan, folds[k], k) /\ FoldFits(plan, k)
    BY <1>1, <1>3
  <2>2. k \in Nat \ {0} /\ (k < n => k + 1 \in 1..n)
    BY <1>1
  <2>3. Cursor(plan, k) \in Nat \ {0} /\ Cursor(plan, k + 1) = Cursor(plan, k) + Stride(plan)
    BY <2>2, Cursors
  <2>4. k < n => FoldFits(plan, k + 1)
    BY <1>3, <2>2
  <2>5. folds[k].test_end = Cursor(plan, k) + plan.purge + plan.test_size
    BY <2>1 DEF CutAs
  <2>. QED BY <1>2, <2>1, <2>3, <2>4, <2>5 DEF FoldFits
<1>5. ASSUME NEW k \in 1..n
      PROVE  /\ EmbargoIsKept(folds[k], plan.embargo, k = Len(folds))
             /\ k < n => Cardinality(folds[k].embargoed) = plan.embargo
  <2>1. PICK end \in Int : /\ end = folds[k].test_end /\ end <= plan.observations
                           /\ k < n => end + plan.embargo <= plan.observations
    BY <1>4
  <2>2. PICK e : e = folds[k].embargoed
    OBVIOUS
  <2>3. e = Window(end, Min({plan.observations, end + plan.embargo}))
    BY <1>1, <2>1, <2>2 DEF CutAs
  <2>4. /\ Cardinality(e) <= plan.embargo /\ e = Window(end, end + Cardinality(e))
        /\ k < n => e = Window(end, end + plan.embargo) /\ Cardinality(e) = plan.embargo
    <3>1. PICK embargo \in Nat : embargo = plan.embargo
      BY <1>2
    <3>2. PICK total \in Int : total = plan.observations
      BY <1>2
    <3>3. e = Window(end, Min({total, end + embargo}))
      BY <2>1, <2>3, <3>1, <3>2
    <3>4. end <= total
      BY <2>1, <3>2
    <3>5. /\ Cardinality(e) <= embargo /\ e = Window(end, end + Cardinality(e))
          /\ end + embargo <= total =>
               e = Window(end, end + embargo) /\ Cardinality(e) = embargo
      <4>. n \in Nat
        BY <1>1
      <4>. QED BY <3>3, <3>4, EmbargoOf
    <3>. QED BY <2>1, <3>1, <3>2, <3>5
  <2>5. k = Len(folds) \/ k < n
    BY <1>1
  <2>. QED BY <2>1, <2>2, <2>4, <2>5 DEF EmbargoIsKept
<1>6. ASSUME NEW k \in 1..n PROVE FoldHolds(folds, plan, k)
  <2>1. CutAs(plan, folds[k], k) /\ Cursor(plan, k) \in Nat \ {0}
    BY <1>1, <1>4
  <2>2. IsOrdered(folds[k])
    BY <1>2, <2>1 DEF CutAs, IsOrdered
  <2>3. PurgeIsKept(folds[k], plan.purge)
    <3>1. /\ folds[k].test_start - plan.purge = folds[k].train_end /\ folds[k].train_end \in Int
          /\ folds[k].purged = Window(folds[k].train_end, folds[k].test_start)
      BY <1>2, <2>1 DEF CutAs
    <3>2. Max({folds[k].train_end, folds[k].train_end}) = folds[k].train_end
      BY <3>1, MaxOfTwo
    <3>. QED BY <3>1, <3>2 DEF PurgeIsKept
  <2>4. ASSUME k > 1
        PROVE  ~ (folds[k].test_start < folds[k - 1].test_end + Cardinality(folds[k - 1].embargoed))
    <3>1. k - 1 \in 1..n /\ k - 1 < n /\ (k - 1) + 1 = k
      BY <1>1, <2>4
    <3>2. /\ folds[k - 1].test_end + plan.embargo = Cursor(plan, k)
          /\ Cardinality(folds[k - 1].embargoed) = plan.embargo
      BY <1>4, <1>5, <3>1
    <3>3. folds[k].test_start = Cursor(plan, k) + plan.purge
      BY <2>1 DEF CutAs
    <3>. QED BY <1>2, <2>1, <3>2, <3>3
  <2>. QED BY <1>1, <1>5, <2>2, <2>3, <2>4 DEF FoldHolds
<1>. QED BY <1>1, <1>6, FoldsHold DEF folds

(* What a sequence is a function from and to. *)
LEMMA SeqIs ==
  ASSUME NEW X, NEW sq \in Seq(X)
  PROVE  /\ DOMAIN sq = 1..Len(sq) /\ Len(sq) \in Nat
         /\ \A k \in DOMAIN sq : sq[k] \in X
OBVIOUS

(* What NormalizedFolds makes of splits cut by hand. *)
LEMMA DiagnosticFolds ==
  ASSUME NEW plan \in Plans, plan.mode = "diagnostic_splits"
  PROVE  /\ DOMAIN NormalizedFolds(plan) = DOMAIN plan.splits
         /\ Len(NormalizedFolds(plan)) = Len(plan.splits)
         /\ Len(plan.splits) \in Nat /\ DOMAIN plan.splits = 1..Len(plan.splits)
         /\ \A k \in DOMAIN plan.splits :
              /\ plan.splits[k] \in [start : Int, end : Int]
              /\ NormalizedFolds(plan)[k] = DiagnosticFold(plan.splits[k])
<1>1. plan.splits \in Seq([start : Int, end : Int])
  BY PlansAssumption
<1>2. NormalizedFolds(plan) = [k \in DOMAIN plan.splits |-> DiagnosticFold(plan.splits[k])]
  BY DEF NormalizedFolds
<1>3. /\ DOMAIN plan.splits = 1..Len(plan.splits) /\ Len(plan.splits) \in Nat
      /\ \A k \in DOMAIN plan.splits : plan.splits[k] \in [start : Int, end : Int]
  <2>. DEFINE X == [start : Int, end : Int]
  <2>2. plan.splits \in Seq(X)
    BY <1>1
  <2>. HIDE DEF X
  <2>3. /\ DOMAIN plan.splits = 1..Len(plan.splits) /\ Len(plan.splits) \in Nat
        /\ \A k \in DOMAIN plan.splits : plan.splits[k] \in X
    BY <2>2, SeqIs
  <2>. QED BY <2>3 DEF X
<1>4. PICK m \in Nat : m = Len(plan.splits)
  BY <1>3
<1>5. NormalizedFolds(plan) = [k \in 1..m |-> DiagnosticFold(plan.splits[k])]
  BY <1>2, <1>3, <1>4
<1>6. DOMAIN NormalizedFolds(plan) = 1..m /\ Len(NormalizedFolds(plan)) = m
  BY <1>5
<1>7. \A k \in 1..m : NormalizedFolds(plan)[k] = DiagnosticFold(plan.splits[k])
  BY <1>5
<1>. QED BY <1>3, <1>4, <1>6, <1>7

(* Nor with splits cut by hand, when no embargo is asked for. *)
LEMMA DiagnosticFoldsHold ==
  ASSUME NEW plan \in Plans, plan.mode = "diagnostic_splits", SplitsAreLegal(plan),
         plan.embargo = 0
  PROVE  FoldIssues(NormalizedFolds(plan), plan) = {}
<1>. DEFINE folds == NormalizedFolds(plan)
            splits == plan.splits
<1>1. /\ DOMAIN folds = DOMAIN splits /\ DOMAIN splits = 1..Len(splits) /\ Len(splits) \in Nat
      /\ \A k \in DOMAIN splits : /\ splits[k] \in [start : Int, end : Int]
                                  /\ folds[k] = DiagnosticFold(splits[k])
  BY DiagnosticFolds
<1>2. \A k \in DOMAIN splits :
        /\ splits[k].start >= 2 /\ splits[k].end > splits[k].start
        /\ k > 1 => splits[k].start >= splits[k - 1].end
  BY DEF SplitsAreLegal
<1>3. plan.purge \in Int
  BY PlansAssumption
<1>. HIDE DEF folds, splits
<1>4. ASSUME NEW k \in DOMAIN splits
      PROVE  /\ folds[k].train_start = 0
             /\ folds[k].train_end = splits[k].start /\ folds[k].test_start = splits[k].start
             /\ folds[k].test_end = splits[k].end
             /\ folds[k].purged = {} /\ folds[k].embargoed = {}
             /\ splits[k].start \in Int /\ splits[k].end \in Int
  BY <1>1 DEF DiagnosticFold
<1>5. \A a, b \in Int : b <= a => Window(a, b) = {}
  BY DEF Window
<1>6. Cardinality({}) = 0
  BY FS_EmptySet
<1>7. ASSUME NEW k \in DOMAIN splits PROVE FoldHolds(folds, plan, k)
  <2>1. IsOrdered(folds[k])
    BY <1>2, <1>4 DEF IsOrdered
  <2>2. PurgeIsKept(folds[k], plan.purge)
    <3>. DEFINE a == splits[k].start
                m == Max({a, a - plan.purge})
    <3>1. m \in Int /\ a <= m
      BY <1>3, <1>4, MaxOfTwo
    <3>. HIDE DEF m
    <3>2. Window(m, a) = {}
      BY <1>4, <1>5, <3>1
    <3>. QED BY <1>4, <3>2 DEF PurgeIsKept, m
  <2>3. EmbargoIsKept(folds[k], plan.embargo, k = Len(folds))
    <3>1. splits[k].end + 0 = splits[k].end /\ Window(splits[k].end, splits[k].end) = {}
      BY <1>4, <1>5
    <3>2. /\ folds[k].embargoed = {} /\ Cardinality(folds[k].embargoed) = 0
          /\ Window(folds[k].test_end, folds[k].test_end + 0) = {}
      BY <1>4, <1>6, <3>1
    <3>. QED BY <3>2 DEF EmbargoIsKept
  <2>4. ASSUME k > 1
        PROVE  ~ (folds[k].test_start < folds[k - 1].test_end + Cardinality(folds[k - 1].embargoed))
    <3>1. k - 1 \in DOMAIN splits
      BY <1>1, <2>4
    <3>2. /\ folds[k].test_start = splits[k].start /\ folds[k - 1].test_end = splits[k - 1].end
          /\ splits[k].start \in Int /\ splits[k - 1].end \in Int
          /\ Cardinality(folds[k - 1].embargoed) = 0
      BY <1>4, <1>6, <3>1
    <3>3. splits[k].start >= splits[k - 1].end
      BY <1>2, <2>4
    <3>. QED BY <3>2, <3>3
  <2>. QED BY <2>1, <2>2, <2>3, <2>4 DEF FoldHolds
<1>. QED BY <1>1, <1>7, FoldsHold DEF folds
-----------------------------------------------------------------------------
(* Sequences end to end *)

(* The table that FlattenSeq fills. *)
FlatTable(f, ss, T) ==
  /\ f \in [0..Len(ss) -> Seq(T)]
  /\ f[0] = <<>>
  /\ \A i \in 1..Len(ss) : f[i] = f[i - 1] \o ss[i]

(* Any such table ends in the sequence that FlattenSeq makes. *)
LEMMA FlattenIs ==
  ASSUME NEW T, NEW ss \in Seq(Seq(T)), NEW f, FlatTable(f, ss, T)
  PROVE  FlattenSeq(ss) = f[Len(ss)]
<1>. DEFINE n == Len(ss)
            P(g) == g = [i \in 1..n |-> IF i = 1 THEN ss[i] ELSE g[i - 1] \o ss[i]]
<1>1. n \in Nat /\ \A i \in 1..n : ss[i] \in Seq(T)
  OBVIOUS
<1>2. FlattenSeq(ss) = IF n = 0 THEN ss ELSE (CHOOSE g : P(g))[n]
  BY DEF FlattenSeq
<1>3. CASE n = 0
  <2>1. ss = <<>>
    BY <1>3
  <2>. QED BY <1>2, <1>3, <2>1 DEF FlatTable
<1>4. CASE n # 0
  <2>. HIDE DEF n
  <2>. DEFINE h == [i \in 1..n |-> f[i]]
  <2>0. n \in 1..n
    BY <1>1, <1>4
  <2>1. ASSUME NEW i \in 1..n PROVE h[i] = IF i = 1 THEN ss[i] ELSE h[i - 1] \o ss[i]
    <3>1. f[i] = f[i - 1] \o ss[i] /\ ss[i] \in Seq(T)
      BY <1>1 DEF FlatTable, n
    <3>2. CASE i = 1
      <4>1. f[i - 1] = <<>>
        BY <3>2 DEF FlatTable
      <4>. QED BY <3>1, <3>2, <4>1
    <3>3. CASE i # 1
      <4>1. i - 1 \in 1..n
        BY <1>1, <3>3
      <4>. QED BY <3>1, <3>3, <4>1
    <3>. QED BY <3>2, <3>3
  <2>2. P(h)
    <3>1. h = [i \in 1..n |-> IF i = 1 THEN ss[i] ELSE h[i - 1] \o ss[i]]
      <4>1. h = [i \in 1..n |-> h[i]]
        OBVIOUS
      <4>. HIDE DEF h
      <4>. QED BY <2>1, <4>1
    <3>. QED BY <3>1
  <2>3. h[n] = f[n]
    BY <2>0
  <2>. HIDE DEF h
  <2>4. ASSUME NEW g, P(g) PROVE g[n] = h[n]
    <3>1. \A i \in 1..n : g[i] = IF i = 1 THEN ss[i] ELSE g[i - 1] \o ss[i]
      BY <2>4
    <3>. HIDE DEF P
    <3>. DEFINE S == {i \in 0..n : i # 0 => g[i] = h[i]}
    <3>2. 0 \in S
      BY <1>1
    <3>3. ASSUME NEW i \in 1..n, i - 1 \in S PROVE i \in S
      <4>1. g[i] = h[i]
        <5>1. CASE i = 1
          BY <2>1, <3>1, <5>1
        <5>2. CASE i # 1
          <6>1. g[i - 1] = h[i - 1]
            BY <3>3, <5>2
          <6>. QED BY <2>1, <3>1, <5>2, <6>1
        <5>. QED BY <5>1, <5>2
      <4>. QED BY <1>1, <4>1
    <3>. HIDE DEF S
    <3>4. \A i \in 0..n : i \in S
      BY <1>1, <3>2, <3>3, UpTo
    <3>5. n \in S
      BY <1>1, <3>4
    <3>. QED BY <1>4, <3>5 DEF S
  <2>. HIDE DEF P
  <2>. QED BY <1>2, <1>4, <2>2, <2>3, <2>4 DEF n
<1>. QED BY <1>3, <1>4

(* And there is one. *)
LEMMA FlatTableOf ==
  ASSUME NEW T, NEW ss \in Seq(Seq(T))
  PROVE  \E f : FlatTable(f, ss, T)
<1>. DEFINE R == Seq(T)
            step == [i \in 1..Len(ss) |-> [t \in R |-> t \o ss[i]]]
<1>1. step \in [1..Len(ss) -> [R -> R]] /\ Len(ss) \in Nat /\ <<>> \in R
  OBVIOUS
<1>2. \A i \in 1..Len(ss) : \A t \in R : step[i][t] = t \o ss[i]
  OBVIOUS
<1>. HIDE DEF step, R
<1>3. PICK f : Fills(f, Len(ss), R, <<>>, step)
  BY <1>1, Recursion, Zenon
<1>4. \A i \in 1..Len(ss) : f[i - 1] \in R
  BY <1>3 DEF Fills
<1>5. ASSUME NEW i \in 1..Len(ss)
      PROVE  f[i] = f[i - 1] \o ss[i]
  <2>1. f[i] = step[i][f[i - 1]]
    BY <1>3 DEF Fills
  <2>. QED BY <1>2, <1>4, <2>1, Zenon
<1>. QED BY <1>3, <1>5 DEF Fills, FlatTable, R

(* What is stitched together of sequences over a set is one. *)
LEMMA FlattenType ==
  ASSUME NEW T, NEW ss \in Seq(Seq(T))
  PROVE  FlattenSeq(ss) \in Seq(T)
<1>1. PICK f : FlatTable(f, ss, T)
  BY FlatTableOf
<1>2. FlattenSeq(ss) = f[Len(ss)]
  BY <1>1, FlattenIs
<1>3. Len(ss) \in 0..Len(ss)
  OBVIOUS
<1>. QED BY <1>1, <1>2, <1>3 DEF FlatTable

(* The length of two sequences end to end. *)
LEMMA JoinedLength ==
  ASSUME NEW T, NEW s \in Seq(T), NEW t \in Seq(T)
  PROVE  Len(s \o t) = Len(s) + Len(t) /\ Len(s) \in Nat /\ Len(t) \in Nat
OBVIOUS

(* Parts of the same lengths make up wholes of the same length. *)
LEMMA FlattenLengths ==
  ASSUME NEW T, NEW ss \in Seq(Seq(T)), NEW tt \in Seq(Seq(T)), Len(ss) = Len(tt),
         \A i \in 1..Len(ss) : Len(ss[i]) = Len(tt[i])
  PROVE  Len(FlattenSeq(ss)) = Len(FlattenSeq(tt))
<1>1. PICK f : FlatTable(f, ss, T)
  BY FlatTableOf
<1>2. PICK g : FlatTable(g, tt, T)
  BY FlatTableOf
<1>3. FlattenSeq(ss) = f[Len(ss)] /\ FlattenSeq(tt) = g[Len(ss)]
  BY <1>1, <1>2, FlattenIs
<1>. DEFINE n == Len(ss)
            S == {i \in 0..n : Len(f[i]) = Len(g[i])}
<1>4. n \in Nat /\ \A i \in 1..n : ss[i] \in Seq(T) /\ tt[i] \in Seq(T) /\ Len(ss[i]) = Len(tt[i])
  OBVIOUS
<1>. HIDE DEF n
<1>5. /\ f[0] = <<>> /\ g[0] = <<>> /\ \A i \in 0..n : f[i] \in Seq(T) /\ g[i] \in Seq(T)
      /\ \A i \in 1..n : f[i] = f[i - 1] \o ss[i] /\ g[i] = g[i - 1] \o tt[i]
  BY <1>1, <1>2 DEF FlatTable, n
<1>6. 0 \in S
  BY <1>4, <1>5
<1>7. ASSUME NEW i \in 1..n, i - 1 \in S PROVE i \in S
  <2>1. i - 1 \in 0..n /\ i \in 0..n
    BY <1>4
  <2>2. /\ Len(f[i]) = Len(f[i - 1]) + Len(ss[i])
        /\ Len(g[i]) = Len(g[i - 1]) + Len(tt[i])
    <3>1. /\ f[i - 1] \in Seq(T) /\ ss[i] \in Seq(T) /\ f[i] = f[i - 1] \o ss[i]
          /\ g[i - 1] \in Seq(T) /\ tt[i] \in Seq(T) /\ g[i] = g[i - 1] \o tt[i]
      BY <1>4, <1>5, <2>1
    <3>. QED BY <3>1, JoinedLength
  <2>. QED BY <1>4, <1>7, <2>1, <2>2
<1>. HIDE DEF S
<1>8. \A i \in 0..n : i \in S
  BY <1>4, <1>6, <1>7, UpTo
<1>9. n \in S
  BY <1>4, <1>8
<1>. QED BY <1>3, <1>9 DEF S, n

(* A whole is as long as it has parts, when none of them is empty. *)
LEMMA FlattenIsLong ==
  ASSUME NEW T, NEW ss \in Seq(Seq(T)), \A i \in 1..Len(ss) : ss[i] # <<>>
  PROVE  Len(FlattenSeq(ss)) \in Nat /\ Len(FlattenSeq(ss)) >= Len(ss)
<1>1. PICK f : FlatTable(f, ss, T)
  BY FlatTableOf
<1>3. FlattenSeq(ss) = f[Len(ss)]
  BY <1>1, FlattenIs
<1>. DEFINE n == Len(ss)
            S == {i \in 0..n : Len(f[i]) >= i}
<1>4. n \in Nat /\ \A i \in 1..n : ss[i] \in Seq(T) /\ Len(ss[i]) >= 1
  OBVIOUS
<1>. HIDE DEF n
<1>5. /\ f[0] = <<>> /\ \A i \in 0..n : f[i] \in Seq(T)
      /\ \A i \in 1..n : f[i] = f[i - 1] \o ss[i]
  BY <1>1 DEF FlatTable, n
<1>6. 0 \in S
  BY <1>4, <1>5
<1>7. ASSUME NEW i \in 1..n, i - 1 \in S PROVE i \in S
  <2>1. i - 1 \in 0..n /\ i \in 0..n
    BY <1>4
  <2>2. Len(f[i]) = Len(f[i - 1]) + Len(ss[i]) /\ Len(f[i - 1]) \in Nat /\ Len(ss[i]) \in Nat
    BY <1>4, <1>5, <2>1, JoinedLength
  <2>3. Len(f[i - 1]) >= i - 1 /\ Len(ss[i]) >= 1 /\ i \in Nat
    BY <1>4, <1>7
  <2>4. Len(f[i]) >= i
    <3>1. PICK a \in Nat, b \in Nat : a = Len(f[i - 1]) /\ b = Len(ss[i])
      BY <2>2
    <3>2. a >= i - 1 /\ b >= 1 /\ Len(f[i]) = a + b
      BY <2>2, <2>3, <3>1
    <3>3. a + b >= i
      BY <2>3, <3>2
    <3>. QED BY <3>2, <3>3
  <2>. QED BY <2>1, <2>4
<1>. HIDE DEF S
<1>8. \A i \in 0..n : i \in S
  BY <1>4, <1>6, <1>7, UpTo
<1>9. n \in S /\ n \in 0..n
  BY <1>4, <1>8
<1>. QED BY <1>3, <1>5, <1>9 DEF S, n

(* Nothing but zeros add up to zero. *)
LEMMA TotalOfNothing ==
  ASSUME NEW s \in Seq({0})
  PROVE  Total(s) = 0
<1>. DEFINE n == Len(s)
            f == [i \in 0..n |-> 0]
<1>1. s \in Seq(Int) /\ n \in Nat /\ \A i \in 1..n : s[i] = 0
  OBVIOUS
<1>2. f \in [0..n -> Int] /\ f[0] = 0 /\ f[n] = 0
  BY <1>1
<1>3. \A i \in 1..n : f[i] = f[i - 1] + s[i]
  BY <1>1
<1>. HIDE DEF f
<1>. QED BY <1>1, <1>2, <1>3, TotalIs
-----------------------------------------------------------------------------
(* The winner of a fold *)

(* Among finitely many scores there is a greatest. *)
LEMMA BestOf ==
  ASSUME NEW n \in Nat, NEW E \in SUBSET (0..(n - 1)), E # {}, NEW f, \A v \in E : f[v] \in Int
  PROVE  \E v \in E : \A w \in E : f[w] <= f[v]
<1>. DEFINE Best(i) == \E v \in E : v < i /\ \A w \in E : w < i => f[w] <= f[v]
            S == {i \in 0..n : (\E v \in E : v < i) => Best(i)}
<1>1. \A v \in E : v \in Int /\ v >= 0 /\ v < n
  OBVIOUS
<1>2. 0 \in S
  BY <1>1
<1>3. ASSUME NEW i \in 1..n, i - 1 \in S PROVE i \in S
  <2>1. \A w \in E : w < i <=> w < i - 1 \/ w = i - 1
    BY <1>1
  <2>2. CASE i - 1 \notin E
    BY <1>3, <2>1, <2>2
  <2>3. CASE i - 1 \in E /\ ~ \E v \in E : v < i - 1
    BY <2>1, <2>3
  <2>4. CASE i - 1 \in E /\ \E v \in E : v < i - 1
    <3>1. PICK v \in E : v < i - 1 /\ \A w \in E : w < i - 1 => f[w] <= f[v]
      BY <1>3, <2>4
    <3>2. CASE f[i - 1] <= f[v]
      BY <2>1, <3>1, <3>2
    <3>3. CASE f[v] <= f[i - 1]
      <4>1. \A w \in E : w < i => f[w] <= f[i - 1]
        BY <2>1, <2>4, <3>1, <3>3
      <4>2. Best(i)
        BY <2>1, <2>4, <4>1
      <4>. QED BY <4>2
    <3>. QED BY <2>4, <3>2, <3>3
  <2>. QED BY <2>2, <2>3, <2>4
<1>. HIDE DEF S
<1>4. \A i \in 0..n : i \in S
  BY <1>2, <1>3, UpTo
<1>5. n \in S
  BY <1>4
<1>. QED BY <1>1, <1>5 DEF S

(* Min is a member of a set of naturals that is not empty. *)
LEMMA LeastOf ==
  ASSUME NEW S \in SUBSET Nat, S # {}
  PROVE  Min(S) \in S
<1>1. \E x \in S : \A y \in S : x =< y
  BY LeastElement
<1>. QED BY <1>1 DEF Min

(* A fold whose train cells are all complete has a winner, the best of     *)
(* them in training.                                                       *)
LEMMA WinnerIsBest ==
  ASSUME NEW fold \in FoldCells, Complete(fold.train), NEW null \in Variants,
         Cardinality(Variants) >= 2
  PROVE  /\ Winner(fold, null) \in Variants \ {null}
         /\ Winner(fold, null) # Nothing
         /\ \A v \in Variants \ {null} :
              fold.train[v].net <= fold.train[Winner(fold, null)].net
<1>. DEFINE n == Cardinality(Variants)
            E == Variants \ {null}
            f == NetReturns(fold.train)
            M == {v \in E : \A w \in E : f[w] <= f[v]}
<1>1. n \in Nat /\ Variants = 0..(n - 1)
  BY VariantsAssumption, FS_CardinalityType
<1>2. ASSUME NEW v \in Variants PROVE f[v] = fold.train[v].net /\ f[v] \in Int
  <2>1. fold.train[v] \in Cell /\ fold.train[v].status = "complete"
    BY DEF FoldCells, Complete
  <2>2. fold.train[v].net \in Int
    BY <2>1 DEF Cell, FailedCell
  <2>. QED BY <2>2 DEF NetReturns
<1>3. E \in SUBSET (0..(n - 1)) /\ E # {}
  <2>1. 0 \in Variants /\ 1 \in Variants
    BY <1>1
  <2>. QED BY <1>1, <2>1
<1>4. \E v \in E : \A w \in E : f[w] <= f[v]
  <2>. HIDE DEF f, E, n
  <2>1. \A v \in E : f[v] \in Int
    BY <1>2 DEF E
  <2>. QED BY <1>1, <1>3, <2>1, BestOf
<1>5. M \in SUBSET Nat /\ M # {}
  BY <1>1, <1>4
<1>6. Winner(fold, null) = Min(M)
  BY DEF Winner, SelectTrainWinner
<1>7. Winner(fold, null) \in M
  BY <1>5, <1>6, LeastOf
<1>. HIDE DEF f
<1>. QED BY <1>2, <1>7, NothingAssumption
-----------------------------------------------------------------------------
(* Reports *)

(* A report that a sweep made, from a legal plan and the cells of its folds. *)
Sound(plan) == plan \in Plans /\ InputsAreLegal(plan)

Made(r) ==
  /\ Sound(r.plan)
  /\ r.cells \in Seq(FoldCells)
  /\ Len(r.cells) = Len(NormalizedFolds(r.plan))
  /\ r = ReportOf(r.cells, r.plan, r.registration, r.receipt, r.trials)

(* The fields of a report that a sweep made. *)
LEMMA MadeFields ==
  ASSUME NEW r, Made(r)
  PROVE  /\ r.folds = NormalizedFolds(r.plan)
         /\ r.picks = [k \in DOMAIN r.cells |-> Pick(r.cells[k], r.plan.null)]
         /\ r.failed_cells = Cardinality(FailedCells(r.cells)) + (IF AlignmentFailed(r.cells) THEN 1 ELSE 0)
         /\ r.status = IF FailedCells(r.cells) # {} \/ AlignmentFailed(r.cells) THEN "blocked" ELSE "complete"
         /\ r.selected = SelectedReturns(r.cells, r.plan.null)
         /\ r.matrix = MatrixOf(r.cells, r.plan.null)
         /\ r.statistics = Statistics(r.cells, r.plan.null, r.trials)
         /\ r.null_status = NullStatus(r.cells, r.plan)
         /\ r.stability = [ status    |-> StabilityStatus(r.cells, r.plan),
                            neighbors |-> NeighborIndices(r.cells, r.plan.null),
                            worst     |-> WorstNeighbor(NeighborReturns(r.cells, r.plan.null)) ]
         /\ r.stress = Stress(r.cells, r.plan)
         /\ r.promotion_eligible = PromotionEligible(r.cells, r.plan, r.receipt, r.trials)
<1>. PICK cells, plan : cells = r.cells /\ plan = r.plan
  OBVIOUS
<1>. PICK registration_, receipt, trials :
       registration_ = r.registration /\ receipt = r.receipt /\ trials = r.trials
  OBVIOUS
<1>1. r = ReportOf(cells, plan, registration_, receipt, trials)
  BY DEF Made
<1>2. /\ r.folds = NormalizedFolds(plan)
      /\ r.picks = [k \in DOMAIN cells |-> Pick(cells[k], plan.null)]
      /\ r.failed_cells = Cardinality(FailedCells(cells)) + (IF AlignmentFailed(cells) THEN 1 ELSE 0)
  BY <1>1 DEF ReportOf
<1>3. /\ r.status = IF FailedCells(cells) # {} \/ AlignmentFailed(cells) THEN "blocked" ELSE "complete"
      /\ r.selected = SelectedReturns(cells, plan.null)
      /\ r.matrix = MatrixOf(cells, plan.null)
      /\ r.statistics = Statistics(cells, plan.null, trials)
      /\ r.null_status = NullStatus(cells, plan)
  BY <1>1 DEF ReportOf
<1>4. /\ r.stability = [ status    |-> StabilityStatus(cells, plan),
                         neighbors |-> NeighborIndices(cells, plan.null),
                         worst     |-> WorstNeighbor(NeighborReturns(cells, plan.null)) ]
      /\ r.stress = Stress(cells, plan)
  BY <1>1 DEF ReportOf
<1>5. r.promotion_eligible = PromotionEligible(cells, plan, receipt, trials)
  BY <1>1 DEF ReportOf
<1>. QED BY <1>2, <1>3, <1>4, <1>5

(* Where nothing failed, every cell is complete. *)
LEMMA NothingFailed ==
  ASSUME NEW cells \in Seq(FoldCells), FailedCells(cells) = {}, NEW k \in DOMAIN cells
  PROVE  /\ cells[k] \in FoldCells
         /\ Complete(cells[k].train) /\ Complete(cells[k].test)
         /\ \A v \in Variants, phase \in {"train", "test"} :
              cells[k][phase][v].periodic \in Seq(Int) \ {<<>>}
<1>1. cells[k] \in FoldCells
  OBVIOUS
<1>2. ASSUME NEW phase \in {"train", "test"}, NEW v \in Variants
      PROVE  cells[k][phase][v] \in Cell /\ cells[k][phase][v].status = "complete"
  <2>1. <<k, phase, v>> \in CellsOf(cells)
    BY DEF CellsOf
  <2>2. cells[k][phase][v].status # "failed"
    BY <2>1 DEF FailedCells
  <2>3. cells[k][phase][v] \in Cell
    BY <1>1 DEF FoldCells
  <2>. QED BY <2>2, <2>3 DEF Cell, FailedCell
<1>3. \A v \in Variants, phase \in {"train", "test"} :
        cells[k][phase][v].periodic \in Seq(Int) \ {<<>>}
  BY <1>2 DEF Cell, FailedCell
<1>4. cells[k]["train"] = cells[k].train /\ cells[k]["test"] = cells[k].test
  OBVIOUS
<1>. QED BY <1>1, <1>2, <1>3, <1>4 DEF Complete

OutOfSample(r) ==
  LET contenders == Variants \ {r.plan.null}
      tested(k)  == Window(r.folds[k].test_start, r.folds[k].test_end)
      trained(k) == Window(r.folds[k].train_start, r.folds[k].train_end + r.plan.purge)
  IN /\ Total(r.selected) > 0
     /\ \A k \in DOMAIN r.folds :
          /\ tested(k) \cap trained(k) = {}
          /\ \A j \in 1..(k - 1) : tested(j) \cap tested(k) = {}
          /\ \A v \in contenders :
               r.cells[k].train[v].net <= r.cells[k].train[r.picks[k].winner].net
          /\ \A phase \in {"train", "test"} :
               Range(r.cells[k][phase][r.plan.null].periodic) \subseteq {0}

(* A null that never moved returned nothing. *)
LEMMA FlatNull ==
  ASSUME NEW cells \in Seq(FoldCells), NEW plan, plan.null \in Variants,
         FailedCells(cells) = {}, NullStructurePasses(cells, plan)
  PROVE  /\ \A k \in DOMAIN cells, phase \in {"train", "test"} :
              Range(cells[k][phase][plan.null].periodic) \subseteq {0}
         /\ Total(NullReturns(cells, plan.null)) = 0
<1>. DEFINE null == plan.null
<1>1. ASSUME NEW k \in DOMAIN cells, NEW phase \in {"train", "test"}
      PROVE  /\ cells[k][phase][null].periodic \in Seq({0})
             /\ Range(cells[k][phase][null].periodic) \subseteq {0}
  <2>1. <<k, phase, null>> \in CellsOf(cells)
    BY DEF CellsOf
  <2>2. \A i \in DOMAIN cells[k][phase][null].periodic : cells[k][phase][null].periodic[i] = 0
    BY <2>1 DEF NullStructurePasses
  <2>3. cells[k][phase][null].periodic \in Seq(Int)
    BY NothingFailed
  <2>4. PICK p \in Seq(Int) : p = cells[k][phase][null].periodic
    BY <2>3
  <2>5. p \in Seq({0}) /\ Range(p) \subseteq {0}
    <3>1. DOMAIN p = 1..Len(p) /\ Len(p) \in Nat /\ \A i \in DOMAIN p : p[i] = 0
      BY <2>2, <2>4
    <3>2. p \in [1..Len(p) -> {0}]
      BY <2>4, <3>1
    <3>3. Range(p) \subseteq {0}
      BY <3>1, Zenon DEF Range
    <3>. QED BY <3>1, <3>2, <3>3, SMTT(30)
  <2>. QED BY <2>4, <2>5
<1>2. PICK ss : ss = [k \in DOMAIN cells |-> IF IsScored(cells[k], null)
                                               THEN cells[k].test[null].periodic ELSE <<>>]
  OBVIOUS
<1>3. NullReturns(cells, null) = FlattenSeq(ss)
  BY <1>2 DEF NullReturns, Stitch
<1>4. DOMAIN cells = 1..Len(cells) /\ Len(cells) \in Nat
  OBVIOUS
<1>5. \A k \in DOMAIN cells : ss[k] \in Seq({0})
  <2>1. \A k \in DOMAIN cells : cells[k].test[null].periodic \in Seq({0}) /\ <<>> \in Seq({0})
    BY <1>1
  <2>. QED BY <1>2, <2>1
<1>6. ss \in Seq(Seq({0}))
  <2>1. ss \in [1..Len(cells) -> Seq({0})]
    BY <1>2, <1>4, <1>5
  <2>. QED BY <1>4, <2>1
<1>7. FlattenSeq(ss) \in Seq({0})
  BY <1>6, FlattenType
<1>. QED BY <1>1, <1>3, <1>7, TotalOfNothing

LEMMA PromotedIsOutOfSample ==
  ASSUME NEW r, Made(r), r.promotion_eligible
  PROVE  OutOfSample(r)
<1>. PICK cells \in Seq(FoldCells), plan \in Plans : cells = r.cells /\ plan = r.plan
  BY DEF Made, Sound
<1>0. /\ r.folds = NormalizedFolds(r.plan)
      /\ r.picks = [k \in DOMAIN r.cells |-> Pick(r.cells[k], r.plan.null)]
      /\ r.selected = SelectedReturns(r.cells, r.plan.null)
      /\ r.promotion_eligible = PromotionEligible(r.cells, r.plan, r.receipt, r.trials)
  BY MadeFields
<1>1. /\ Len(cells) = Len(NormalizedFolds(plan)) /\ InputsAreLegal(plan)
      /\ r.folds = NormalizedFolds(plan)
      /\ r.picks = [k \in DOMAIN cells |-> Pick(cells[k], plan.null)]
      /\ r.selected = SelectedReturns(cells, plan.null)
      /\ PromotionEligible(cells, plan, r.receipt, r.trials)
  <2>1. Len(cells) = Len(NormalizedFolds(plan)) /\ InputsAreLegal(plan)
    BY DEF Made, Sound
  <2>. QED BY <1>0, <2>1
<1>2. /\ plan.mode = "purged_walk_forward" /\ FailedCells(cells) = {}
      /\ NullStatus(cells, plan) = "pass"
  BY <1>1 DEF PromotionEligible, StatisticsAreComplete
<1>3. /\ NullStructurePasses(cells, plan)
      /\ Total(SelectedReturns(cells, plan.null)) > Total(NullReturns(cells, plan.null))
  BY <1>2 DEF NullStatus
<1>4. plan.null \in Variants /\ Cardinality(Variants) >= 2 /\ Cut(plan)
  BY <1>1, <1>2 DEF InputsAreLegal, PlanIsLegal, Cut
<1>5. Total(r.selected) > 0
  BY <1>1, <1>2, <1>3, <1>4, FlatNull
<1>6. DOMAIN r.folds = DOMAIN cells
  BY <1>1, <1>4, PurgedFolds
<1>7. ASSUME NEW k \in DOMAIN r.folds
      PROVE  \A v \in Variants \ {plan.null} :
               cells[k].train[v].net <= cells[k].train[r.picks[k].winner].net
  <2>1. cells[k] \in FoldCells /\ Complete(cells[k].train)
    BY <1>2, <1>6, NothingFailed
  <2>2. r.picks[k].winner = Winner(cells[k], plan.null)
    <3>1. r.picks[k] = Pick(cells[k], plan.null)
      BY <1>1, <1>6
    <3>2. Pick(cells[k], plan.null).winner = Winner(cells[k], plan.null)
      BY DEF Pick
    <3>. QED BY <3>1, <3>2
  <2>. QED BY <1>4, <2>1, <2>2, WinnerIsBest
<1>8. ASSUME NEW k \in DOMAIN r.folds, NEW phase \in {"train", "test"}
      PROVE  Range(cells[k][phase][plan.null].periodic) \subseteq {0}
  BY <1>2, <1>3, <1>4, <1>6, FlatNull
<1>9. ASSUME NEW k \in DOMAIN r.folds
      PROVE  LET tested(i)  == Window(r.folds[i].test_start, r.folds[i].test_end)
                 trained(i) == Window(r.folds[i].train_start, r.folds[i].train_end + plan.purge)
             IN /\ tested(k) \cap trained(k) = {}
                /\ \A j \in 1..(k - 1) : tested(j) \cap tested(k) = {}
  BY <1>1, <1>4, FoldsAreApart
<1>. QED BY <1>5, <1>7, <1>8, <1>9 DEF OutOfSample
-----------------------------------------------------------------------------
(* Producer and validator on the same cells *)

(* A report none of whose cells failed, nor yielded more returns than another. *)
Whole(r) ==
  /\ Made(r)
  /\ FailedCells(r.cells) = {}
  /\ ~ AlignmentFailed(r.cells)

(* Every fold of a whole report counts, for the producer and the validator. *)
LEMMA WholeFolds ==
  ASSUME NEW r, Whole(r), NEW k \in DOMAIN r.cells
  PROVE  /\ IsAligned(r.cells[k].test)
         /\ Winner(r.cells[k], r.plan.null) \in Variants \ {r.plan.null}
         /\ Winner(r.cells[k], r.plan.null) # Nothing
         /\ IsScored(r.cells[k], r.plan.null) /\ Counts(r.cells[k], r.plan.null)
         /\ \A v \in Variants : /\ r.cells[k].test[v].status = "complete"
                                /\ r.cells[k].test[v].periodic \in Seq(Int)
                                /\ r.cells[k].test[v].periodic # <<>>
<1>. PICK fold : fold = r.cells[k]
  OBVIOUS
<1>1. r.cells \in Seq(FoldCells) /\ FailedCells(r.cells) = {}
  BY DEF Whole, Made
<1>2. fold \in FoldCells /\ Complete(fold.train) /\ Complete(fold.test)
  BY <1>1, NothingFailed
<1>3. \A v \in Variants : fold.test[v].status = "complete"
  BY <1>2 DEF Complete
<1>4. ASSUME NEW v \in Variants
      PROVE  fold.test[v].periodic \in Seq(Int) /\ fold.test[v].periodic # <<>>
  <2>1. fold["test"][v].periodic \in Seq(Int) \ {<<>>}
    BY <1>1, NothingFailed
  <2>2. fold["test"] = fold.test
    OBVIOUS
  <2>. QED BY <2>1, <2>2
<1>5. IsAligned(fold.test)
  BY DEF Whole, AlignmentFailed
<1>6. r.plan.null \in Variants /\ Cardinality(Variants) >= 2
  BY DEF Whole, Made, Sound, InputsAreLegal
<1>7. Winner(fold, r.plan.null) \in Variants \ {r.plan.null} /\ Winner(fold, r.plan.null) # Nothing
  BY <1>2, <1>6, WinnerIsBest
<1>. QED BY <1>3, <1>4, <1>5, <1>7 DEF IsScored, Counts

(* What is stitched together of a whole report, fold by fold. *)
Tested(r)      == [k \in DOMAIN r.cells |-> r.cells[k].test[Winner(r.cells[k], r.plan.null)].periodic]
Column(r, v)   == [k \in DOMAIN r.cells |-> r.cells[k].test[v].periodic]
NetsAround(r, k) ==
  {r.cells[k].test[v].net : v \in NeighborsOf(Winner(r.cells[k], r.plan.null), r.plan.null)}
Around(r) ==
  [k \in DOMAIN r.cells |-> IF NetsAround(r, k) = {} THEN <<>> ELSE <<Min(NetsAround(r, k))>>]

(* Both stitch the same selected returns together. *)
LEMMA WholeSelected ==
  ASSUME NEW r, Whole(r)
  PROVE  /\ SelectedReturns(r.cells, r.plan.null) = FlattenSeq(Tested(r))
         /\ RecomputedSelected(r) = FlattenSeq(Tested(r))
<1>1. \A k \in DOMAIN r.cells : IsScored(r.cells[k], r.plan.null) /\ Counts(r.cells[k], r.plan.null)
  BY WholeFolds
<1>2. [k \in DOMAIN r.cells |-> IF IsScored(r.cells[k], r.plan.null)
                                  THEN r.cells[k].test[Winner(r.cells[k], r.plan.null)].periodic
                                  ELSE <<>>] = Tested(r)
  BY <1>1 DEF Tested
<1>3. [k \in DOMAIN r.cells |-> IF Counts(r.cells[k], r.plan.null)
                                  THEN r.cells[k].test[Winner(r.cells[k], r.plan.null)].periodic
                                  ELSE <<>>] = Tested(r)
  BY <1>1 DEF Tested
<1>. QED BY <1>2, <1>3, Zenon DEF SelectedReturns, RecomputedSelected, Stitch

(* Both stitch the same null returns together. *)
LEMMA WholeNull ==
  ASSUME NEW r, Whole(r)
  PROVE  /\ NullReturns(r.cells, r.plan.null) = FlattenSeq(Column(r, r.plan.null))
         /\ RecomputedNull(r) = FlattenSeq(Column(r, r.plan.null))
<1>1. \A k \in DOMAIN r.cells : IsScored(r.cells[k], r.plan.null) /\ Counts(r.cells[k], r.plan.null)
  BY WholeFolds
<1>2. [k \in DOMAIN r.cells |-> IF IsScored(r.cells[k], r.plan.null)
                                  THEN r.cells[k].test[r.plan.null].periodic
                                  ELSE <<>>] = Column(r, r.plan.null)
  BY <1>1 DEF Column
<1>3. [k \in DOMAIN r.cells |-> IF Counts(r.cells[k], r.plan.null)
                                  THEN r.cells[k].test[r.plan.null].periodic
                                  ELSE <<>>] = Column(r, r.plan.null)
  BY <1>1 DEF Column
<1>. QED BY <1>2, <1>3, Zenon DEF NullReturns, RecomputedNull, Stitch

(* The returns of one variant over all folds. *)
LEMMA WholeColumns ==
  ASSUME NEW r, Whole(r), NEW v \in Variants
  PROVE  VariantReturns(r.cells, v) = FlattenSeq(Column(r, v))
<1>1. \A k \in DOMAIN r.cells : IsAligned(r.cells[k].test)
  BY WholeFolds
<1>2. [k \in DOMAIN r.cells |-> IF IsAligned(r.cells[k].test)
                                  THEN r.cells[k].test[v].periodic ELSE <<>>] = Column(r, v)
  BY <1>1 DEF Column
<1>. QED BY <1>2, Zenon DEF VariantReturns, Stitch

(* Both see the same neighbors, and the same worst of them. *)
LEMMA WholeNeighbors ==
  ASSUME NEW r, Whole(r)
  PROVE  /\ NeighborReturns(r.cells, r.plan.null) = FlattenSeq(Around(r))
         /\ RecomputedNeighborReturns(r) = FlattenSeq(Around(r))
         /\ NeighborIndices(r.cells, r.plan.null) = RecomputedNeighbors(r)
<1>. DEFINE null == r.plan.null
            complete(k) == {r.cells[k].test[v].net :
                              v \in {w \in NeighborsOf(Winner(r.cells[k], null), null) :
                                       r.cells[k].test[w].status = "complete"}}
<1>1. \A k \in DOMAIN r.cells : /\ IsScored(r.cells[k], null) /\ Counts(r.cells[k], null)
                                /\ Winner(r.cells[k], null) # Nothing
  BY WholeFolds
<1>2. ASSUME NEW k \in DOMAIN r.cells PROVE complete(k) = NetsAround(r, k)
  <2>1. \A v \in NeighborsOf(Winner(r.cells[k], null), null) : r.cells[k].test[v].status = "complete"
    BY WholeFolds DEF NeighborsOf
  <2>. QED BY <2>1 DEF NetsAround
<1>3. [k \in DOMAIN r.cells |->
         IF IsScored(r.cells[k], null)
           THEN IF complete(k) = {} THEN <<>> ELSE <<Min(complete(k))>>
           ELSE <<>>] = Around(r)
  <2>. HIDE DEF complete
  <2>. QED BY <1>1, <1>2 DEF Around
<1>4. [k \in DOMAIN r.cells |->
         IF Counts(r.cells[k], null)
           THEN IF NetsAround(r, k) = {} THEN <<>> ELSE <<Min(NetsAround(r, k))>>
           ELSE <<>>] = Around(r)
  BY <1>1 DEF Around
<1>5. NeighborReturns(r.cells, r.plan.null) = FlattenSeq(Around(r))
  BY <1>3, Zenon DEF NeighborReturns, Stitch
<1>6. RecomputedNeighborReturns(r) = FlattenSeq(Around(r))
  BY <1>4, Zenon DEF RecomputedNeighborReturns, Stitch, NetsAround
<1>7. NeighborIndices(r.cells, r.plan.null) = RecomputedNeighbors(r)
  <2>1. /\ \A k \in DOMAIN r.cells :
             (IF Winner(r.cells[k], null) = Nothing THEN {}
                ELSE NeighborsOf(Winner(r.cells[k], null), null))
               = (IF Counts(r.cells[k], null)
                    THEN NeighborsOf(Winner(r.cells[k], null), null) ELSE {})
    BY <1>1
  <2>. QED BY <2>1, Zenon DEF NeighborIndices, RecomputedNeighbors
<1>. QED BY <1>5, <1>6, <1>7

(* A whole report has a fold for each of its cells, and four or more. *)
LEMMA WholeLength ==
  ASSUME NEW r, Whole(r)
  PROVE  /\ DOMAIN r.cells = 1..Len(r.cells) /\ Len(r.cells) \in Nat /\ Len(r.cells) >= 4
         /\ r.folds = NormalizedFolds(r.plan)
         /\ DOMAIN r.folds = DOMAIN r.cells /\ Len(r.folds) = Len(r.cells)
<1>1. /\ r.cells \in Seq(FoldCells) /\ Len(r.cells) = Len(NormalizedFolds(r.plan))
      /\ r.plan \in Plans /\ InputsAreLegal(r.plan) /\ r.folds = NormalizedFolds(r.plan)
  BY MadeFields DEF Whole, Made, Sound
<1>2. DOMAIN r.cells = 1..Len(r.cells) /\ Len(r.cells) \in Nat
  BY <1>1, SeqIs
<1>3. /\ Len(NormalizedFolds(r.plan)) >= 4
      /\ r.plan.mode = "purged_walk_forward" => SizesAreLegal(r.plan)
  BY <1>1 DEF InputsAreLegal, PlanIsLegal, MinFolds
<1>4. r.plan.mode \in {"purged_walk_forward", "diagnostic_splits"}
  BY <1>1, PlansAssumption
<1>5. CASE r.plan.mode = "purged_walk_forward"
  <2>1. Cut(r.plan)
    BY <1>1, <1>3, <1>5 DEF Cut
  <2>. QED BY <1>1, <1>2, <1>3, <2>1, PurgedFolds
<1>6. CASE r.plan.mode = "diagnostic_splits"
  BY <1>1, <1>2, <1>3, <1>6, DiagnosticFolds
<1>. QED BY <1>4, <1>5, <1>6

(* The parts of a whole report are sequences of returns, none of them empty. *)
LEMMA WholeParts ==
  ASSUME NEW r, Whole(r)
  PROVE  /\ Tested(r) \in Seq(Seq(Int)) /\ Len(Tested(r)) = Len(r.cells)
         /\ \A i \in 1..Len(r.cells) : Tested(r)[i] # <<>>
         /\ \A v \in Variants :
              /\ Column(r, v) \in Seq(Seq(Int)) /\ Len(Column(r, v)) = Len(r.cells)
              /\ \A w \in Variants, i \in 1..Len(r.cells) :
                   Len(Column(r, v)[i]) = Len(Column(r, w)[i])
<1>1. PICK n \in Nat : n = Len(r.cells) /\ DOMAIN r.cells = 1..n
  BY WholeLength
<1>2. ASSUME NEW k \in 1..n
      PROVE  /\ Winner(r.cells[k], r.plan.null) \in Variants
             /\ IsAligned(r.cells[k].test)
             /\ \A v \in Variants : /\ r.cells[k].test[v].periodic \in Seq(Int)
                                    /\ r.cells[k].test[v].periodic # <<>>
  BY <1>1, WholeFolds
<1>3. Tested(r) = [k \in 1..n |-> r.cells[k].test[Winner(r.cells[k], r.plan.null)].periodic]
  BY <1>1 DEF Tested
<1>4. Tested(r) \in [1..n -> Seq(Int)] /\ \A i \in 1..n : Tested(r)[i] # <<>>
  BY <1>2, <1>3
<1>5. ASSUME NEW v \in Variants
      PROVE  /\ Column(r, v) \in [1..n -> Seq(Int)]
             /\ \A i \in 1..n : Column(r, v)[i] = r.cells[i].test[v].periodic
  BY <1>1, <1>2 DEF Column
<1>6. ASSUME NEW v \in Variants, NEW w \in Variants, NEW i \in 1..n
      PROVE  Len(Column(r, v)[i]) = Len(Column(r, w)[i])
  <2>1. Len(r.cells[i].test[v].periodic) = Len(r.cells[i].test[w].periodic)
    BY <1>2 DEF IsAligned
  <2>. QED BY <1>5, <2>1
<1>7. \A f \in [1..n -> Seq(Int)] : f \in Seq(Seq(Int)) /\ Len(f) = n
  OBVIOUS
<1>. QED BY <1>1, <1>4, <1>5, <1>6, <1>7

(* A whole report is complete, for the producer and the validator. *)
LEMMA WholeIsComplete ==
  ASSUME NEW r, Whole(r)
  PROVE  /\ StatisticsAreComplete(r.cells, r.plan.null)
         /\ RecomputedComplete(r) /\ ~ RecomputedAlignmentFailed(r)
<1>1. Len(FlattenSeq(Tested(r))) \in Nat /\ Len(FlattenSeq(Tested(r))) >= 4
  <2>1. /\ Tested(r) \in Seq(Seq(Int)) /\ \A i \in 1..Len(Tested(r)) : Tested(r)[i] # <<>>
        /\ Len(Tested(r)) \in Nat /\ Len(Tested(r)) >= 4
    BY WholeParts, WholeLength
  <2>2. /\ Len(FlattenSeq(Tested(r))) \in Nat
        /\ Len(FlattenSeq(Tested(r))) >= Len(Tested(r))
    BY <2>1, FlattenIsLong
  <2>. QED BY <2>1, <2>2
<1>2. ASSUME NEW v \in Variants, NEW w \in Variants
      PROVE  Len(VariantReturns(r.cells, v)) = Len(VariantReturns(r.cells, w))
  <2>1. PICK ss \in Seq(Seq(Int)), tt \in Seq(Seq(Int)) : ss = Column(r, v) /\ tt = Column(r, w)
    BY WholeParts
  <2>2. Len(ss) = Len(tt) /\ \A i \in 1..Len(ss) : Len(ss[i]) = Len(tt[i])
    <3>1. Len(ss) = Len(r.cells) /\ Len(tt) = Len(r.cells)
      BY <2>1, WholeParts
    <3>2. ASSUME NEW i \in 1..Len(r.cells)
          PROVE  Len(Column(r, v)[i]) = Len(Column(r, w)[i])
      BY WholeParts
    <3>. QED BY <2>1, <3>1, <3>2
  <2>3. Len(FlattenSeq(ss)) = Len(FlattenSeq(tt))
    BY <2>2, FlattenLengths
  <2>. QED BY <2>1, <2>3, WholeColumns
<1>3. ~ RecomputedAlignmentFailed(r)
  BY WholeFolds DEF RecomputedAlignmentFailed
<1>4. /\ FailedCells(r.cells) = {} /\ ~ AlignmentFailed(r.cells)
      /\ Len(SelectedReturns(r.cells, r.plan.null)) >= 4
      /\ Len(RecomputedSelected(r)) >= 4
  BY <1>1, WholeSelected DEF Whole
<1>. QED BY <1>2, <1>3, <1>4 DEF StatisticsAreComplete, RecomputedComplete

(* What a report may be rejected for. *)
Excused(r) ==
  \/ r.status = "blocked"
  \/ r.promotion_eligible
  \/ r.trials # Cardinality(Variants)
  \/ ~SplitsKeepWhatWasAskedFor(r.plan)
  \/ SomeCellCameBack(r)
  \/ ~StressCanBeTraced(r.plan)
  \/ ~r.plan.dated

(* What validation finds no fault with, part by part. *)
LEMMA WholeSelection ==
  ASSUME NEW r, Whole(r)
  PROVE  SelectionIssues(r) = {}
<1>. DEFINE matrix == [v \in Variants |-> VariantReturns(r.cells, v)]
<1>1. /\ r.picks = [k \in DOMAIN r.cells |-> Pick(r.cells[k], r.plan.null)]
      /\ r.failed_cells = Cardinality(FailedCells(r.cells)) + (IF AlignmentFailed(r.cells) THEN 1 ELSE 0)
      /\ r.status = IF FailedCells(r.cells) # {} \/ AlignmentFailed(r.cells) THEN "blocked" ELSE "complete"
      /\ r.selected = SelectedReturns(r.cells, r.plan.null)
      /\ r.matrix = MatrixOf(r.cells, r.plan.null)
  BY MadeFields DEF Whole
<1>2. /\ StatisticsAreComplete(r.cells, r.plan.null) /\ ~ RecomputedAlignmentFailed(r)
      /\ FailedCells(r.cells) = {} /\ ~ AlignmentFailed(r.cells)
  BY WholeIsComplete DEF Whole
<1>3. Cardinality(FailedCells(r.cells)) = 0
  BY <1>2, FS_EmptySet
<1>4. r.status = "complete" /\ r.failed_cells = 0 /\ r.matrix = matrix
      /\ r.selected = RecomputedSelected(r)
  BY <1>1, <1>2, <1>3, WholeSelected DEF MatrixOf
<1>5. r.failed_cells = Cardinality(FailedCells(r.cells))
                         + (IF RecomputedAlignmentFailed(r) THEN 1 ELSE 0)
  BY <1>1, <1>2, Zenon
<1>6. r.status = IF RecomputedAlignmentFailed(r) \/ Cardinality(FailedCells(r.cells)) > 0
                   THEN "blocked" ELSE "complete"
  BY <1>2, <1>3, <1>4
<1>7. r.matrix = IF RecomputedAlignmentFailed(r) THEN Nothing ELSE matrix
  BY <1>2, <1>4, Zenon
<1>. QED BY <1>1, <1>4, <1>5, <1>6, <1>7, Zenon DEF SelectionIssues, Flag

LEMMA WholeCells ==
  ASSUME NEW r, Whole(r), ~ SomeCellCameBack(r)
  PROVE  CellIssues(r) = {}
<1>1. ASSUME NEW c \in CellsOf(r.cells)
      PROVE  CellIsSound(r.cells[c[1]][c[2]][c[3]])
  <2>1. PICK k \in DOMAIN r.cells, phase \in {"train", "test"}, v \in Variants : c = <<k, phase, v>>
    BY DEF CellsOf
  <2>2. r.cells[k] \in FoldCells
    BY DEF Whole, Made
  <2>3. r.cells[k][phase][v] \in Cell
    BY <2>2 DEF FoldCells
  <2>4. ~ CameBack(r.cells[k][phase][v])
    BY <2>1 DEF SomeCellCameBack
  <2>. QED BY <2>1, <2>3, <2>4 DEF CellIsSound, Cell, FailedCell
<1>2. DOMAIN r.cells = DOMAIN r.folds
  BY WholeLength
<1>. QED BY <1>1, <1>2, Zenon DEF CellIssues, Flag

LEMMA WholeStatistics ==
  ASSUME NEW r, Whole(r), ~ r.promotion_eligible, r.trials = Cardinality(Variants), NEW l
  PROVE  StatisticsIssues(r, l) = {}
<1>1. r.statistics = Statistics(r.cells, r.plan.null, r.trials)
  BY MadeFields DEF Whole
<1>2. RecomputedTrials(r, l) = r.trials
  BY DEF RecomputedTrials, RequiresLedger
<1>3. /\ StatisticsAreComplete(r.cells, r.plan.null) /\ RecomputedComplete(r)
      /\ RecomputedSelected(r) = SelectedReturns(r.cells, r.plan.null)
  BY WholeIsComplete, WholeSelected
<1>4. r.statistics = RecomputedStatistics(r, l)
  BY <1>1, <1>2, <1>3 DEF Statistics, RecomputedStatistics
<1>. QED BY <1>3, <1>4 DEF StatisticsIssues, ExpectedStatistics, Flag

LEMMA WholeNullStatus ==
  ASSUME NEW r, Whole(r)
  PROVE  r.null_status = RecomputedNullStatus(r)
<1>1. r.null_status = NullStatus(r.cells, r.plan)
  BY MadeFields DEF Whole
<1>2. /\ StatisticsAreComplete(r.cells, r.plan.null) /\ RecomputedComplete(r)
      /\ RecomputedSelected(r) = SelectedReturns(r.cells, r.plan.null)
      /\ RecomputedNull(r) = NullReturns(r.cells, r.plan.null)
  BY WholeIsComplete, WholeSelected, WholeNull
<1>. QED BY <1>1, <1>2 DEF NullStatus, RecomputedNullStatus

LEMMA WholeStability ==
  ASSUME NEW r, Whole(r)
  PROVE  r.stability = RecomputedStability(r)
<1>1. r.stability = [ status    |-> StabilityStatus(r.cells, r.plan),
                      neighbors |-> NeighborIndices(r.cells, r.plan.null),
                      worst     |-> WorstNeighbor(NeighborReturns(r.cells, r.plan.null)) ]
  BY MadeFields DEF Whole
<1>2. /\ StatisticsAreComplete(r.cells, r.plan.null) /\ RecomputedComplete(r)
      /\ NeighborReturns(r.cells, r.plan.null) = RecomputedNeighborReturns(r)
      /\ NeighborIndices(r.cells, r.plan.null) = RecomputedNeighbors(r)
      /\ Len(r.folds) = Len(r.cells)
  BY WholeIsComplete, WholeNeighbors, WholeLength
<1>3. StabilityStatus(r.cells, r.plan) =
        IF /\ RecomputedComplete(r)
           /\ Len(RecomputedNeighborReturns(r)) = Len(r.folds)
           /\ WorstNeighbor(RecomputedNeighborReturns(r)) > 0
          THEN "pass" ELSE "blocked"
  BY <1>2 DEF StabilityStatus
<1>. QED BY <1>1, <1>2, <1>3 DEF RecomputedStability

(* Derived stresses have one row for each scenario, and fit the schema. *)
LEMMA DerivedRows ==
  ASSUME NEW costs, NEW selected
  PROVE  /\ ScenariosAreUnique(RunStressSuite(costs, selected))
         /\ RowsFitSchema(RunStressSuite(costs, selected))
<1>1. DOMAIN MandatoryStress = 1..11
  BY DEF MandatoryStress
<1>2. \A i, j \in 1..11 : MandatoryStress[i] = MandatoryStress[j] => i = j
  BY DEF MandatoryStress
<1>. QED BY <1>1, <1>2 DEF ScenariosAreUnique, RowsFitSchema, RunStressSuite

LEMMA WholeStress ==
  ASSUME NEW r, Whole(r), ~ r.promotion_eligible, StressCanBeTraced(r.plan)
  PROVE  StressIssues(r) = {} /\ RowsFitSchema(r.stress.rows)
<1>1. r.stress = Stress(r.cells, r.plan)
  BY MadeFields DEF Whole
<1>2. RecomputedSelected(r) = SelectedReturns(r.cells, r.plan.null)
  BY WholeSelected
<1>3. CASE r.plan.costs # Nothing
  <2>1. r.stress = [ source |-> "cost_waterfall", package |-> r.plan.package,
                     rows |-> RunStressSuite(r.plan.costs, RecomputedSelected(r)) ]
    BY <1>1, <1>2, <1>3 DEF Stress
  <2>2. /\ r.stress.source = "cost_waterfall" /\ r.stress.package = "apart"
        /\ r.stress.rows = RunStressSuite(r.plan.costs, RecomputedSelected(r))
    BY <1>3, <2>1 DEF StressCanBeTraced
  <2>3. ScenariosAreUnique(r.stress.rows) /\ RowsFitSchema(r.stress.rows)
    BY <2>2, DerivedRows
  <2>. QED BY <1>3, <2>2, <2>3 DEF StressIssues, StressIsRecomputed, SourceIsBound, Flag
<1>4. CASE r.plan.costs = Nothing
  <2>1. r.stress.source = "caller" /\ r.stress.rows = r.plan.caller_stress
    BY <1>1, <1>4 DEF Stress
  <2>2. ScenariosAreUnique(r.stress.rows) /\ RowsFitSchema(r.stress.rows)
    BY <1>4, <2>1 DEF StressCanBeTraced
  <2>. QED BY <2>1, <2>2 DEF StressIssues, Flag
<1>. QED BY <1>3, <1>4

(* What validation derives from the cells of a whole report is what the    *)
(* sweep derived from them.                                                *)
LEMMA HonestIsAccepted ==
  ASSUME NEW r, Made(r), ~ Excused(r), NEW l, NEW b
  PROVE  IssuesOf(r, l, b) = {}
<1>1. /\ r.status # "blocked" /\ ~ r.promotion_eligible /\ r.trials = Cardinality(Variants)
      /\ r.plan.mode = "diagnostic_splits" => r.plan.embargo = 0 /\ r.plan.purge >= 0
      /\ ~ SomeCellCameBack(r) /\ StressCanBeTraced(r.plan) /\ r.plan.dated
  BY DEF Excused, SplitsKeepWhatWasAskedFor
<1>2. Whole(r)
  <2>1. r.status = IF FailedCells(r.cells) # {} \/ AlignmentFailed(r.cells) THEN "blocked" ELSE "complete"
    BY MadeFields
  <2>. QED BY <1>1, <2>1 DEF Whole
<1>3. r.plan \in Plans /\ InputsAreLegal(r.plan) /\ r.folds = NormalizedFolds(r.plan)
      /\ r.promotion_eligible = PromotionEligible(r.cells, r.plan, r.receipt, r.trials)
  BY MadeFields DEF Made, Sound
<1>4. RegistrationIssues(r) = {}
  BY <1>3 DEF InputsAreLegal, RegistrationIssues, Flag
<1>5. Flag(LedgerIsCurrent(r, l), "ledger_registration") = {}
  BY <1>1 DEF LedgerIsCurrent, RequiresLedger, Flag
<1>6. FoldIssues(r.folds, r.plan) = {}
  <2>1. /\ r.plan.mode \in {"purged_walk_forward", "diagnostic_splits"}
        /\ r.plan.mode = "purged_walk_forward" => Cut(r.plan)
        /\ r.plan.mode = "diagnostic_splits" => SplitsAreLegal(r.plan)
    BY <1>3, PlansAssumption DEF InputsAreLegal, PlanIsLegal, Cut
  <2>. QED BY <1>1, <1>3, <2>1, PurgedFoldsHold, DiagnosticFoldsHold
<1>7. /\ CellIssues(r) = {} /\ SelectionIssues(r) = {} /\ StatisticsIssues(r, l) = {}
      /\ StressIssues(r) = {} /\ RowsFitSchema(r.stress.rows)
  BY <1>1, <1>2, WholeCells, WholeSelection, WholeStatistics, WholeStress
<1>8. /\ Flag(r.null_status = RecomputedNullStatus(r), "null_baseline") = {}
      /\ Flag(r.stability = RecomputedStability(r), "parameter_stability") = {}
  BY <1>2, WholeNullStatus, WholeStability DEF Flag
<1>9. PromotionIssues(r, l, b) = {}
  <2>1. ~ PromotionConditions(r, l, b)
    BY <1>1 DEF PromotionConditions, LedgerConfirms, RequiresLedger
  <2>2. r.promotion_eligible = PromotionConditions(r, l, b)
    BY <1>1, <1>3, <2>1 DEF PromotionEligible, PromotionConditions
  <2>. QED BY <1>1, <2>2 DEF PromotionIssues, Flag
<1>10. SchemaIssues(r) = {}
  <2>1. r.plan.mode \in {"purged_walk_forward", "diagnostic_splits"}
    BY <1>3, PlansAssumption
  <2>2. r.plan.purge >= 0 /\ r.plan.embargo >= 0
    <3>1. CASE r.plan.mode = "purged_walk_forward"
      BY <1>3, <3>1 DEF InputsAreLegal, PlanIsLegal, SizesAreLegal
    <3>2. CASE r.plan.mode = "diagnostic_splits"
      BY <1>1, <3>2
    <3>. QED BY <2>1, <3>1, <3>2
  <2>. QED BY <1>1, <1>7, <2>2 DEF SchemaIssues, Flag
<1>11. ContractIssues(r, l, b) = {}
  BY <1>4, <1>5, <1>6, <1>7, <1>8, <1>9, Zenon DEF ContractIssues
<1>. QED BY <1>10, <1>11 DEF IssuesOf
-----------------------------------------------------------------------------
(* The reports of a run *)

(* What a sweep has in hand, what it has written, and what it was told. *)
Kept(s) ==
  /\ job[s].cells \in Seq(FoldCells)
  /\ job[s].at \in {"planned", "created", "registered", "recorded", "running"} => Sound(job[s].plan)
  /\ job[s].at = "written" => Made(report[OutputOf[s]])
  /\ job[s].at = "rejected" => Excused(report[OutputOf[s]])

ReportInv ==
  /\ \A s \in Sweeps : Kept(s)
  /\ \A o \in Outputs : report[o] = Nothing \/ Made(report[o])

LEMMA InitReportInv == Init => ReportInv
<1>. SUFFICES ASSUME Init PROVE ReportInv
  OBVIOUS
<1>1. \A s \in Sweeps : job[s].at = "new" /\ job[s].cells = <<>>
  BY DEF Init
<1>2. \A o \in Outputs : report[o] = Nothing
  BY DEF Init
<1>3. <<>> \in Seq(FoldCells)
  OBVIOUS
<1>. QED BY <1>1, <1>2, <1>3 DEF ReportInv, Kept

(* What a step of one sweep has to show.  It writes over no report that    *)
(* another one made: a live holder is alone at its output.                 *)
LEMMA OneKeeps ==
  ASSUME SweepInv, ReportInv, NEW s \in Sweeps, Others(s), Kept(s)',
         \A o \in Outputs :
           \/ report'[o] = report[o]
           \/ o = OutputOf[s] /\ job[s].at \in Holders /\ Made(report'[o])
  PROVE  ReportInv'
<1>1. \A t \in Sweeps : OutputOf[t] \in Outputs
  BY SweepAssumption
<1>2. ASSUME NEW t \in Sweeps \ {s}
      PROVE  Kept(t)'
  <2>1. Kept(t) /\ job'[t] = job[t]
    BY DEF ReportInv, Others
  <2>2. CASE report'[OutputOf[t]] = report[OutputOf[t]]
    BY <2>1, <2>2 DEF Kept
  <2>3. CASE OutputOf[t] = OutputOf[s] /\ job[s].at \in Holders
    <3>1. job[t].at \notin Holders
      BY <2>3 DEF SweepInv, Alone
    <3>2. job[t].at \notin {"written", "rejected"}
      BY <3>1 DEF Holders
    <3>. QED BY <2>1, <3>2 DEF Kept
  <2>. QED BY <1>1, <2>2, <2>3
<1>3. \A o \in Outputs : report'[o] = Nothing \/ Made(report'[o])
  BY DEF ReportInv
<1>. QED BY <1>2, <1>3 DEF ReportInv

LEMMA BeginKeeps ==
  ASSUME SweepInv, ReportInv, NEW s \in Sweeps, Begin(s)
  PROVE  ReportInv'
<1>1. Shapes /\ Kept(s) /\ UNCHANGED report
  BY DEF SweepInv, ReportInv, Begin
<1>2. /\ Others(s) /\ job'[s].at \in {"planned", "refused"} /\ job'[s].plan \in Plans
      /\ job'[s].at = "planned" => InputsAreLegal(job'[s].plan)
      /\ job'[s].cells = job[s].cells
  BY <1>1, BeginDoes
<1>3. Kept(s)'
  BY <1>1, <1>2 DEF Kept, Sound
<1>. QED BY <1>1, <1>2, <1>3, OneKeeps

(* A step that neither runs a cell nor writes a report. *)
LEMMA GoKeeps ==
  ASSUME SweepInv, ReportInv, NEW s \in Sweeps,
         CreateRegistration(s) \/ WriteRegistration(s) \/ AppendReceipt(s) \/ CountTrials(s)
           \/ CountOwnVariants(s) \/ Die(s)
  PROVE  ReportInv'
<1>1. Shapes /\ Kept(s) /\ UNCHANGED report
  BY DEF SweepInv, ReportInv, CreateRegistration, WriteRegistration, AppendReceipt, CountTrials,
         CountOwnVariants, Die
<1>2. /\ Others(s) /\ Keeps(s)
      /\ job'[s].at \in {"created", "registered", "recorded", "running"} =>
           job[s].at \in {"planned", "created", "registered", "recorded"}
      /\ job'[s].at \in {"created", "registered", "recorded", "running", "refused", "dead"}
  <2>1. CASE CreateRegistration(s)
    <3>1. (Go(s, "created") \/ Go(s, "refused")) /\ job[s].at = "planned"
      BY <2>1 DEF CreateRegistration
    <3>. QED BY <1>1, <3>1, GoDoes
  <2>2. CASE WriteRegistration(s)
    <3>1. Go(s, "registered") /\ job[s].at = "created"
      BY <2>2 DEF WriteRegistration
    <3>. QED BY <1>1, <3>1, GoDoes
  <2>3. CASE AppendReceipt(s)
    <3>1. job[s].at = "registered"
      BY <2>3 DEF AppendReceipt
    <3>. QED BY <1>1, <2>3, <3>1, AppendReceiptDoes
  <2>4. CASE CountTrials(s)
    <3>1. PICK trials : job' = [job EXCEPT ![s].at = "running", ![s].trials = trials]
      BY <2>4 DEF CountTrials
    <3>2. job[s].at = "recorded"
      BY <2>4 DEF CountTrials
    <3>. QED BY <1>1, <3>1, <3>2, CountDoes
  <2>5. CASE CountOwnVariants(s)
    <3>1. PICK trials : job' = [job EXCEPT ![s].at = "running", ![s].trials = trials]
      BY <2>5 DEF CountOwnVariants
    <3>2. job[s].at = "registered"
      BY <2>5 DEF CountOwnVariants
    <3>. QED BY <1>1, <3>1, <3>2, CountDoes
  <2>6. CASE Die(s)
    <3>1. Go(s, "dead")
      BY <2>6 DEF Die
    <3>. QED BY <1>1, <3>1, GoDoes
  <2>. QED BY <2>1, <2>2, <2>3, <2>4, <2>5, <2>6
<1>3. Kept(s)'
  BY <1>1, <1>2 DEF Kept, Keeps
<1>. QED BY <1>1, <1>2, <1>3, OneKeeps

LEMMA RunFoldKeeps ==
  ASSUME SweepInv, ReportInv, NEW s \in Sweeps, RunFold(s)
  PROVE  ReportInv'
<1>1. Shapes /\ Kept(s) /\ UNCHANGED report /\ job[s].at = "running"
  BY DEF SweepInv, ReportInv, RunFold
<1>2. PICK outcome \in FoldOutcomes[job[s].plan.mode_of_execution] :
        job'[s].cells = Append(job[s].cells, outcome)
  BY <1>1, RunFoldDoes
<1>3. Others(s) /\ job'[s].at = "running" /\ job'[s].plan = job[s].plan
  BY <1>1, RunFoldDoes
<1>4. Sound(job[s].plan) /\ job[s].cells \in Seq(FoldCells)
  BY <1>1 DEF Kept
<1>5. outcome \in FoldCells
  BY <1>2, <1>4, PlansAssumption DEF Sound
<1>6. job'[s].cells \in Seq(FoldCells)
  <2>. HIDE DEF FoldCells
  <2>. QED BY <1>2, <1>4, <1>5
<1>7. Kept(s)'
  BY <1>3, <1>4, <1>6 DEF Kept
<1>. QED BY <1>1, <1>3, <1>7, OneKeeps

LEMMA WriteReportKeeps ==
  ASSUME SweepInv, ReportInv, NEW s \in Sweeps, WriteReport(s)
  PROVE  ReportInv'
<1>1. /\ Shapes /\ Kept(s) /\ job[s].at = "running" /\ OutputOf[s] \in Outputs
      /\ Len(job[s].cells) = Len(NormalizedFolds(job[s].plan))
  BY SweepAssumption DEF SweepInv, ReportInv, WriteReport
<1>2. Sound(job[s].plan) /\ job[s].cells \in Seq(FoldCells)
  BY <1>1 DEF Kept
<1>3. PICK r : r = ReportOf(job[s].cells, job[s].plan, job[s].registered, job[s].receipt, job[s].trials)
  OBVIOUS
<1>4. /\ r.cells = job[s].cells /\ r.plan = job[s].plan /\ r.registration = job[s].registered
      /\ r.receipt = job[s].receipt /\ r.trials = job[s].trials
  BY <1>3 DEF ReportOf
<1>5. Made(r)
  BY <1>1, <1>2, <1>3, <1>4 DEF Made
<1>6. \/ UNCHANGED report /\ Go(s, "raised")
      \/ report' = [report EXCEPT ![OutputOf[s]] = r] /\ Go(s, "written")
  BY <1>3 DEF WriteReport
<1>7. PICK to \in {"raised", "written"} :
        Go(s, to) /\ (to = "written" => report' = [report EXCEPT ![OutputOf[s]] = r])
  BY <1>6
<1>8. Others(s) /\ Keeps(s) /\ job'[s].at = to
  BY <1>1, <1>7, GoDoes
<1>9. to = "written" => report'[OutputOf[s]] = r
  BY <1>1, <1>7 DEF Shapes
<1>10. Kept(s)'
  BY <1>1, <1>5, <1>8, <1>9 DEF Kept, Keeps
<1>11. ASSUME NEW o \in Outputs
       PROVE  \/ report'[o] = report[o]
              \/ o = OutputOf[s] /\ job[s].at \in Holders /\ Made(report'[o])
  <2>1. report'[o] = report[o] \/ (o = OutputOf[s] /\ report'[o] = r)
    BY <1>1, <1>6 DEF Shapes
  <2>. QED BY <1>1, <1>5, <2>1 DEF Holders
<1>. QED BY <1>1, <1>8, <1>10, <1>11, OneKeeps

LEMMA ValidateReportKeeps ==
  ASSUME SweepInv, ReportInv, NEW s \in Sweeps, ValidateReport(s)
  PROVE  ReportInv'
<1>. PICK written : written = report[OutputOf[s]]
  OBVIOUS
<1>1. /\ Shapes /\ Kept(s) /\ Held(s) /\ UNCHANGED report /\ job[s].at = "written"
      /\ Go(s, IF IssuesOf(written, ledger, reproduction["work"]) # {} THEN "rejected"
               ELSE written.status)
  BY DEF SweepInv, ReportInv, ValidateReport
<1>2. Made(written) /\ written.status \in {"blocked", "complete"}
  BY <1>1 DEF Kept, Held
<1>3. PICK to \in {"rejected", "blocked", "complete"} :
        Go(s, to) /\ (to = "rejected" => IssuesOf(written, ledger, reproduction["work"]) # {})
  BY <1>1, <1>2
<1>4. to = "rejected" => Excused(written)
  BY <1>2, <1>3, HonestIsAccepted
<1>5. Others(s) /\ Keeps(s) /\ job'[s].at = to
  BY <1>1, <1>3, GoDoes
<1>6. Kept(s)'
  BY <1>1, <1>4, <1>5 DEF Kept, Keeps
<1>. QED BY <1>1, <1>5, <1>6, OneKeeps

LEMMA NextReportInv == SweepInv /\ ReportInv /\ [Next]_vars => ReportInv'
<1>. SUFFICES ASSUME SweepInv, ReportInv, [Next]_vars PROVE ReportInv'
  OBVIOUS
<1>1. ASSUME NEW s \in Sweeps, SweepStep(s) \/ Die(s)
      PROVE  ReportInv'
  BY <1>1, BeginKeeps, GoKeeps, RunFoldKeeps, WriteReportKeeps, ValidateReportKeeps DEF SweepStep
<1>2. ASSUME UNCHANGED <<report, job>>
      PROVE  ReportInv'
  BY <1>2 DEF ReportInv, Kept
<1>3. ASSUME NEW d \in {"work", "package"}, NEW o \in Outputs, BindReproduction(d, o)
      PROVE  ReportInv'
  BY <1>2, <1>3 DEF BindReproduction
<1>4. ASSUME NEW a \in Assemblers, NEW o \in Outputs, ReadEvidence(a, o)
      PROVE  ReportInv'
  BY <1>2, <1>4 DEF ReadEvidence, evidence
<1>5. ASSUME NEW a \in Assemblers, AssemblyStep(a) \/ DieAssembling(a)
      PROVE  ReportInv'
  BY <1>2, <1>5 DEF AssemblyStep, Supersede, Fill, Finish, DieAssembling, evidence
<1>6. CASE EditSource
  BY <1>2, <1>6 DEF EditSource
<1>7. CASE UNCHANGED vars
  BY <1>2, <1>7 DEF vars, evidence
<1>. QED BY <1>1, <1>3, <1>4, <1>5, <1>6, <1>7 DEF Next

(* Whatever the plan, however many folds and variants: a report that claims*)
(* promotion tested, in every fold, the best of its train cells on events  *)
(* it had neither trained on nor purged, no event twice, and beat a null   *)
(* that never moved (generate_walk_forward_folds and run_strategy_sweep).  *)
THEOREM PromotionsAreOutOfSample == Spec => []PromotionIsOutOfSample
<1>1. ReportInv => PromotionIsOutOfSample
  <2>. SUFFICES ASSUME ReportInv, NEW o \in Reported, report[o].promotion_eligible
                PROVE  OutOfSample(report[o])
    BY DEF PromotionIsOutOfSample, OutOfSample
  <2>1. Made(report[o])
    BY DEF ReportInv, Reported
  <2>. QED BY <2>1, PromotedIsOutOfSample
<1>. QED BY <1>1, InitSweepInv, NextSweepInv, InitReportInv, NextReportInv, PTL DEF Spec

(* Producer and validator derive a report's figures from its cells in two  *)
(* ways, and agree on every report that is complete, claims nothing and is *)
(* the first at its key: one is rejected after its holdout was burnt only  *)
(* for splits cut by hand with an embargo or a negative purge asked for, a *)
(* strategy that came back from nothing, costs that cannot be traced to    *)
(* their package, stress rows of the caller or a date that are not in      *)
(* order.                                                                  *)
THEOREM HonestReportsAreAccepted == Spec => []HonestReportsValidate
<1>1. ReportInv => HonestReportsValidate
  BY DEF ReportInv, Kept, Excused, HonestReportsValidate
<1>. QED BY <1>1, InitSweepInv, NextSweepInv, InitReportInv, NextReportInv, PTL DEF Spec
=============================================================================

---------------------------- MODULE MCAutomation ----------------------------
(***************************************************************************)
(* Three invocations of one key: the first two may overlap in any way, the *)
(* third comes only to a key whose invocations have not overlapped, after  *)
(* one or two deaths or results.  The job is retryable, or is not, or is   *)
(* refused, over a corpus that loses and regains a source note.            *)
(***************************************************************************)
EXTENDS Automation

CONSTANTS r1, r2, r3

Job1 == [ valid |-> TRUE, enabled |-> TRUE, command |-> "corpus_refresh",
          forbidden_actions |-> RequiredForbidden,
          alert_sink |-> "local_incident_artifact", sensitive_inputs |-> FALSE,
          schedule_parses |-> TRUE, max_attempts |-> 2,
          allowed_writes |-> {<<"automation">>}, output |-> <<"automation", "corpus">> ]

Jobs == { Job1,
          [Job1 EXCEPT !.command = "gate_checker", !.max_attempts = 1],
          [Job1 EXCEPT !.command = "gate_checker"] }

Sound == [ quality_reports |-> {"pass"}, sources |-> {"note"}, notes |-> {"note"},
           suite |-> "b2-public-baselines", baselines |-> {"valid"},
           paper |-> {"observation"}, roadmap_valid |-> TRUE,
           risk_classes |-> {"equity"}, experiments |-> {"exp"} ]

SoundOrNot == {Sound, [Sound EXCEPT !.notes = {}, !.roadmap_valid = FALSE]}

(* The first two invocations are interchangeable: r1 comes first. *)
InScope ==
  /\ pc[r2] # "new" => pc[r1] # "new"
  /\ pc[r3] # "new" => pc[r2] # "new" /\ ~overlapped

ScopedSpec == Init /\ [][Next /\ InScope']_vars /\ Fairness
=============================================================================

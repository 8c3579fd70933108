-------------------------- MODULE MCAgentDispatch --------------------------
(***************************************************************************)
(* Two brokers over two workspaces: a review and an implementation in the  *)
(* first, an implementation in the second (the worktree of the first,      *)
(* say), three that are refused where they would be executed and one that  *)
(* is refused itself.  A provider changes the file it may, a protected one *)
(* in another spelling, or one out of scope, where git shows it or not;    *)
(* claims what it did or did not do; names a session no receipt may hold;  *)
(* hangs, or fails.                                                        *)
(***************************************************************************)
EXTENDS AgentDispatch, TLC

CONSTANTS b1, b2

Mine   == <<"src", "mine.py">>
Theirs == <<"src", "theirs.py">>
Gate   == <<"src", "The_Pass", "gates.py">>

Name == {"src", "mine.py", "theirs.py", "The_Pass", "the_pass", "gates.py",
         ".git", "config", "runs",
         "head_link"}
Casefolded == [n \in Name |-> IF n = "The_Pass" THEN "the_pass" ELSE n]

Review ==
  [ schema_valid |-> TRUE, caller |-> "codex", target |-> "claude",
    role |-> "reviewer", mode |-> "read_only", native_subagents |-> FALSE,
    workload |-> "critical", profile |-> "auto", timeout |-> 600,
    max_output |-> MaxOutputBytes, budget |-> 1, forbidden |-> RequiredForbidden,
    objective |-> "permitted", workspace |-> "first", is_git_root |-> TRUE,
    plugin_root |-> FALSE,
    inputs |-> {Mine}, allowed |-> {}, output |-> <<"runs">> ]

Implement ==
  [Review EXCEPT !.caller = "claude", !.target = "codex", !.role = "implementer",
                 !.mode = "worktree_patch", !.workload = "auto",
                 !.allowed = {Mine, <<"src", "The_Pass">>}]

HeadLinks  == {<<"head_link">>}
MCExisting == {Mine, <<"src">>, <<"config">>}

MCTasks ==
  { Review,
    [Implement EXCEPT !.allowed = {Mine}],
    [Implement EXCEPT !.allowed = {Mine}, !.workspace = "second"],
    [Implement EXCEPT !.allowed = {Mine}, !.is_git_root = FALSE],
    [Implement EXCEPT !.allowed = {<<"head_link">>}],
    [Review EXCEPT !.native_subagents = TRUE],
    Implement }

Finished ==
  [ ending |-> "exit", document |-> "valid", status |-> "complete",
    evidence |-> {Mine}, claimed |-> {}, changed |-> {}, hidden |-> {}, moved |-> {},
    readable |-> TRUE, too_large |-> FALSE, metadata_valid |-> TRUE ]

MCEnds ==
  { Finished,
    [Finished EXCEPT !.status = "blocked", !.claimed = {Mine}, !.changed = {Mine}],
    [Finished EXCEPT !.claimed = {Mine}, !.changed = {Mine, Theirs}],
    [Finished EXCEPT !.changed = {Mine, Theirs}, !.hidden = {Theirs}],
    [Finished EXCEPT !.changed = {Mine, Theirs}, !.moved = {Theirs}],
    [Finished EXCEPT !.changed = {Gate}],
    [Finished EXCEPT !.changed = {Mine}, !.too_large = TRUE],
    [Finished EXCEPT !.changed = {Mine}, !.readable = FALSE],
    [Finished EXCEPT !.changed = {Mine}, !.metadata_valid = FALSE],
    [Finished EXCEPT !.evidence = {Theirs}],
    [Finished EXCEPT !.document = "malformed", !.changed = {Mine}],
    [Finished EXCEPT !.ending = "error", !.metadata_valid = FALSE],
    [Finished EXCEPT !.ending = "timed out", !.changed = {Mine}] }
=============================================================================

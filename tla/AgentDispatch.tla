---------------------------- MODULE AgentDispatch ----------------------------
(***************************************************************************)
(* `the-pass agent dispatch` (agent_orchestration.py): brokers that run    *)
(* one external provider each, under a lock per workspace, in the          *)
(* workspace itself or in a detached worktree; judge what it left behind;  *)
(* and file a patch and a receipt.  A provider may start a broker of its   *)
(* own, with or without the environment it was given; a broker may die and *)
(* leave its provider, its worktree and its patch.                         *)
(***************************************************************************)
EXTENDS AgentRouting, SequencesExt

CONSTANTS
  Brokers,       \* invocations of dispatch
  Workspaces,    \* resolved workspace roots
  Tasks,         \* the task files a broker may be given
  ProviderEnds,  \* how a provider may end, and what it has done by then
  Existing,      \* paths that exist in a workspace
  Symlinks,      \* paths that are symbolic links in a workspace
  HeadSymlinks,  \* paths that are symbolic links in a fresh worktree
  Folded,        \* Folded[name]: the casefolded file name
  Installed,     \* providers whose binary is installed
  Absent         \* no broker, no file

ASSUME AbsentAssumption == Absent \notin Brokers

VARIABLES
  age,           \* days since the model catalog was reviewed
  broker,        \* what each broker holds in memory
  lock,          \* who holds the dispatch lock of each workspace
  running,       \* brokers whose provider process is alive
  worktree,      \* brokers whose detached worktree exists
  patches,       \* the patch file each broker wrote: the paths it touches
  receipts       \* the AgentRun file each broker wrote

vars  == <<age, broker, lock, running, worktree, patches, receipts>>
files == <<worktree, patches, receipts>>

MaxDepth        == 1
MaxTimeout      == 1800
MaxOutputBytes  == 4194304
MaxBudget       == 5

RequiredForbidden == { "gate_decision", "live_transaction", "credential_access",
                       "permission_bypass", "recursive_cross_provider",
                       "apply_patch", "git_commit", "git_push" }

(* Three of the protected paths: a directory, a name, a file deep down. *)
ProtectedPaths == { <<".git">>, <<"config">>, <<"src", "the_pass", "gates.py">> }

RoleModes(role) == IF role = "implementer" THEN {"worktree_patch"} ELSE {"read_only"}

NativeProviders(role) == IF role = "implementer" THEN {} ELSE {"claude"}

NoTask  == [workspace |-> Absent]
Silent  == [ending |-> "none"]
Fresh   == [at |-> "new", task |-> NoTask, depth |-> 0, outcome |-> Silent,
            verdict |-> "failed", reported |-> Absent]

Steps    == {"lock", "prepare", "start", "wait", "patch", "clean", "receipt"}
Ended    == {"filed", "unfiled", "refused", "dead"}
Verdicts == {"complete", "blocked", "failed", "forbidden"}

Active(b) == broker[b].at \in Steps
Task(b)   == broker[b].task
Writes(b) == Task(b).mode = "worktree_patch"

TypeOK ==
  /\ age \in 0..(CatalogMaxAge + 1)
  /\ \A b \in Brokers :
       /\ broker[b].at \in {"new"} \cup Steps \cup Ended
       /\ broker[b].task \in Tasks \cup {NoTask}
       /\ broker[b].depth \in 0..MaxDepth
       /\ broker[b].outcome \in ProviderEnds \cup {Silent}
       /\ broker[b].verdict \in Verdicts
  /\ lock \in [Workspaces -> Brokers \cup {Absent}]
  /\ running \subseteq Brokers /\ worktree \subseteq Brokers

Init ==
  /\ age = CatalogMaxAge
  /\ broker = [b \in Brokers |-> Fresh]
  /\ lock = [w \in Workspaces |-> Absent]
  /\ running = {} /\ worktree = {}
  /\ patches = [b \in Brokers |-> Absent]
  /\ receipts = [b \in Brokers |-> Absent]

(***************************************************************************)
(* Paths: a path matches a prefix it equals or lies below; protection      *)
(* ignores case, permission does not.                                      *)
(***************************************************************************)
Fold(path) == [i \in DOMAIN path |-> Folded[path[i]]]

PathMatches(path, prefix) == IsPrefix(prefix, path)

Protected(path) == \E p \in ProtectedPaths : PathMatches(Fold(path), Fold(p))

IntersectsProtected(path) ==
  \E p \in ProtectedPaths : \/ PathMatches(Fold(path), Fold(p))
                            \/ PathMatches(Fold(p), Fold(path))

UsesSymlink(links, path) == \E l \in links : PathMatches(path, l)

Relative(path) == path # <<>> /\ path[1] # "/" /\ ".." \notin {path[i] : i \in DOMAIN path}

(***************************************************************************)
(* validate_agent_task_file: what a task may ask for.                      *)
(***************************************************************************)
RoleIsRespected(t) ==
  /\ t.caller # t.target
  /\ t.mode \in RoleModes(t.role)
  /\ t.native_subagents => t.target \in NativeProviders(t.role) /\ t.mode = "read_only"

LimitsAreRespected(t) ==
  /\ t.timeout <= MaxTimeout
  /\ t.max_output <= MaxOutputBytes
  /\ t.budget <= MaxBudget
  /\ RequiredForbidden \subseteq t.forbidden

WritePathsAreSafe(t) ==
  /\ (t.mode = "worktree_patch") <=> (t.allowed # {})
  /\ \A p \in t.allowed : /\ Relative(p)
                          /\ ~IntersectsProtected(p)
                          /\ ~UsesSymlink(Symlinks, p)

(* load_agent_policy, before anything is read of the task. *)
PolicyIsAccepted == CatalogIsWellFormed /\ RoutingIsWellFormed

ValidTask(t) ==
  /\ PolicyIsAccepted
  /\ t.schema_valid
  /\ RoleIsRespected(t)
  /\ LimitsAreRespected(t)
  /\ t.objective = "permitted"
  /\ t.workspace \in Workspaces
  /\ \A p \in t.inputs : Relative(p) /\ p \in Existing
  /\ WritePathsAreSafe(t)

(***************************************************************************)
(* build_provider_argv: the tools a provider is given.  Claude is granted  *)
(* tools by name, codex a sandbox.                                         *)
(***************************************************************************)
GrantedTools(t) ==
  IF t.target = "codex"
  THEN IF t.mode = "read_only" THEN {"read-only"} ELSE {"workspace-write"}
  ELSE IF t.native_subagents THEN {"researcher", "reviewer"}
  ELSE IF t.mode = "worktree_patch" THEN {"Read", "Glob", "Grep", "Edit", "Write"}
  ELSE {"Read", "Glob", "Grep"}

MayChangeFiles(t) == GrantedTools(t) \cap {"workspace-write", "Edit", "Write"} # {}

(***************************************************************************)
(* A broker is called, at the top or by a running provider.  The provider  *)
(* may have dropped the environment it was given, and the depth with it.   *)
(***************************************************************************)
Becomes(b, memory) == broker' = [broker EXCEPT ![b] = memory]
Goto(b, step)      == Becomes(b, [broker[b] EXCEPT !.at = step])
Refuse(b)          == Becomes(b, [Fresh EXCEPT !.at = "refused"])

DepthExhausted(depth) == depth >= MaxDepth

Depths(p) == IF p = Absent THEN {0} ELSE {0, broker[p].depth + 1}

Call(b) ==
  /\ broker[b].at = "new"
  /\ \E t \in Tasks, p \in running \cup {Absent} :
     \E depth \in Depths(p) :
       IF ValidTask(t) /\ ~DepthExhausted(depth) /\ ~Protected(t.output)
       THEN Becomes(b, [Fresh EXCEPT !.at = "lock", !.task = t, !.depth = depth])
       ELSE Refuse(b)
  /\ UNCHANGED <<age, lock, running, files>>

(* The dispatch does not ask for the lock. *)
LockIsFreeOfAny(w) == TRUE

(* The lock is not waited for. *)
LockIsFree(w) == lock[w] = Absent

TakeLock(b) ==
  /\ broker[b].at = "lock"
  /\ IF LockIsFree(Task(b).workspace)
     THEN /\ lock' = [lock EXCEPT ![Task(b).workspace] = b]
          /\ Goto(b, "prepare")
     ELSE Refuse(b) /\ UNCHANGED lock
  /\ UNCHANGED <<age, running, files>>

Unlocked(b) == [w \in Workspaces |-> IF lock[w] = b THEN Absent ELSE lock[w]]

(* Output directory, model and binary come before the try: a dispatch that *)
(* fails over one of them (the first may always fail) leaves no receipt.   *)
RefuseUnserved(b) ==
  /\ broker[b].at = "prepare"
  /\ Refuse(b)
  /\ lock' = Unlocked(b)
  /\ UNCHANGED <<age, running, files>>

(* A detached worktree at HEAD for a task that writes, the workspace itself *)
(* for one that does not; native subagents need the plugin.                 *)
SafeExecutionRoot(t) ==
  /\ t.mode = "worktree_patch" =>
       t.is_git_root /\ ~\E p \in t.allowed : UsesSymlink(HeadSymlinks, p)
  /\ t.native_subagents => t.plugin_root

Served(b) ==
  /\ broker[b].at = "prepare"
  /\ Selectable(Task(b), age) /\ Task(b).target \in Installed

(* What is not started is cleaned up after, under this verdict. *)
GiveUp(b, verdict) ==
  Becomes(b, [broker[b] EXCEPT !.at = "clean", !.verdict = verdict])

Prepare(b) ==
  /\ Served(b)
  /\ worktree' = IF Writes(b) /\ Task(b).is_git_root THEN worktree \cup {b} ELSE worktree
  /\ IF SafeExecutionRoot(Task(b)) THEN Goto(b, "start") ELSE GiveUp(b, "forbidden")
  /\ UNCHANGED <<age, lock, running, patches, receipts>>

(* No git repository at all, or no worktree to be had from it. *)
PrepareFails(b) ==
  /\ Served(b) /\ Writes(b)
  /\ worktree' \in {worktree, worktree \cup {b}}
  /\ GiveUp(b, "failed")
  /\ UNCHANGED <<age, lock, running, patches, receipts>>

Start(b) ==
  /\ broker[b].at = "start"
  /\ running' = running \cup {b}
  /\ Goto(b, "wait")
  /\ UNCHANGED <<age, lock, files>>

(* Popen raises. *)
StartFails(b) ==
  /\ broker[b].at = "start"
  /\ GiveUp(b, "failed")
  /\ UNCHANGED <<age, lock, running, files>>

(***************************************************************************)
(* The provider ends by itself, having changed what its tools let it; or   *)
(* the broker terminates it and its process group.                         *)
(***************************************************************************)
ProviderEnd(b) ==
  /\ b \in running
  /\ running' = running \ {b}
  /\ IF Active(b)
     THEN \E o \in ProviderEnds :
            /\ o.ending \in {"exit", "error"}
            /\ o.changed # {} => MayChangeFiles(Task(b))
            /\ Becomes(b, [broker[b] EXCEPT !.outcome = o])
     ELSE UNCHANGED broker
  /\ UNCHANGED <<age, lock, files>>

Terminate(b) ==
  /\ broker[b].at = "wait" /\ b \in running
  /\ running' = running \ {b}
  /\ \E o \in ProviderEnds :
       /\ o.ending \in {"timed out", "output exceeded"}
       /\ Becomes(b, [broker[b] EXCEPT !.outcome = o])
  /\ UNCHANGED <<age, lock, files>>

(***************************************************************************)
(* What the broker makes of it.  A result that cannot be used is a failed  *)
(* run, one that oversteps the task a forbidden one; only a result that    *)
(* clears every check is taken at its word, and then with the paths that   *)
(* git shows, not with the paths it claims.                                *)
(***************************************************************************)
Usable(o) == /\ o.ending = "exit" /\ o.document = "valid"
             /\ \A p \in o.evidence : Relative(p) => p \in Existing

UnsafeEvidence(o) == \E p \in o.evidence : ~Relative(p)

ForbiddenClaim(t, o) ==
  \/ \E p \in o.claimed : ~Relative(p)
  \/ t.mode = "read_only" /\ o.claimed # {}

(* The paths git names against HEAD: without those it ignores or that were *)
(* committed, and without those a staged rename took away.                 *)
Seen(o) == o.changed \ (o.hidden \cup o.moved)

(* The diff itself shows both ends of a rename. *)
Patch(o) == o.changed \ o.hidden

Permitted(t, path) == \E prefix \in t.allowed : PathMatches(path, prefix)

(* Only protected paths are looked for, not those out of the scope. *)
ForbiddenChangeIfProtected(t, o) ==
  t.mode = "worktree_patch" /\ o.readable /\ \E p \in Seen(o) : Protected(p)

ForbiddenChange(t, o) ==
  /\ t.mode = "worktree_patch" /\ o.readable
  /\ \E p \in Seen(o) : Protected(p) \/ ~Permitted(t, p)

Oversteps(t, o) ==
  Usable(o) /\ (UnsafeEvidence(o) \/ ForbiddenClaim(t, o) \/ ForbiddenChange(t, o))

(* git cannot be asked, or has too much to say. *)
Unpatched(t, o) == t.mode = "worktree_patch" /\ (~o.readable \/ o.too_large)

Clears(t, o) == Usable(o) /\ ~Oversteps(t, o) /\ ~Unpatched(t, o)

Verdict(t, o) ==
  CASE Clears(t, o)    -> o.status
    [] Oversteps(t, o) -> "forbidden"
    [] OTHER           -> "failed"

(* The paths the receipt's result names: none without a result, those      *)
(* claimed until git has been asked and its answer stands.                 *)
Reported(t, o) ==
  IF ~Usable(o) \/ UnsafeEvidence(o) \/ ForbiddenClaim(t, o) THEN Absent
  ELSE IF t.mode = "worktree_patch" /\ o.readable /\ ~ForbiddenChange(t, o)
  THEN Seen(o) ELSE o.claimed

Judge(b) ==
  /\ broker[b].at = "wait" /\ b \notin running
  /\ LET t == Task(b)
         o == broker[b].outcome
     IN Becomes(b, [broker[b] EXCEPT
          !.at = IF Clears(t, o) /\ Writes(b) /\ Seen(o) # {} THEN "patch" ELSE "clean",
          !.verdict = Verdict(t, o), !.reported = Reported(t, o)])
  /\ UNCHANGED <<age, lock, running, files>>

WritePatch(b) ==
  /\ broker[b].at = "patch"
  /\ patches' = [patches EXCEPT ![b] = Patch(broker[b].outcome)]
  /\ Goto(b, "clean")
  /\ UNCHANGED <<age, lock, running, worktree, receipts>>

(* A patch file that cannot be written is taken away again. *)
WritePatchFails(b) ==
  /\ broker[b].at = "patch"
  /\ GiveUp(b, "failed")
  /\ UNCHANGED <<age, lock, running, files>>

(* The worktree goes only when the provider ran to its end. *)
CleanAfterVerdict(b) ==
  /\ broker[b].at = "clean"
  /\ worktree' = IF broker[b].verdict = "failed" THEN worktree ELSE worktree \ {b}
  /\ Goto(b, "receipt")
  /\ UNCHANGED <<age, lock, running, patches, receipts>>

(* The finally clause of the worktree, whatever happened in it. *)
Clean(b) ==
  /\ broker[b].at = "clean"
  /\ worktree' = worktree \ {b}
  /\ Goto(b, "receipt")
  /\ UNCHANGED <<age, lock, running, patches, receipts>>

ExitCode(verdict) ==
  CASE verdict = "complete"  -> 0
    [] verdict = "failed"    -> 1
    [] verdict = "blocked"   -> 2
    [] verdict = "forbidden" -> 3

(* The receipt holds the session and the cost the provider gave, unless it *)
(* was stopped; the receipt's schema may refuse them.                      *)
Refused(o) == o.ending \in {"exit", "error"} /\ ~o.metadata_valid

(* The receipt comes last, and the lock is let go after it. *)
FileReceipt(b) ==
  /\ broker[b].at = "receipt" /\ ~Refused(broker[b].outcome)
  /\ receipts' = [receipts EXCEPT ![b] =
       [status |-> broker[b].verdict, exit |-> ExitCode(broker[b].verdict),
        changed |-> broker[b].reported, patched |-> patches[b] # Absent]]
  /\ lock' = Unlocked(b)
  /\ Goto(b, "filed")
  /\ UNCHANGED <<age, running, worktree, patches>>

(* A receipt its schema refuses is deleted again; the patch stays.          *)
WithdrawReceipt(b) ==
  /\ broker[b].at = "receipt" /\ Refused(broker[b].outcome)
  /\ lock' = Unlocked(b)
  /\ Goto(b, "unfiled")
  /\ UNCHANGED <<age, running, files>>

(* The kernel lets the lock go; the provider is in a session of its own. A *)
(* receipt that cannot be written at all ends the broker in the same way.  *)
Die(b) ==
  /\ Active(b)
  /\ Goto(b, "dead")
  /\ lock' = Unlocked(b)
  /\ UNCHANGED <<age, running, files>>

DayPasses ==
  /\ age = CatalogMaxAge
  /\ age' = age + 1
  /\ UNCHANGED <<broker, lock, running, files>>

(***************************************************************************)
(* The next-state relation.  A broker that started goes on; its provider   *)
(* owes nothing, and is terminated when its time is up.                    *)
(***************************************************************************)
BrokerStep(b) ==
  \/ TakeLock(b) \/ RefuseUnserved(b) \/ Prepare(b) \/ PrepareFails(b)
  \/ Start(b) \/ StartFails(b) \/ Terminate(b) \/ Judge(b)
  \/ WritePatch(b) \/ WritePatchFails(b) \/ Clean(b) \/ FileReceipt(b) \/ WithdrawReceipt(b)

Next ==
  \/ \E b \in Brokers : Call(b) \/ BrokerStep(b) \/ ProviderEnd(b) \/ Die(b)
  \/ DayPasses

Fairness == \A b \in Brokers : WF_vars(BrokerStep(b))

Spec == Init /\ [][Next]_vars /\ Fairness

(***************************************************************************)
(* Properties.                                                             *)
(***************************************************************************)

(* "External dispatch is serialized per workspace" (docs/implementation/   *)
(* POST_AUDIT_HARDENING_PLAN.md:26): two providers are alive in one        *)
(* workspace only when the broker of one of them died and left it behind.  *)
OneProviderPerWorkspace ==
  \A b, c \in running :
    b # c /\ Task(b).workspace = Task(c).workspace
      => \E d \in {b, c} : broker[d].at = "dead"

(* What is delivered goes by git and not by the provider's word: a patch   *)
(* is all that git shows, and every path git names in it is permitted and  *)
(* not protected under any spelling (the source of a staged rename is not  *)
(* named, only taken away by the patch); a receipt of a dispatch that came *)
(* to a result names just those paths, and has a patch if there are any.   *)
DeliveredIsWhatGitShows ==
  \A b \in Brokers :
    LET o == broker[b].outcome
    IN /\ patches[b] # Absent =>
            /\ patches[b] = Patch(o)
            /\ \A p \in patches[b] \ o.moved :
                 /\ \E prefix \in Task(b).allowed : IsPrefix(prefix, p)
                 /\ \A q \in ProtectedPaths : ~IsPrefix(Fold(q), Fold(p))
       /\ receipts[b] # Absent /\ receipts[b].status \in {"complete", "blocked"} =>
            /\ receipts[b].changed = Seen(o)
            /\ receipts[b].patched = (patches[b] # Absent)
            /\ patches[b] = IF Seen(o) = {} THEN Absent ELSE Patch(o)

(* Every dispatch ends: refused, with a receipt, without one because the   *)
(* provider's session or cost does not fit its schema, or killed. Unless   *)
(* it is killed it leaves no provider, no worktree and no lock behind, and *)
(* a patch without a receipt only in that third case.                      *)
EveryDispatchEnds ==
  \A b \in Brokers :
    Active(b) ~> \/ broker[b].at = "dead"
                 \/ /\ broker[b].at \in {"refused", "filed", "unfiled"}
                    /\ b \notin running /\ b \notin worktree
                    /\ \A w \in Workspaces : lock[w] # b
                    /\ patches[b] # Absent =>
                         receipts[b] # Absent \/ Refused(broker[b].outcome)
=============================================================================

---------------------------- MODULE AgentRouting ----------------------------
(***************************************************************************)
(* Which model a dispatched task gets, and how workflow stages are routed: *)
(* policies/agent-orchestration.v1.yaml as agent_orchestration.py reads    *)
(* it.  The routing is a set of tables; a profile is chosen as the deepest *)
(* of the floors that apply, and must have the role's capabilities.        *)
(***************************************************************************)
EXTENDS Naturals, Sequences, FiniteSets, FiniteSetsExt, PipelinePolicy

Providers == {"codex", "claude"}
Roles     == {"researcher", "implementer", "reviewer"}

ProfileOrder == <<"economy", "balanced", "deep">>
Profiles     == {ProfileOrder[i] : i \in DOMAIN ProfileOrder}
Depth(profile) == CHOOSE i \in DOMAIN ProfileOrder : ProfileOrder[i] = profile
Deepest(candidates) == ProfileOrder[Max({Depth(c) : c \in candidates})]

Workloads == {"routine", "standard", "complex", "critical"}

WorkloadProfile(workload) ==
  CASE workload = "routine"  -> "economy"
    [] workload = "standard" -> "balanced"
    [] OTHER                 -> "deep"

RoleFloor(role) == IF role = "implementer" THEN "balanced" ELSE "economy"

WorktreeFloor        == "balanced"
NativeSubagentsFloor == "balanced"
AutomaticWorkload    == "standard"

CommonCapabilities == { "structured_output", "repository_read",
                        "repository_write", "coding", "research", "review" }

Capabilities(provider, profile) ==
  IF provider = "claude" /\ profile # "economy"
  THEN CommonCapabilities \cup {"native_subagents"} ELSE CommonCapabilities

RequiredCapabilities(role) ==
  CASE role = "researcher"  -> {"structured_output", "repository_read", "research"}
    [] role = "implementer" -> {"structured_output", "repository_read",
                                "repository_write", "coding"}
    [] role = "reviewer"    -> {"structured_output", "repository_read", "review"}

Model(provider, profile) ==
  CASE provider = "codex"  /\ profile = "economy"  -> "gpt-5.6-luna"
    [] provider = "codex"  /\ profile = "balanced" -> "gpt-5.6-terra"
    [] provider = "codex"  /\ profile = "deep"     -> "gpt-5.6-sol"
    [] provider = "claude" /\ profile = "economy"  -> "claude-sonnet-5"
    [] provider = "claude" /\ profile = "balanced" -> "claude-opus-4-8"
    [] provider = "claude" /\ profile = "deep"     -> "claude-fable-5"

(***************************************************************************)
(* What the packaged policy must satisfy before anything is dispatched.    *)
(***************************************************************************)
CatalogMaxAge == 30

CatalogIsWellFormed ==
  /\ CatalogMaxAge \in 1..90
  /\ \A w \in Workloads : WorkloadProfile(w) \in Profiles
  /\ \A r \in Roles : RoleFloor(r) \in Profiles /\ RequiredCapabilities(r) # {}
  /\ {WorktreeFloor, NativeSubagentsFloor} \subseteq Profiles
  /\ AutomaticWorkload \in Workloads
  /\ \A v \in Providers : Cardinality({Model(v, f) : f \in Profiles}) \in 2..3

CatalogIsStale(age) == age > CatalogMaxAge

(***************************************************************************)
(* The route of a workflow stage: a review goes to the provider that is    *)
(* not the author, any other stage prefers one.                            *)
(***************************************************************************)
DeterministicStages == {"preflight", "complete"} \cup Gates

Route(role, workload, preferred) ==
  [role |-> role, workload |-> workload, preferred |-> preferred]

StageRoute(stage) ==
  CASE stage = "research"   -> Route("researcher", "complex", "claude")
    [] stage = "screen"     -> Route("implementer", "complex", "codex")
    [] stage = "backtest"   -> Route("implementer", "critical", "codex")
    [] stage = "robustness" -> Route("reviewer", "critical", "claude")
    [] stage \in {"review_research", "review_paper", "review_risk"} ->
         Route("reviewer", "critical", "independent")
    [] stage \in {"paper_prepare", "paper_observe"} ->
         Route("implementer", "standard", "codex")
    [] stage \in {"risk_prepare", "plate"} -> Route("implementer", "complex", "codex")
    [] stage = "remediation" -> Route("implementer", "critical", "codex")

(* Every stage is either deterministic or routed to a role and a workload. *)
RoutingIsWellFormed ==
  \A stage \in Stages \ DeterministicStages :
    /\ StageRoute(stage).role \in Roles
    /\ StageRoute(stage).workload \in Workloads
    /\ StageRoute(stage).preferred \in Providers \cup {"independent"}

CanServe(provider, profile, required) == required \subseteq Capabilities(provider, profile)

(***************************************************************************)
(* The profile of a dispatched task, from declared fields only: the deepest*)
(* of the workload's profile, the profile asked for and the floors.        *)
(***************************************************************************)
TaskWorkload(task) == IF task.workload = "auto" THEN AutomaticWorkload ELSE task.workload

SelectedProfile(task) ==
  Deepest({WorkloadProfile(TaskWorkload(task)), RoleFloor(task.role)}
          \cup (IF task.profile # "auto" THEN {task.profile} ELSE {})
          \cup (IF task.mode = "worktree_patch" THEN {WorktreeFloor} ELSE {})
          \cup (IF task.native_subagents THEN {NativeSubagentsFloor} ELSE {}))

TaskRequires(task) ==
  RequiredCapabilities(task.role)
    \cup (IF task.native_subagents THEN {"native_subagents"} ELSE {})

Selectable(task, age) ==
  /\ ~CatalogIsStale(age)
  /\ CanServe(task.target, SelectedProfile(task), TaskRequires(task))
=============================================================================

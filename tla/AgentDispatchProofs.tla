------------------------ MODULE AgentDispatchProofs ------------------------
(***************************************************************************)
(* What dispatch guarantees for every number of brokers and workspaces,    *)
(* whatever the tasks ask for and whatever the providers do.               *)
(***************************************************************************)
EXTENDS AgentDispatch, TLAPS

(* A broker's memory has its six fields. *)
Shaped(m) == m = [at |-> m.at, task |-> m.task, depth |-> m.depth,
                  outcome |-> m.outcome, verdict |-> m.verdict, reported |-> m.reported]

Memories == broker = [b \in Brokers |-> broker[b]] /\ \A b \in Brokers : Shaped(broker[b])
Files == /\ patches = [b \in Brokers |-> patches[b]]
         /\ receipts = [b \in Brokers |-> receipts[b]]

Early == {"new", "lock", "prepare", "start", "wait"}

(* The holder of a lock is the broker at work in the workspace, and only   *)
(* one that waits, or that died, has a provider alive.                     *)
Placed(b) ==
  /\ broker[b].at \in Steps \cup {"filed", "unfiled", "dead"} => ValidTask(Task(b))
  /\ broker[b].at \in Steps \ {"lock"} => lock[Task(b).workspace] = b
  /\ b \in running => broker[b].at \in {"wait", "dead"}
  /\ broker[b].depth = 0

(* A provider that reads only has changed nothing when it exits.           *)
Ends(b) ==
  LET o == broker[b].outcome
  IN o.ending = "exit" /\ ~Writes(b) => o.changed = {}

(* What has been judged of the provider's result, and what was filed.      *)
Delivers(b) ==
  LET t == Task(b)
      o == broker[b].outcome
      kept == IF Writes(b) THEN Seen(o) ELSE {}
      patch == IF kept = {} THEN Absent ELSE Patch(o)
  IN /\ broker[b].at \in Early \cup {"patch"} => patches[b] = Absent
     /\ receipts[b] # Absent => broker[b].at = "filed"
     /\ broker[b].at = "patch" =>
          Clears(t, o) /\ Writes(b) /\ Seen(o) # {} /\ broker[b].reported = Seen(o)
     /\ patches[b] # Absent => Clears(t, o) /\ Writes(b) /\ patches[b] = Patch(o)
     /\ broker[b].at \in {"clean", "receipt"} /\ broker[b].verdict \in {"complete", "blocked"} =>
          Clears(t, o) /\ broker[b].reported = kept /\ patches[b] = patch
     /\ receipts[b] # Absent /\ receipts[b].status \in {"complete", "blocked"} =>
          /\ receipts[b].changed = Seen(o)
          /\ receipts[b].patched = (patches[b] # Absent)
          /\ patches[b] = IF Seen(o) = {} THEN Absent ELSE Patch(o)

Good(b) == Placed(b) /\ Ends(b) /\ Delivers(b)

Inv ==
  /\ Memories /\ Files
  /\ lock \in [Workspaces -> Brokers \cup {Absent}]
  /\ running \subseteq Brokers
  /\ \A b \in Brokers : Good(b)
-----------------------------------------------------------------------------
LEMMA FreshShape ==
  /\ Shaped(Fresh) /\ Fresh.at = "new" /\ Fresh.depth = 0
  /\ Shaped([Fresh EXCEPT !.at = "refused"])
  /\ [Fresh EXCEPT !.at = "refused"].at = "refused"
  /\ [Fresh EXCEPT !.at = "refused"].depth = 0
BY DEF Shaped, Fresh

LEMMA GoesOn ==
  ASSUME Memories, NEW b \in Brokers, NEW step, Goto(b, step)
  PROVE  /\ Memories'
         /\ \A c \in Brokers \ {b} : broker'[c] = broker[c]
         /\ broker'[b].at = step
         /\ broker'[b].task = broker[b].task
         /\ broker'[b].depth = broker[b].depth /\ broker'[b].outcome = broker[b].outcome
         /\ broker'[b].verdict = broker[b].verdict /\ broker'[b].reported = broker[b].reported
BY DEF Memories, Shaped, Goto, Becomes

LEMMA BecomesShaped ==
  ASSUME Memories, NEW b \in Brokers, NEW m, Shaped(m), Becomes(b, m)
  PROVE  Memories' /\ broker'[b] = m /\ \A c \in Brokers \ {b} : broker'[c] = broker[c]
BY DEF Memories, Becomes

LEMMA NamesApart ==
  /\ "new" \notin Steps /\ "refused" \notin Steps /\ "dead" \notin Steps
  /\ "filed" \notin Steps /\ "unfiled" \notin Steps
  /\ Early \cap {"patch", "clean", "receipt", "filed", "unfiled", "refused", "dead"} = {}
BY DEF Steps, Early

LEMMA InitInv == Init => Inv
<1>. SUFFICES ASSUME Init PROVE Inv
  OBVIOUS
<1>1. Memories /\ Files
  BY FreshShape DEF Init, Memories, Files
<1>2. \A b \in Brokers : broker[b] = Fresh /\ patches[b] = Absent /\ receipts[b] = Absent
  BY DEF Init
<1>3. \A b \in Brokers : Placed(b)
  BY <1>2, FreshShape, NamesApart, AbsentAssumption DEF Init, Placed
<1>4. \A b \in Brokers : Ends(b) /\ Delivers(b)
  BY <1>2, NamesApart DEF Ends, Delivers, Fresh, Silent
<1>. QED BY <1>1, <1>3, <1>4 DEF Init, Inv, Good

(* A broker keeps its invariant when a step leaves it alone. *)
LEMMA LeftAlone ==
  ASSUME Inv, NEW c \in Brokers,
         broker'[c] = broker[c], patches'[c] = patches[c], receipts'[c] = receipts[c],
         c \in running' => c \in running,
         \A w \in Workspaces : lock[w] = c => lock'[w] = c
  PROVE  Good(c)'
<1>0. Good(c)
  BY DEF Inv
<1>1. broker[c].at \in Steps => Task(c).workspace \in Workspaces
  BY <1>0 DEF Good, Placed, ValidTask
<1>2. Placed(c)'
  BY <1>0, <1>1 DEF Good, Placed, Task
<1>3. Ends(c)' /\ Delivers(c)'
  BY <1>0 DEF Good, Ends, Delivers, Task, Writes
<1>. QED BY <1>2, <1>3 DEF Good

(* What a step of one broker has to show. *)
LEMMA OneBroker ==
  ASSUME Inv, NEW b \in Brokers, Memories', Files',
         \A c \in Brokers \ {b} : /\ broker'[c] = broker[c]
                                  /\ patches'[c] = patches[c] /\ receipts'[c] = receipts[c],
         running' \in {running, running \cup {b}, running \ {b}},
         lock' \in [Workspaces -> Brokers \cup {Absent}],
         \A w \in Workspaces, c \in Brokers \ {b} : lock[w] = c => lock'[w] = c,
         Good(b)'
  PROVE  Inv'
<1>1. \A c \in Brokers \ {b} : Good(c)'
  BY LeftAlone
<1>2. running' \subseteq Brokers
  BY DEF Inv
<1>. QED BY <1>1, <1>2 DEF Inv

LEMMA UnlockedKeeps ==
  ASSUME Inv, NEW b \in Brokers
  PROVE  /\ Unlocked(b) \in [Workspaces -> Brokers \cup {Absent}]
         /\ \A w \in Workspaces, c \in Brokers \ {b} : lock[w] = c => Unlocked(b)[w] = c
BY DEF Inv, Unlocked

(* A broker that was refused has forgotten everything. *)
LEMMA RefusedInv ==
  ASSUME Inv, NEW b \in Brokers, Refuse(b), broker[b].at \in Early \ {"wait"}, b \notin running,
         UNCHANGED <<running, files>>, lock' \in {lock, Unlocked(b)}
  PROVE  Inv'
<1>1. /\ Memories' /\ broker'[b] = [Fresh EXCEPT !.at = "refused"]
      /\ \A c \in Brokers \ {b} : broker'[c] = broker[c]
  BY FreshShape, BecomesShaped DEF Inv, Refuse
<1>2. patches[b] = Absent /\ receipts[b] = Absent
  BY NamesApart DEF Inv, Good, Delivers
<1>3. Placed(b)'
  BY <1>1, FreshShape, NamesApart, AbsentAssumption DEF Placed
<1>4. Ends(b)' /\ Delivers(b)'
  BY <1>1, <1>2, NamesApart DEF Ends, Delivers, Fresh, Silent, files
<1>. QED BY <1>1, <1>3, <1>4, OneBroker, UnlockedKeeps DEF Inv, Files, files, Good

LEMMA CallInv ==
  ASSUME Inv, NEW b \in Brokers, Call(b)
  PROVE  Inv'
<1>1. broker[b].at = "new" /\ UNCHANGED <<age, lock, running, files>>
  BY DEF Call
<1>2. /\ b \notin running /\ patches[b] = Absent /\ receipts[b] = Absent
      /\ b # Absent /\ "new" \in Early \ {"wait"}
  BY <1>1, AbsentAssumption DEF Inv, Good, Placed, Delivers, Early
<1>3. CASE Refuse(b)
  BY <1>1, <1>2, <1>3, RefusedInv
<1>4. ASSUME NEW t \in Tasks, NEW p \in running \cup {Absent}, NEW depth \in Depths(p),
             ValidTask(t), ~DepthExhausted(depth),
             Becomes(b, [Fresh EXCEPT !.at = "lock", !.task = t, !.depth = depth])
      PROVE  Inv'
  <2>. DEFINE m == [Fresh EXCEPT !.at = "lock", !.task = t, !.depth = depth]
  <2>1. /\ Shaped(m) /\ m.at = "lock" /\ m.task = t /\ m.depth = depth
        /\ m.outcome = Silent
    <3>1. PICK n : n = [Fresh EXCEPT !.at = "lock"]
      OBVIOUS
    <3>2. PICK q : q = [n EXCEPT !.task = t]
      OBVIOUS
    <3>4. m = [q EXCEPT !.depth = depth]
      BY <3>1, <3>2
    <3>5. Shaped(n) /\ n.at = "lock" /\ n.outcome = Silent
      BY <3>1 DEF Fresh, Shaped
    <3>6. Shaped(q) /\ q.at = "lock" /\ q.outcome = Silent /\ q.task = t
      BY <3>2, <3>5 DEF Shaped
    <3>. HIDE DEF m
    <3>. QED BY <3>4, <3>6 DEF Shaped
  <2>2. /\ Memories' /\ broker'[b] = m /\ \A c \in Brokers \ {b} : broker'[c] = broker[c]
    BY <1>4, <2>1, BecomesShaped DEF Inv
  <2>3. depth = 0
    <3>1. p # Absent => broker[p].depth = 0
      BY DEF Inv, Good, Placed
    <3>. QED BY <1>4, <3>1 DEF Depths, DepthExhausted, MaxDepth
  <2>4. Placed(b)'
    BY <1>1, <1>2, <1>4, <2>1, <2>2, <2>3 DEF Placed, Task, Steps
  <2>5. /\ broker'[b].at = "lock" /\ broker'[b].outcome = Silent
        /\ patches'[b] = Absent /\ receipts'[b] = Absent
    BY <1>1, <1>2, <2>1, <2>2 DEF files
  <2>6. Ends(b)' /\ Delivers(b)'
    <3>1. Ends(b)'
      BY <2>5 DEF Ends, Silent
    <3>2. Delivers(b)'
      BY <2>5 DEF Delivers
    <3>. QED BY <3>1, <3>2
  <2>. QED BY <1>1, <2>2, <2>4, <2>6, OneBroker DEF Inv, Files, files, Good
<1>. QED BY <1>3, <1>4 DEF Call

LEMMA TakeLockInv ==
  ASSUME Inv, NEW b \in Brokers, TakeLock(b)
  PROVE  Inv'
<1>. DEFINE w == Task(b).workspace
<1>1. broker[b].at = "lock" /\ UNCHANGED <<running, files>>
  BY DEF TakeLock
<1>2. b \notin running /\ w \in Workspaces /\ "lock" \in Early \ {"wait"} /\ ValidTask(Task(b))
  BY <1>1 DEF Inv, Good, Placed, Early, Steps, ValidTask
<1>3. CASE lock[w] # Absent
  BY <1>1, <1>2, <1>3, RefusedInv DEF TakeLock, LockIsFree
<1>4. CASE lock[w] = Absent
  <2>1. lock' = [lock EXCEPT ![w] = b] /\ Goto(b, "prepare")
    BY <1>4 DEF TakeLock, LockIsFree
  <2>2. /\ lock' \in [Workspaces -> Brokers \cup {Absent}] /\ lock'[w] = b
        /\ \A v \in Workspaces, c \in Brokers \ {b} : lock[v] = c => lock'[v] = c
    BY <1>2, <1>4, <2>1, AbsentAssumption DEF Inv
  <2>3. Good(b)
    BY DEF Inv
  <2>4. /\ Memories' /\ \A c \in Brokers \ {b} : broker'[c] = broker[c]
        /\ broker'[b].at = "prepare" /\ broker'[b].task = broker[b].task
        /\ broker'[b].depth = broker[b].depth
        /\ broker'[b].outcome = broker[b].outcome
    BY <2>1, GoesOn DEF Inv
  <2>5. Placed(b)'
    BY <1>1, <1>2, <2>2, <2>3, <2>4 DEF Good, Placed, Task, Steps
  <2>6. Ends(b)' /\ Delivers(b)'
    BY <1>1, <1>2, <2>3, <2>4 DEF Good, Ends, Delivers, Task, Writes, Early, files
  <2>. QED BY <1>1, <2>2, <2>4, <2>5, <2>6, OneBroker DEF Inv, Files, files, Good
<1>. QED BY <1>3, <1>4

LEMMA RefuseUnservedInv ==
  ASSUME Inv, NEW b \in Brokers, RefuseUnserved(b)
  PROVE  Inv'
<1>1. broker[b].at = "prepare" /\ "prepare" \in Early \ {"wait"}
  BY DEF RefuseUnserved, Early
<1>2. b \notin running
  BY <1>1 DEF Inv, Good, Placed
<1>. QED BY <1>1, <1>2, RefusedInv DEF RefuseUnserved

(* A broker that goes on without a word on its provider's result.          *)
LEMMA StepInv ==
  ASSUME Inv, NEW b \in Brokers, NEW step \in {"start", "wait"}, Goto(b, step),
         broker[b].at \in {"prepare", "start"}, UNCHANGED <<lock, patches, receipts>>,
         running' = IF step = "wait" THEN running \cup {b} ELSE running
  PROVE  Inv'
<1>1. Good(b) /\ {"prepare", "start", "wait"} \subseteq Steps \ {"lock"}
  BY DEF Inv, Steps
<1>2. /\ Memories' /\ \A c \in Brokers \ {b} : broker'[c] = broker[c]
      /\ broker'[b].at = step /\ broker'[b].task = broker[b].task
      /\ broker'[b].depth = broker[b].depth
      /\ broker'[b].outcome = broker[b].outcome
  BY GoesOn DEF Inv
<1>3. b \notin running
  BY <1>1 DEF Good, Placed
<1>4. Placed(b)'
  BY <1>1, <1>2, <1>3 DEF Good, Placed, Task
<1>5. Ends(b)' /\ Delivers(b)'
  BY <1>1, <1>2 DEF Good, Ends, Delivers, Task, Writes, Early
<1>. QED BY <1>2, <1>4, <1>5, OneBroker DEF Inv, Files, Good

(* A broker that ends its dispatch before a patch, or for want of one.     *)
LEMMA GiveUpInv ==
  ASSUME Inv, NEW b \in Brokers, NEW verdict \in {"forbidden", "failed"}, GiveUp(b, verdict),
         broker[b].at \in {"prepare", "start", "patch"},
         UNCHANGED <<lock, running, patches, receipts>>
  PROVE  Inv'
<1>. DEFINE m == [broker[b] EXCEPT !.at = "clean", !.verdict = verdict]
<1>1. /\ Good(b) /\ Shaped(broker[b])
      /\ {"prepare", "start", "patch", "clean"} \subseteq Steps \ {"lock"}
  BY DEF Inv, Memories, Steps
<1>2. /\ Shaped(m) /\ m.at = "clean" /\ m.verdict = verdict /\ m.task = broker[b].task
      /\ m.depth = broker[b].depth
      /\ m.outcome = broker[b].outcome
  <2>1. PICK r : r = broker[b]
    OBVIOUS
  <2>2. PICK n : n = [r EXCEPT !.at = "clean"]
    OBVIOUS
  <2>3. m = [n EXCEPT !.verdict = verdict]
    BY <2>1, <2>2
  <2>. HIDE DEF m
  <2>4. Shaped(r)
    BY <1>1, <2>1
  <2>5. /\ Shaped(n) /\ n.at = "clean" /\ n.task = r.task
        /\ n.depth = r.depth /\ n.outcome = r.outcome
    BY <2>2, <2>4 DEF Shaped
  <2>. QED BY <2>1, <2>3, <2>5 DEF Shaped
<1>3. /\ Memories' /\ broker'[b] = m /\ \A c \in Brokers \ {b} : broker'[c] = broker[c]
  BY <1>2, BecomesShaped DEF Inv, GiveUp
<1>. HIDE DEF m
<1>4. Placed(b)'
  BY <1>1, <1>2, <1>3 DEF Good, Placed, Task
<1>5. patches[b] = Absent /\ receipts[b] = Absent
  BY <1>1 DEF Good, Delivers, Early
<1>6. Ends(b)'
  BY <1>1, <1>2, <1>3 DEF Good, Ends, Task, Writes
<1>7. patches'[b] = Absent /\ receipts'[b] = Absent /\ broker'[b].at = "clean"
      /\ broker'[b].verdict = verdict
  BY <1>2, <1>3, <1>5
<1>8. Delivers(b)'
  BY <1>7 DEF Delivers, Early
<1>. QED BY <1>3, <1>4, <1>6, <1>8, OneBroker DEF Inv, Files, Good

LEMMA PrepareInv ==
  ASSUME Inv, NEW b \in Brokers, Prepare(b) \/ PrepareFails(b)
  PROVE  Inv'
<1>1. broker[b].at = "prepare" /\ UNCHANGED <<lock, running, patches, receipts>>
  BY DEF Prepare, PrepareFails, Served
<1>2. CASE Goto(b, "start")
  BY <1>1, <1>2, StepInv
<1>3. CASE GiveUp(b, "forbidden") \/ GiveUp(b, "failed")
  BY <1>1, <1>3, GiveUpInv
<1>. QED BY <1>2, <1>3 DEF Prepare, PrepareFails

LEMMA StartInv ==
  ASSUME Inv, NEW b \in Brokers, Start(b) \/ StartFails(b)
  PROVE  Inv'
<1>1. CASE Start(b)
  BY <1>1, StepInv DEF Start, files
<1>2. CASE StartFails(b)
  BY <1>2, GiveUpInv DEF StartFails, files
<1>. QED BY <1>1, <1>2

(* A task that may not write gets no tool to write with.                   *)
LEMMA ReadersCannotWrite ==
  ASSUME NEW t, RoleIsRespected(t), t.mode # "worktree_patch"
  PROVE  ~MayChangeFiles(t)
<1>1. t.mode = "read_only"
  BY DEF RoleIsRespected, RoleModes
<1>2. GrantedTools(t) \subseteq {"read-only", "researcher", "reviewer", "Read", "Glob", "Grep"}
  BY <1>1 DEF GrantedTools
<1>. QED BY <1>2 DEF MayChangeFiles

(* The provider of a waiting broker ends, one way or the other.            *)
LEMMA OutcomeInv ==
  ASSUME Inv, NEW b \in Brokers, broker[b].at = "wait", NEW o,
         Becomes(b, [broker[b] EXCEPT !.outcome = o]),
         o.ending = "exit" /\ ~Writes(b) => o.changed = {},
         running' = running \ {b}, UNCHANGED <<lock, files>>
  PROVE  Inv'
<1>. DEFINE m == [broker[b] EXCEPT !.outcome = o]
<1>1. Good(b) /\ Shaped(broker[b]) /\ "wait" \in Early
  BY DEF Inv, Memories, Early
<1>2. /\ Shaped(m) /\ m.at = "wait" /\ m.task = broker[b].task
      /\ m.depth = broker[b].depth /\ m.outcome = o
  BY <1>1 DEF Shaped
<1>3. /\ Memories' /\ broker'[b] = m /\ \A c \in Brokers \ {b} : broker'[c] = broker[c]
  BY <1>2, BecomesShaped DEF Inv
<1>. HIDE DEF m
<1>4. Placed(b)'
  BY <1>1, <1>2, <1>3 DEF Good, Placed, Task
<1>5. Ends(b)'
  BY <1>2, <1>3 DEF Ends, Task, Writes
<1>6. patches'[b] = Absent /\ receipts'[b] = Absent /\ broker'[b].at = "wait"
  <2>1. "wait" # "filed"
    OBVIOUS
  <2>. QED BY <1>1, <1>2, <1>3, <2>1 DEF Good, Delivers, files
<1>7. Delivers(b)'
  BY <1>6 DEF Delivers
<1>. QED BY <1>3, <1>4, <1>5, <1>7, OneBroker DEF Inv, Files, files, Good

LEMMA ProviderEndInv ==
  ASSUME Inv, NEW b \in Brokers, ProviderEnd(b)
  PROVE  Inv'
<1>1. /\ b \in running /\ running' = running \ {b} /\ UNCHANGED <<lock, files>>
      /\ broker[b].at \in {"wait", "dead"} /\ Good(b)
  BY DEF ProviderEnd, Inv, Good, Placed
<1>2. CASE Active(b)
  <2>1. PICK o \in ProviderEnds :
          /\ o.changed # {} => MayChangeFiles(Task(b))
          /\ Becomes(b, [broker[b] EXCEPT !.outcome = o])
    BY <1>2 DEF ProviderEnd
  <2>2. broker[b].at = "wait" /\ ValidTask(Task(b))
    BY <1>1, <1>2, NamesApart DEF Active, Good, Placed
  <2>3. ~Writes(b) => o.changed = {}
    BY <2>1, <2>2, ReadersCannotWrite DEF ValidTask, Writes
  <2>. QED BY <1>1, <2>1, <2>2, <2>3, OutcomeInv
<1>3. CASE ~Active(b)
  <2>1. UNCHANGED broker
    BY <1>3 DEF ProviderEnd
  <2>2. Good(b)'
    BY <1>1, <2>1, LeftAlone DEF files
  <2>. QED BY <1>1, <2>1, <2>2, OneBroker DEF Inv, Memories, Files, files
<1>. QED BY <1>2, <1>3

LEMMA TerminateInv ==
  ASSUME Inv, NEW b \in Brokers, Terminate(b)
  PROVE  Inv'
<1>1. PICK o \in ProviderEnds : /\ o.ending \in {"timed out", "output exceeded"}
                                /\ Becomes(b, [broker[b] EXCEPT !.outcome = o])
  BY DEF Terminate
<1>2. o.ending # "exit"
  BY <1>1
<1>. QED BY <1>1, <1>2, OutcomeInv DEF Terminate

LEMMA JudgeInv ==
  ASSUME Inv, NEW b \in Brokers, Judge(b)
  PROVE  Inv'
<1>. DEFINE t == Task(b)
            o == broker[b].outcome
            kept == IF Writes(b) THEN Seen(o) ELSE {}
            next == IF Clears(t, o) /\ Writes(b) /\ Seen(o) # {} THEN "patch" ELSE "clean"
            m == [broker[b] EXCEPT !.at = next, !.verdict = Verdict(t, o),
                                   !.reported = Reported(t, o)]
<1>1. /\ broker[b].at = "wait" /\ b \notin running /\ Becomes(b, m)
      /\ UNCHANGED <<lock, running, patches, receipts>>
  BY DEF Judge, files
<1>2. /\ Good(b) /\ Shaped(broker[b]) /\ "wait" \in Early /\ "wait" # "filed"
      /\ {"wait", "patch", "clean"} \subseteq Steps \ {"lock"}
  BY DEF Inv, Memories, Early, Steps
<1>3. /\ Shaped(m) /\ m.at = next /\ m.verdict = Verdict(t, o) /\ m.reported = Reported(t, o)
      /\ m.task = broker[b].task
      /\ m.depth = broker[b].depth /\ m.outcome = o
  <2>1. PICK r : r = broker[b]
    OBVIOUS
  <2>2. PICK n : n = [r EXCEPT !.at = next]
    OBVIOUS
  <2>3. PICK k : k = [n EXCEPT !.verdict = Verdict(t, o)]
    OBVIOUS
  <2>4. m = [k EXCEPT !.reported = Reported(t, o)]
    BY <2>1, <2>2, <2>3
  <2>. HIDE DEF m, next
  <2>5. Shaped(r)
    BY <1>2, <2>1
  <2>6. /\ Shaped(n) /\ n.at = next /\ n.task = r.task
        /\ n.depth = r.depth /\ n.outcome = r.outcome
    BY <2>2, <2>5 DEF Shaped
  <2>7. /\ Shaped(k) /\ k.at = next /\ k.task = r.task
        /\ k.depth = r.depth /\ k.outcome = r.outcome /\ k.verdict = Verdict(t, o)
    BY <2>3, <2>6 DEF Shaped
  <2>. QED BY <2>1, <2>4, <2>7 DEF Shaped
<1>. HIDE DEF m
<1>4. /\ Memories' /\ broker'[b] = m /\ \A c \in Brokers \ {b} : broker'[c] = broker[c]
  BY <1>1, <1>3, BecomesShaped DEF Inv
<1>5. next \in {"patch", "clean"}
  OBVIOUS
<1>6. /\ patches'[b] = Absent /\ receipts'[b] = Absent
      /\ broker'[b].at = next /\ broker'[b].outcome = o /\ Task(b)' = t
      /\ broker'[b].verdict = Verdict(t, o) /\ broker'[b].reported = Reported(t, o)
  <2>1. patches[b] = Absent /\ receipts[b] = Absent
    BY <1>1, <1>2 DEF Good, Delivers
  <2>. HIDE DEF next
  <2>. QED BY <1>1, <1>3, <1>4, <2>1 DEF Task
<1>7. Verdict(t, o) \in {"complete", "blocked"} => Clears(t, o)
  BY DEF Verdict
<1>8. Clears(t, o) => Reported(t, o) = kept
  <2>. SUFFICES ASSUME Clears(t, o) PROVE Reported(t, o) = kept
    OBVIOUS
  <2>1. Usable(o) /\ ~UnsafeEvidence(o) /\ ~ForbiddenClaim(t, o) /\ ~ForbiddenChange(t, o)
    BY DEF Clears, Oversteps
  <2>2. CASE Writes(b)
    BY <2>1, <2>2 DEF Reported, Writes, Clears, Unpatched
  <2>3. CASE ~Writes(b)
    <3>1. t.mode = "read_only"
      BY <1>2, <1>1, <2>3 DEF Good, Placed, ValidTask, RoleIsRespected, RoleModes, Writes, Steps
    <3>. QED BY <2>1, <2>3, <3>1 DEF Reported, Writes, ForbiddenClaim
  <2>. QED BY <2>2, <2>3
<1>9. Placed(b)'
  BY <1>1, <1>2, <1>3, <1>4, <1>5 DEF Good, Placed, Task
<1>10. Ends(b)'
  BY <1>2, <1>6 DEF Good, Ends, Writes
<1>11. Delivers(b)'
  BY <1>6, <1>7, <1>8 DEF Delivers, Writes
<1>. QED BY <1>1, <1>4, <1>9, <1>10, <1>11, OneBroker DEF Inv, Files, Good

LEMMA WritePatchInv ==
  ASSUME Inv, NEW b \in Brokers, WritePatch(b)
  PROVE  Inv'
<1>1. /\ broker[b].at = "patch" /\ Goto(b, "clean") /\ UNCHANGED <<lock, running, receipts>>
      /\ patches' = [patches EXCEPT ![b] = Patch(broker[b].outcome)]
  BY DEF WritePatch
<1>2. Good(b) /\ {"patch", "clean"} \subseteq Steps \ {"lock"} /\ b \notin running
  BY <1>1 DEF Inv, Good, Placed, Steps
<1>3. /\ Memories' /\ \A c \in Brokers \ {b} : broker'[c] = broker[c]
      /\ broker'[b].at = "clean" /\ broker'[b].task = broker[b].task
      /\ broker'[b].depth = broker[b].depth
      /\ broker'[b].outcome = broker[b].outcome /\ broker'[b].reported = broker[b].reported
  BY <1>1, GoesOn DEF Inv
<1>4. /\ Files' /\ patches'[b] = Patch(broker[b].outcome)
      /\ \A c \in Brokers \ {b} : patches'[c] = patches[c]
  BY <1>1 DEF Inv, Files
<1>5. Placed(b)'
  BY <1>1, <1>2, <1>3 DEF Good, Placed, Task
<1>6. Ends(b)'
  BY <1>2, <1>3 DEF Good, Ends, Task, Writes
<1>7. receipts'[b] = Absent /\ broker'[b].at \notin Early \cup {"patch"}
  BY <1>1, <1>2, <1>3 DEF Good, Delivers, Early
<1>8. Delivers(b)'
  BY <1>1, <1>2, <1>3, <1>4, <1>7 DEF Good, Delivers, Task, Writes
<1>. QED BY <1>1, <1>3, <1>4, <1>5, <1>6, <1>8, OneBroker DEF Inv, Good

LEMMA WritePatchFailsInv ==
  ASSUME Inv, NEW b \in Brokers, WritePatchFails(b)
  PROVE  Inv'
BY GiveUpInv DEF WritePatchFails, files

LEMMA CleanInv ==
  ASSUME Inv, NEW b \in Brokers, Clean(b)
  PROVE  Inv'
<1>1. /\ broker[b].at = "clean" /\ Goto(b, "receipt")
      /\ UNCHANGED <<lock, running, patches, receipts>>
  BY DEF Clean
<1>2. Good(b) /\ {"clean", "receipt"} \subseteq Steps \ {"lock"} /\ b \notin running
  BY <1>1 DEF Inv, Good, Placed, Steps
<1>3. /\ Memories' /\ \A c \in Brokers \ {b} : broker'[c] = broker[c]
      /\ broker'[b].at = "receipt" /\ broker'[b].task = broker[b].task
      /\ broker'[b].depth = broker[b].depth
      /\ broker'[b].outcome = broker[b].outcome /\ broker'[b].reported = broker[b].reported
      /\ broker'[b].verdict = broker[b].verdict
  BY <1>1, GoesOn DEF Inv
<1>4. Placed(b)'
  BY <1>1, <1>2, <1>3 DEF Good, Placed, Task
<1>5. Ends(b)'
  BY <1>2, <1>3 DEF Good, Ends, Task, Writes
<1>6. receipts'[b] = Absent /\ broker'[b].at \notin Early \cup {"patch"}
  BY <1>1, <1>2, <1>3 DEF Good, Delivers, Early
<1>7. Delivers(b)'
  BY <1>1, <1>2, <1>3, <1>6 DEF Good, Delivers, Task, Writes
<1>. QED BY <1>1, <1>3, <1>4, <1>5, <1>7, OneBroker DEF Inv, Files, Good

LEMMA FileReceiptInv ==
  ASSUME Inv, NEW b \in Brokers, FileReceipt(b)
  PROVE  Inv'
<1>1. /\ broker[b].at = "receipt" /\ Goto(b, "filed") /\ UNCHANGED <<running, patches>>
      /\ lock' = Unlocked(b)
  BY DEF FileReceipt
<1>2. Good(b) /\ "receipt" \in Steps /\ "filed" \notin Steps /\ b \notin running
  BY <1>1 DEF Inv, Good, Placed, Steps
<1>3. /\ Memories' /\ \A c \in Brokers \ {b} : broker'[c] = broker[c]
      /\ broker'[b].at = "filed" /\ broker'[b].task = broker[b].task
      /\ broker'[b].depth = broker[b].depth
      /\ broker'[b].outcome = broker[b].outcome
  BY <1>1, GoesOn DEF Inv
<1>4. /\ Files' /\ receipts'[b].status = broker[b].verdict
      /\ receipts'[b].changed = broker[b].reported
      /\ receipts'[b].patched = (patches[b] # Absent)
      /\ \A c \in Brokers \ {b} : receipts'[c] = receipts[c]
  BY <1>1 DEF Inv, Files, FileReceipt
<1>5. Placed(b)'
  BY <1>1, <1>2, <1>3 DEF Good, Placed, Task
<1>6. Ends(b)'
  BY <1>2, <1>3 DEF Good, Ends, Task, Writes
<1>7. Clears(Task(b), broker[b].outcome) /\ ~Writes(b) => Seen(broker[b].outcome) = {}
  BY <1>2 DEF Good, Ends, Clears, Usable, Seen
<1>8. broker'[b].at \notin Early \cup {"patch", "clean", "receipt"}
  BY <1>3 DEF Early
<1>9. Delivers(b)'
  BY <1>1, <1>2, <1>3, <1>4, <1>7, <1>8 DEF Good, Delivers, Task, Writes
<1>. QED BY <1>1, <1>3, <1>4, <1>5, <1>6, <1>9, OneBroker, UnlockedKeeps DEF Inv, Good

(* A broker at work ends without a receipt. *)
LEMMA GoneInv ==
  ASSUME Inv, NEW b \in Brokers, NEW end \in {"dead", "unfiled"},
         broker[b].at \in Steps, Goto(b, end), lock' = Unlocked(b),
         end = "unfiled" => broker[b].at = "receipt",
         UNCHANGED <<running, files>>
  PROVE  Inv'
<1>1. /\ broker[b].at \in Steps /\ Goto(b, end)
      /\ UNCHANGED <<running, patches, receipts>> /\ lock' = Unlocked(b)
  BY DEF files
<1>2. Good(b) /\ end \notin Steps /\ "filed" \notin Steps
  BY NamesApart DEF Inv
<1>3. /\ Memories' /\ \A c \in Brokers \ {b} : broker'[c] = broker[c]
      /\ broker'[b].at = end /\ broker'[b].task = broker[b].task
      /\ broker'[b].depth = broker[b].depth
      /\ broker'[b].outcome = broker[b].outcome
  BY <1>1, GoesOn DEF Inv
<1>4. Placed(b)'
  BY <1>1, <1>2, <1>3 DEF Good, Placed, Task
<1>5. Ends(b)'
  BY <1>2, <1>3 DEF Good, Ends, Task, Writes
<1>6. /\ receipts'[b] = Absent
      /\ broker'[b].at \notin Early \cup {"patch", "clean", "receipt"}
  BY <1>1, <1>2, <1>3 DEF Good, Delivers, Early
<1>7. Delivers(b)'
  BY <1>1, <1>2, <1>3, <1>6 DEF Good, Delivers, Task, Writes
<1>. QED BY <1>1, <1>3, <1>4, <1>5, <1>7, OneBroker, UnlockedKeeps DEF Inv, Files, Good

LEMMA DieInv ==
  ASSUME Inv, NEW b \in Brokers, Die(b) \/ WithdrawReceipt(b)
  PROVE  Inv'
<1>1. "receipt" \in Steps
  BY DEF Steps
<1>. QED BY <1>1, GoneInv DEF Die, WithdrawReceipt, Active

LEMMA NextInv == Inv /\ [Next]_vars => Inv'
<1>. SUFFICES ASSUME Inv, [Next]_vars PROVE Inv'
  OBVIOUS
<1>1. ASSUME NEW b \in Brokers, Call(b) \/ BrokerStep(b) \/ ProviderEnd(b) \/ Die(b)
      PROVE  Inv'
  BY <1>1, CallInv, TakeLockInv, RefuseUnservedInv, PrepareInv, StartInv, TerminateInv,
     JudgeInv, WritePatchInv, WritePatchFailsInv, CleanInv, FileReceiptInv, ProviderEndInv, DieInv DEF BrokerStep
<1>2. CASE DayPasses \/ UNCHANGED vars
  <2>1. UNCHANGED <<broker, lock, running, patches, receipts>>
    BY <1>2 DEF DayPasses, vars, files
  <2>2. \A c \in Brokers : Good(c)'
    BY <2>1, LeftAlone
  <2>. QED BY <2>1, <2>2 DEF Inv, Memories, Files
<1>. QED BY <1>1, <1>2 DEF Next

LEMMA AlwaysInv == Spec => []Inv
BY InitInv, NextInv, PTL DEF Spec
-----------------------------------------------------------------------------
(* Two providers alive in one workspace: the brokers of both would hold    *)
(* its lock, unless one of them is dead.                                   *)
LEMMA OneHolder ==
  ASSUME Inv, NEW b \in running, NEW c \in running, b # c,
         Task(b).workspace = Task(c).workspace
  PROVE  broker[b].at = "dead" \/ broker[c].at = "dead"
<1>1. "wait" \in Steps \ {"lock"}
  BY DEF Steps
<1>2. \A d \in running : broker[d].at = "dead" \/ lock[Task(d).workspace] = d
  BY <1>1 DEF Inv, Good, Placed
<1>. QED BY <1>2

(* External dispatch is serialized per workspace, for any number of        *)
(* brokers and workspaces: dispatch_agent_task under exclusive_lock.       *)
THEOREM Serialized == Spec => []OneProviderPerWorkspace
<1>1. Inv => OneProviderPerWorkspace
  <2>. SUFFICES ASSUME Inv, NEW b \in running, NEW c \in running, b # c,
                       Task(b).workspace = Task(c).workspace
                PROVE  \E d \in {b, c} : broker[d].at = "dead"
    BY DEF OneProviderPerWorkspace
  <2>. QED BY OneHolder
<1>. QED BY <1>1, AlwaysInv, PTL

(* A patch is what git shows of a run, every path it names where the task  *)
(* permits, and a receipt names the same paths, whatever the provider does *)
(* to its worktree and whatever it claims.                                 *)
THEOREM DeliveredChanges == Spec => []DeliveredIsWhatGitShows
<1>1. Inv => DeliveredIsWhatGitShows
  <2>. SUFFICES ASSUME Inv, NEW b \in Brokers
                PROVE  DeliveredIsWhatGitShows!(b)
    BY DEF DeliveredIsWhatGitShows
  <2>1. Delivers(b)
    BY DEF Inv, Good
  <2>2. ASSUME patches[b] # Absent, NEW p \in patches[b] \ broker[b].outcome.moved
        PROVE  /\ \E prefix \in Task(b).allowed : IsPrefix(prefix, p)
               /\ \A q \in ProtectedPaths : ~IsPrefix(Fold(q), Fold(p))
    <3>1. /\ Clears(Task(b), broker[b].outcome) /\ Task(b).mode = "worktree_patch"
          /\ p \in Seen(broker[b].outcome)
      BY <2>1, <2>2 DEF Delivers, Writes, Patch, Seen
    <3>2. ~Protected(p) /\ Permitted(Task(b), p)
      BY <3>1 DEF Clears, Oversteps, ForbiddenChange, Unpatched
    <3>. QED BY <3>2 DEF Protected, Permitted, PathMatches
  <2>. QED BY <2>1, <2>2 DEF Delivers
<1>. QED BY <1>1, AlwaysInv, PTL
=============================================================================

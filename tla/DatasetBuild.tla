---------------------------- MODULE DatasetBuild ----------------------------
(***************************************************************************)
(* build_dataset (data/dataset.py): processes that build one output        *)
(* directory under its flock, chunk by chunk, resume what a dead process   *)
(* left, publish the merged dataset by writing COMMITTED last, and verify  *)
(* everything before they return a dataset that is there already - while   *)
(* files are edited, put back and removed behind their back.               *)
(***************************************************************************)
EXTENDS Naturals, Sequences, Functions

CONSTANTS Builders,
          Plans,             \* plans a caller may name for the directory
          Requests,          \* the chunk ids of a plan, in order
          Answers,           \* Answers[c]: the event sets the provider may answer chunk c with
          NoPlan, NoChunk, NoFile, Nobody,
          Torn,              \* a COMMITTED that was created and not written
          Garbage            \* what a damaged receipt says

Chunks == Range(Requests)

VARIABLES plan,              \* dataset-plan.json
          chunk,             \* the committed ingest bundle of each chunk
          file,              \* the aggregate files
          marker,            \* COMMITTED
          damaged,           \* files that are not as the build wrote them
          holder,            \* who holds the flock
          call,              \* what each process holds in memory
          returned           \* datasets returned to callers

disk == <<plan, chunk, file, marker, damaged>>
datasetVars == <<disk, holder, call, returned>>

Aggregates == {"events", "quality", "manifest", "receipt"}
Bundle     == [plan : Plans, events : UNION {Answers[c] : c \in Chunks}]

(* What is published: the plan, and the bundle each chunk was merged from.  *)
Dataset == [plan : Plans, rows : [Chunks -> Bundle]]

Merged(d)   == UNION {d.rows[c].events : c \in Chunks}

ASSUME DatasetAssumption ==
  /\ Requests \in Seq(Chunks) /\ Len(Requests) > 0
  /\ DOMAIN Answers = Chunks
  /\ NoPlan \notin Plans
  /\ Nobody \notin Builders
  /\ {NoFile, Torn, Garbage} \cap Dataset = {}
  /\ NoFile \notin {Torn, Garbage}

(* Two events with one identity and different payloads; an event is a pair  *)
(* <<identity, payload>>.                                                   *)
Conflicting(d) == \E e, f \in Merged(d) : e[1] = f[1] /\ e # f

Places == {"plan", "marker"} \cup Aggregates \cup Chunks
Steps  == {"idle", "chunks", "merge"} \cup Aggregates \cup {"create", "mark", "return"}

NoCall == [at |-> "idle", plan |-> NoPlan, next |-> 0, rows |-> [c \in Chunks |-> NoChunk]]

Call ==
  [at : Steps, plan : Plans \cup {NoPlan}, next : 0..Len(Requests),
   rows : [Chunks -> Bundle \cup {NoChunk}]]

TypeOK ==
  /\ plan \in Plans \cup {NoPlan}
  /\ chunk \in [Chunks -> Bundle \cup {NoChunk}]
  /\ file \in [Aggregates -> Dataset \cup {NoFile}]
  /\ marker \in Dataset \cup {NoFile, Torn}
  /\ damaged \subseteq Places
  /\ holder \in Builders \cup {Nobody}
  /\ call \in [Builders -> Call]
  /\ \A b \in Builders : call[b].at # "idle" => holder = b
  /\ returned \subseteq Dataset \cup {Garbage}

Init ==
  /\ plan = NoPlan
  /\ chunk = [c \in Chunks |-> NoChunk]
  /\ file = [a \in Aggregates |-> NoFile]
  /\ marker = NoFile
  /\ damaged = {}
  /\ holder = Nobody
  /\ call = [b \in Builders |-> NoCall]
  /\ returned = {}
-----------------------------------------------------------------------------
(* Starting: an existing dataset, a partial one, or a new one *)

(* The lock is not asked for. *)
LockFreeAnyway(b) == TRUE

LockFree(b) == holder = Nobody

(* The files are there; what they say of each other is not compared. *)
VerifiedByPresence(p) ==
  /\ plan = p /\ "plan" \notin damaged
  /\ \A a \in Aggregates : file[a] # NoFile

(* _validate_committed_dataset *)
Verified(p) ==
  /\ plan = p /\ "plan" \notin damaged
  /\ \A a \in Aggregates : file[a] # NoFile /\ a \notin damaged
  /\ marker = file["receipt"] /\ "marker" \notin damaged
  /\ file["receipt"].plan = p
  /\ Merged(file["events"]) = Merged(file["receipt"])
  /\ file["quality"] = file["receipt"]
  /\ file["manifest"] = file["receipt"]
  /\ \A c \in Chunks : c \notin damaged /\ chunk[c] = file["receipt"].rows[c]

Receipt == IF "receipt" \in damaged THEN Garbage ELSE file["receipt"]

(* A committed dataset is returned if it verifies; otherwise the call is    *)
(* refused, whatever else is in the directory.                              *)
ReturnCommitted(b, p) ==
  /\ call[b].at = "idle" /\ LockFree(b)
  /\ marker # NoFile
  /\ Verified(p)
  /\ returned' = returned \cup {Receipt}
  /\ UNCHANGED <<disk, holder, call>>

PlanAgrees(p) == plan = NoPlan \/ (plan = p /\ "plan" \notin damaged)

Begin(b, p) ==
  /\ call[b].at = "idle" /\ LockFree(b)
  /\ marker = NoFile
  /\ PlanAgrees(p)
  /\ plan' = IF plan = NoPlan THEN p ELSE plan
  /\ holder' = b
  /\ call' = [call EXCEPT ![b] = [at |-> "chunks", plan |-> p, next |-> 1, rows |-> NoCall.rows]]
  /\ UNCHANGED <<chunk, file, marker, damaged, returned>>

Goto(b, step) == call' = [call EXCEPT ![b].at = step]

(* An exception: the lock is released, the files stay.                      *)
Refuse(b) ==
  /\ call' = [call EXCEPT ![b] = NoCall]
  /\ holder' = Nobody
  /\ UNCHANGED <<disk, returned>>
-----------------------------------------------------------------------------
(* Chunks *)

(* The builder's record of the directory, with one more chunk in it.        *)
Loaded(m, bundle) ==
  LET last == m.next = Len(Requests)
  IN [at   |-> IF last THEN "merge" ELSE "chunks",
      plan |-> m.plan,
      next |-> IF last THEN 0 ELSE m.next + 1,
      rows |-> [m.rows EXCEPT ![Requests[m.next]] = bundle]]

Load(b, bundle) == call' = [call EXCEPT ![b] = Loaded(call[b], bundle)]

(* A bundle of another request is as invalid as a damaged one.              *)
Loads(c, p) == c \notin damaged /\ chunk[c].plan = p

Resume(b) ==
  LET c == Requests[call[b].next]
  IN /\ call[b].at = "chunks" /\ chunk[c] # NoChunk
     /\ Loads(c, call[b].plan)
     /\ Load(b, chunk[c])
     /\ UNCHANGED <<disk, holder, returned>>

(* ingest: the bundle is staged, validated and renamed into place.          *)
Fetch(b) ==
  LET c == Requests[call[b].next]
  IN /\ call[b].at = "chunks" /\ chunk[c] = NoChunk
     /\ \E events \in Answers[c] :
          LET bundle == [plan |-> call[b].plan, events |-> events]
          IN chunk' = [chunk EXCEPT ![c] = bundle] /\ Load(b, bundle)
     /\ UNCHANGED <<plan, file, marker, damaged, holder, returned>>

(* The provider fails, or a bundle that is there does not load.             *)
ChunkFails(b) ==
  /\ call[b].at = "chunks"
  /\ LET c == Requests[call[b].next]
     IN chunk[c] # NoChunk => ~Loads(c, call[b].plan)
  /\ Refuse(b)
-----------------------------------------------------------------------------
(* Publication *)

Built(b) == [plan |-> call[b].plan, rows |-> call[b].rows]

(* Conflicts are looked for inside each chunk only. *)
MergeChunkwise(b) ==
  /\ call[b].at = "merge"
  /\ IF \E c \in Chunks : \E e, f \in call[b].rows[c].events : e[1] = f[1] /\ e # f
     THEN Refuse(b)
     ELSE Goto(b, "events") /\ UNCHANGED <<disk, holder, returned>>

(* Duplicates are looked for over all chunks, the resumed ones included.    *)
Merge(b) ==
  /\ call[b].at = "merge"
  /\ IF Conflicting(Built(b))
     THEN Refuse(b)
     ELSE Goto(b, "events") /\ UNCHANGED <<disk, holder, returned>>

After(a) == CASE a = "events" -> "quality" [] a = "quality" -> "manifest"
              [] a = "manifest" -> "receipt" [] a = "receipt" -> "create"

(* A file left by an interrupted build is kept. *)
WriteFileOnce(b, a) ==
  /\ call[b].at = a
  /\ file' = IF file[a] = NoFile THEN [file EXCEPT ![a] = Built(b)] ELSE file
  /\ damaged' = damaged
  /\ Goto(b, After(a))
  /\ UNCHANGED <<plan, chunk, marker, holder, returned>>

(* _write_atomic replaces whatever is there.                                *)
WriteFile(b, a) ==
  /\ call[b].at = a
  /\ file' = [file EXCEPT ![a] = Built(b)]
  /\ damaged' = damaged \ {a}
  /\ Goto(b, After(a))
  /\ UNCHANGED <<plan, chunk, marker, holder, returned>>

(* COMMITTED is created empty, then written.                                *)
CreateMarker(b) ==
  /\ call[b].at = "create" /\ marker = NoFile
  /\ marker' = Torn
  /\ Goto(b, "mark")
  /\ UNCHANGED <<plan, chunk, file, damaged, holder, returned>>

WriteMarker(b) ==
  /\ call[b].at = "mark"
  /\ marker' = Built(b)
  /\ Goto(b, "return")
  /\ UNCHANGED <<plan, chunk, file, damaged, holder, returned>>

ReturnBuilt(b) ==
  /\ call[b].at = "return"
  /\ returned' = returned \cup {Built(b)}
  /\ call' = [call EXCEPT ![b] = NoCall]
  /\ holder' = Nobody
  /\ UNCHANGED disk

(* The process dies, or a write fails; the kernel drops the flock.          *)
Crash(b) == call[b].at # "idle" /\ Refuse(b)
-----------------------------------------------------------------------------
(* Behind the builders' back *)

Exists(place) ==
  CASE place = "plan"         -> plan # NoPlan
    [] place = "marker"       -> marker # NoFile
    [] place \in Aggregates   -> file[place] # NoFile
    [] OTHER                  -> chunk[place] # NoChunk

Damage(place) ==
  /\ place \notin damaged /\ Exists(place)
  /\ damaged' = damaged \cup {place}
  /\ UNCHANGED <<plan, chunk, file, marker, holder, call, returned>>

PutBack(place) ==
  /\ place \in damaged
  /\ damaged' = damaged \ {place}
  /\ UNCHANGED <<plan, chunk, file, marker, holder, call, returned>>

(* A damaged bundle is removed, for a later build to fetch again.           *)
RemoveChunk(c) ==
  /\ c \in damaged
  /\ chunk' = [chunk EXCEPT ![c] = NoChunk]
  /\ damaged' = damaged \ {c}
  /\ UNCHANGED <<plan, file, marker, holder, call, returned>>

Next ==
  \/ \E b \in Builders :
       \/ \E p \in Plans : ReturnCommitted(b, p) \/ Begin(b, p)
       \/ Resume(b) \/ Fetch(b) \/ ChunkFails(b) \/ Merge(b)
       \/ \E a \in Aggregates : WriteFile(b, a)
       \/ CreateMarker(b) \/ WriteMarker(b) \/ ReturnBuilt(b) \/ Crash(b)
  \/ \E place \in Places : Damage(place) \/ PutBack(place)
  \/ \E c \in Chunks : RemoveChunk(c)

Spec == Init /\ [][Next]_datasetVars
-----------------------------------------------------------------------------
(* Properties *)

(* "never silently replace a committed dataset"                             *)
(* (docs/implementation/POST_AUDIT_HARDENING_PLAN.md:94-95): with whatever  *)
(* deaths, damage and refetched chunks, one dataset is published in a       *)
(* directory and calls return that one or nothing.                          *)
Published == IF marker \in {NoFile, Torn} THEN NoFile ELSE marker
Promise == INSTANCE Publication WITH
  Datasets <- Dataset, NoDataset <- NoFile, published <- Published
ImplementsPublication == Promise!PublicationSpec

(* "A committed dataset must prove the exact [...] evidence that produced   *)
(* it" (docs/implementation/TRUST_BOUNDARY_HARDENING_PLAN.md:11): behind a  *)
(* written COMMITTED stand the plan and the four aggregate files of that    *)
(* very build, none left over from an interrupted build of other chunks.    *)
CommittedIsComplete ==
  Published # NoFile =>
    /\ plan = Published.plan
    /\ \A a \in Aggregates : file[a] = Published

(* A dataset with two payloads for one event is never published.            *)
NoConflictIsPublished == Published # NoFile => ~Conflicting(Published)
=============================================================================

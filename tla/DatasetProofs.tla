---------------------------- MODULE DatasetProofs ----------------------------
(***************************************************************************)
(* What a dataset directory guarantees for every number of builders, every *)
(* set of plans, every sequence of requests and every provider.            *)
(***************************************************************************)
EXTENDS DatasetBuild, TLAPS

(* The aggregate files a build has written when it stands at a step.        *)
Done == [step \in Steps |->
           CASE step = "quality"  -> {"events"}
             [] step = "manifest" -> {"events", "quality"}
             [] step = "receipt"  -> {"events", "quality", "manifest"}
             [] step \in {"create", "mark", "return"} -> Aggregates
             [] OTHER -> {}]

Publishing == Aggregates \cup {"create", "mark", "return"}

(* What a running call knows of the disk while it holds the lock.           *)
CallKnows(b) ==
  /\ plan = call[b].plan /\ plan \in Plans
  /\ call[b].at \in {"chunks", "merge", "create"} \cup Aggregates => marker = NoFile
  /\ call[b].at = "mark" => marker = Torn
  /\ call[b].at = "return" => marker = Built(b)
  /\ call[b].at = "chunks" =>
       /\ call[b].next \in 1..Len(Requests)
       /\ \A i \in 1..(call[b].next - 1) : call[b].rows[Requests[i]] \in Bundle
  /\ call[b].at # "chunks" => call[b].rows \in [Chunks -> Bundle]
  /\ call[b].at \in Publishing => ~Conflicting(Built(b))
  /\ \A a \in Done[call[b].at] : file[a] = Built(b)

Knowing == \A b \in Builders : call[b].at # "idle" => CallKnows(b)

(* Whatever was returned is what is published. *)
ReturnedIsPublished == returned # {} => Published # NoFile /\ returned = {Published}

IInv ==
  /\ TypeOK
  /\ Knowing
  /\ CommittedIsComplete
  /\ NoConflictIsPublished
  /\ ReturnedIsPublished
-----------------------------------------------------------------------------
LEMMA StepFacts ==
  /\ Done \in [Steps -> SUBSET Aggregates]
  /\ \A step \in {"idle", "chunks", "merge", "events"} : Done[step] = {}
  /\ \A step \in {"create", "mark", "return"} : Done[step] = Aggregates
  /\ \A a \in Aggregates : /\ a \in Publishing
                           /\ After(a) \in Aggregates \cup {"create"}
                           /\ Done[After(a)] \subseteq Done[a] \cup {a}
  /\ Publishing \subseteq Steps
BY DEF Done, After, Aggregates, Steps, Publishing

LEMMA RequestFacts ==
  /\ Len(Requests) \in Nat \ {0}
  /\ \A i \in 1..Len(Requests) : Requests[i] \in Chunks
  /\ \A c \in Chunks : \E i \in 1..Len(Requests) : Requests[i] = c
BY DatasetAssumption DEF Chunks, Range

LEMMA NamesApart ==
  /\ NoFile \notin Dataset /\ Torn \notin Dataset /\ Garbage \notin Dataset
  /\ NoFile # Torn /\ NoFile # Garbage
  /\ NoPlan \notin Plans /\ Nobody \notin Builders
BY DatasetAssumption

(* The lock keeps every other builder out. *)
LEMMA Alone ==
  ASSUME TypeOK, NEW b \in Builders, call[b].at # "idle"
  PROVE  /\ holder = b
         /\ \A o \in Builders \ {b} : call[o].at = "idle"
BY DEF TypeOK

LEMMA Calls ==
  ASSUME TypeOK, NEW b \in Builders
  PROVE  /\ call[b] \in Call
         /\ call[b].at \in Steps /\ call[b].plan \in Plans \cup {NoPlan}
         /\ call[b].next \in 0..Len(Requests)
         /\ call[b].rows \in [Chunks -> Bundle \cup {NoChunk}]
BY DEF TypeOK, Call

LEMMA IdleCall == NoCall \in Call /\ NoCall.at = "idle"
BY RequestFacts DEF NoCall, Call, Steps

LEMMA Initially == Init => IInv
<1>. SUFFICES ASSUME Init PROVE IInv
  OBVIOUS
<1>1. TypeOK
  BY IdleCall DEF Init, TypeOK, Aggregates
<1>2. Published = NoFile /\ returned = {}
  BY DEF Init, Published
<1>3. Knowing
  BY IdleCall DEF Init, Knowing
<1>. QED BY <1>1, <1>2, <1>3 DEF IInv, CommittedIsComplete, NoConflictIsPublished,
                                ReturnedIsPublished

(* A call that ends in an exception, or with its process.                   *)
LEMMA Refusing ==
  ASSUME IInv, NEW b \in Builders, call[b].at # "idle", Refuse(b)
  PROVE  IInv'
<1>1. /\ call' = [call EXCEPT ![b] = NoCall] /\ holder' = Nobody
      /\ UNCHANGED <<plan, chunk, file, marker, damaged, returned>>
  BY DEF Refuse, disk
<1>2. call' \in [Builders -> Call]
  BY <1>1, IdleCall DEF IInv, TypeOK
<1>3. \A o \in Builders : call'[o].at = "idle"
  BY <1>1, IdleCall, Alone DEF IInv, TypeOK
<1>4. TypeOK'
  BY <1>1, <1>2, <1>3 DEF IInv, TypeOK
<1>5. Knowing'
  BY <1>3 DEF Knowing
<1>6. Published' = Published
  BY <1>1 DEF Published
<1>. QED BY <1>1, <1>4, <1>5, <1>6 DEF IInv, CommittedIsComplete, NoConflictIsPublished,
                                ReturnedIsPublished
(* Steps that leave the calls, the plan, the aggregate files and the marker *)
(* alone: what a running call knows is not about anything else.             *)
LEMMA Bystanders ==
  ASSUME IInv, TypeOK', UNCHANGED <<plan, file, marker, call>>
  PROVE  Knowing' /\ CommittedIsComplete' /\ NoConflictIsPublished' /\ Published' = Published
<1>1. \A b \in Builders : CallKnows(b)' = CallKnows(b)
  BY DEF CallKnows, Built
<1>2. Knowing'
  BY <1>1 DEF IInv, Knowing
<1>3. Published' = Published
  BY DEF Published
<1>. QED BY <1>2, <1>3 DEF IInv, CommittedIsComplete, NoConflictIsPublished

LEMMA ReturningCommitted ==
  ASSUME IInv, NEW b \in Builders, NEW p \in Plans, ReturnCommitted(b, p)
  PROVE  IInv' /\ Receipt = Published /\ Published # NoFile
<1>1. /\ UNCHANGED <<plan, chunk, file, marker, damaged, holder, call>>
      /\ returned' = returned \cup {Receipt}
      /\ marker # NoFile /\ Verified(p)
  BY DEF ReturnCommitted, disk
<1>2. "receipt" \in Aggregates
  BY DEF Aggregates
<1>3. Receipt = marker /\ marker \in Dataset
  BY <1>1, <1>2 DEF Verified, Receipt, IInv, TypeOK
<1>4. Published = marker
  BY <1>3, NamesApart DEF Published
<1>5. TypeOK'
  BY <1>1, <1>3 DEF IInv, TypeOK
<1>6. ReturnedIsPublished'
  BY <1>1, <1>3, <1>4 DEF IInv, ReturnedIsPublished, Published
<1>. QED BY <1>1, <1>3, <1>4, <1>5, <1>6, Bystanders DEF IInv

LEMMA BehindTheBack ==
  ASSUME IInv,
         \/ \E place \in Places : Damage(place) \/ PutBack(place)
         \/ \E c \in Chunks : RemoveChunk(c)
  PROVE  IInv' /\ Published' = Published /\ returned' = returned
<1>1. UNCHANGED <<plan, file, marker, call, holder, returned>>
  BY DEF Damage, PutBack, RemoveChunk
<1>2. damaged' \subseteq Places
  BY DEF Damage, PutBack, RemoveChunk, IInv, TypeOK
<1>3. chunk' \in [Chunks -> Bundle \cup {NoChunk}]
  BY DEF Damage, PutBack, RemoveChunk, IInv, TypeOK
<1>4. TypeOK'
  BY <1>1, <1>2, <1>3 DEF IInv, TypeOK
<1>. QED BY <1>1, <1>4, Bystanders DEF IInv, ReturnedIsPublished

LEMMA Beginning ==
  ASSUME IInv, NEW b \in Builders, NEW p \in Plans, Begin(b, p)
  PROVE  IInv' /\ Published' = Published /\ returned' = returned
<1>. DEFINE m == [at |-> "chunks", plan |-> p, next |-> 1, rows |-> NoCall.rows]
<1>1. /\ call[b].at = "idle" /\ holder = Nobody /\ marker = NoFile
      /\ plan' = p /\ holder' = b
      /\ call' = [call EXCEPT ![b] = m]
      /\ UNCHANGED <<chunk, file, marker, damaged, returned>>
  BY DEF Begin, LockFree, PlanAgrees
<1>2. m \in Call /\ m.at = "chunks" /\ m.plan = p /\ m.next = 1
  BY IdleCall, RequestFacts DEF NoCall, Call, Steps
<1>3. \A o \in Builders : call[o].at = "idle"
  BY <1>1, NamesApart DEF IInv, TypeOK
<1>4. call' \in [Builders -> Call] /\ call'[b] = m /\ \A o \in Builders \ {b} : call'[o].at = "idle"
  BY <1>1, <1>2, <1>3 DEF IInv, TypeOK
<1>5. TypeOK'
  BY <1>1, <1>2, <1>4 DEF IInv, TypeOK
<1>6. CallKnows(b)'
  BY <1>1, <1>2, <1>4, RequestFacts, StepFacts DEF CallKnows, Publishing, Aggregates
<1>7. Knowing'
  BY <1>4, <1>6 DEF Knowing
<1>8. Published' = NoFile /\ Published = NoFile
  BY <1>1 DEF Published
<1>. QED BY <1>1, <1>5, <1>7, <1>8 DEF IInv, CommittedIsComplete, NoConflictIsPublished,
                                ReturnedIsPublished
(* A running call takes a step: the others stay idle, and the invariant     *)
(* holds if this call still knows the disk.                                 *)
LEMMA Running ==
  ASSUME IInv, NEW b \in Builders, call[b].at # "idle",
         NEW m \in Call, m.at # "idle",
         call' = [call EXCEPT ![b] = m], holder' = holder,
         CallKnows(b)'
  PROVE  /\ call' \in [Builders -> Call] /\ call'[b] = m
         /\ \A o \in Builders : call'[o].at # "idle" => holder' = o
         /\ Knowing'
<1>1. call' \in [Builders -> Call] /\ call'[b] = m
  BY DEF IInv, TypeOK
<1>2. holder = b /\ \A o \in Builders \ {b} : call'[o].at = "idle"
  BY Alone DEF IInv, TypeOK
<1>. QED BY <1>1, <1>2 DEF Knowing

LEMMA LoadingChunk ==
  ASSUME IInv, NEW b \in Builders, call[b].at = "chunks",
         NEW bundle \in Bundle, Load(b, bundle),
         chunk' \in [Chunks -> Bundle \cup {NoChunk}],
         UNCHANGED <<plan, file, marker, damaged, holder, returned>>
  PROVE  IInv' /\ Published' = Published /\ returned' = returned
<1>. DEFINE n == call[b].next
            m == Loaded(call[b], bundle)
            last == n = Len(Requests)
<1>1. CallKnows(b)
  BY DEF IInv, Knowing
<1>2. /\ n \in 1..Len(Requests) /\ marker = NoFile
      /\ \A i \in 1..(n - 1) : call[b].rows[Requests[i]] \in Bundle
      /\ call[b].plan = plan /\ plan \in Plans
  BY <1>1 DEF CallKnows
<1>3. call[b].rows \in [Chunks -> Bundle \cup {NoChunk}]
  BY Calls DEF IInv
<1>4. /\ m.at = (IF last THEN "merge" ELSE "chunks") /\ m.plan = plan
      /\ m.next = (IF last THEN 0 ELSE n + 1)
      /\ m.rows = [call[b].rows EXCEPT ![Requests[n]] = bundle]
  BY <1>2 DEF Loaded
<1>5. m \in Call
  <2>1. m.rows \in [Chunks -> Bundle \cup {NoChunk}]
    BY <1>3, <1>4
  <2>2. m.next \in 0..Len(Requests)
    BY <1>2, <1>4, RequestFacts
  <2>3. m.at \in Steps
    BY <1>4 DEF Steps
  <2>4. m = [at |-> m.at, plan |-> m.plan, next |-> m.next, rows |-> m.rows]
    BY DEF Loaded
  <2>. HIDE DEF m
  <2>. QED BY <1>2, <1>4, <2>1, <2>2, <2>3, <2>4 DEF Call
<1>6. \A i \in 1..n : m.rows[Requests[i]] \in Bundle
  BY <1>2, <1>3, <1>4, RequestFacts
<1>7. last => m.rows \in [Chunks -> Bundle]
  BY <1>3, <1>4, <1>6, RequestFacts
<1>8. call' = [call EXCEPT ![b] = m]
  BY DEF Load
<1>9. call'[b] = m
  BY <1>8 DEF IInv, TypeOK
<1>. HIDE DEF m
<1>10. CallKnows(b)'
  <2>1. call'[b].at \in {"chunks", "merge"} /\ Done[call'[b].at] = {}
    BY <1>4, <1>9, StepFacts
  <2>2. call'[b].at \notin Publishing
    BY <2>1 DEF Publishing, Aggregates
  <2>3. call'[b].at = "chunks" =>
          /\ call'[b].next \in 1..Len(Requests)
          /\ \A i \in 1..(call'[b].next - 1) : call'[b].rows[Requests[i]] \in Bundle
    <3>. SUFFICES ASSUME call'[b].at = "chunks"
                  PROVE  /\ n + 1 \in 1..Len(Requests) /\ m.next = n + 1
                         /\ \A i \in 1..n : m.rows[Requests[i]] \in Bundle
      BY <1>2, <1>9
    <3>1. ~last
      BY <1>4, <1>9
    <3>. QED BY <1>2, <1>4, <1>6, <3>1, RequestFacts
  <2>4. call'[b].at # "chunks" => call'[b].rows \in [Chunks -> Bundle]
    BY <1>4, <1>7, <1>9
  <2>. QED BY <1>2, <1>4, <1>9, <2>1, <2>2, <2>3, <2>4 DEF CallKnows
<1>11. m.at # "idle"
  BY <1>4
<1>12. /\ call' \in [Builders -> Call]
       /\ \A o \in Builders : call'[o].at # "idle" => holder' = o
       /\ Knowing'
  BY <1>5, <1>8, <1>10, <1>11, Running
<1>13. TypeOK'
  BY <1>12 DEF IInv, TypeOK
<1>14. Published' = Published
  BY DEF Published
<1>. QED BY <1>12, <1>13, <1>14 DEF IInv, CommittedIsComplete, NoConflictIsPublished,
                                  ReturnedIsPublished
LEMMA Chunking ==
  ASSUME IInv, NEW b \in Builders, Resume(b) \/ Fetch(b)
  PROVE  IInv' /\ Published' = Published /\ returned' = returned
<1>. DEFINE c == Requests[call[b].next]
<1>1. call[b].at = "chunks"
  BY DEF Resume, Fetch
<1>2. call[b].next \in 1..Len(Requests) /\ call[b].plan \in Plans
  BY <1>1 DEF IInv, Knowing, CallKnows
<1>3. c \in Chunks
  BY <1>2, RequestFacts
<1>4. CASE Resume(b)
  <2>1. chunk[c] \in Bundle /\ Load(b, chunk[c])
    BY <1>3, <1>4 DEF Resume, IInv, TypeOK
  <2>2. UNCHANGED <<plan, chunk, file, marker, damaged, holder, returned>>
    BY <1>4 DEF Resume, disk
  <2>3. chunk' \in [Chunks -> Bundle \cup {NoChunk}]
    BY <2>2 DEF IInv, TypeOK
  <2>. QED BY <1>1, <2>1, <2>2, <2>3, LoadingChunk
<1>5. CASE Fetch(b)
  <2>1. PICK events \in Answers[c] :
          /\ chunk' = [chunk EXCEPT ![c] = [plan |-> call[b].plan, events |-> events]]
          /\ Load(b, [plan |-> call[b].plan, events |-> events])
    BY <1>5 DEF Fetch
  <2>2. [plan |-> call[b].plan, events |-> events] \in Bundle
    BY <1>2, <1>3 DEF Bundle
  <2>3. chunk' \in [Chunks -> Bundle \cup {NoChunk}]
    BY <2>1, <2>2 DEF IInv, TypeOK
  <2>4. UNCHANGED <<plan, file, marker, damaged, holder, returned>>
    BY <1>5 DEF Fetch
  <2>. QED BY <1>1, <2>1, <2>2, <2>3, <2>4, LoadingChunk
<1>. QED BY <1>4, <1>5

(* The facts of a call that has all its chunks.                             *)
LEMMA BuiltIsDataset ==
  ASSUME IInv, NEW b \in Builders, call[b].at \notin {"idle", "chunks"}
  PROVE  /\ Built(b) \in Dataset
         /\ CallKnows(b)
         /\ call[b].plan = plan /\ plan \in Plans
         /\ call[b].rows \in [Chunks -> Bundle]
BY DEF IInv, Knowing, CallKnows, Built, Dataset

(* A step that only moves the call on. *)
LEMMA MovingOn ==
  ASSUME IInv, NEW b \in Builders, call[b].at # "idle",
         NEW step \in Steps, step # "idle", Goto(b, step)
  PROVE  LET m == [call[b] EXCEPT !.at = step]
         IN /\ m \in Call /\ m.at = step
            /\ call' = [call EXCEPT ![b] = m]
            /\ call'[b].at = step /\ call'[b].plan = call[b].plan
            /\ call'[b].next = call[b].next /\ call'[b].rows = call[b].rows
            /\ Built(b)' = Built(b)
BY Calls DEF Goto, Call, IInv, TypeOK, Built

LEMMA Merging ==
  ASSUME IInv, NEW b \in Builders, Merge(b)
  PROVE  IInv' /\ Published' = Published /\ returned' = returned
<1>1. call[b].at = "merge"
  BY DEF Merge
<1>2. CASE Refuse(b)
  <2>1. IInv'
    BY <1>1, <1>2, Refusing
  <2>. QED BY <1>2, <2>1 DEF Refuse, disk, Published
<1>3. CASE ~Conflicting(Built(b)) /\ Goto(b, "events") /\ UNCHANGED <<disk, holder, returned>>
  <2>. DEFINE m == [call[b] EXCEPT !.at = "events"]
  <2>1. "events" \in Steps /\ Done["events"] = {}
    BY StepFacts DEF Steps, Aggregates
  <2>2. /\ m \in Call /\ m.at = "events" /\ call' = [call EXCEPT ![b] = m]
        /\ call'[b].at = "events" /\ call'[b].plan = call[b].plan
        /\ call'[b].rows = call[b].rows /\ Built(b)' = Built(b)
    BY <1>1, <1>3, <2>1, MovingOn
  <2>3. UNCHANGED <<plan, chunk, file, marker, damaged, holder, returned>>
    BY <1>3 DEF disk
  <2>4. marker = NoFile
    BY <1>1, BuiltIsDataset DEF CallKnows
  <2>5. ~Conflicting(Built(b))'
    BY <1>3, <2>2 DEF Conflicting, Merged
  <2>. HIDE DEF m
  <2>6. CallKnows(b)'
    BY <1>1, <2>1, <2>2, <2>3, <2>4, <2>5, BuiltIsDataset DEF CallKnows
  <2>7. /\ call' \in [Builders -> Call]
        /\ \A o \in Builders : call'[o].at # "idle" => holder' = o
        /\ Knowing'
    BY <1>1, <2>2, <2>3, <2>6, Running
  <2>8. TypeOK'
    BY <2>3, <2>7 DEF IInv, TypeOK
  <2>9. Published' = Published
    BY <2>3 DEF Published
  <2>. QED BY <2>3, <2>7, <2>8, <2>9 DEF IInv, CommittedIsComplete, NoConflictIsPublished,
                                        ReturnedIsPublished
<1>. QED BY <1>2, <1>3 DEF Merge

(* A call that moves on and still knows the disk. *)
LEMMA Stepping ==
  ASSUME IInv, NEW b \in Builders, call[b].at # "idle",
         NEW step \in Steps, step # "idle", Goto(b, step), holder' = holder,
         CallKnows(b)'
  PROVE  /\ call' \in [Builders -> Call]
         /\ \A o \in Builders : call'[o].at # "idle" => holder' = o
         /\ Knowing'
<1>. DEFINE m == [call[b] EXCEPT !.at = step]
<1>1. m \in Call /\ m.at = step /\ call' = [call EXCEPT ![b] = m]
  BY MovingOn
<1>. HIDE DEF m
<1>. QED BY <1>1, Running

LEMMA Writing ==
  ASSUME IInv, NEW b \in Builders, NEW a \in Aggregates, WriteFile(b, a)
  PROVE  IInv' /\ Published' = Published /\ returned' = returned
<1>1. /\ call[b].at = a /\ Goto(b, After(a))
      /\ file' = [file EXCEPT ![a] = Built(b)] /\ damaged' = damaged \ {a}
      /\ UNCHANGED <<plan, chunk, marker, holder, returned>>
  BY DEF WriteFile
<1>2. /\ a \notin {"idle", "chunks", "mark", "return"} /\ a \in Publishing
      /\ After(a) \in Steps /\ After(a) \in Publishing
      /\ After(a) \notin {"idle", "chunks", "mark", "return"}
      /\ After(a) \in {"chunks", "merge", "create"} \cup Aggregates
      /\ Done[After(a)] \subseteq Done[a] \cup {a}
      /\ Done[After(a)] \subseteq Aggregates
  BY StepFacts DEF Aggregates, Steps, Publishing
<1>3. /\ Built(b) \in Dataset /\ CallKnows(b)
      /\ call[b].plan = plan /\ plan \in Plans /\ call[b].rows \in [Chunks -> Bundle]
  BY <1>1, <1>2, BuiltIsDataset
<1>4. marker = NoFile /\ ~Conflicting(Built(b)) /\ \A d \in Done[a] : file[d] = Built(b)
  BY <1>1, <1>2, <1>3 DEF CallKnows
<1>5. /\ call'[b].at = After(a) /\ call'[b].plan = call[b].plan
      /\ call'[b].rows = call[b].rows /\ Built(b)' = Built(b)
  BY <1>1, <1>2, MovingOn
<1>6. file' \in [Aggregates -> Dataset \cup {NoFile}]
  BY <1>1, <1>3 DEF IInv, TypeOK
<1>7. \A d \in Done[After(a)] : file'[d] = Built(b)
  BY <1>1, <1>2, <1>4 DEF IInv, TypeOK
<1>8. ~Conflicting(Built(b))'
  BY <1>4, <1>5 DEF Conflicting, Merged
<1>9. CallKnows(b)'
  BY <1>1, <1>2, <1>3, <1>4, <1>5, <1>7, <1>8 DEF CallKnows
<1>10. /\ call' \in [Builders -> Call]
       /\ \A o \in Builders : call'[o].at # "idle" => holder' = o
       /\ Knowing'
  BY <1>1, <1>2, <1>9, Stepping
<1>11. TypeOK'
  BY <1>1, <1>6, <1>10 DEF IInv, TypeOK
<1>12. Published = NoFile /\ Published' = NoFile
  BY <1>1, <1>4 DEF Published
<1>. QED BY <1>1, <1>10, <1>11, <1>12 DEF IInv, CommittedIsComplete, NoConflictIsPublished,
                                         ReturnedIsPublished

LEMMA CreatingMarker ==
  ASSUME IInv, NEW b \in Builders, CreateMarker(b)
  PROVE  IInv' /\ Published' = Published /\ returned' = returned
<1>1. /\ call[b].at = "create" /\ marker = NoFile /\ marker' = Torn /\ Goto(b, "mark")
      /\ UNCHANGED <<plan, chunk, file, damaged, holder, returned>>
  BY DEF CreateMarker
<1>2. /\ Built(b) \in Dataset /\ CallKnows(b)
      /\ call[b].plan = plan /\ plan \in Plans /\ call[b].rows \in [Chunks -> Bundle]
  BY <1>1, BuiltIsDataset
<1>3. "mark" \in Steps /\ "create" \in Publishing /\ Done["mark"] = Done["create"]
      /\ "mark" \notin {"chunks", "merge", "create"} \cup Aggregates
  BY StepFacts DEF Steps, Publishing, Aggregates
<1>4. /\ call'[b].at = "mark" /\ call'[b].plan = call[b].plan
      /\ call'[b].rows = call[b].rows /\ Built(b)' = Built(b)
  BY <1>1, <1>3, MovingOn
<1>5. ~Conflicting(Built(b)) /\ \A d \in Done["mark"] : file[d] = Built(b)
  BY <1>1, <1>2, <1>3 DEF CallKnows
<1>6. ~Conflicting(Built(b))'
  BY <1>4, <1>5 DEF Conflicting, Merged
<1>7. CallKnows(b)'
  BY <1>1, <1>2, <1>3, <1>4, <1>5, <1>6 DEF CallKnows
<1>8. /\ call' \in [Builders -> Call]
      /\ \A o \in Builders : call'[o].at # "idle" => holder' = o
      /\ Knowing'
  BY <1>1, <1>3, <1>7, Stepping
<1>9. TypeOK'
  BY <1>1, <1>8 DEF IInv, TypeOK
<1>10. Published = NoFile /\ Published' = NoFile
  BY <1>1 DEF Published
<1>. QED BY <1>1, <1>8, <1>9, <1>10 DEF IInv, CommittedIsComplete, NoConflictIsPublished,
                                       ReturnedIsPublished

LEMMA WritingMarker ==
  ASSUME IInv, NEW b \in Builders, WriteMarker(b)
  PROVE  IInv' /\ Published = NoFile /\ Published' \in Dataset /\ returned' = returned
<1>1. /\ call[b].at = "mark" /\ marker' = Built(b) /\ Goto(b, "return")
      /\ UNCHANGED <<plan, chunk, file, damaged, holder, returned>>
  BY DEF WriteMarker
<1>2. /\ Built(b) \in Dataset /\ CallKnows(b)
      /\ call[b].plan = plan /\ plan \in Plans /\ call[b].rows \in [Chunks -> Bundle]
  BY <1>1, BuiltIsDataset
<1>3. "return" \in Steps /\ "mark" \in Publishing
      /\ Done["mark"] = Aggregates /\ Done["return"] = Aggregates
      /\ "return" \notin {"chunks", "merge", "create"} \cup Aggregates
  BY StepFacts DEF Steps, Publishing, Aggregates
<1>4. /\ call'[b].at = "return" /\ call'[b].plan = call[b].plan
      /\ call'[b].rows = call[b].rows /\ Built(b)' = Built(b)
  BY <1>1, <1>3, MovingOn
<1>5. marker = Torn /\ ~Conflicting(Built(b)) /\ \A d \in Aggregates : file[d] = Built(b)
  BY <1>1, <1>2, <1>3 DEF CallKnows
<1>6. ~Conflicting(Built(b))'
  BY <1>4, <1>5 DEF Conflicting, Merged
<1>7. CallKnows(b)'
  BY <1>1, <1>2, <1>3, <1>4, <1>5, <1>6 DEF CallKnows
<1>8. /\ call' \in [Builders -> Call]
      /\ \A o \in Builders : call'[o].at # "idle" => holder' = o
      /\ Knowing'
  BY <1>1, <1>3, <1>7, Stepping
<1>9. TypeOK'
  BY <1>1, <1>2, <1>8 DEF IInv, TypeOK
<1>10. Published = NoFile /\ Published' = Built(b)
  BY <1>1, <1>2, <1>5, NamesApart DEF Published
<1>11. CommittedIsComplete'
  <2>1. Built(b).plan = plan
    BY <1>2 DEF Built
  <2>. QED BY <1>1, <1>5, <1>10, <2>1 DEF CommittedIsComplete
<1>12. NoConflictIsPublished'
  BY <1>4, <1>5, <1>10 DEF NoConflictIsPublished, Conflicting, Merged
<1>13. ReturnedIsPublished'
  BY <1>1, <1>10 DEF IInv, ReturnedIsPublished
<1>. QED BY <1>1, <1>2, <1>8, <1>9, <1>10, <1>11, <1>12, <1>13 DEF IInv

LEMMA ReturningBuilt ==
  ASSUME IInv, NEW b \in Builders, ReturnBuilt(b)
  PROVE  /\ IInv' /\ Published' = Published /\ Published # NoFile
         /\ returned' = returned \cup {Published}
<1>1. /\ call[b].at = "return" /\ returned' = returned \cup {Built(b)}
      /\ call' = [call EXCEPT ![b] = NoCall] /\ holder' = Nobody
      /\ UNCHANGED <<plan, chunk, file, marker, damaged>>
  BY DEF ReturnBuilt, disk
<1>2. Built(b) \in Dataset /\ CallKnows(b)
  BY <1>1, BuiltIsDataset
<1>3. marker = Built(b)
  BY <1>1, <1>2 DEF CallKnows
<1>4. Published = Built(b) /\ Published # NoFile /\ Published' = Published
  BY <1>1, <1>2, <1>3, NamesApart DEF Published
<1>5. call' \in [Builders -> Call] /\ \A o \in Builders : call'[o].at = "idle"
  BY <1>1, IdleCall, Alone DEF IInv, TypeOK
<1>6. TypeOK'
  BY <1>1, <1>2, <1>5 DEF IInv, TypeOK
<1>7. Knowing'
  BY <1>5 DEF Knowing
<1>8. ReturnedIsPublished'
  BY <1>1, <1>4 DEF IInv, ReturnedIsPublished
<1>9. CommittedIsComplete' /\ NoConflictIsPublished'
  BY <1>1, <1>4 DEF IInv, CommittedIsComplete, NoConflictIsPublished, Conflicting, Merged
<1>. QED BY <1>1, <1>4, <1>6, <1>7, <1>8, <1>9 DEF IInv

LEMMA Failing ==
  ASSUME IInv, NEW b \in Builders, ChunkFails(b) \/ Crash(b)
  PROVE  IInv' /\ Published' = Published /\ returned' = returned
<1>1. call[b].at # "idle" /\ Refuse(b)
  BY DEF ChunkFails, Crash
<1>2. IInv'
  BY <1>1, Refusing
<1>. QED BY <1>1, <1>2 DEF Refuse, disk, Published
-----------------------------------------------------------------------------
(* Every step keeps the invariant, and is a step of the promise or none.    *)
LEMMA Step ==
  ASSUME IInv, [Next]_datasetVars
  PROVE  /\ IInv'
         /\ [Promise!Publish \/ Promise!Return]_<<Published, returned>>
<1>. USE DEF Promise!Publish, Promise!Return
<1>1. CASE UNCHANGED datasetVars
  <2>1. UNCHANGED <<plan, chunk, file, marker, damaged, holder, call, returned>>
    BY <1>1 DEF datasetVars, disk
  <2>2. TypeOK'
    BY <2>1 DEF IInv, TypeOK
  <2>. QED BY <2>1, <2>2, Bystanders DEF IInv, ReturnedIsPublished
<1>2. ASSUME NEW b \in Builders, NEW p \in Plans, ReturnCommitted(b, p)
      PROVE  IInv' /\ [Promise!Publish \/ Promise!Return]_<<Published, returned>>
  <2>1. returned' = returned \cup {Receipt} /\ marker' = marker
    BY <1>2 DEF ReturnCommitted, disk
  <2>2. Published' = Published
    BY <2>1 DEF Published
  <2>. QED BY <1>2, <2>1, <2>2, ReturningCommitted
<1>3. ASSUME NEW b \in Builders, NEW p \in Plans, Begin(b, p)
      PROVE  IInv' /\ [Promise!Publish \/ Promise!Return]_<<Published, returned>>
  BY <1>3, Beginning
<1>4. ASSUME NEW b \in Builders,
             \/ Resume(b) \/ Fetch(b) \/ ChunkFails(b) \/ Merge(b)
             \/ CreateMarker(b) \/ Crash(b)
      PROVE  IInv' /\ [Promise!Publish \/ Promise!Return]_<<Published, returned>>
  BY <1>4, Chunking, Failing, Merging, CreatingMarker
<1>5. ASSUME NEW b \in Builders, NEW a \in Aggregates, WriteFile(b, a)
      PROVE  IInv' /\ [Promise!Publish \/ Promise!Return]_<<Published, returned>>
  BY <1>5, Writing
<1>6. ASSUME NEW b \in Builders, WriteMarker(b)
      PROVE  IInv' /\ [Promise!Publish \/ Promise!Return]_<<Published, returned>>
  BY <1>6, WritingMarker
<1>7. ASSUME NEW b \in Builders, ReturnBuilt(b)
      PROVE  IInv' /\ [Promise!Publish \/ Promise!Return]_<<Published, returned>>
  BY <1>7, ReturningBuilt
<1>8. CASE \/ \E place \in Places : Damage(place) \/ PutBack(place)
           \/ \E c \in Chunks : RemoveChunk(c)
  BY <1>8, BehindTheBack
<1>. QED BY <1>1, <1>2, <1>3, <1>4, <1>5, <1>6, <1>7, <1>8 DEF Next

LEMMA AlwaysKnowing == Spec => []IInv
<1>1. IInv /\ [Next]_datasetVars => IInv'
  BY Step
<1>. QED BY Initially, <1>1, PTL DEF Spec

(* The lock never has two holders: the type invariant, which says that a    *)
(* build that runs holds the flock of build_dataset (data/dataset.py).      *)
THEOREM TypeCorrect == Spec => []TypeOK
<1>1. IInv => TypeOK
  BY DEF IInv
<1>. QED BY <1>1, AlwaysKnowing, PTL

(* Behind COMMITTED stand the plan and the files of that very build, however*)
(* many builders died in whatever step before it.                           *)
THEOREM CommittedIsWhole == Spec => []CommittedIsComplete
<1>1. IInv => CommittedIsComplete
  BY DEF IInv
<1>. QED BY <1>1, AlwaysKnowing, PTL

(* A dataset with two payloads for one event is never published, whatever   *)
(* the provider answers and whatever chunks are fetched again.              *)
THEOREM ConflictsStayUnpublished == Spec => []NoConflictIsPublished
<1>1. IInv => NoConflictIsPublished
  BY DEF IInv
<1>. QED BY <1>1, AlwaysKnowing, PTL

(* A directory publishes one dataset, once, and calls return that one: the  *)
(* build implements the abstract publication.                               *)
THEOREM PublicationKept == Spec => ImplementsPublication
<1>1. Init => Promise!PublicationInit
  BY DEF Init, Promise!PublicationInit, Published
<1>2. IInv /\ [Next]_datasetVars => [Promise!Publish \/ Promise!Return]_<<Published, returned>>
  BY Step
<1>. QED BY <1>1, <1>2, AlwaysKnowing, PTL
     DEF Spec, ImplementsPublication, Promise!PublicationSpec
=============================================================================

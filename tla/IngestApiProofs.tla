--------------------------- MODULE IngestApiProofs ---------------------------
(***************************************************************************)
(* Theorems about IngestApi, for any events, rules, requests at once,      *)
(* limits and bounds.                                                      *)
(*                                                                         *)
(* What is committed at the end of a transaction was written step by step  *)
(* before, so that each property rests on what every session has written   *)
(* so far for the events it has been through (SessionInv), which the steps *)
(* of other sessions leave alone (FrameKeeps).  The counts are exact       *)
(* because a session that materializes alone has in memory what the events *)
(* it has been through add up to (SoloInv, CountsInv); what overlapping    *)
(* ones left wrong is counted again by a session that is not disturbed     *)
(* (CalmInv).                                                              *)
(***************************************************************************)
EXTENDS IngestApi, SequenceFacts, FiniteSetTheorems

(* The points at which a session records the detections of an event. *)
Recording == {"investigation", "insertInvestigation", "detection",
              "insertDetection", "flush"}
Points == {"idle", "down", "select", "insert", "commit", "scan", "event"}
            \cup Recording

(* The row is committed, or will be with the transaction. *)
Has(s, r) == exists[r] \/ Written(s, r)

(* All detections of an event but those in rest, with their investigation. *)
HasAllBut(s, e, rest) ==
    \A d \in Range(Emits[e]) :
        d \in rest \/ (Has(s, d) /\ Has(s, InvestigationOf[d]))

(* A request has its event, and stores it before it materializes others. *)
JobInv(s) ==
    /\ pc[s] \in {"select", "insert", "commit"} => s # Worker /\ job[s] \in Events
    /\ pc[s] \in {"scan", "event"} \cup Recording => s = Worker \/ job[s] \in stored

(* A session that materializes nothing has nothing of it in memory. *)
FreshInv(s) ==
    pc[s] \notin {"event"} \cup Recording =>
        /\ done[s] = {} /\ dirty[s] = {} /\ known[s] = {}
        /\ \A r \in Aggregates : owner[r] # s

(* The detections still to record are those of the event it is at. *)
CurrentInv(s) ==
    /\ batch[s] \subseteq stored /\ done[s] \subseteq stored
    /\ pc[s] \in Recording =>
        /\ todo[s] # <<>>
        /\ \E e \in Left(s) :
            /\ IsCurrent(s, e)
            /\ Range(todo[s]) \subseteq Range(Emits[e])
            /\ HasAllBut(s, e, Range(todo[s]))

(* What it has been through is recorded, in its transaction or before. *)
DoneInv(s) ==
    /\ \A r \in known[s] : Has(s, r)
    /\ \A e \in done[s] : HasAllBut(s, e, {})
    /\ pc[s] \in {"detection", "insertDetection", "flush"} =>
            Has(s, Investigation(s))
    /\ pc[s] = "flush" => Head(todo[s]) \in dirty[s]

(* A detection it has written is one of an event it has been through, or   *)
(* is at, and has occurred.                                                *)
WrittenInv(s) ==
    \A d \in Detections : Written(s, d) =>
        /\ mine[s][d] > 0
        /\ \/ \E e \in done[s] : d \in Range(Emits[e])
           \/ pc[s] \in Recording
              /\ \E e \in Left(s) : IsCurrent(s, e) /\ d \in Range(Emits[e])

SessionInv(s) ==
    JobInv(s) /\ FreshInv(s) /\ CurrentInv(s) /\ DoneInv(s) /\ WrittenInv(s)

IngestInv ==
    /\ TypeOK
    /\ \A s \in Sessions : SessionInv(s)
    /\ AcknowledgedIsStored /\ ProcessedIsRecorded /\ RecordedIsProcessed

USE EventsAssumption, RowsAssumption DEF Sessions, Aggregates, Rows

-----------------------------------------------------------------------------
(* Types. *)

LEMMA InitInv == Init => IngestInv
<1> SUFFICES ASSUME Init PROVE IngestInv
  OBVIOUS
<1> USE DEF Init
<1>1. TypeOK
  <2>1. <<>> \in Seq(Detections) /\ [r \in Aggregates |-> 0] \in [Aggregates -> Nat]
    OBVIOUS
  <2>2. /\ todo \in [Sessions -> Seq(Detections)]
        /\ mine \in [Sessions -> [Aggregates -> Nat]]
    BY <2>1
  <2>3. /\ stored \subseteq Events /\ processed \subseteq Events /\ acked \subseteq Events
        /\ raced \in BOOLEAN /\ calm \subseteq Sessions
    OBVIOUS
  <2>4. requests \in 0..MaxRequests /\ fails \in 0..MaxFails
    BY LimitsAssumption
  <2>5. /\ exists \in [Aggregates -> BOOLEAN] /\ value \in [Aggregates -> Nat]
        /\ owner \in [Rows -> Sessions \cup {NoSession}]
        /\ pc \in [Sessions -> Points]
        /\ job \in [Sessions -> Events \cup {NoEvent}]
    BY DEF Points
  <2>6. /\ batch \in [Sessions -> SUBSET Events]
        /\ done \in [Sessions -> SUBSET Events]
        /\ dirty \in [Sessions -> SUBSET Rows]
        /\ known \in [Sessions -> SUBSET Aggregates]
    OBVIOUS
  <2> HIDE DEF Init
  <2> QED
    BY <2>2, <2>3, <2>4, <2>5, <2>6 DEF TypeOK, Points, Recording
<1>2. ASSUME NEW s \in Sessions PROVE SessionInv(s)
  BY <1>2 DEF SessionInv, JobInv, FreshInv, CurrentInv, DoneInv, WrittenInv,
              Written, Recording
<1>3. AcknowledgedIsStored /\ ProcessedIsRecorded /\ RecordedIsProcessed
  BY DEF AcknowledgedIsStored, ProcessedIsRecorded, RecordedIsProcessed
<1> QED
  BY <1>1, <1>2, <1>3 DEF IngestInv

(* What a session is at while it records an event. *)
LEMMA RecordingFacts ==
    ASSUME TypeOK, NEW s \in Sessions, CurrentInv(s), pc[s] \in Recording
    PROVE  /\ todo[s] \in Seq(Detections) /\ todo[s] # <<>>
           /\ Head(todo[s]) \in Detections
           /\ Investigation(s) \in Sources
           /\ Tail(todo[s]) \in Seq(Detections)
           /\ Range(todo[s]) = {Head(todo[s])} \cup Range(Tail(todo[s]))
<1>1. todo[s] \in Seq(Detections) /\ todo[s] # <<>>
  BY DEF TypeOK, CurrentInv
<1>2. Head(todo[s]) \in Detections /\ Tail(todo[s]) \in Seq(Detections)
      /\ Range(todo[s]) = {Head(todo[s])} \cup Range(Tail(todo[s]))
  BY <1>1, RangeHeadTail
<1>3. Investigation(s) \in Sources
  BY <1>2, EmitsAssumption DEF Investigation
<1> QED
  BY <1>1, <1>2, <1>3

LEMMA ReleasedType ==
    ASSUME TypeOK, NEW s \in Sessions
    PROVE  /\ Released(s) \in [Rows -> Sessions \cup {NoSession}]
           /\ Flushed(s) \in [Rows -> Sessions \cup {NoSession}]
BY DEF TypeOK, Released, Flushed

(* A session that ends leaves its variables in their types. *)
LEMMA EndTypes ==
    ASSUME TypeOK, NEW s \in Sessions, NEW to \in {"idle", "down"}, EndSession(s, to)
    PROVE  /\ owner' \in [Rows -> Sessions \cup {NoSession}]
           /\ pc' \in [Sessions -> Points]
           /\ job' \in [Sessions -> Events \cup {NoEvent}]
           /\ batch' \in [Sessions -> SUBSET Events]
           /\ done' \in [Sessions -> SUBSET Events]
           /\ dirty' \in [Sessions -> SUBSET Rows]
           /\ todo' \in [Sessions -> Seq(Detections)]
           /\ known' \in [Sessions -> SUBSET Aggregates]
           /\ mine' \in [Sessions -> [Aggregates -> Nat]]
<1>1. owner' \in [Rows -> Sessions \cup {NoSession}]
  BY ReleasedType DEF EndSession
<1>2. pc' \in [Sessions -> Points] /\ job' \in [Sessions -> Events \cup {NoEvent}]
  BY DEF EndSession, TypeOK, Points, Recording
<1>3. /\ batch' \in [Sessions -> SUBSET Events]
      /\ done' \in [Sessions -> SUBSET Events]
      /\ dirty' \in [Sessions -> SUBSET Rows]
      /\ known' \in [Sessions -> SUBSET Aggregates]
  BY DEF EndSession, TypeOK
<1>4. <<>> \in Seq(Detections)
  OBVIOUS
<1>5. todo' \in [Sessions -> Seq(Detections)]
  BY <1>4 DEF EndSession, TypeOK
<1>6. [r \in Aggregates |-> 0] \in [Aggregates -> Nat]
  OBVIOUS
<1>7. mine' \in [Sessions -> [Aggregates -> Nat]]
  BY <1>6 DEF EndSession, TypeOK
<1> QED
  BY <1>1, <1>2, <1>3, <1>5, <1>7

LEMMA RollbackTypes ==
    ASSUME TypeOK, NEW s \in Sessions, Rollback(s), fails' \in 0..MaxFails
    PROVE  TypeOK'
<1>1. PICK to \in {"idle", "down"} : EndSession(s, to)
  BY DEF Rollback
<1> QED
  BY <1>1, EndTypes DEF Rollback, TypeOK, Points, Recording, tableVars

LEMMA IngestTypes ==
    ASSUME TypeOK, NEW s \in Sessions, JobInv(s), Ingest(s)
    PROVE  TypeOK'
<1>1. CASE FindEvent(s)
  BY <1>1 DEF FindEvent, TypeOK, tableVars
<1>2. CASE InsertEvent(s)
  BY <1>2, ReleasedType DEF InsertEvent, TypeOK, tableVars
<1>3. CASE EventExists(s)
  BY <1>3, RollbackTypes DEF EventExists, TypeOK
<1>4. CASE CommitEvent(s)
  BY <1>4, ReleasedType DEF CommitEvent, TypeOK, JobInv
<1> QED
  BY <1>1, <1>2, <1>3, <1>4 DEF Ingest

LEMMA ReadsType ==
    ASSUME TypeOK, NEW s \in Sessions, NEW r \in Aggregates
    PROVE  Reads(s, r) \subseteq Nat
<1>1. value[r] \in Nat
  BY DEF TypeOK
<1>2. mine[s] \in [Aggregates -> Nat]
  BY DEF TypeOK
<1> QED
  BY <1>1, <1>2 DEF Reads

LEMMA InvestigationTypes ==
    ASSUME TypeOK, NEW s \in Sessions, CurrentInv(s),
           FindInvestigation(s) \/ MissInvestigation(s) \/ InsertInvestigation(s)
    PROVE  TypeOK'
<1> DEFINE i == Investigation(s)
<1>1. i \in Sources
  BY RecordingFacts DEF FindInvestigation, MissInvestigation, InsertInvestigation,
                        Recording
<1> HIDE DEF i
<1>2. CASE FindInvestigation(s)
  <2>1. PICK v \in Reads(s, i) :
            mine' = [mine EXCEPT ![s] = [mine[s] EXCEPT ![i] = v]]
    BY <1>2 DEF FindInvestigation, i
  <2>2. mine' \in [Sessions -> [Aggregates -> Nat]]
    <3>1. v \in Nat
      BY <1>1, ReadsType
    <3>2. [mine[s] EXCEPT ![i] = v] \in [Aggregates -> Nat]
      BY <1>1, <3>1 DEF TypeOK
    <3> QED
      BY <2>1, <3>2 DEF TypeOK
  <2>3. /\ known' \in [Sessions -> SUBSET Aggregates]
        /\ dirty' \in [Sessions -> SUBSET Rows]
    BY <1>1, <1>2 DEF FindInvestigation, TypeOK, i
  <2>4. pc' \in [Sessions -> Points]
    BY <1>2 DEF FindInvestigation, TypeOK, Points, Recording
  <2> QED
    BY <1>2, <2>2, <2>3, <2>4 DEF FindInvestigation, TypeOK, Points, Recording, tableVars
<1>3. CASE MissInvestigation(s)
  BY <1>3 DEF MissInvestigation, TypeOK, tableVars
<1>4. CASE InsertInvestigation(s)
  <2>1. mine' \in [Sessions -> [Aggregates -> Nat]]
    BY <1>1, <1>4 DEF InsertInvestigation, TypeOK, i
  <2>2. /\ known' \in [Sessions -> SUBSET Aggregates]
        /\ dirty' \in [Sessions -> SUBSET Rows]
    BY <1>1, <1>4 DEF InsertInvestigation, TypeOK, i
  <2>3. pc' \in [Sessions -> Points]
    BY <1>4 DEF InsertInvestigation, TypeOK, Points, Recording
  <2> QED
    BY <1>4, <2>1, <2>2, <2>3, ReleasedType
       DEF InsertInvestigation, TypeOK, Points, Recording, tableVars
<1> QED
  BY <1>2, <1>3, <1>4

LEMMA DetectionTypes ==
    ASSUME TypeOK, NEW s \in Sessions, CurrentInv(s),
           FindDetection(s) \/ MissDetection(s) \/ FlushDetection(s)
    PROVE  TypeOK'
<1> DEFINE d == Head(todo[s])
           i == Investigation(s)
<1>1. d \in Detections /\ i \in Sources /\ Tail(todo[s]) \in Seq(Detections)
  BY RecordingFacts DEF FindDetection, MissDetection, FlushDetection, Recording
<1> HIDE DEF d, i
<1>2. CASE FindDetection(s)
  <2>1. PICK v \in Reads(s, d) :
            mine' = [mine EXCEPT ![s] = [mine[s] EXCEPT ![d] = v + 1]]
    BY <1>2 DEF FindDetection, d
  <2>2. mine' \in [Sessions -> [Aggregates -> Nat]]
    <3>1. v \in Nat
      BY <1>1, ReadsType
    <3>2. [mine[s] EXCEPT ![d] = v + 1] \in [Aggregates -> Nat]
      BY <1>1, <3>1 DEF TypeOK
    <3> QED
      BY <2>1, <3>2 DEF TypeOK
  <2>3. /\ known' \in [Sessions -> SUBSET Aggregates]
        /\ dirty' \in [Sessions -> SUBSET Rows]
    BY <1>1, <1>2 DEF FindDetection, TypeOK, d
  <2>4. pc' \in [Sessions -> Points]
    BY <1>2 DEF FindDetection, TypeOK, Points, Recording
  <2> QED
    BY <1>2, <2>2, <2>3, <2>4 DEF FindDetection, TypeOK, Points, Recording, tableVars
<1>3. CASE MissDetection(s)
  BY <1>3 DEF MissDetection, TypeOK, tableVars
<1>4. CASE FlushDetection(s)
  <2> DEFINE rest == Tail(todo[s])
             occurrences == IF pc[s] = "flush" THEN mine[s][d] ELSE 1
             seen == {x \in Detections :
                         InvestigationOf[x] = i /\ (x = d \/ Sees(s, x))}
             count == Cardinality(seen)
             event == IF rest = <<>> THEN {e \in Left(s) : IsCurrent(s, e)} ELSE {}
             recount == IF count = mine[s][i] THEN {} ELSE {i}
  <2>1. occurrences \in Nat
    BY <1>1 DEF TypeOK
  <2>2. count \in Nat
    BY FS_Subset, FS_CardinalityType
  <2>3. event \subseteq Events /\ recount \subseteq Rows
    BY <1>1 DEF Left, TypeOK
  <2>4. /\ owner' = Flushed(s)
        /\ mine' = [mine EXCEPT ![s][d] = occurrences, ![s][i] = count]
        /\ known' = [known EXCEPT ![s] = @ \cup {d}]
        /\ todo' = [todo EXCEPT ![s] = rest]
        /\ done' = [done EXCEPT ![s] = @ \cup event]
        /\ dirty' = [dirty EXCEPT ![s] = recount \cup event]
        /\ pc' = [pc EXCEPT ![s] = IF rest = <<>> THEN "event" ELSE "investigation"]
        /\ UNCHANGED <<tableVars, job, batch, acked, raced, calm, requests, fails>>
    BY <1>4 DEF FlushDetection, DetectionCount, d, i
  <2> HIDE DEF occurrences, count, event, recount
  <2>5. mine' \in [Sessions -> [Aggregates -> Nat]]
    BY <1>1, <2>1, <2>2, <2>4 DEF TypeOK
  <2>6. /\ known' \in [Sessions -> SUBSET Aggregates]
        /\ dirty' \in [Sessions -> SUBSET Rows]
        /\ done' \in [Sessions -> SUBSET Events]
    <3> DEFINE more == known[s] \cup {d}
    <3>1. more \in SUBSET Aggregates /\ known' = [known EXCEPT ![s] = more]
      BY <1>1, <2>4 DEF TypeOK
    <3> HIDE DEF more
    <3>2. known' \in [Sessions -> SUBSET Aggregates]
      BY <3>1 DEF TypeOK
    <3>3. recount \cup event \in SUBSET Rows
      BY <2>3
    <3>4. dirty' \in [Sessions -> SUBSET Rows]
      BY <2>4, <3>3 DEF TypeOK
    <3>5. done' \in [Sessions -> SUBSET Events]
      BY <2>3, <2>4 DEF TypeOK
    <3> QED
      BY <3>2, <3>4, <3>5
  <2>7. pc' \in [Sessions -> Points] /\ todo' \in [Sessions -> Seq(Detections)]
    BY <1>1, <2>4 DEF TypeOK, Points, Recording
  <2> QED
    BY <2>4, <2>5, <2>6, <2>7, ReleasedType DEF TypeOK, Points, Recording, tableVars
<1> QED
  BY <1>2, <1>3, <1>4

LEMMA BatchTypes ==
    ASSUME TypeOK, NEW s \in Sessions, JobInv(s),
           ScanPending(s) \/ NextEvent(s) \/ CommitBatch(s)
    PROVE  TypeOK'
<1>1. CASE ScanPending(s)
  <2>1. FirstOf(stored \ processed, Limit(s)) \subseteq Events
    BY DEF FirstOf, TypeOK
  <2>2. batch' \in [Sessions -> SUBSET Events] /\ pc' \in [Sessions -> Points]
    BY <1>1, <2>1 DEF ScanPending, TypeOK, Points, Recording
  <2>3. raced' \in BOOLEAN
    BY <1>1 DEF ScanPending, TypeOK
  <2> QED
    BY <1>1, <2>2, <2>3 DEF ScanPending, TypeOK, Points, Recording, tableVars
<1>2. CASE NextEvent(s)
  <2>1. PICK e \in Left(s) :
            IF Emits[e] = <<>>
            THEN /\ done' = [done EXCEPT ![s] = @ \cup {e}]
                 /\ dirty' = [dirty EXCEPT ![s] = @ \cup {e}]
                 /\ UNCHANGED <<pc, todo>>
            ELSE /\ todo' = [todo EXCEPT ![s] = Emits[e]]
                 /\ pc' = [pc EXCEPT ![s] = "investigation"]
                 /\ UNCHANGED <<done, dirty>>
    BY <1>2 DEF NextEvent
  <2>2. e \in Events /\ Emits[e] \in Seq(Detections)
    <3>1. batch[s] \subseteq Events
      BY DEF TypeOK
    <3>2. e \in Events
      BY <2>1, <3>1 DEF Left
    <3> QED
      BY <3>2, EmitsAssumption
  <2>3. /\ done' \in [Sessions -> SUBSET Events]
        /\ dirty' \in [Sessions -> SUBSET Rows]
        /\ todo' \in [Sessions -> Seq(Detections)]
        /\ pc' \in [Sessions -> Points]
    <3>1. CASE Emits[e] = <<>>
      <4>1. /\ done' = [done EXCEPT ![s] = @ \cup {e}]
            /\ dirty' = [dirty EXCEPT ![s] = @ \cup {e}]
            /\ UNCHANGED <<pc, todo>>
        BY <2>1, <3>1
      <4>2. done' \in [Sessions -> SUBSET Events]
        BY <4>1, <2>2 DEF TypeOK
      <4>3. dirty' \in [Sessions -> SUBSET Rows]
        BY <4>1, <2>2 DEF TypeOK
      <4> QED
        BY <4>1, <4>2, <4>3 DEF TypeOK, Points, Recording
    <3>2. CASE Emits[e] # <<>>
      <4>1. UNCHANGED <<done, dirty>> /\ todo' = [todo EXCEPT ![s] = Emits[e]]
            /\ pc' = [pc EXCEPT ![s] = "investigation"]
        BY <2>1, <3>2
      <4> QED
        BY <4>1, <2>2 DEF TypeOK, Points, Recording
    <3> QED
      BY <3>1, <3>2
  <2> QED
    BY <1>2, <2>3 DEF NextEvent, TypeOK, Points, Recording, tableVars
<1>3. CASE CommitBatch(s)
  <2>1. done[s] \subseteq Events /\ Answered(s) \subseteq Events
    BY <1>3 DEF CommitBatch, Answered, JobInv, TypeOK
  <2>2. /\ processed' \subseteq Events /\ acked' \subseteq Events
        /\ stored' = stored /\ raced' = raced
        /\ calm' \subseteq Sessions
        /\ requests' = requests /\ fails' = fails
    BY <1>3, <2>1 DEF CommitBatch, Marked, TypeOK
  <2>3. exists' \in [Aggregates -> BOOLEAN]
    <3> DEFINE written == {r \in Aggregates : owner[r] = s \/ r \in dirty[s]}
    <3>1. exists' = [r \in Aggregates |-> exists[r] \/ r \in written]
      BY <1>3 DEF CommitBatch
    <3> HIDE DEF written
    <3> QED
      BY <3>1 DEF TypeOK
  <2>4. value' \in [Aggregates -> Nat]
    BY <1>3 DEF CommitBatch, TypeOK
  <2> QED
    BY <1>3, <2>2, <2>3, <2>4, EndTypes DEF CommitBatch, TypeOK, Points, Recording
<1> QED
  BY <1>1, <1>2, <1>3

(* Every step keeps the types. *)
LEMMA TypesStep ==
    ASSUME TypeOK, \A s \in Sessions : JobInv(s) /\ CurrentInv(s), [Next]_vars
    PROVE  TypeOK'
<1>1. ASSUME NEW s \in Sessions, Ingest(s) PROVE TypeOK'
  BY <1>1, IngestTypes
<1>2. ASSUME NEW s \in Sessions, AggregateExists(s) \/ DeadlockVictim(s) PROVE TypeOK'
  BY <1>2, RollbackTypes DEF AggregateExists, DeadlockVictim, TypeOK
<1>3. ASSUME NEW s \in Sessions, Materialize(s) PROVE TypeOK'
  BY <1>2, <1>3, InvestigationTypes, DetectionTypes, BatchTypes DEF Materialize
<1>4. ASSUME NEW s \in Sessions, Fail(s) PROVE TypeOK'
  <2>1. fails' \in 0..MaxFails
    BY <1>4, LimitsAssumption DEF Fail, TypeOK
  <2> QED
    BY <1>4, <2>1, RollbackTypes DEF Fail
<1>5. ASSUME NEW s \in Sessions, NEW e \in Events, Request(s, e) PROVE TypeOK'
  <2>1. requests' \in 0..MaxRequests
    BY <1>5, LimitsAssumption DEF Request, TypeOK
  <2> QED
    BY <1>5, <2>1 DEF Request, TypeOK, tableVars
<1>6. CASE WorkerRound \/ WorkerRestart
  BY <1>6 DEF WorkerRound, WorkerRestart, TypeOK, tableVars
<1>7. CASE UNCHANGED vars
  BY <1>7 DEF vars, TypeOK
<1> QED
  BY <1>1, <1>2, <1>3, <1>4, <1>5, <1>6, <1>7 DEF Next, Step

-----------------------------------------------------------------------------
(* What sessions have written. *)

LEMMA EmitRange ==
    /\ \A e \in Events : Range(Emits[e]) \subseteq Detections
    /\ \A d \in Detections : InvestigationOf[d] \in Sources
    /\ Range(<<>>) = {}
<1>1. ASSUME NEW e \in Events PROVE Range(Emits[e]) \subseteq Detections
  <2>1. Emits[e] \in Seq(Detections)
    BY EmitsAssumption
  <2> QED
    BY <2>1 DEF Range
<1>2. \A d \in Detections : InvestigationOf[d] \in Sources
  BY EmitsAssumption
<1> QED
  BY <1>1, <1>2, RangeEmpty

(* The locks of a session are not touched by others. *)
LEMMA OwnerFrame ==
    ASSUME TypeOK, NEW s \in Sessions, NEW x \in Sessions, x # s,
           \/ owner' = owner
           \/ owner' = Released(s)
           \/ CanFlush(s) /\ owner' = Flushed(s)
    PROVE  \A r \in Rows : owner'[r] = x <=> owner[r] = x
BY DEF Released, Flushed, CanFlush, TypeOK

(* A session is as it was when another one has taken a step. *)
LEMMA FrameKeeps ==
    ASSUME TypeOK, NEW x \in Sessions, SessionInv(x),
           stored \subseteq stored',
           \A r \in Aggregates : exists[r] => exists'[r],
           \A r \in Rows : owner'[r] = x <=> owner[r] = x,
           pc'[x] = pc[x], job'[x] = job[x], batch'[x] = batch[x],
           done'[x] = done[x], dirty'[x] = dirty[x], todo'[x] = todo[x],
           known'[x] = known[x], mine'[x] = mine[x]
    PROVE  SessionInv(x)'
<1> USE DEF SessionInv
<1>1. JobInv(x)'
  BY DEF JobInv
<1>2. FreshInv(x)'
  BY DEF FreshInv
<1>3. \A r \in Aggregates : Has(x, r) => Has(x, r)'
  BY DEF Has, Written
<1>4. /\ batch[x] \subseteq Events /\ done[x] \subseteq Events
      /\ known[x] \subseteq Aggregates
  BY DEF TypeOK
<1>5. \A e : e \in Left(x)' <=> e \in Left(x)
  BY DEF Left
<1>6. \A e : IsCurrent(x, e)' <=> IsCurrent(x, e)
  BY DEF IsCurrent, Left
<1>7. CurrentInv(x)'
  <2>1. batch'[x] \subseteq stored' /\ done'[x] \subseteq stored'
    BY DEF CurrentInv
  <2>2. ASSUME pc[x] \in Recording
        PROVE  /\ todo'[x] # <<>>
               /\ \E e \in Left(x)' :
                    /\ IsCurrent(x, e)'
                    /\ Range(todo'[x]) \subseteq Range(Emits[e])
                    /\ \A d \in Range(Emits[e]) :
                         \/ d \in Range(todo'[x])
                         \/ Has(x, d)' /\ Has(x, InvestigationOf[d])'
    <3>1. PICK e \in Left(x) :
            /\ IsCurrent(x, e)
            /\ Range(todo[x]) \subseteq Range(Emits[e])
            /\ HasAllBut(x, e, Range(todo[x]))
      BY <2>2 DEF CurrentInv
    <3>2. e \in Events
      BY <1>4 DEF Left
    <3>3. \A d \in Range(Emits[e]) :
            d \in Range(todo[x]) \/ (Has(x, d)' /\ Has(x, InvestigationOf[d])')
      BY <3>1, <3>2, <1>3, EmitRange DEF HasAllBut
    <3> QED
      BY <3>1, <3>3, <2>2, <1>5, <1>6 DEF CurrentInv
  <2> QED
    BY <2>1, <2>2 DEF CurrentInv, HasAllBut
<1>8. DoneInv(x)'
  <2>1. \A r \in known'[x] : Has(x, r)'
    BY <1>3, <1>4 DEF DoneInv
  <2>2. ASSUME NEW e \in done'[x] PROVE HasAllBut(x, e, {})'
    BY <1>3, <1>4, EmitRange DEF DoneInv, HasAllBut
  <2>3. pc'[x] \in {"detection", "insertDetection", "flush"} =>
            Has(x, Investigation(x))'
    <3>1. ASSUME pc[x] \in Recording PROVE Investigation(x) \in Aggregates
      BY <3>1, RecordingFacts
    <3> QED
      BY <3>1, <1>3 DEF DoneInv, Recording, Investigation
  <2> QED
    BY <2>1, <2>2, <2>3 DEF DoneInv
<1>9. WrittenInv(x)'
  <2>1. \A d \in Detections : Written(x, d)' <=> Written(x, d)
    BY DEF Written
  <2> QED
    BY <2>1, <1>5, <1>6 DEF WrittenInv
<1> QED
  BY <1>1, <1>2, <1>7, <1>8, <1>9

(* A session that has recorded nothing has nothing to answer for. *)
LEMMA FreshSession ==
    ASSUME NEW s \in Sessions, pc'[s] \notin Recording,
           done'[s] = {}, dirty'[s] = {}, known'[s] = {},
           \A r \in Aggregates : owner'[r] # s,
           batch'[s] \subseteq stored', JobInv(s)'
    PROVE  SessionInv(s)'
<1> USE DEF SessionInv
<1>1. FreshInv(s)' /\ CurrentInv(s)' /\ WrittenInv(s)'
  BY DEF FreshInv, CurrentInv, WrittenInv, Written
<1>2. DoneInv(s)'
  BY DEF DoneInv, Recording
<1> QED
  BY <1>1, <1>2

(* What a session that ends leaves of itself. *)
LEMMA EndFacts ==
    ASSUME TypeOK, NEW s \in Sessions, NEW to, EndSession(s, to)
    PROVE  /\ pc'[s] = to /\ owner' = Released(s)
           /\ batch'[s] = {} /\ done'[s] = {} /\ dirty'[s] = {} /\ known'[s] = {}
           /\ \A r \in Rows : owner'[r] # s
           /\ \A x \in Sessions : x # s =>
                /\ pc'[x] = pc[x] /\ job'[x] = job[x] /\ batch'[x] = batch[x]
                /\ done'[x] = done[x] /\ dirty'[x] = dirty[x] /\ todo'[x] = todo[x]
                /\ known'[x] = known[x] /\ mine'[x] = mine[x]
BY DEF EndSession, Released, TypeOK

LEMMA EndSessionInv ==
    ASSUME TypeOK, NEW s \in Sessions, NEW to \in {"idle", "down"}, EndSession(s, to)
    PROVE  SessionInv(s)'
<1>1. JobInv(s)'
  BY EndFacts DEF JobInv, Recording
<1>2. /\ pc'[s] = to /\ batch'[s] = {} /\ done'[s] = {} /\ dirty'[s] = {}
      /\ known'[s] = {} /\ \A r \in Rows : owner'[r] # s
  BY EndFacts
<1>3. pc'[s] \notin Recording
  BY <1>2 DEF Recording
<1> QED
  BY <1>1, <1>2, <1>3, FreshSession

LEMMA IngestSession ==
    ASSUME TypeOK, NEW s \in Sessions, SessionInv(s),
           FindEvent(s) \/ InsertEvent(s) \/ CommitEvent(s)
    PROVE  SessionInv(s)'
<1> USE DEF SessionInv
<1>1. /\ pc[s] \in {"select", "insert", "commit"}
      /\ done[s] = {} /\ dirty[s] = {} /\ known[s] = {}
      /\ \A r \in Aggregates : owner[r] # s
      /\ batch[s] \subseteq stored
      /\ s # Worker /\ job[s] \in Events
  BY DEF FreshInv, CurrentInv, JobInv, FindEvent, InsertEvent, CommitEvent, Recording
<1>2. /\ UNCHANGED <<job, batch, done, dirty, known>>
      /\ stored \subseteq stored'
  BY DEF FindEvent, InsertEvent, CommitEvent, tableVars
<1>3. pc'[s] \in {"insert", "commit", "scan"} /\ (pc'[s] = "scan" => job[s] \in stored')
  BY DEF FindEvent, InsertEvent, CommitEvent, TypeOK
<1>4. \A r \in Aggregates : owner'[r] # s
  <2>1. CASE InsertEvent(s)
    <3>1. Needs(s) = {job[s]}
      BY <2>1 DEF InsertEvent, Needs
    <3> QED
      BY <1>1, <2>1, <3>1 DEF InsertEvent, Flushed, TypeOK
  <2>2. CASE FindEvent(s) \/ CommitEvent(s)
    BY <1>1, <2>2 DEF FindEvent, CommitEvent, Released, TypeOK
  <2> QED
    BY <2>1, <2>2
<1>5. JobInv(s)'
  BY <1>1, <1>2, <1>3 DEF JobInv, Recording
<1> QED
  BY <1>1, <1>2, <1>3, <1>4, <1>5, FreshSession DEF Recording

LEMMA BeginSession ==
    ASSUME TypeOK, NEW s \in Sessions, SessionInv(s),
           \/ \E e \in Events : Request(s, e)
           \/ s = Worker /\ (WorkerRound \/ WorkerRestart)
           \/ ScanPending(s)
    PROVE  SessionInv(s)'
<1> USE DEF SessionInv
<1>1. /\ pc[s] \in {"idle", "down", "scan"}
      /\ done[s] = {} /\ dirty[s] = {} /\ known[s] = {}
      /\ \A r \in Aggregates : owner[r] # s
      /\ batch[s] \subseteq stored
  BY DEF FreshInv, CurrentInv, Request, WorkerRound, WorkerRestart, ScanPending, Recording
<1>2. UNCHANGED <<stored, owner, done, dirty, known>>
  BY DEF Request, WorkerRound, WorkerRestart, ScanPending, tableVars
<1>3. batch'[s] \subseteq stored
  <2>1. CASE ScanPending(s)
    <3>1. batch'[s] = FirstOf(stored \ processed, Limit(s))
      BY <2>1 DEF ScanPending, TypeOK
    <3> QED
      BY <3>1 DEF FirstOf
  <2>2. CASE batch' = batch
    BY <1>1, <2>2
  <2> QED
    BY <2>1, <2>2 DEF Request, WorkerRound, WorkerRestart
<1>4. JobInv(s)' /\ pc'[s] \notin Recording
  BY DEF JobInv, Request, WorkerRound, WorkerRestart, ScanPending, TypeOK, Recording,
         tableVars
<1> QED
  BY <1>1, <1>2, <1>3, <1>4, FreshSession

(* The event a session is at is one event. *)
LEMMA OneCurrent ==
    ASSUME TypeOK, NEW s \in Sessions, NEW e, NEW f, IsCurrent(s, e), IsCurrent(s, f)
    PROVE  e = f /\ e \in Events /\ e \in batch[s]
<1>1. e \in batch[s] /\ f \in batch[s] /\ e <= f /\ f <= e
  BY DEF IsCurrent, Left
<1>2. batch[s] \subseteq Events
  BY DEF TypeOK
<1>3. e \in Nat /\ f \in Nat
  BY <1>1, <1>2
<1> QED
  BY <1>1, <1>2, <1>3

LEMMA NextEventSession ==
    ASSUME TypeOK, NEW s \in Sessions, SessionInv(s), NextEvent(s)
    PROVE  SessionInv(s)'
<1> USE DEF SessionInv
<1>1. PICK e \in Left(s) :
        /\ IsCurrent(s, e)
        /\ IF Emits[e] = <<>>
           THEN /\ done' = [done EXCEPT ![s] = @ \cup {e}]
                /\ dirty' = [dirty EXCEPT ![s] = @ \cup {e}]
                /\ UNCHANGED <<pc, todo>>
           ELSE /\ todo' = [todo EXCEPT ![s] = Emits[e]]
                /\ pc' = [pc EXCEPT ![s] = "investigation"]
                /\ UNCHANGED <<done, dirty>>
  BY DEF NextEvent
<1>2. e \in Events /\ e \in batch[s] /\ e \in stored
  BY <1>1, OneCurrent DEF CurrentInv
<1>3. /\ pc[s] = "event"
      /\ UNCHANGED <<stored, exists, owner, job, batch, known, mine>>
  BY DEF NextEvent, tableVars
<1>4. \A r \in Aggregates : Written(s, r) => Written(s, r)'
  BY <1>1, <1>2, <1>3 DEF Written, TypeOK
<1>5. \A r \in Aggregates : Has(s, r) => Has(s, r)'
  BY <1>3, <1>4 DEF Has
<1>6. known[s] \subseteq Aggregates /\ done[s] \subseteq Events
  BY DEF TypeOK
<1>7. \A r \in known'[s] : Has(s, r)'
  BY <1>3, <1>5, <1>6 DEF DoneInv
<1>8. \A f \in done[s] : HasAllBut(s, f, {})'
  BY <1>5, <1>6, EmitRange DEF DoneInv, HasAllBut
<1>9. CASE Emits[e] = <<>>
  <2>1. /\ done'[s] = done[s] \cup {e} /\ dirty'[s] = dirty[s] \cup {e}
        /\ pc'[s] = "event"
    BY <1>1, <1>3, <1>9 DEF TypeOK
  <2>2. JobInv(s)' /\ FreshInv(s)' /\ CurrentInv(s)'
    BY <1>2, <1>3, <2>1 DEF JobInv, FreshInv, CurrentInv, Recording
  <2>3. HasAllBut(s, e, {})'
    BY <1>9, EmitRange DEF HasAllBut
  <2>4. DoneInv(s)'
    BY <1>7, <1>8, <2>1, <2>3 DEF DoneInv
  <2>5. \A d \in Detections : Written(s, d)' => Written(s, d)
    BY <1>2, <1>3, <2>1 DEF Written
  <2>6. WrittenInv(s)'
    BY <1>3, <2>1, <2>5 DEF WrittenInv, Recording
  <2> QED
    BY <2>2, <2>4, <2>6
<1>10. CASE Emits[e] # <<>>
  <2>1. /\ done' = done /\ dirty' = dirty
        /\ todo'[s] = Emits[e] /\ pc'[s] = "investigation"
    BY <1>1, <1>10 DEF TypeOK
  <2>2. JobInv(s)' /\ FreshInv(s)'
    BY <1>3, <2>1 DEF JobInv, FreshInv, Recording
  <2>3. e \in Left(s)' /\ IsCurrent(s, e)'
    BY <1>1, <1>3, <2>1 DEF Left, IsCurrent
  <2>4. HasAllBut(s, e, Range(Emits[e]))'
    BY DEF HasAllBut
  <2>5. CurrentInv(s)'
    BY <1>3, <1>10, <2>1, <2>3, <2>4 DEF CurrentInv, HasAllBut
  <2>6. DoneInv(s)'
    BY <1>7, <1>8, <2>1 DEF DoneInv
  <2>7. \A d \in Detections : Written(s, d)' => Written(s, d)
    BY <1>3, <2>1 DEF Written
  <2>8. WrittenInv(s)'
    BY <1>3, <2>1, <2>7 DEF WrittenInv, Recording
  <2> QED
    BY <2>2, <2>5, <2>6, <2>8
<1> QED
  BY <1>9, <1>10

(* A session that goes on with the detection it is at, having written some *)
(* more, and no detection but that one.                                    *)
LEMMA GoOn ==
    ASSUME TypeOK, NEW s \in Sessions, SessionInv(s), pc[s] \in Recording,
           UNCHANGED <<stored, exists, job, batch, done, todo>>,
           pc'[s] \in Recording,
           \A r \in Aggregates : Has(s, r) => Has(s, r)',
           known'[s] \subseteq Aggregates, \A r \in known'[s] : Has(s, r)',
           pc'[s] \in {"detection", "insertDetection", "flush"} =>
                Has(s, Investigation(s))',
           pc'[s] = "flush" => Head(todo[s]) \in dirty'[s],
           \A d \in Detections : Written(s, d)' =>
                /\ mine'[s][d] > 0
                /\ Written(s, d) \/ d = Head(todo[s])
    PROVE  SessionInv(s)'
<1> USE DEF SessionInv
<1>1. JobInv(s)' /\ FreshInv(s)'
  <2>1. s = Worker \/ job[s] \in stored
    BY DEF JobInv
  <2>2. JobInv(s)'
    BY <2>1 DEF JobInv, Recording
  <2> QED
    BY <2>2 DEF FreshInv
<1>2. PICK e \in Left(s) :
        /\ IsCurrent(s, e)
        /\ Range(todo[s]) \subseteq Range(Emits[e])
        /\ HasAllBut(s, e, Range(todo[s]))
  BY DEF CurrentInv
<1>3. e \in Events /\ done[s] \subseteq Events
  <2>1. done[s] \subseteq Events
    BY DEF TypeOK
  <2> QED
    BY <1>2, <2>1, OneCurrent
<1>4. /\ \A f : f \in Left(s)' <=> f \in Left(s)
      /\ \A f : IsCurrent(s, f)' <=> IsCurrent(s, f)
  BY DEF Left, IsCurrent
<1>5. HasAllBut(s, e, Range(todo[s]))'
  BY <1>2, <1>3, EmitRange DEF HasAllBut
<1>6. CurrentInv(s)'
  BY <1>2, <1>4, <1>5 DEF CurrentInv, HasAllBut
<1>7. \A f \in done'[s] : HasAllBut(s, f, {})'
  BY <1>3, EmitRange DEF DoneInv, HasAllBut
<1>8. DoneInv(s)'
  BY <1>7 DEF DoneInv
<1>9. Head(todo[s]) \in Range(Emits[e])
  BY <1>2, RecordingFacts
<1>10. WrittenInv(s)'
  BY <1>2, <1>4, <1>9 DEF WrittenInv
<1> QED
  BY <1>1, <1>6, <1>8, <1>10

LEMMA InvestigationSession ==
    ASSUME TypeOK, NEW s \in Sessions, SessionInv(s),
           FindInvestigation(s) \/ MissInvestigation(s) \/ InsertInvestigation(s)
    PROVE  SessionInv(s)'
<1>1. pc[s] \in Recording
  BY DEF FindInvestigation, MissInvestigation, InsertInvestigation, Recording
<1>2. PICK i \in Sources : i = Investigation(s) /\ i \in Aggregates /\ i \notin Detections
  BY <1>1, RecordingFacts DEF SessionInv
<1>3. /\ UNCHANGED <<stored, exists, job, batch, done, todo>>
      /\ pc'[s] \in {"insertInvestigation", "detection"}
      /\ Investigation(s)' = i
  BY <1>2 DEF FindInvestigation, MissInvestigation, InsertInvestigation, TypeOK, tableVars,
         Investigation
<1>4. known[s] \subseteq Aggregates /\ \A r \in known[s] : Has(s, r)
  BY DEF SessionInv, DoneInv, TypeOK
<1>5. CASE FindInvestigation(s)
  <2>1. /\ Sees(s, i) /\ owner' = owner
        /\ known' = [known EXCEPT ![s] = @ \cup {i}]
        /\ \E changed \in SUBSET {i} : dirty' = [dirty EXCEPT ![s] = @ \cup changed]
        /\ \E v : mine' = [mine EXCEPT ![s][i] = v]
    BY <1>2, <1>5 DEF FindInvestigation, tableVars
  <2>2. /\ known'[s] = known[s] \cup {i}
        /\ dirty[s] \subseteq dirty'[s] /\ dirty'[s] \subseteq dirty[s] \cup {i}
    BY <2>1 DEF TypeOK
  <2>3. \A d \in Detections : mine'[s][d] = mine[s][d]
    BY <1>2, <2>1 DEF TypeOK
  <2>4. \A r \in Aggregates : Has(s, r) => Has(s, r)'
    BY <1>3, <2>1, <2>2 DEF Has, Written
  <2>5. Has(s, i)'
    BY <1>2, <1>4, <2>1, <2>4 DEF Sees, Has
  <2>6. \A d \in Detections : Written(s, d)' => mine'[s][d] > 0 /\ Written(s, d)
    BY <1>2, <2>1, <2>2, <2>3 DEF SessionInv, WrittenInv, Written
  <2> QED
    BY <1>1, <1>2, <1>3, <1>4, <2>2, <2>4, <2>5, <2>6, GoOn DEF Recording
<1>6. CASE MissInvestigation(s)
  <2>1. /\ UNCHANGED <<owner, dirty, known, mine>>
        /\ pc'[s] = "insertInvestigation"
    BY <1>6 DEF MissInvestigation, tableVars, TypeOK
  <2>2. \A r : Written(s, r)' <=> Written(s, r)
    BY <2>1 DEF Written
  <2>3. \A r \in Aggregates : Has(s, r) => Has(s, r)'
    BY <1>3, <2>2 DEF Has
  <2>4. \A d \in Detections : Written(s, d)' => mine'[s][d] > 0 /\ Written(s, d)
    BY <2>1, <2>2 DEF SessionInv, WrittenInv
  <2> QED
    BY <1>1, <1>3, <1>4, <2>1, <2>3, <2>4, GoOn DEF Recording
<1>7. CASE InsertInvestigation(s)
  <2>1. /\ owner' = Flushed(s)
        /\ dirty' = [dirty EXCEPT ![s] = {}]
        /\ mine' = [mine EXCEPT ![s][i] = 0]
        /\ known' = [known EXCEPT ![s] = @ \cup {i}]
        /\ Needs(s) = dirty[s] \cup {i}
    BY <1>2, <1>7 DEF InsertInvestigation, Needs, Investigation
  <2>2. known'[s] = known[s] \cup {i} /\ dirty'[s] = {}
    BY <2>1 DEF TypeOK
  <2>3. \A r \in Aggregates : Written(s, r)' <=> Written(s, r) \/ r = i
    BY <1>2, <2>1, <2>2 DEF Written, Flushed, TypeOK
  <2>4. \A d \in Detections : mine'[s][d] = mine[s][d]
    BY <1>2, <2>1 DEF TypeOK
  <2>5. (\A r \in Aggregates : Has(s, r) => Has(s, r)') /\ Has(s, i)'
    BY <1>2, <1>3, <2>3 DEF Has
  <2>6. \A d \in Detections : Written(s, d)' => mine'[s][d] > 0 /\ Written(s, d)
    BY <1>2, <2>3, <2>4 DEF SessionInv, WrittenInv
  <2>7. pc'[s] = "detection"
    BY <1>7 DEF InsertInvestigation, TypeOK
  <2> QED
    BY <1>1, <1>2, <1>3, <1>4, <2>2, <2>5, <2>6, <2>7, GoOn DEF Recording
<1> QED
  BY <1>5, <1>6, <1>7

LEMMA DetectionSession ==
    ASSUME TypeOK, NEW s \in Sessions, SessionInv(s),
           FindDetection(s) \/ MissDetection(s)
    PROVE  SessionInv(s)'
<1>1. pc[s] = "detection" /\ pc[s] \in Recording
  BY DEF FindDetection, MissDetection, Recording
<1>2. PICK d \in Detections : d = Head(todo[s]) /\ Investigation(s) \in Aggregates
  BY <1>1, RecordingFacts DEF SessionInv
<1>3. /\ UNCHANGED <<stored, exists, owner, job, batch, done, todo>>
      /\ pc'[s] \in {"insertDetection", "flush"}
      /\ Investigation(s)' = Investigation(s)
  BY DEF FindDetection, MissDetection, TypeOK, tableVars, Investigation
<1>4. /\ known[s] \subseteq Aggregates /\ \A r \in known[s] : Has(s, r)
      /\ Has(s, Investigation(s))
  BY <1>1 DEF SessionInv, DoneInv, TypeOK
<1>5. CASE FindDetection(s)
  <2>1. PICK v \in Reads(s, d) :
            mine' = [mine EXCEPT ![s] = [mine[s] EXCEPT ![d] = v + 1]]
    BY <1>2, <1>5 DEF FindDetection
  <2>2. v \in Nat
    BY <1>2, ReadsType
  <2>3. /\ known'[s] = known[s] \cup {d} /\ dirty'[s] = dirty[s] \cup {d}
        /\ pc'[s] = "flush"
    BY <1>2, <1>5 DEF FindDetection, TypeOK
  <2>4. mine'[s][d] > 0 /\ \A x \in Detections : x # d => mine'[s][x] = mine[s][x]
    <3>1. mine[s] \in [Aggregates -> Nat]
      BY DEF TypeOK
    <3>2. mine'[s] = [mine[s] EXCEPT ![d] = v + 1]
      BY <2>1 DEF TypeOK
    <3> QED
      BY <1>2, <2>2, <3>1, <3>2
  <2>5. \A r : Written(s, r)' <=> Written(s, r) \/ r = d
    BY <1>3, <2>3 DEF Written
  <2>6. (\A r \in Aggregates : Has(s, r) => Has(s, r)') /\ Has(s, d)'
    BY <1>3, <2>5 DEF Has
  <2>7. \A x \in Detections : Written(s, x)' => mine'[s][x] > 0
    BY <2>4, <2>5 DEF SessionInv, WrittenInv
  <2> QED
    BY <1>1, <1>2, <1>3, <1>4, <2>3, <2>5, <2>6, <2>7, GoOn DEF Recording
<1>6. CASE MissDetection(s)
  <2>1. UNCHANGED <<dirty, known, mine>> /\ pc'[s] = "insertDetection"
    BY <1>6 DEF MissDetection, TypeOK
  <2>2. \A r : Written(s, r)' <=> Written(s, r)
    BY <1>3, <2>1 DEF Written
  <2>3. \A r \in Aggregates : Has(s, r) => Has(s, r)'
    BY <1>3, <2>2 DEF Has
  <2>4. \A x \in Detections : Written(s, x)' => mine'[s][x] > 0 /\ Written(s, x)
    BY <2>1, <2>2 DEF SessionInv, WrittenInv
  <2> QED
    BY <1>1, <1>2, <1>3, <1>4, <2>1, <2>3, <2>4, GoOn DEF Recording
<1> QED
  BY <1>5, <1>6

(* The detection is flushed with its investigation; after the last one of  *)
(* an event the session has been through it.                               *)
LEMMA FlushSession ==
    ASSUME TypeOK, NEW s \in Sessions, SessionInv(s), FlushDetection(s)
    PROVE  SessionInv(s)'
<1>1. pc[s] \in {"flush", "insertDetection"} /\ pc[s] \in Recording
  BY DEF FlushDetection, Recording
<1>2. PICK d \in Detections, i \in Sources, rest \in Seq(Detections) :
        /\ d = Head(todo[s]) /\ i = Investigation(s) /\ rest = Tail(todo[s])
        /\ Range(todo[s]) = {d} \cup Range(rest)
  BY <1>1, RecordingFacts DEF SessionInv
<1>3. InvestigationOf[d] = i /\ d \notin Sources /\ i \notin Detections
  BY <1>2 DEF Investigation
<1>4. PICK e \in Left(s) :
        /\ IsCurrent(s, e)
        /\ Range(todo[s]) \subseteq Range(Emits[e])
        /\ HasAllBut(s, e, Range(todo[s]))
  BY <1>1 DEF SessionInv, CurrentInv
<1>5. /\ e \in Events /\ e \in stored
      /\ \A f \in Left(s) : IsCurrent(s, f) => f = e
      /\ done[s] \subseteq Events
  BY <1>4, OneCurrent DEF SessionInv, CurrentInv, TypeOK
<1>6. /\ UNCHANGED <<stored, exists, job, batch>>
      /\ owner' = Flushed(s)
      /\ known'[s] = known[s] \cup {d}
      /\ todo'[s] = rest
      /\ pc'[s] = IF rest = <<>> THEN "event" ELSE "investigation"
      /\ done'[s] = done[s] \cup IF rest = <<>> THEN {e} ELSE {}
  <2>1. {f \in Left(s) : IsCurrent(s, f)} = {e}
    BY <1>4, <1>5
  <2>2. done' = [done EXCEPT ![s] = @ \cup
            IF rest = <<>> THEN {f \in Left(s) : IsCurrent(s, f)} ELSE {}]
    BY <1>2 DEF FlushDetection
  <2>3. done'[s] = done[s] \cup IF rest = <<>> THEN {e} ELSE {}
    BY <2>1, <2>2 DEF TypeOK
  <2>4. /\ UNCHANGED <<stored, exists, job, batch>>
        /\ owner' = Flushed(s)
    BY DEF FlushDetection, tableVars
  <2>5. /\ known'[s] = known[s] \cup {d}
        /\ todo'[s] = rest
        /\ pc'[s] = IF rest = <<>> THEN "event" ELSE "investigation"
    BY <1>2 DEF FlushDetection, TypeOK
  <2> QED
    BY <2>3, <2>4, <2>5
<1>7. dirty'[s] \subseteq {i} \cup Events
  <2>1. Left(s) \subseteq Events
    BY DEF Left, TypeOK
  <2> QED
    BY <1>2, <2>1 DEF FlushDetection, TypeOK
<1>8. /\ mine'[s][d] = IF pc[s] = "flush" THEN mine[s][d] ELSE 1
      /\ \A x \in Detections : x # d => mine'[s][x] = mine[s][x]
  <2>1. \E v : mine' = [mine EXCEPT
                    ![s][d] = IF pc[s] = "flush" THEN mine[s][d] ELSE 1, ![s][i] = v]
    BY <1>2 DEF FlushDetection
  <2> QED
    BY <1>2, <1>3, <2>1 DEF TypeOK
<1>9. \A r \in Rows : owner'[r] = s <=> Written(s, r) \/ r = d
  <2>1. /\ pc[s] = "flush" => Needs(s) = dirty[s] /\ d \in dirty[s]
        /\ pc[s] = "insertDetection" => Needs(s) = dirty[s] \cup {d}
    BY <1>2 DEF Needs, SessionInv, DoneInv
  <2> QED
    BY <1>1, <1>6, <2>1 DEF Flushed, Written, TypeOK
<1>10. /\ \A r \in Aggregates : Written(s, r) \/ r = d => Written(s, r)'
       /\ \A x \in Detections : Written(s, x)' => Written(s, x) \/ x = d
  BY <1>3, <1>7, <1>9 DEF Written
<1>11. /\ \A r \in Aggregates : Has(s, r) \/ r = d => Has(s, r)'
       /\ Has(s, i)'
  <2>1. Has(s, i)
    BY <1>1, <1>2 DEF SessionInv, DoneInv
  <2> QED
    BY <1>2, <1>6, <1>10, <2>1 DEF Has
<1>12. \A x \in Range(Emits[e]) :
        x \in Range(rest) \/ (Has(s, x)' /\ Has(s, InvestigationOf[x])')
  BY <1>2, <1>3, <1>4, <1>5, <1>11, EmitRange DEF HasAllBut
<1>13. JobInv(s)' /\ FreshInv(s)'
  BY <1>1, <1>6 DEF SessionInv, JobInv, FreshInv, Recording
<1>14. CurrentInv(s)'
  <2>1. batch'[s] \subseteq stored' /\ done'[s] \subseteq stored'
    BY <1>5, <1>6 DEF SessionInv, CurrentInv
  <2>2. CASE rest = <<>>
    BY <1>6, <2>1, <2>2 DEF CurrentInv, Recording
  <2>3. CASE rest # <<>>
    <3>1. e \in Left(s)' /\ IsCurrent(s, e)'
      BY <1>4, <1>6, <2>3 DEF Left, IsCurrent
    <3> QED
      BY <1>2, <1>4, <1>6, <1>12, <2>1, <2>3, <3>1 DEF CurrentInv, HasAllBut
  <2> QED
    BY <2>2, <2>3
<1>15. DoneInv(s)'
  <2>1. \A r \in known'[s] : Has(s, r)'
    BY <1>6, <1>11 DEF SessionInv, DoneInv, TypeOK
  <2>2. \A f \in done[s] : HasAllBut(s, f, {})'
    BY <1>5, <1>11, EmitRange DEF SessionInv, DoneInv, HasAllBut
  <2>3. rest = <<>> => HasAllBut(s, e, {})'
    BY <1>12, EmitRange DEF HasAllBut
  <2> QED
    BY <1>6, <2>1, <2>2, <2>3 DEF DoneInv
<1>16. WrittenInv(s)'
  <2>1. ASSUME NEW x \in Detections, Written(s, x)'
        PROVE  mine'[s][x] > 0
    <3>1. pc[s] = "flush" => Written(s, d)
      BY <1>2 DEF SessionInv, DoneInv, Written
    <3> QED
      BY <1>1, <1>8, <1>10, <2>1, <3>1 DEF SessionInv, WrittenInv
  <2>2. ASSUME NEW x \in Detections, Written(s, x)'
        PROVE  (\E f \in done[s] : x \in Range(Emits[f])) \/ x \in Range(Emits[e])
    BY <1>2, <1>4, <1>5, <1>10, <2>2 DEF SessionInv, WrittenInv
  <2>3. CASE rest = <<>>
    BY <1>6, <2>1, <2>2, <2>3 DEF WrittenInv
  <2>4. CASE rest # <<>>
    <3>1. e \in Left(s)' /\ IsCurrent(s, e)'
      BY <1>4, <1>6, <2>4 DEF Left, IsCurrent
    <3> QED
      BY <1>6, <2>1, <2>2, <2>4, <3>1 DEF WrittenInv, Recording
  <2> QED
    BY <2>3, <2>4
<1> QED
  BY <1>13, <1>14, <1>15, <1>16 DEF SessionInv

-----------------------------------------------------------------------------
(* The steps. *)

LEMMA RollbackEnds ==
    ASSUME NEW s \in Sessions,
           \/ EventExists(s) \/ AggregateExists(s) \/ DeadlockVictim(s) \/ Fail(s)
    PROVE  Rollback(s)
BY DEF EventExists, AggregateExists, DeadlockVictim, Fail

LEMMA OwnStep ==
    ASSUME TypeOK, NEW s \in Sessions, SessionInv(s),
           \/ Step(s) \/ Fail(s)
           \/ \E e \in Events : Request(s, e)
           \/ s = Worker /\ (WorkerRound \/ WorkerRestart)
    PROVE  SessionInv(s)'
<1>1. CASE Rollback(s)
  BY <1>1, EndSessionInv DEF Rollback
<1>2. CASE CommitBatch(s)
  BY <1>2, EndSessionInv DEF CommitBatch
<1> QED
  BY <1>1, <1>2, RollbackEnds, IngestSession, BeginSession, NextEventSession,
     InvestigationSession, DetectionSession, FlushSession DEF Step, Ingest, Materialize

(* A step of another session takes nothing away from what a session has:   *)
(* its own variables, its locks, the rows that are committed.              *)
SameSession(x) ==
    /\ pc'[x] = pc[x] /\ job'[x] = job[x] /\ batch'[x] = batch[x]
    /\ done'[x] = done[x] /\ dirty'[x] = dirty[x] /\ todo'[x] = todo[x]
    /\ known'[x] = known[x] /\ mine'[x] = mine[x]
TablesGrow ==
    /\ stored \subseteq stored'
    /\ \A r \in Aggregates : exists[r] => exists'[r]
LocksOf(s) ==
    \/ owner' = owner
    \/ owner' = Released(s)
    \/ CanFlush(s) /\ owner' = Flushed(s)

LEMMA OthersSame ==
    ASSUME TypeOK, NEW s \in Sessions, NEW x \in Sessions, x # s,
           \/ Step(s) \/ Fail(s)
           \/ \E e \in Events : Request(s, e)
           \/ s = Worker /\ (WorkerRound \/ WorkerRestart)
    PROVE  SameSession(x) /\ TablesGrow /\ LocksOf(s)
<1>1. CASE Rollback(s)
  <2>1. PICK to : EndSession(s, to)
    BY <1>1 DEF Rollback
  <2>2. SameSession(x) /\ LocksOf(s)
    BY <2>1, EndFacts DEF SameSession, LocksOf
  <2>3. TablesGrow
    BY <1>1 DEF Rollback, tableVars, TablesGrow
  <2> QED
    BY <2>2, <2>3
<1>2. CASE CommitBatch(s)
  <2>1. SameSession(x) /\ LocksOf(s)
    BY <1>2, EndFacts DEF CommitBatch, SameSession, LocksOf
  <2>2. TablesGrow
    BY <1>2 DEF CommitBatch, TablesGrow
  <2> QED
    BY <2>1, <2>2
<1>3. CASE FindEvent(s) \/ InsertEvent(s) \/ CommitEvent(s)
  BY <1>3 DEF FindEvent, InsertEvent, CommitEvent, TypeOK, tableVars,
              SameSession, TablesGrow, LocksOf
<1>4. CASE \/ ScanPending(s)
           \/ \E e \in Events : Request(s, e)
           \/ s = Worker /\ (WorkerRound \/ WorkerRestart)
  <2>1. TablesGrow /\ LocksOf(s)
    BY <1>4 DEF ScanPending, Request, WorkerRound, WorkerRestart, tableVars,
                TablesGrow, LocksOf
  <2>2. SameSession(x)
    BY <1>4 DEF ScanPending, Request, WorkerRound, WorkerRestart, TypeOK, SameSession
  <2> QED
    BY <2>1, <2>2
<1>5. CASE NextEvent(s)
  <2>1. TablesGrow /\ LocksOf(s) /\ UNCHANGED <<job, batch, known, mine>>
    BY <1>5 DEF NextEvent, tableVars, TablesGrow, LocksOf
  <2>2. SameSession(x)
    BY <1>5, <2>1 DEF NextEvent, TypeOK, SameSession
  <2> QED
    BY <2>1, <2>2
<1>6. CASE FindInvestigation(s) \/ MissInvestigation(s) \/ InsertInvestigation(s)
  <2>1. TablesGrow /\ LocksOf(s)
    BY <1>6 DEF FindInvestigation, MissInvestigation, InsertInvestigation, tableVars,
                TablesGrow, LocksOf
  <2>2. SameSession(x)
    BY <1>6 DEF FindInvestigation, MissInvestigation, InsertInvestigation, TypeOK,
                SameSession
  <2> QED
    BY <2>1, <2>2
<1>7. CASE FindDetection(s) \/ MissDetection(s) \/ FlushDetection(s)
  <2>1. TablesGrow /\ LocksOf(s)
    BY <1>7 DEF FindDetection, MissDetection, FlushDetection, tableVars, TablesGrow,
                LocksOf
  <2>2. SameSession(x)
    BY <1>7 DEF FindDetection, MissDetection, FlushDetection, TypeOK, SameSession
  <2> QED
    BY <2>1, <2>2
<1>8. CASE Step(s) \/ Fail(s)
  BY <1>1, <1>2, <1>3, <1>4, <1>5, <1>6, <1>7, <1>8, RollbackEnds
     DEF Step, Ingest, Materialize
<1>9. CASE \E e \in Events : Request(s, e)
  BY <1>4, <1>9
<1>10. CASE s = Worker /\ (WorkerRound \/ WorkerRestart)
  BY <1>4, <1>10
<1> QED
  BY <1>8, <1>9, <1>10

LEMMA OthersStep ==
    ASSUME TypeOK, NEW s \in Sessions, NEW x \in Sessions, x # s, SessionInv(x),
           \/ Step(s) \/ Fail(s)
           \/ \E e \in Events : Request(s, e)
           \/ s = Worker /\ (WorkerRound \/ WorkerRestart)
    PROVE  SessionInv(x)'
<1>1. SameSession(x) /\ TablesGrow /\ LocksOf(s)
  BY OthersSame
<1>2. \A r \in Rows : owner'[r] = x <=> owner[r] = x
  BY <1>1, OwnerFrame DEF LocksOf
<1> QED
  BY <1>1, <1>2, FrameKeeps DEF SameSession, TablesGrow

LEMMA SessionsStep ==
    ASSUME TypeOK, \A s \in Sessions : SessionInv(s), [Next]_vars
    PROVE  \A s \in Sessions : SessionInv(s)'
<1>1. CASE UNCHANGED vars
  <2>1. ASSUME NEW x \in Sessions PROVE SessionInv(x)'
    BY <1>1, <2>1, FrameKeeps DEF vars
  <2> QED
    BY <2>1
<1>2. CASE Next
  <2>1. PICK s \in Sessions :
            \/ Step(s) \/ Fail(s)
            \/ \E e \in Events : Request(s, e)
            \/ s = Worker /\ (WorkerRound \/ WorkerRestart)
    BY <1>2 DEF Next
  <2> QED
    BY <2>1, OwnStep, OthersStep
<1> QED
  BY <1>1, <1>2

(* Only the commit of a batch changes more than the events. *)
LEMMA CommitsAlone ==
    ASSUME [Next]_vars, ~\E s \in Sessions : CommitBatch(s)
    PROVE  UNCHANGED <<processed, exists, value, acked>> /\ stored \subseteq stored'
<1> USE DEF tableVars
<1>1. ASSUME NEW s \in Sessions, Rollback(s)
      PROVE  UNCHANGED <<tableVars, acked>>
  BY <1>1 DEF Rollback
<1>2. ASSUME NEW s \in Sessions, Step(s) \/ Fail(s)
      PROVE  UNCHANGED <<processed, exists, value, acked>> /\ stored \subseteq stored'
  BY <1>1, <1>2, RollbackEnds
     DEF Step, Ingest, Materialize, FindEvent, InsertEvent, CommitEvent, ScanPending,
         NextEvent, FindInvestigation, MissInvestigation, InsertInvestigation,
         FindDetection, MissDetection, FlushDetection
<1> QED
  BY <1>2 DEF Next, Request, WorkerRound, WorkerRestart, vars

LEMMA CommitKeeps ==
    ASSUME IngestInv, NEW s \in Sessions, CommitBatch(s)
    PROVE  AcknowledgedIsStored' /\ ProcessedIsRecorded' /\ RecordedIsProcessed'
<1> USE DEF IngestInv, SessionInv
<1>1. /\ pc[s] = "event" /\ stored' = stored
      /\ processed' = processed \cup done[s]
      /\ acked' = acked \cup Answered(s)
      /\ \A r \in Aggregates : exists'[r] = Has(s, r)
      /\ \A r \in Aggregates : value'[r] = IF Written(s, r) THEN mine[s][r] ELSE value[r]
  BY DEF CommitBatch, Marked, Has, Written
<1>2. AcknowledgedIsStored'
  BY <1>1 DEF AcknowledgedIsStored, Answered, JobInv
<1>3. ProcessedIsRecorded'
  <2>1. ASSUME NEW e \in processed', NEW d \in Range(Emits[e])
        PROVE  exists'[d] /\ exists'[InvestigationOf[d]]
    <3>1. e \in Events
      BY <1>1 DEF TypeOK
    <3>2. d \in Aggregates /\ InvestigationOf[d] \in Aggregates
      BY <3>1, EmitRange
    <3>3. Has(s, d) /\ Has(s, InvestigationOf[d])
      <4>1. CASE e \in done[s]
        BY <4>1 DEF DoneInv, HasAllBut
      <4>2. CASE e \in processed
        BY <4>2 DEF ProcessedIsRecorded, Has
      <4> QED
        BY <1>1, <4>1, <4>2
    <3> QED
      BY <1>1, <3>2, <3>3
  <2> QED
    BY <2>1 DEF ProcessedIsRecorded
<1>4. RecordedIsProcessed'
  <2>1. ASSUME NEW d \in Detections, exists'[d]
        PROVE  /\ \E e \in processed' \cap stored' : d \in Range(Emits[e])
               /\ value'[d] > 0
    <3>1. CASE Written(s, d)
      BY <1>1, <3>1 DEF WrittenInv, CurrentInv, Recording
    <3>2. CASE ~Written(s, d)
      BY <1>1, <2>1, <3>2 DEF RecordedIsProcessed, Has
    <3> QED
      BY <3>1, <3>2
  <2> QED
    BY <2>1 DEF RecordedIsProcessed
<1> QED
  BY <1>2, <1>3, <1>4

-----------------------------------------------------------------------------
(* The inductive invariant holds in every state: what each session has     *)
(* written so far, for which events, and what is committed, agree          *)
(* (services.py:483-590, main.py:103-112).                                  *)
THEOREM InductiveIngest == Spec => []IngestInv
<1>1. IngestInv /\ [Next]_vars => IngestInv'
  <2> SUFFICES ASSUME IngestInv, [Next]_vars PROVE IngestInv'
    OBVIOUS
  <2>1. TypeOK'
    BY TypesStep DEF IngestInv, SessionInv
  <2>2. \A s \in Sessions : SessionInv(s)'
    BY SessionsStep DEF IngestInv
  <2>3. AcknowledgedIsStored' /\ ProcessedIsRecorded' /\ RecordedIsProcessed'
    <3>1. CASE \E s \in Sessions : CommitBatch(s)
      BY <3>1, CommitKeeps
    <3>2. CASE ~\E s \in Sessions : CommitBatch(s)
      BY <3>2, CommitsAlone
         DEF IngestInv, AcknowledgedIsStored, ProcessedIsRecorded, RecordedIsProcessed
    <3> QED
      BY <3>1, <3>2
  <2> QED
    BY <2>1, <2>2, <2>3 DEF IngestInv
<1> QED
  BY InitInv, <1>1, PTL DEF Spec

(* Every variable stays in its type, in any interleaving of the sessions   *)
(* (the columns of models.py).                                             *)
THEOREM IngestTypeCorrect == Spec => []TypeOK
<1>1. IngestInv => TypeOK
  BY DEF IngestInv
<1> QED
  BY <1>1, InductiveIngest, PTL

(* An event that was answered "stored" is stored (main.py:103-112).        *)
THEOREM StoredWhenAnswered == Spec => []AcknowledgedIsStored
<1>1. IngestInv => AcknowledgedIsStored
  BY DEF IngestInv
<1> QED
  BY <1>1, InductiveIngest, PTL

(* No event is marked before its detections are committed, in whatever     *)
(* transaction that was (services.py:573-590).                             *)
THEOREM MarkedWhenRecorded == Spec => []ProcessedIsRecorded
<1>1. IngestInv => ProcessedIsRecorded
  BY DEF IngestInv
<1> QED
  BY <1>1, InductiveIngest, PTL

(* No detection is committed without an event that is stored and marked    *)
(* (services.py:573-590).                                                  *)
THEOREM RecordedWhenMarked == Spec => []RecordedIsProcessed
<1>1. IngestInv => RecordedIsProcessed
  BY DEF IngestInv
<1> QED
  BY <1>1, InductiveIngest, PTL

-----------------------------------------------------------------------------
(* Counts. *)

(* What the session takes the count of a row for. *)
Count(s, r) == IF Written(s, r) THEN mine[s][r] ELSE value[r]

(* It has recorded the detection for the event it is at. *)
Recorded(s, e, d) ==
    /\ pc[s] \in Recording
    /\ e \in Left(s) /\ IsCurrent(s, e)
    /\ d \in Range(Emits[e])
    /\ d \notin Range(todo[s]) \/ (pc[s] = "flush" /\ d = Head(todo[s]))

(* The events whose occurrence is in the count of a detection: those that  *)
(* are marked, or that the session has been through, and perhaps the one   *)
(* it is at.                                                               *)
Counted(s, d) ==
    {e \in Events : \/ e \in processed \cup done[s] /\ d \in Range(Emits[e])
                    \/ Recorded(s, e, d)}

(* The detections of an investigation, as the session will leave them.     *)
OfSource(s, i) == {d \in Detections : Has(s, d) /\ InvestigationOf[d] = i}

(* What a session has written it has loaded, and what it is about to       *)
(* insert it has not.  It records each detection of an event once.         *)
KnownInv(s) ==
    /\ \A r \in Aggregates : Written(s, r) => r \in known[s]
    /\ pc[s] \in {"detection", "insertDetection", "flush"} =>
            Investigation(s) \in known[s]
    /\ pc[s] = "insertInvestigation" => Investigation(s) \notin known[s]
    /\ pc[s] = "insertDetection" => Head(todo[s]) \notin known[s]
    /\ \A i, j \in 1..Len(todo[s]) : todo[s][i] = todo[s][j] => i = j
    /\ IsFiniteSet(done[s])

(* A session that materializes alone: its events are unmarked, what it has *)
(* loaded is up to date, and its counts are right.                         *)
SoloInv(s) ==
    /\ batch[s] \cap processed = {}
    /\ \A r \in known[s] : ~Written(s, r) => mine[s][r] = value[r]
    /\ \A d \in Detections : Count(s, d) = Cardinality(Counted(s, d))
    /\ \A i \in Sources : Count(s, i) = Cardinality(OfSource(s, i))

CountsInv ==
    /\ IsFiniteSet(processed)
    /\ \A r \in Aggregates : ~exists[r] => value[r] = 0
    /\ \A s \in Sessions : KnownInv(s)
    /\ ~raced => \A s \in Sessions : Materializing(s) =>
            /\ SoloInv(s)
            /\ \A x \in Sessions : Materializing(x) => x = s
    /\ CountsExact

(* Where a session is in its event. *)
LEMMA AtEvent ==
    ASSUME TypeOK, NEW s \in Sessions, SessionInv(s), pc[s] \in Recording
    PROVE  \E e \in Events :
             /\ e \in Left(s) /\ IsCurrent(s, e)
             /\ e \in batch[s] /\ e \notin done[s]
             /\ Range(todo[s]) \subseteq Range(Emits[e])
             /\ \A f : f \in Left(s) /\ IsCurrent(s, f) => f = e
<1>1. PICK e \in Left(s) : IsCurrent(s, e) /\ Range(todo[s]) \subseteq Range(Emits[e])
  BY DEF SessionInv, CurrentInv
<1>2. e \in Events /\ e \in batch[s]
  BY <1>1, OneCurrent
<1>3. \A f : IsCurrent(s, f) => f = e
  BY <1>1, OneCurrent
<1> QED
  BY <1>1, <1>2, <1>3 DEF Left

(* Rows that are known are those the session has, and it sees them.        *)
LEMMA SeesHas ==
    ASSUME NEW s \in Sessions, SessionInv(s), KnownInv(s), NEW r \in Aggregates
    PROVE  Sees(s, r) <=> Has(s, r)
BY DEF SessionInv, DoneInv, KnownInv, Sees, Has

(* Sequences without repetitions lose their head once. *)
LEMMA TailDistinct ==
    ASSUME NEW S, NEW t \in Seq(S), t # <<>>,
           \A i, j \in 1..Len(t) : t[i] = t[j] => i = j
    PROVE  /\ \A i, j \in 1..Len(Tail(t)) : Tail(t)[i] = Tail(t)[j] => i = j
           /\ Head(t) \notin Range(Tail(t))
<1>1. /\ Len(t) \in Nat \ {0} /\ Head(t) = t[1] /\ 1 \in 1..Len(t)
      /\ Tail(t) \in Seq(S) /\ Len(Tail(t)) = Len(t) - 1
  OBVIOUS
<1>2. \A i \in 1..Len(Tail(t)) : i + 1 \in 1..Len(t) /\ i + 1 # 1 /\ Tail(t)[i] = t[i + 1]
  BY <1>1
<1>3. ASSUME NEW i \in 1..Len(Tail(t)), NEW j \in 1..Len(Tail(t)), Tail(t)[i] = Tail(t)[j]
      PROVE  i = j
  <2>1. i + 1 = j + 1
    BY <1>2, <1>3
  <2> QED
    BY <2>1
<1>4. DOMAIN Tail(t) = 1..Len(Tail(t))
  BY <1>1
<1>5. Head(t) \notin Range(Tail(t))
  <2> SUFFICES ASSUME NEW i \in 1..Len(Tail(t)), Tail(t)[i] = Head(t) PROVE FALSE
    BY <1>4 DEF Range
  <2>1. t[i + 1] = t[1]
    BY <1>1, <1>2
  <2> QED
    BY <1>1, <1>2, <2>1
<1> QED
  BY <1>3, <1>5

-----------------------------------------------------------------------------
(* What a session has loaded. *)

LEMMA KnownFrame ==
    ASSUME TypeOK, NEW x \in Sessions, KnownInv(x),
           \A r \in Rows : owner'[r] = x <=> owner[r] = x,
           pc'[x] = pc[x], done'[x] = done[x], dirty'[x] = dirty[x],
           todo'[x] = todo[x], known'[x] = known[x]
    PROVE  KnownInv(x)'
<1>1. \A r \in Aggregates : Written(x, r)' <=> Written(x, r)
  BY DEF Written
<1>2. Investigation(x)' = Investigation(x)
  BY DEF Investigation
<1> QED
  BY <1>1, <1>2 DEF KnownInv

(* A session that materializes nothing has loaded nothing. *)
LEMMA KnownFresh ==
    ASSUME NEW s \in Sessions, FreshInv(s)', pc'[s] \notin {"event"} \cup Recording,
           \A i, j \in 1..Len(todo'[s]) : todo'[s][i] = todo'[s][j] => i = j
    PROVE  KnownInv(s)'
<1>1. /\ done'[s] = {} /\ IsFiniteSet(done'[s])
      /\ \A r \in Aggregates : ~Written(s, r)'
  BY FS_EmptySet DEF FreshInv, Written
<1> QED
  BY <1>1 DEF KnownInv, Recording

LEMMA KnownEnds ==
    ASSUME TypeOK, NEW s \in Sessions, NEW to \in {"idle", "down"}, EndSession(s, to)
    PROVE  KnownInv(s)'
<1>1. SessionInv(s)' /\ pc'[s] = to
  BY EndSessionInv, EndFacts
<1>2. todo'[s] = <<>>
  BY DEF EndSession, TypeOK
<1>3. \A i, j \in 1..Len(todo'[s]) : todo'[s][i] = todo'[s][j] => i = j
  BY <1>2
<1> QED
  BY <1>1, <1>3, KnownFresh DEF SessionInv, Recording

LEMMA KnownBegins ==
    ASSUME TypeOK, NEW s \in Sessions, SessionInv(s), KnownInv(s),
           \/ FindEvent(s) \/ InsertEvent(s) \/ CommitEvent(s)
           \/ \E e \in Events : Request(s, e)
           \/ s = Worker /\ (WorkerRound \/ WorkerRestart)
    PROVE  KnownInv(s)'
<1>1. SessionInv(s)'
  BY IngestSession, BeginSession
<1>2. todo' = todo /\ pc'[s] \notin {"event"} \cup Recording
  BY DEF FindEvent, InsertEvent, CommitEvent, Request, WorkerRound, WorkerRestart, TypeOK,
         Recording
<1> QED
  BY <1>1, <1>2, KnownFresh DEF SessionInv, KnownInv

LEMMA KnownScan ==
    ASSUME TypeOK, NEW s \in Sessions, SessionInv(s), KnownInv(s), ScanPending(s)
    PROVE  KnownInv(s)'
<1>1. UNCHANGED <<owner, done, dirty, todo, known>> /\ pc'[s] = "event"
  BY DEF ScanPending, TypeOK
<1>2. \A r \in Aggregates : Written(s, r)' <=> Written(s, r)
  BY <1>1 DEF Written
<1> QED
  BY <1>1, <1>2 DEF KnownInv

LEMMA KnownNext ==
    ASSUME TypeOK, NEW s \in Sessions, SessionInv(s), KnownInv(s), NextEvent(s)
    PROVE  KnownInv(s)'
<1>1. PICK e \in Left(s) :
        /\ IsCurrent(s, e)
        /\ IF Emits[e] = <<>>
           THEN /\ done' = [done EXCEPT ![s] = @ \cup {e}]
                /\ dirty' = [dirty EXCEPT ![s] = @ \cup {e}]
                /\ UNCHANGED <<pc, todo>>
           ELSE /\ todo' = [todo EXCEPT ![s] = Emits[e]]
                /\ pc' = [pc EXCEPT ![s] = "investigation"]
                /\ UNCHANGED <<done, dirty>>
  BY DEF NextEvent
<1>2. e \in Events /\ pc[s] = "event" /\ UNCHANGED <<owner, known>>
  BY <1>1, OneCurrent DEF NextEvent
<1>3. dirty'[s] \subseteq dirty[s] \cup {e}
  BY <1>1 DEF TypeOK
<1>4. \A r \in Aggregates : Written(s, r)' => r \in known'[s]
  BY <1>2, <1>3 DEF Written, KnownInv
<1>5. IsFiniteSet(done'[s])
  <2>1. done'[s] = done[s] \/ done'[s] = done[s] \cup {e}
    BY <1>1 DEF TypeOK
  <2> QED
    BY <2>1, FS_AddElement DEF KnownInv
<1>6. pc'[s] \in {"event", "investigation"}
  BY <1>1, <1>2 DEF TypeOK
<1>7. \A i, j \in 1..Len(todo'[s]) : todo'[s][i] = todo'[s][j] => i = j
  <2>1. CASE todo' = todo
    BY <2>1 DEF KnownInv
  <2>2. CASE todo' = [todo EXCEPT ![s] = Emits[e]]
    <3>1. todo'[s] = Emits[e]
      BY <2>2 DEF TypeOK
    <3>2. Emits[e] \in Seq(Detections)
      BY <1>2, EmitsAssumption
    <3>3. DOMAIN Emits[e] = 1..Len(Emits[e])
      BY <3>2
    <3> QED
      BY <1>2, <3>1, <3>3, EmitsAssumption
  <2> QED
    BY <1>1, <2>1, <2>2
<1> QED
  BY <1>4, <1>5, <1>6, <1>7 DEF KnownInv

LEMMA KnownGoesOn ==
    ASSUME TypeOK, NEW s \in Sessions, SessionInv(s), KnownInv(s),
           \/ FindInvestigation(s) \/ MissInvestigation(s) \/ InsertInvestigation(s)
           \/ FindDetection(s) \/ MissDetection(s)
    PROVE  KnownInv(s)'
<1>1. pc[s] \in Recording
  BY DEF FindInvestigation, MissInvestigation, InsertInvestigation, FindDetection,
         MissDetection, Recording
<1>2. PICK i \in Sources, d \in Detections : i = Investigation(s) /\ d = Head(todo[s])
  BY <1>1, RecordingFacts DEF SessionInv
<1>3. UNCHANGED <<done, todo>> /\ Investigation(s)' = Investigation(s)
  BY DEF FindInvestigation, MissInvestigation, InsertInvestigation, FindDetection,
         MissDetection, Investigation
<1>4. CASE FindInvestigation(s)
  <2>1. /\ owner' = owner /\ pc'[s] = "detection"
        /\ known'[s] = known[s] \cup {i}
        /\ \E changed \in SUBSET {i} : dirty' = [dirty EXCEPT ![s] = @ \cup changed]
    BY <1>2, <1>4 DEF FindInvestigation, TypeOK
  <2>2. dirty'[s] \subseteq dirty[s] \cup {i}
    BY <2>1 DEF TypeOK
  <2>3. \A r \in Aggregates : Written(s, r)' => r \in known'[s]
    BY <2>1, <2>2 DEF Written, KnownInv
  <2> QED
    BY <1>2, <1>3, <2>1, <2>3 DEF KnownInv
<1>5. CASE MissInvestigation(s)
  <2>1. UNCHANGED <<owner, dirty, known>> /\ pc'[s] = "insertInvestigation"
    BY <1>5 DEF MissInvestigation, TypeOK
  <2>2. \A r \in Aggregates : Written(s, r)' => r \in known'[s]
    BY <2>1 DEF Written, KnownInv
  <2>3. i \notin known[s]
    BY <1>2, <1>5 DEF MissInvestigation, Sees
  <2> QED
    BY <1>2, <1>3, <2>1, <2>2, <2>3 DEF KnownInv
<1>6. CASE InsertInvestigation(s)
  <2>1. /\ owner' = Flushed(s) /\ dirty'[s] = {} /\ pc'[s] = "detection"
        /\ known'[s] = known[s] \cup {i}
        /\ Needs(s) = dirty[s] \cup {i}
    BY <1>2, <1>6 DEF InsertInvestigation, Needs, Investigation, TypeOK
  <2>2. \A r \in Aggregates : Written(s, r)' => r \in known'[s]
    BY <2>1 DEF Written, Flushed, KnownInv, TypeOK
  <2> QED
    BY <1>2, <1>3, <2>1, <2>2 DEF KnownInv
<1>7. CASE FindDetection(s)
  <2>1. /\ owner' = owner /\ dirty'[s] = dirty[s] \cup {d} /\ pc'[s] = "flush"
        /\ known'[s] = known[s] \cup {d} /\ pc[s] = "detection"
    BY <1>2, <1>7 DEF FindDetection, TypeOK
  <2>2. \A r \in Aggregates : Written(s, r)' => r \in known'[s]
    BY <2>1 DEF Written, KnownInv
  <2> QED
    BY <1>3, <2>1, <2>2 DEF KnownInv
<1>8. CASE MissDetection(s)
  <2>1. /\ UNCHANGED <<owner, dirty, known>> /\ pc'[s] = "insertDetection"
        /\ pc[s] = "detection"
    BY <1>8 DEF MissDetection, TypeOK
  <2>2. \A r \in Aggregates : Written(s, r)' => r \in known'[s]
    BY <2>1 DEF Written, KnownInv
  <2>3. d \notin known[s]
    BY <1>2, <1>8 DEF MissDetection, Sees
  <2> QED
    BY <1>2, <1>3, <2>1, <2>2, <2>3 DEF KnownInv
<1> QED
  BY <1>4, <1>5, <1>6, <1>7, <1>8

(* What flushing a detection does to the session. *)
LEMMA FlushFacts ==
    ASSUME TypeOK, NEW s \in Sessions, SessionInv(s), FlushDetection(s),
           NEW d, NEW i, d = Head(todo[s]), i = Investigation(s)
    PROVE  /\ d \in Detections /\ i \in Sources /\ InvestigationOf[d] = i
           /\ todo[s] \in Seq(Detections) /\ todo[s] # <<>>
           /\ UNCHANGED <<stored, processed, exists, value, job, batch, raced>>
           /\ \A r \in Rows : owner'[r] = s <=> Written(s, r) \/ r = d
           /\ known'[s] = known[s] \cup {d}
           /\ todo'[s] = Tail(todo[s])
           /\ pc'[s] = IF Tail(todo[s]) = <<>> THEN "event" ELSE "investigation"
           /\ done'[s] = done[s] \cup
                IF Tail(todo[s]) = <<>> THEN {e \in Left(s) : IsCurrent(s, e)} ELSE {}
           /\ dirty'[s] \subseteq {i} \cup Events
<1>1. pc[s] \in {"flush", "insertDetection"} /\ pc[s] \in Recording
  BY DEF FlushDetection, Recording
<1>2. /\ d \in Detections /\ i \in Sources /\ InvestigationOf[d] = i
      /\ todo[s] \in Seq(Detections) /\ todo[s] # <<>>
  BY <1>1, RecordingFacts DEF SessionInv, Investigation
<1>3. /\ UNCHANGED <<stored, processed, exists, value, job, batch, raced>>
      /\ owner' = Flushed(s)
      /\ known'[s] = known[s] \cup {d}
      /\ todo'[s] = Tail(todo[s])
      /\ pc'[s] = IF Tail(todo[s]) = <<>> THEN "event" ELSE "investigation"
  BY DEF FlushDetection, tableVars, TypeOK
<1>4. done'[s] = done[s] \cup
            IF Tail(todo[s]) = <<>> THEN {e \in Left(s) : IsCurrent(s, e)} ELSE {}
  <2> DEFINE event == IF Tail(todo[s]) = <<>> THEN {e \in Left(s) : IsCurrent(s, e)} ELSE {}
  <2>1. done' = [done EXCEPT ![s] = @ \cup event]
    BY DEF FlushDetection
  <2> HIDE DEF event
  <2>2. done'[s] = done[s] \cup event
    BY <2>1 DEF TypeOK
  <2> QED
    BY <2>2 DEF event
<1>5. dirty'[s] \subseteq {i} \cup Events
  <2>1. Left(s) \subseteq Events
    BY DEF Left, TypeOK
  <2> QED
    BY <1>2, <2>1 DEF FlushDetection, TypeOK
<1>6. \A r \in Rows : owner'[r] = s <=> Written(s, r) \/ r = d
  <2>1. /\ pc[s] = "flush" => Needs(s) = dirty[s] /\ d \in dirty[s]
        /\ pc[s] = "insertDetection" => Needs(s) = dirty[s] \cup {d}
    BY DEF Needs, SessionInv, DoneInv
  <2> QED
    BY <1>1, <1>3, <2>1 DEF Flushed, Written, TypeOK
<1> QED
  BY <1>2, <1>3, <1>4, <1>5, <1>6

LEMMA KnownFlush ==
    ASSUME TypeOK, NEW s \in Sessions, SessionInv(s), KnownInv(s), FlushDetection(s)
    PROVE  KnownInv(s)'
<1> DEFINE d == Head(todo[s])
           i == Investigation(s)
<1>1. /\ d \in Detections /\ i \in Sources
      /\ todo[s] \in Seq(Detections) /\ todo[s] # <<>>
      /\ \A r \in Rows : owner'[r] = s <=> Written(s, r) \/ r = d
      /\ known'[s] = known[s] \cup {d}
      /\ todo'[s] = Tail(todo[s])
      /\ pc'[s] \in {"event", "investigation"}
      /\ dirty'[s] \subseteq {i} \cup Events
  BY FlushFacts
<1>2. \E e : done'[s] = done[s] \/ done'[s] = done[s] \cup {e}
  <2>1. pc[s] \in Recording
    BY DEF FlushDetection, Recording
  <2>2. PICK e \in Events :
            /\ e \in Left(s) /\ IsCurrent(s, e)
            /\ \A f : f \in Left(s) /\ IsCurrent(s, f) => f = e
    BY <2>1, AtEvent
  <2>3. {f \in Left(s) : IsCurrent(s, f)} = {e}
    BY <2>2
  <2>4. done'[s] = done[s] \cup
            IF Tail(todo[s]) = <<>> THEN {f \in Left(s) : IsCurrent(s, f)} ELSE {}
    BY FlushFacts
  <2> QED
    BY <2>3, <2>4
<1>3. i \in known[s]
  BY DEF KnownInv, FlushDetection
<1>4. \A r \in Aggregates : Written(s, r)' => r \in known'[s]
  BY <1>1, <1>3 DEF Written, KnownInv
<1>5. IsFiniteSet(done'[s])
  BY <1>2, FS_AddElement DEF KnownInv
<1>6. \A m, n \in 1..Len(todo'[s]) : todo'[s][m] = todo'[s][n] => m = n
  <2>1. \A m, n \in 1..Len(todo[s]) : todo[s][m] = todo[s][n] => m = n
    BY DEF KnownInv
  <2>2. \A m, n \in 1..Len(Tail(todo[s])) : Tail(todo[s])[m] = Tail(todo[s])[n] => m = n
    BY <1>1, <2>1, TailDistinct
  <2> QED
    BY <1>1, <2>2
<1> QED
  BY <1>1, <1>4, <1>5, <1>6 DEF KnownInv

LEMMA KnownOwn ==
    ASSUME TypeOK, NEW s \in Sessions, SessionInv(s), KnownInv(s),
           \/ Step(s) \/ Fail(s)
           \/ \E e \in Events : Request(s, e)
           \/ s = Worker /\ (WorkerRound \/ WorkerRestart)
    PROVE  KnownInv(s)'
<1>1. CASE Rollback(s)
  BY <1>1, KnownEnds DEF Rollback
<1>2. CASE CommitBatch(s)
  BY <1>2, KnownEnds DEF CommitBatch
<1> QED
  BY <1>1, <1>2, RollbackEnds, KnownBegins, KnownScan, KnownNext, KnownGoesOn, KnownFlush
     DEF Step, Ingest, Materialize

-----------------------------------------------------------------------------
(* Counting alone. *)

(* Nothing another session does without materializing matters. *)
LEMMA SoloFrame ==
    ASSUME TypeOK, NEW x \in Sessions, SessionInv(x), SoloInv(x),
           UNCHANGED <<processed, exists, value>>,
           \A r \in Rows : owner'[r] = x <=> owner[r] = x,
           pc'[x] = pc[x], batch'[x] = batch[x], done'[x] = done[x],
           dirty'[x] = dirty[x], todo'[x] = todo[x],
           known'[x] = known[x], mine'[x] = mine[x]
    PROVE  SoloInv(x)'
<1>1. \A r \in Aggregates : /\ Written(x, r)' <=> Written(x, r)
                            /\ Has(x, r)' <=> Has(x, r)
                            /\ Count(x, r)' = Count(x, r)
  BY DEF Written, Has, Count
<1>2. known[x] \subseteq Aggregates
  BY DEF TypeOK
<1>3. \A e, d : Recorded(x, e, d)' <=> Recorded(x, e, d)
  BY DEF Recorded, Left, IsCurrent
<1>4. \A d : Counted(x, d)' = Counted(x, d)
  BY <1>3 DEF Counted
<1>5. \A i : OfSource(x, i)' = OfSource(x, i)
  BY <1>1 DEF OfSource
<1> QED
  BY <1>1, <1>2, <1>4, <1>5 DEF SoloInv

(* A step of its own that counts nothing. *)
LEMMA SoloStays ==
    ASSUME NEW s \in Sessions, SoloInv(s),
           UNCHANGED <<processed, value, batch>>,
           \A r \in known'[s] : ~Written(s, r)' => mine'[s][r] = value[r],
           \A r \in Aggregates : Count(s, r)' = Count(s, r),
           \A d \in Detections : Counted(s, d)' = Counted(s, d),
           \A d \in Detections : Has(s, d)' <=> Has(s, d)
    PROVE  SoloInv(s)'
<1>1. \A i : OfSource(s, i)' = OfSource(s, i)
  BY DEF OfSource
<1> QED
  BY <1>1 DEF SoloInv

(* Reading a row gives the count the session has of it. *)
LEMMA ReadsCount ==
    ASSUME NEW s \in Sessions, SoloInv(s), NEW r, NEW v \in Reads(s, r)
    PROVE  v = Count(s, r)
BY DEF SoloInv, Reads, Count

(* While the session stays with a detection it has not found yet, or only  *)
(* now has, what is counted is the same but for that.                      *)
LEMMA CountedStays ==
    ASSUME NEW s \in Sessions, UNCHANGED <<processed, batch, done, todo>>,
           pc[s] \in Recording, pc'[s] \in Recording
    PROVE  /\ pc[s] # "flush" /\ pc'[s] # "flush" =>
                \A d : Counted(s, d)' = Counted(s, d)
           /\ \A d : d # Head(todo[s]) => Counted(s, d)' = Counted(s, d)
<1>1. \A e : /\ e \in Left(s)' <=> e \in Left(s)
             /\ IsCurrent(s, e)' <=> IsCurrent(s, e)
  BY DEF Left, IsCurrent
<1>2. ASSUME pc[s] # "flush", pc'[s] # "flush"
      PROVE  \A d : Counted(s, d)' = Counted(s, d)
  <2>1. \A e, d : Recorded(s, e, d)' <=> Recorded(s, e, d)
    BY <1>1, <1>2 DEF Recorded
  <2> QED
    BY <2>1 DEF Counted
<1>3. ASSUME NEW d, d # Head(todo[s])
      PROVE  Counted(s, d)' = Counted(s, d)
  <2>1. \A e : Recorded(s, e, d)' <=> Recorded(s, e, d)
    BY <1>1, <1>3 DEF Recorded
  <2> QED
    BY <2>1 DEF Counted
<1> QED
  BY <1>2, <1>3

(* A session begins with the committed counts. *)
LEMMA SoloScan ==
    ASSUME TypeOK, NEW s \in Sessions, SessionInv(s), ScanPending(s),
           CountsExact, ~raced'
    PROVE  SoloInv(s)'
<1>1. /\ pc[s] = "scan" /\ pc'[s] = "event"
      /\ UNCHANGED <<processed, exists, value, owner, done, dirty, todo, known, mine>>
      /\ batch'[s] = FirstOf(stored \ processed, Limit(s))
  BY DEF ScanPending, TypeOK, tableVars
<1>2. /\ done[s] = {} /\ dirty[s] = {} /\ known[s] = {}
      /\ \A r \in Aggregates : ~Written(s, r)'
  BY <1>1 DEF SessionInv, FreshInv, Written, Recording
<1>3. ~raced
  BY DEF ScanPending
<1>4. batch'[s] \cap processed' = {}
  BY <1>1 DEF FirstOf
<1>5. ASSUME NEW d \in Detections
      PROVE  Count(s, d)' = Cardinality(Counted(s, d)')
  <2>1. Counted(s, d)' = {e \in processed : d \in Range(Emits[e])}
    BY <1>1, <1>2 DEF Counted, Recorded, Recording, TypeOK
  <2>2. Count(s, d)' = value[d]
    BY <1>1, <1>2 DEF Count
  <2> QED
    BY <1>3, <2>1, <2>2 DEF CountsExact
<1>6. ASSUME NEW i \in Sources
      PROVE  Count(s, i)' = Cardinality(OfSource(s, i)')
  <2>1. OfSource(s, i)' = {d \in Detections : exists[d] /\ InvestigationOf[d] = i}
    BY <1>1, <1>2 DEF OfSource, Has
  <2>2. Count(s, i)' = value[i]
    BY <1>1, <1>2 DEF Count
  <2> QED
    BY <1>3, <2>1, <2>2 DEF CountsExact
<1> QED
  BY <1>1, <1>2, <1>4, <1>5, <1>6 DEF SoloInv

(* An event without detections is in no count, and one with detections is  *)
(* not yet.                                                                *)
LEMMA SoloNext ==
    ASSUME TypeOK, NEW s \in Sessions, SessionInv(s), SoloInv(s), NextEvent(s)
    PROVE  SoloInv(s)'
<1>1. PICK e \in Left(s) :
        /\ IsCurrent(s, e)
        /\ IF Emits[e] = <<>>
           THEN /\ done' = [done EXCEPT ![s] = @ \cup {e}]
                /\ dirty' = [dirty EXCEPT ![s] = @ \cup {e}]
                /\ UNCHANGED <<pc, todo>>
           ELSE /\ todo' = [todo EXCEPT ![s] = Emits[e]]
                /\ pc' = [pc EXCEPT ![s] = "investigation"]
                /\ UNCHANGED <<done, dirty>>
  BY DEF NextEvent
<1>2. /\ e \in Events /\ pc[s] = "event"
      /\ UNCHANGED <<processed, exists, value, owner, batch, known, mine>>
  BY <1>1, OneCurrent DEF NextEvent, tableVars
<1>3. dirty[s] \subseteq dirty'[s] /\ dirty'[s] \subseteq dirty[s] \cup {e}
  BY <1>1 DEF TypeOK
<1>4. \A r \in Aggregates : /\ Written(s, r)' <=> Written(s, r)
                            /\ Has(s, r)' <=> Has(s, r)
                            /\ Count(s, r)' = Count(s, r)
  BY <1>2, <1>3 DEF Written, Has, Count
<1>5. known[s] \subseteq Aggregates
  BY DEF TypeOK
<1>6. \A f, d : ~Recorded(s, f, d)
  BY <1>2 DEF Recorded, Recording
<1>7. ASSUME NEW d \in Detections
      PROVE  Counted(s, d)' = Counted(s, d)
  <2>1. CASE Emits[e] = <<>>
    <3>1. done'[s] = done[s] \cup {e} /\ pc'[s] = "event"
      BY <1>1, <1>2, <2>1 DEF TypeOK
    <3>2. \A f : ~Recorded(s, f, d)'
      BY <3>1 DEF Recorded, Recording
    <3>3. d \notin Range(Emits[e])
      BY <2>1, RangeEmpty
    <3> QED
      BY <1>2, <1>6, <3>1, <3>2, <3>3 DEF Counted
  <2>2. CASE Emits[e] # <<>>
    <3>1. /\ done' = done /\ pc'[s] = "investigation" /\ todo'[s] = Emits[e]
      BY <1>1, <2>2 DEF TypeOK
    <3>2. \A f : ~Recorded(s, f, d)'
      <4> SUFFICES ASSUME NEW f, Recorded(s, f, d)' PROVE FALSE
        OBVIOUS
      <4>1. f \in Left(s) /\ IsCurrent(s, f) /\ d \in Range(Emits[f])
            /\ d \notin Range(Emits[e])
        BY <1>2, <3>1 DEF Recorded, Left, IsCurrent
      <4>2. f = e
        BY <1>1, <4>1, OneCurrent
      <4> QED
        BY <4>1, <4>2
    <3> QED
      BY <1>2, <1>6, <3>1, <3>2 DEF Counted
  <2> QED
    BY <2>1, <2>2
<1>8. \A r \in known'[s] : ~Written(s, r)' => mine'[s][r] = value[r]
  BY <1>2, <1>4, <1>5 DEF SoloInv
<1> QED
  BY <1>2, <1>4, <1>7, <1>8, SoloStays

LEMMA SoloInvestigation ==
    ASSUME TypeOK, NEW s \in Sessions, SessionInv(s), KnownInv(s), SoloInv(s),
           \A r \in Aggregates : ~exists[r] => value[r] = 0,
           FindInvestigation(s) \/ MissInvestigation(s) \/ InsertInvestigation(s)
    PROVE  SoloInv(s)'
<1>1. pc[s] \in Recording /\ pc[s] # "flush" /\ pc'[s] \in Recording /\ pc'[s] # "flush"
  BY DEF FindInvestigation, MissInvestigation, InsertInvestigation, Recording, TypeOK
<1>2. PICK i \in Sources : i = Investigation(s) /\ i \in Aggregates /\ i \notin Detections
  BY <1>1, RecordingFacts DEF SessionInv
<1>3. UNCHANGED <<processed, exists, value, batch, done, todo>>
  BY DEF FindInvestigation, MissInvestigation, InsertInvestigation, tableVars
<1>4. \A d : Counted(s, d)' = Counted(s, d)
  BY <1>1, <1>3, CountedStays
<1>5. known[s] \subseteq Aggregates /\ \A r \in known[s] : ~Written(s, r) => mine[s][r] = value[r]
  BY DEF SoloInv, TypeOK
<1>6. CASE FindInvestigation(s)
  <2>1. PICK v \in Reads(s, i) : mine' = [mine EXCEPT ![s][i] = v]
    BY <1>2, <1>6 DEF FindInvestigation
  <2>2. v = Count(s, i)
    BY <2>1, ReadsCount
  <2>3. /\ mine'[s][i] = v
        /\ \A r \in Aggregates : r # i => mine'[s][r] = mine[s][r]
    BY <1>2, <2>1 DEF TypeOK
  <2>4. /\ owner' = owner /\ known'[s] = known[s] \cup {i}
        /\ \E changed \in SUBSET {i} : dirty' = [dirty EXCEPT ![s] = @ \cup changed]
    BY <1>2, <1>6 DEF FindInvestigation, TypeOK
  <2>5. dirty[s] \subseteq dirty'[s] /\ dirty'[s] \subseteq dirty[s] \cup {i}
    BY <2>4 DEF TypeOK
  <2>6. \A r \in Aggregates : /\ Written(s, r) => Written(s, r)'
                              /\ r # i => (Written(s, r)' <=> Written(s, r))
    BY <2>4, <2>5 DEF Written
  <2>7. \A r \in Aggregates : Count(s, r)' = Count(s, r)
    BY <1>2, <1>3, <2>2, <2>3, <2>6 DEF Count
  <2>8. \A r \in known'[s] : ~Written(s, r)' => mine'[s][r] = value[r]
    BY <1>2, <1>5, <2>2, <2>3, <2>4, <2>6 DEF Count
  <2>9. \A d \in Detections : Has(s, d)' <=> Has(s, d)
    BY <1>2, <1>3, <2>6 DEF Has
  <2> QED
    BY <1>3, <1>4, <2>7, <2>8, <2>9, SoloStays
<1>7. CASE MissInvestigation(s)
  <2>1. UNCHANGED <<owner, dirty, known, mine>>
    BY <1>7 DEF MissInvestigation
  <2>2. \A r \in Aggregates : /\ Written(s, r)' <=> Written(s, r)
                              /\ Has(s, r)' <=> Has(s, r)
                              /\ Count(s, r)' = Count(s, r)
    BY <1>3, <2>1 DEF Written, Has, Count
  <2>3. \A r \in known'[s] : ~Written(s, r)' => mine'[s][r] = value[r]
    BY <1>5, <2>1, <2>2
  <2> QED
    BY <1>3, <1>4, <2>2, <2>3, SoloStays
<1>8. CASE InsertInvestigation(s)
  <2>1. /\ owner' = Flushed(s) /\ dirty'[s] = {}
        /\ known'[s] = known[s] \cup {i}
        /\ Needs(s) = dirty[s] \cup {i}
        /\ mine' = [mine EXCEPT ![s][i] = 0]
        /\ ~exists[i] /\ i \notin known[s]
    BY <1>2, <1>8 DEF InsertInvestigation, Needs, Investigation, TypeOK, KnownInv
  <2>2. /\ mine'[s][i] = 0
        /\ \A r \in Aggregates : r # i => mine'[s][r] = mine[s][r]
    BY <1>2, <2>1 DEF TypeOK
  <2>3. \A r \in Aggregates : Written(s, r)' <=> Written(s, r) \/ r = i
    BY <1>2, <2>1 DEF Written, Flushed, TypeOK
  <2>4. Count(s, i) = 0
    BY <1>2, <2>1 DEF Count, KnownInv
  <2>5. \A r \in Aggregates : Count(s, r)' = Count(s, r)
    BY <1>2, <1>3, <2>2, <2>3, <2>4 DEF Count
  <2>6. \A r \in known'[s] : ~Written(s, r)' => mine'[s][r] = value[r]
    BY <1>2, <1>5, <2>1, <2>2, <2>3
  <2>7. \A d \in Detections : Has(s, d)' <=> Has(s, d)
    BY <1>2, <1>3, <2>3 DEF Has
  <2> QED
    BY <1>3, <1>4, <2>5, <2>6, <2>7, SoloStays
<1> QED
  BY <1>6, <1>7, <1>8

(* The event the session is at is not in the count of a detection it has   *)
(* still to record, and comes in with it.                                  *)
LEMMA CountsOneMore ==
    ASSUME TypeOK, NEW s \in Sessions, SessionInv(s), KnownInv(s), SoloInv(s),
           IsFiniteSet(processed), NEW e \in Events, NEW d \in Detections,
           e \in Left(s), IsCurrent(s, e), e \in batch[s], e \notin done[s],
           d \in Range(Emits[e]), ~Recorded(s, e, d)
    PROVE  Cardinality(Counted(s, d) \cup {e}) = Cardinality(Counted(s, d)) + 1
<1>1. e \notin processed
  BY DEF SoloInv
<1>2. e \notin Counted(s, d)
  BY <1>1 DEF Counted
<1>3. IsFiniteSet(Counted(s, d))
  <2>1. \A f : Recorded(s, f, d) => f = e
    BY OneCurrent DEF Recorded
  <2>2. Counted(s, d) \subseteq processed \cup done[s]
    BY <2>1 DEF Counted
  <2>3. IsFiniteSet(processed \cup done[s])
    BY FS_Union DEF KnownInv
  <2> QED
    BY <2>2, <2>3, FS_Subset
<1> QED
  BY <1>2, <1>3, FS_AddElement

LEMMA SoloDetection ==
    ASSUME TypeOK, NEW s \in Sessions, SessionInv(s), KnownInv(s), SoloInv(s),
           IsFiniteSet(processed), FindDetection(s) \/ MissDetection(s)
    PROVE  SoloInv(s)'
<1>1. pc[s] = "detection" /\ pc[s] \in Recording /\ pc'[s] \in Recording
  BY DEF FindDetection, MissDetection, Recording, TypeOK
<1>2. PICK d \in Detections : d = Head(todo[s]) /\ d \in Range(todo[s]) /\ d \in Aggregates
  BY <1>1, RecordingFacts DEF SessionInv
<1>3. UNCHANGED <<processed, exists, value, owner, batch, done, todo>>
  BY DEF FindDetection, MissDetection, tableVars
<1>4. known[s] \subseteq Aggregates /\ \A r \in known[s] : ~Written(s, r) => mine[s][r] = value[r]
  BY DEF SoloInv, TypeOK
<1>5. CASE FindDetection(s)
  <2>1. PICK v \in Reads(s, d) : mine' = [mine EXCEPT ![s][d] = v + 1]
    BY <1>2, <1>5 DEF FindDetection
  <2>2. v = Count(s, d)
    BY <2>1, ReadsCount
  <2>3. /\ mine'[s][d] = v + 1
        /\ \A r \in Aggregates : r # d => mine'[s][r] = mine[s][r]
    BY <1>2, <2>1 DEF TypeOK
  <2>4. /\ known'[s] = known[s] \cup {d} /\ dirty'[s] = dirty[s] \cup {d}
        /\ pc'[s] = "flush" /\ Sees(s, d)
    BY <1>2, <1>5 DEF FindDetection, TypeOK
  <2>5. \A r : Written(s, r)' <=> Written(s, r) \/ r = d
    BY <1>3, <2>4 DEF Written
  <2>6. \A x \in Detections : Has(s, x)' <=> Has(s, x)
    BY <1>2, <1>3, <2>4, <2>5, SeesHas DEF Has
  <2>7. /\ Count(s, d)' = Count(s, d) + 1
        /\ \A r \in Aggregates : r # d => Count(s, r)' = Count(s, r)
    BY <1>3, <2>2, <2>3, <2>5 DEF Count
  <2>8. PICK e \in Events :
             /\ e \in Left(s) /\ IsCurrent(s, e)
             /\ e \in batch[s] /\ e \notin done[s]
             /\ Range(todo[s]) \subseteq Range(Emits[e])
             /\ \A f : f \in Left(s) /\ IsCurrent(s, f) => f = e
    BY <1>1, AtEvent
  <2>9. /\ \A f : f \in Left(s)' <=> f \in Left(s)
        /\ \A f : IsCurrent(s, f)' <=> IsCurrent(s, f)
    BY <1>3 DEF Left, IsCurrent
  <2>10. \A f : ~Recorded(s, f, d)
    BY <1>1, <1>2 DEF Recorded
  <2>11. \A f : Recorded(s, f, d)' <=> f = e
    BY <1>2, <1>3, <2>4, <2>8, <2>9 DEF Recorded, Recording
  <2>12. Counted(s, d)' = Counted(s, d) \cup {e}
    BY <1>3, <2>8, <2>10, <2>11 DEF Counted
  <2>13. Cardinality(Counted(s, d)') = Cardinality(Counted(s, d)) + 1
    BY <1>2, <2>8, <2>10, <2>12, CountsOneMore
  <2>14. \A x \in Detections : x # d => Counted(s, x)' = Counted(s, x)
    BY <1>1, <1>2, <1>3, CountedStays
  <2>15. ASSUME NEW x \in Detections
         PROVE  Count(s, x)' = Cardinality(Counted(s, x)')
    <3>1. CASE x = d
      BY <2>7, <2>13, <3>1 DEF SoloInv
    <3>2. CASE x # d
      BY <2>7, <2>14, <3>2 DEF SoloInv
    <3> QED
      BY <3>1, <3>2
  <2>16. \A i : OfSource(s, i)' = OfSource(s, i)
    BY <2>6 DEF OfSource
  <2>17. \A i \in Sources : Count(s, i)' = Cardinality(OfSource(s, i)')
    BY <1>2, <2>7, <2>16 DEF SoloInv
  <2>18. \A r \in known'[s] : ~Written(s, r)' => mine'[s][r] = value'[r]
    BY <1>3, <1>4, <2>3, <2>4, <2>5
  <2> QED
    BY <1>3, <2>15, <2>17, <2>18 DEF SoloInv
<1>6. CASE MissDetection(s)
  <2>1. UNCHANGED <<dirty, known, mine>> /\ pc'[s] # "flush"
    BY <1>6 DEF MissDetection, TypeOK
  <2>2. \A r \in Aggregates : /\ Written(s, r)' <=> Written(s, r)
                              /\ Has(s, r)' <=> Has(s, r)
                              /\ Count(s, r)' = Count(s, r)
    BY <1>3, <2>1 DEF Written, Has, Count
  <2>3. \A r \in known'[s] : ~Written(s, r)' => mine'[s][r] = value[r]
    BY <1>4, <2>1, <2>2
  <2>4. \A x : Counted(s, x)' = Counted(s, x)
    BY <1>1, <1>3, <2>1, CountedStays
  <2> QED
    BY <1>3, <2>2, <2>3, <2>4, SoloStays
<1> QED
  BY <1>5, <1>6

(* After the flush, the event is in the count of the detection, and the    *)
(* other counts are as they were.                                          *)
CountedWith(s, e, d) ==
    /\ Counted(s, d)' = Counted(s, d) \cup {e}
    /\ pc[s] = "flush" => e \in Counted(s, d)
    /\ pc[s] = "insertDetection" => ~Recorded(s, e, d)
    /\ \A x : x # d => Counted(s, x)' = Counted(s, x)

LEMMA CountedFlush ==
    ASSUME TypeOK, NEW s \in Sessions, SessionInv(s), KnownInv(s), FlushDetection(s),
           NEW d, d = Head(todo[s]), NEW e \in Events,
           e \in Left(s), IsCurrent(s, e), Range(todo[s]) \subseteq Range(Emits[e]),
           \A f : f \in Left(s) /\ IsCurrent(s, f) => f = e
    PROVE  CountedWith(s, e, d)
<1> DEFINE rest == Tail(todo[s])
           i == Investigation(s)
<1>1. pc[s] \in {"flush", "insertDetection"} /\ pc[s] \in Recording
  BY DEF FlushDetection, Recording
<1>2. /\ todo[s] \in Seq(Detections) /\ todo[s] # <<>>
      /\ UNCHANGED <<processed, batch>>
      /\ todo'[s] = rest
      /\ pc'[s] = IF rest = <<>> THEN "event" ELSE "investigation"
      /\ done'[s] = done[s] \cup
            IF rest = <<>> THEN {f \in Left(s) : IsCurrent(s, f)} ELSE {}
  BY FlushFacts
<1>3. Range(todo[s]) = {d} \cup Range(rest) /\ d \notin Range(rest)
  <2>1. \A m, n \in 1..Len(todo[s]) : todo[s][m] = todo[s][n] => m = n
    BY DEF KnownInv
  <2>2. d \notin Range(rest)
    BY <1>2, <2>1, TailDistinct
  <2> QED
    BY <1>2, <2>2, RangeHeadTail
<1>4. {f \in Left(s) : IsCurrent(s, f)} = {e}
  OBVIOUS
<1> HIDE DEF rest
<1>5. done'[s] = done[s] \cup IF rest = <<>> THEN {e} ELSE {}
  BY <1>2, <1>4
<1>6. d \in Range(Emits[e])
  BY <1>3
<1>7. \A f, x : Recorded(s, f, x) <=>
            /\ f = e /\ x \in Range(Emits[e])
            /\ x \notin Range(rest)
            /\ x = d => pc[s] = "flush"
  BY <1>1, <1>3 DEF Recorded
<1>8. ASSUME NEW x
      PROVE  Counted(s, x)' = IF x = d THEN Counted(s, x) \cup {e} ELSE Counted(s, x)
  <2>1. CASE rest = <<>>
    <3>1. done'[s] = done[s] \cup {e} /\ pc'[s] = "event"
      BY <1>2, <1>5, <2>1
    <3>2. \A f : ~Recorded(s, f, x)'
      BY <3>1 DEF Recorded, Recording
    <3>3. Range(rest) = {}
      BY <2>1, RangeEmpty
    <3> QED
      BY <1>2, <1>6, <1>7, <3>1, <3>2, <3>3 DEF Counted
  <2>2. CASE rest # <<>>
    <3>1. done'[s] = done[s] /\ pc'[s] = "investigation"
      BY <1>2, <1>5, <2>2
    <3>2. \A f : /\ f \in Left(s)' <=> f \in Left(s)
                 /\ IsCurrent(s, f)' <=> IsCurrent(s, f)
      BY <1>2, <3>1 DEF Left, IsCurrent
    <3>3. \A f : Recorded(s, f, x)' <=>
              f = e /\ x \in Range(Emits[e]) /\ x \notin Range(rest)
      BY <1>2, <3>1, <3>2 DEF Recorded, Recording
    <3> QED
      BY <1>2, <1>3, <1>6, <1>7, <3>1, <3>3 DEF Counted
  <2> QED
    BY <2>1, <2>2
<1>9. pc[s] = "flush" => e \in Counted(s, d)
  BY <1>3, <1>6, <1>7 DEF Counted
<1>10. pc[s] = "insertDetection" => ~Recorded(s, e, d)
  BY <1>7
<1> QED
  BY <1>8, <1>9, <1>10 DEF CountedWith

(* What it does to the counts: the investigation is counted anew, and the  *)
(* others keep theirs.                                                     *)
LEMMA FlushWrites ==
    ASSUME TypeOK, NEW s \in Sessions, SessionInv(s), KnownInv(s), FlushDetection(s),
           NEW d, NEW i, d = Head(todo[s]), i = Investigation(s),
           \A r \in known[s] : ~Written(s, r) => mine[s][r] = value[r]
    PROVE  /\ d \in Aggregates /\ i \in Aggregates /\ i \in known[s]
           /\ \A j \in Sources : j # d
           /\ mine'[s][d] = IF pc[s] = "flush" THEN mine[s][d] ELSE 1
           /\ \A r \in Aggregates : r # d /\ r # i => mine'[s][r] = mine[s][r]
           /\ \A r \in Aggregates : r # i => (Written(s, r)' <=> Written(s, r) \/ r = d)
           /\ \A x \in Detections : Has(s, x)' <=> Has(s, x) \/ x = d
           /\ \A r \in known'[s] : ~Written(s, r)' => mine'[s][r] = value'[r]
           /\ \A r \in Aggregates : r # d /\ r # i => Count(s, r)' = Count(s, r)
           /\ Count(s, i)' = Cardinality(OfSource(s, i)')
<1>1. pc[s] \in {"flush", "insertDetection"}
  BY DEF FlushDetection
<1>2. /\ d \in Detections /\ i \in Sources /\ InvestigationOf[d] = i
      /\ UNCHANGED <<processed, exists, value, batch>>
      /\ \A r \in Rows : owner'[r] = s <=> Written(s, r) \/ r = d
      /\ known'[s] = known[s] \cup {d}
      /\ dirty'[s] \subseteq {i} \cup Events
  BY FlushFacts
<1>3. /\ d # i /\ d \in Aggregates /\ i \in Aggregates /\ i \in known[s]
      /\ \A j \in Sources : j # d
  BY <1>1, <1>2 DEF KnownInv
<1> DEFINE seen == {x \in Detections : InvestigationOf[x] = i /\ (x = d \/ Sees(s, x))}
           count == Cardinality(seen)
           occurrences == IF pc[s] = "flush" THEN mine[s][d] ELSE 1
<1>4. /\ mine' = [mine EXCEPT ![s][d] = occurrences, ![s][i] = count]
      /\ (i \in dirty'[s]) <=> (count # mine[s][i])
  <2>1. /\ mine' = [mine EXCEPT ![s][d] = occurrences, ![s][i] = count]
        /\ \E event \in SUBSET Left(s) :
              dirty' = [dirty EXCEPT ![s] =
                          (IF count = mine[s][i] THEN {} ELSE {i}) \cup event]
    BY DEF FlushDetection, DetectionCount
  <2>2. i \notin Left(s)
    BY <1>2 DEF Left, TypeOK
  <2> HIDE DEF count, occurrences
  <2> QED
    BY <2>1, <2>2 DEF TypeOK
<1> HIDE DEF count, occurrences, seen
<1>5. /\ mine'[s][d] = occurrences /\ mine'[s][i] = count
      /\ \A r \in Aggregates : r # d /\ r # i => mine'[s][r] = mine[s][r]
  BY <1>2, <1>3, <1>4 DEF TypeOK
<1>6. \A r \in Aggregates : Written(s, r)' <=>
            Written(s, r) \/ r = d \/ (r = i /\ count # mine[s][i])
  BY <1>2, <1>4 DEF Written
<1>7. \A x \in Detections : Has(s, x)' <=> Has(s, x) \/ x = d
  BY <1>2, <1>3, <1>6 DEF Has
<1>8. \A r \in known'[s] : ~Written(s, r)' => mine'[s][r] = value'[r]
  <2>1. known[s] \subseteq Aggregates
    BY DEF TypeOK
  <2> QED
    BY <1>2, <1>3, <1>5, <1>6, <2>1
<1>9. \A r \in Aggregates : r # d /\ r # i => Count(s, r)' = Count(s, r)
  BY <1>2, <1>5, <1>6 DEF Count
<1>10. Count(s, i)' = Cardinality(OfSource(s, i)')
  <2>1. \A x \in Detections : Sees(s, x) <=> Has(s, x)
    BY SeesHas
  <2>2. OfSource(s, i)' = seen
    BY <1>2, <1>7, <2>1 DEF OfSource, seen
  <2>3. Count(s, i)' = count
    <3>1. CASE Written(s, i)'
      BY <1>5, <3>1 DEF Count
    <3>2. CASE ~Written(s, i)'
      <4>1. count = mine[s][i] /\ mine[s][i] = value[i]
        BY <1>3, <1>6, <3>2
      <4> QED
        BY <1>2, <3>2, <4>1 DEF Count
    <3> QED
      BY <3>1, <3>2
  <2> QED
    BY <2>2, <2>3 DEF count
<1> QED
  BY <1>3, <1>5, <1>6, <1>7, <1>8, <1>9, <1>10 DEF occurrences

LEMMA SoloFlush ==
    ASSUME TypeOK, NEW s \in Sessions, SessionInv(s), KnownInv(s), SoloInv(s),
           \A r \in Aggregates : ~exists[r] => value[r] = 0,
           IsFiniteSet(processed), FlushDetection(s)
    PROVE  SoloInv(s)'
<1>1. pc[s] \in {"flush", "insertDetection"} /\ pc[s] \in Recording
  BY DEF FlushDetection, Recording
<1>2. PICK d, i : d = Head(todo[s]) /\ i = Investigation(s)
  OBVIOUS
<1>3. /\ d \in Detections /\ i \in Sources /\ InvestigationOf[d] = i
      /\ UNCHANGED <<processed, exists, value, batch>>
      /\ \A r \in Rows : owner'[r] = s <=> Written(s, r) \/ r = d
  BY <1>2, FlushFacts
<1>4. \A r \in known[s] : ~Written(s, r) => mine[s][r] = value[r]
  BY DEF SoloInv
<1>5. /\ d \in Aggregates /\ d # i /\ i \in known[s]
      /\ \A j \in Sources : j # d
      /\ mine'[s][d] = IF pc[s] = "flush" THEN mine[s][d] ELSE 1
      /\ Written(s, d)'
      /\ \A x \in Detections : Has(s, x)' <=> Has(s, x) \/ x = d
      /\ \A r \in known'[s] : ~Written(s, r)' => mine'[s][r] = value'[r]
      /\ \A r \in Aggregates : r # d /\ r # i => Count(s, r)' = Count(s, r)
      /\ Count(s, i)' = Cardinality(OfSource(s, i)')
  BY <1>2, <1>3, <1>4, FlushWrites
<1>6. PICK e \in Events :
             /\ e \in Left(s) /\ IsCurrent(s, e)
             /\ e \in batch[s] /\ e \notin done[s]
             /\ Range(todo[s]) \subseteq Range(Emits[e])
             /\ \A f : f \in Left(s) /\ IsCurrent(s, f) => f = e
  BY <1>1, AtEvent
<1>7. /\ Counted(s, d)' = Counted(s, d) \cup {e}
      /\ pc[s] = "flush" => e \in Counted(s, d)
      /\ pc[s] = "insertDetection" => ~Recorded(s, e, d)
      /\ \A x : x # d => Counted(s, x)' = Counted(s, x)
  <2>1. CountedWith(s, e, d)
    BY <1>2, <1>6, CountedFlush
  <2> QED
    BY <2>1 DEF CountedWith
<1>8. ASSUME NEW x \in Detections
      PROVE  Count(s, x)' = Cardinality(Counted(s, x)')
  <2>1. CASE x # d
    <3>1. x # i /\ x \in Aggregates
      BY <1>3
    <3>2. Count(s, x)' = Count(s, x)
      BY <1>5, <2>1, <3>1
    <3> QED
      BY <1>7, <2>1, <3>2 DEF SoloInv
  <2>2. CASE x = d /\ pc[s] = "flush"
    <3>1. Written(s, d)
      BY <1>2, <2>2 DEF SessionInv, DoneInv, Written
    <3>2. Count(s, d)' = Count(s, d)
      BY <1>5, <2>2, <3>1 DEF Count
    <3>3. Counted(s, d)' = Counted(s, d)
      BY <1>7, <2>2
    <3> QED
      BY <1>3, <2>2, <3>2, <3>3 DEF SoloInv
  <2>3. CASE x = d /\ pc[s] = "insertDetection"
    <3>1. ~Written(s, d) /\ ~exists[d]
      BY <1>2, <1>5, <2>3 DEF KnownInv, FlushDetection
    <3>2. Count(s, d) = 0
      BY <1>5, <3>1 DEF Count
    <3>3. Cardinality(Counted(s, d)) = 0
      BY <1>3, <3>2 DEF SoloInv
    <3>4. d \in Range(Emits[e])
      BY <1>1, <1>2, <1>6, RecordingFacts DEF SessionInv
    <3>5. Cardinality(Counted(s, d) \cup {e}) = Cardinality(Counted(s, d)) + 1
      BY <1>3, <1>6, <1>7, <2>3, <3>4, CountsOneMore
    <3>6. Count(s, d)' = 1
      BY <1>5, <2>3 DEF Count
    <3> QED
      BY <1>7, <2>3, <3>3, <3>5, <3>6
  <2> QED
    BY <1>1, <2>1, <2>2, <2>3
<1>9. ASSUME NEW j \in Sources
      PROVE  Count(s, j)' = Cardinality(OfSource(s, j)')
  <2>1. CASE j # i
    <3>1. OfSource(s, j)' = OfSource(s, j)
      BY <1>3, <1>5, <2>1 DEF OfSource
    <3>2. Count(s, j)' = Count(s, j)
      BY <1>5, <2>1
    <3> QED
      BY <3>1, <3>2 DEF SoloInv
  <2> QED
    BY <1>5, <2>1
<1>10. batch'[s] \cap processed' = {}
  BY <1>3 DEF SoloInv
<1> QED
  BY <1>5, <1>8, <1>9, <1>10 DEF SoloInv

LEMMA SoloOwn ==
    ASSUME IngestInv, CountsInv, ~raced', NEW s \in Sessions, Step(s) \/ Fail(s),
           ~Ingest(s), ~Rollback(s), ~CommitBatch(s)
    PROVE  SoloInv(s)'
<1>1. /\ TypeOK /\ SessionInv(s) /\ KnownInv(s) /\ IsFiniteSet(processed)
      /\ \A r \in Aggregates : ~exists[r] => value[r] = 0
      /\ CountsExact
  BY DEF IngestInv, CountsInv
<1>2. CASE ScanPending(s)
  BY <1>1, <1>2, SoloScan
<1>3. ASSUME ~ScanPending(s)
      PROVE  SoloInv(s)'
  <2>1. \/ NextEvent(s)
        \/ FindInvestigation(s) \/ MissInvestigation(s) \/ InsertInvestigation(s)
        \/ FindDetection(s) \/ MissDetection(s) \/ FlushDetection(s)
    BY <1>3, RollbackEnds DEF Step, Materialize
  <2>2. Materializing(s) /\ raced' = raced
    BY <2>1 DEF NextEvent, FindInvestigation, MissInvestigation, InsertInvestigation,
                FindDetection, MissDetection, FlushDetection, Materializing
  <2>3. SoloInv(s)
    BY <2>2 DEF CountsInv
  <2> QED
    BY <1>1, <2>1, <2>3, SoloNext, SoloInvestigation, SoloDetection, SoloFlush
<1> QED
  BY <1>2, <1>3

(* A session alone commits what is right. *)
LEMMA CommitCounts ==
    ASSUME IngestInv, CountsInv, NEW s \in Sessions, CommitBatch(s)
    PROVE  /\ CountsExact' /\ IsFiniteSet(processed')
           /\ \A r \in Aggregates : ~exists'[r] => value'[r] = 0
<1>1. /\ pc[s] = "event" /\ raced' = raced
      /\ processed' = processed \cup done[s]
      /\ \A r \in Aggregates : exists'[r] = Has(s, r)
      /\ \A r \in Aggregates : value'[r] = Count(s, r)
  BY DEF CommitBatch, Marked, Has, Written, Count
<1>2. IsFiniteSet(processed')
  BY <1>1, FS_Union DEF CountsInv, KnownInv
<1>3. \A r \in Aggregates : ~exists'[r] => value'[r] = 0
  BY <1>1 DEF CountsInv, Has, Count
<1>4. ASSUME ~raced
      PROVE  /\ \A d \in Detections :
                  value'[d] = Cardinality({e \in processed' : d \in Range(Emits[e])})
             /\ \A i \in Sources :
                  value'[i] = Cardinality({d \in Detections :
                                              exists'[d] /\ InvestigationOf[d] = i})
  <2>1. SoloInv(s)
    BY <1>1, <1>4 DEF CountsInv, Materializing
  <2>2. processed' \subseteq Events
    BY <1>1 DEF IngestInv, TypeOK
  <2>3. ASSUME NEW d \in Detections
        PROVE  Counted(s, d) = {e \in processed' : d \in Range(Emits[e])}
    BY <1>1, <2>2 DEF Counted, Recorded, Recording
  <2>4. ASSUME NEW i \in Sources
        PROVE  OfSource(s, i) = {d \in Detections : exists'[d] /\ InvestigationOf[d] = i}
    BY <1>1 DEF OfSource
  <2> QED
    BY <1>1, <2>1, <2>3, <2>4 DEF SoloInv
<1> QED
  BY <1>1, <1>2, <1>3, <1>4 DEF CountsExact

(* A session that begins to materialize while another one does is noticed. *)
LEMMA AloneStays ==
    ASSUME IngestInv, CountsInv, [Next]_vars, ~raced'
    PROVE  /\ ~raced
           /\ \A s, x \in Sessions : Materializing(s)' /\ Materializing(x)' => x = s
<1>1. TypeOK
  BY DEF IngestInv
<1>2. ASSUME NEW s \in Sessions, Rollback(s)
      PROVE  /\ raced' = raced
             /\ \A x \in Sessions : Materializing(x)' => Materializing(x)
  <2>1. PICK to \in {"idle", "down"} : EndSession(s, to)
    BY <1>2 DEF Rollback
  <2>2. pc'[s] = to /\ \A x \in Sessions : x # s => pc'[x] = pc[x]
    BY <1>1, <2>1, EndFacts
  <2> QED
    BY <1>2, <2>2 DEF Rollback, Materializing
<1>3. ASSUME NEW s \in Sessions, CommitBatch(s)
      PROVE  /\ raced' = raced
             /\ \A x \in Sessions : Materializing(x)' => Materializing(x)
  <2>1. pc'[s] = "idle" /\ \A x \in Sessions : x # s => pc'[x] = pc[x]
    BY <1>1, <1>3, EndFacts DEF CommitBatch
  <2> QED
    BY <1>3, <2>1 DEF CommitBatch, Materializing
<1>4. ASSUME NEW s \in Sessions, ScanPending(s)
      PROVE  /\ ~raced
             /\ \A x \in Sessions : Materializing(x)' => x = s
  <2>1. ~raced /\ \A x \in Sessions \ {s} : ~Materializing(x)
    BY <1>4 DEF ScanPending
  <2>2. \A x \in Sessions : x # s => pc'[x] = pc[x]
    BY <1>1, <1>4 DEF ScanPending, TypeOK
  <2> QED
    BY <2>1, <2>2 DEF Materializing
<1>5. ASSUME NEW s \in Sessions,
             \/ Ingest(s) \/ Materialize(s) \/ DeadlockVictim(s) \/ Fail(s)
             \/ \E e \in Events : Request(s, e)
             \/ s = Worker /\ (WorkerRound \/ WorkerRestart),
             ~Rollback(s), ~CommitBatch(s), ~ScanPending(s)
      PROVE  /\ raced' = raced
             /\ \A x \in Sessions : Materializing(x)' => Materializing(x)
  <2>1. CASE \/ FindEvent(s) \/ InsertEvent(s) \/ CommitEvent(s)
             \/ \E e \in Events : Request(s, e)
             \/ s = Worker /\ (WorkerRound \/ WorkerRestart)
    <3>1. /\ raced' = raced /\ pc'[s] \in {"idle", "select", "insert", "commit", "scan"}
          /\ \A x \in Sessions : x # s => pc'[x] = pc[x]
      BY <1>1, <2>1 DEF FindEvent, InsertEvent, CommitEvent, Request, WorkerRound,
                        WorkerRestart, TypeOK
    <3> QED
      BY <3>1 DEF Materializing
  <2>2. CASE \/ NextEvent(s)
             \/ FindInvestigation(s) \/ MissInvestigation(s) \/ InsertInvestigation(s)
             \/ FindDetection(s) \/ MissDetection(s) \/ FlushDetection(s)
    <3>1. raced' = raced /\ Materializing(s)
      BY <2>2 DEF NextEvent, FindInvestigation, MissInvestigation, InsertInvestigation,
                  FindDetection, MissDetection, FlushDetection, Materializing
    <3>2. \A x \in Sessions : x # s => pc'[x] = pc[x]
      BY <1>1, <2>2
         DEF NextEvent, FindInvestigation, MissInvestigation, InsertInvestigation,
             FindDetection, MissDetection, FlushDetection, TypeOK
    <3> QED
      BY <3>1, <3>2 DEF Materializing
  <2> QED
    BY <1>5, <2>1, <2>2, RollbackEnds DEF Ingest, Materialize
<1>6. CASE UNCHANGED vars
  BY <1>6 DEF vars, Materializing, CountsInv
<1>7. CASE Next
  <2>1. PICK s \in Sessions :
            \/ Ingest(s) \/ Materialize(s) \/ DeadlockVictim(s) \/ Fail(s)
            \/ \E e \in Events : Request(s, e)
            \/ s = Worker /\ (WorkerRound \/ WorkerRestart)
    BY <1>7 DEF Next, Step
  <2>2. CASE ScanPending(s)
    BY <1>4, <2>2
  <2>3. CASE ~ScanPending(s)
    <3>1. /\ raced' = raced
          /\ \A x \in Sessions : Materializing(x)' => Materializing(x)
      BY <1>2, <1>3, <1>5, <2>1, <2>3
    <3> QED
      BY <3>1 DEF CountsInv
  <2> QED
    BY <2>2, <2>3
<1> QED
  BY <1>6, <1>7

(* A session writes what it materializes with its own commit only, and     *)
(* begins to materialize with its scan.                                    *)
LEMMA OnlyCommits ==
    ASSUME NEW s \in Sessions, ~CommitBatch(s),
           \/ Step(s) \/ Fail(s)
           \/ \E e \in Events : Request(s, e)
           \/ s = Worker /\ (WorkerRound \/ WorkerRestart)
    PROVE  UNCHANGED <<processed, exists, value>>
<1> USE DEF tableVars
<1>1. Rollback(s) => UNCHANGED <<processed, exists, value>>
  BY DEF Rollback
<1>2. CASE Step(s) \/ Fail(s)
  BY <1>1, <1>2, RollbackEnds
     DEF Step, Ingest, Materialize, FindEvent, InsertEvent, CommitEvent, ScanPending,
         NextEvent, FindInvestigation, MissInvestigation, InsertInvestigation,
         FindDetection, MissDetection, FlushDetection
<1> QED
  BY <1>2 DEF Request, WorkerRound, WorkerRestart

LEMMA EntersByScan ==
    ASSUME TypeOK, NEW s \in Sessions, ~Rollback(s),
           \/ Ingest(s)
           \/ \E e \in Events : Request(s, e)
           \/ s = Worker /\ (WorkerRound \/ WorkerRestart)
    PROVE  ~Materializing(s)'
<1>1. pc'[s] \in {"idle", "select", "insert", "commit", "scan"}
  BY RollbackEnds DEF Ingest, FindEvent, InsertEvent, CommitEvent, Request, WorkerRound,
                      WorkerRestart, TypeOK
<1> QED
  BY <1>1 DEF Materializing

(* A session that materializes alone is as it was when another one has     *)
(* taken a step.                                                           *)
LEMMA CountsOthers ==
    ASSUME IngestInv, CountsInv, [Next]_vars,
           NEW s \in Sessions, NEW x \in Sessions, x # s,
           \/ Step(s) \/ Fail(s)
           \/ \E e \in Events : Request(s, e)
           \/ s = Worker /\ (WorkerRound \/ WorkerRestart)
    PROVE  /\ KnownInv(x)'
           /\ ~raced' /\ Materializing(x)' => SoloInv(x)'
<1>1. TypeOK /\ SessionInv(x) /\ KnownInv(x)
  BY DEF IngestInv, CountsInv
<1>2. SameSession(x) /\ LocksOf(s)
  BY <1>1, OthersSame
<1>3. \A r \in Rows : owner'[r] = x <=> owner[r] = x
  BY <1>1, <1>2, OwnerFrame DEF LocksOf
<1>4. KnownInv(x)'
  BY <1>1, <1>2, <1>3, KnownFrame DEF SameSession
<1>5. ASSUME ~raced', Materializing(x)'
      PROVE  SoloInv(x)'
  <2>1. ~raced /\ Materializing(x)
    BY <1>2, <1>5, AloneStays DEF SameSession, Materializing
  <2>2. SoloInv(x) /\ ~Materializing(s)
    BY <2>1 DEF CountsInv
  <2>3. ~CommitBatch(s)
    BY <2>2 DEF CommitBatch, Materializing
  <2>4. UNCHANGED <<processed, exists, value>>
    BY <2>3, OnlyCommits
  <2> QED
    BY <1>1, <1>2, <1>3, <2>2, <2>4, SoloFrame DEF SameSession
<1> QED
  BY <1>4, <1>5

LEMMA CountsSessions ==
    ASSUME IngestInv, CountsInv, [Next]_vars
    PROVE  /\ \A x \in Sessions : KnownInv(x)'
           /\ ~raced' => \A x \in Sessions : Materializing(x)' => SoloInv(x)'
<1>1. CASE UNCHANGED vars
  <2>1. ASSUME NEW x \in Sessions
        PROVE  KnownInv(x)' /\ (~raced' /\ Materializing(x)' => SoloInv(x)')
    <3>1. TypeOK /\ SessionInv(x) /\ KnownInv(x)
      BY DEF IngestInv, CountsInv
    <3>2. KnownInv(x)'
      BY <1>1, <3>1, KnownFrame DEF vars
    <3>3. ~raced' /\ Materializing(x)' => ~raced /\ Materializing(x)
      BY <1>1 DEF vars, Materializing
    <3>4. SoloInv(x) => SoloInv(x)'
      BY <1>1, <3>1, SoloFrame DEF vars
    <3> QED
      BY <3>2, <3>3, <3>4 DEF CountsInv
  <2> QED
    BY <2>1
<1>2. CASE Next
  <2>1. PICK s \in Sessions :
            \/ Step(s) \/ Fail(s)
            \/ \E e \in Events : Request(s, e)
            \/ s = Worker /\ (WorkerRound \/ WorkerRestart)
    BY <1>2 DEF Next
  <2>2. TypeOK /\ SessionInv(s) /\ KnownInv(s)
    BY DEF IngestInv, CountsInv
  <2>3. KnownInv(s)'
    BY <2>1, <2>2, KnownOwn
  <2>4. ASSUME ~raced', Materializing(s)'
        PROVE  SoloInv(s)'
    <3>1. ~Rollback(s) /\ ~CommitBatch(s)
      BY <2>2, <2>4, EndFacts DEF Rollback, CommitBatch, Materializing
    <3>2. Step(s) /\ ~Ingest(s)
      BY <2>1, <2>2, <2>4, <3>1, RollbackEnds, EntersByScan
    <3> QED
      BY <2>4, <3>1, <3>2, SoloOwn
  <2>5. ASSUME NEW x \in Sessions, x # s
        PROVE  KnownInv(x)' /\ (~raced' /\ Materializing(x)' => SoloInv(x)')
    BY <2>1, <2>5, CountsOthers
  <2> QED
    BY <2>3, <2>4, <2>5
<1> QED
  BY <1>1, <1>2

(* The inductive invariant of the counts: a session that materializes      *)
(* alone has in memory the counts that it will commit (services.py:473-475 *)
(* and 498-525).                                                           *)
THEOREM CountsKept == Spec => []CountsInv
<1>1. Init => CountsInv
  <2> SUFFICES ASSUME Init PROVE CountsInv
    OBVIOUS
  <2>1. /\ processed = {} /\ exists = [r \in Aggregates |-> FALSE]
        /\ value = [r \in Aggregates |-> 0]
        /\ \A s \in Sessions : /\ pc[s] = "idle" /\ done[s] = {} /\ dirty[s] = {}
                               /\ todo[s] = <<>>
        /\ \A r \in Rows : owner[r] = NoSession
    BY DEF Init
  <2>2. IsFiniteSet(processed) /\ IsFiniteSet({}) /\ Cardinality({}) = 0
    BY <2>1, FS_EmptySet
  <2>3. ASSUME NEW s \in Sessions PROVE KnownInv(s)
    <3>1. \A r \in Aggregates : ~Written(s, r)
      BY <2>1 DEF Written
    <3>2. pc[s] = "idle" /\ IsFiniteSet(done[s])
      BY <2>1, <2>2
    <3>3. \A i, j \in 1..Len(todo[s]) : todo[s][i] = todo[s][j] => i = j
      BY <2>1
    <3> QED
      BY <3>1, <3>2, <3>3 DEF KnownInv
  <2>4. \A s \in Sessions : ~Materializing(s)
    BY <2>1 DEF Materializing
  <2>5. CountsExact
    <3>1. \A d \in Detections : {e \in processed : d \in Range(Emits[e])} = {}
      BY <2>1
    <3>2. \A i \in Sources :
              {d \in Detections : exists[d] /\ InvestigationOf[d] = i} = {}
      BY <2>1
    <3> QED
      BY <2>1, <2>2, <3>1, <3>2 DEF CountsExact
  <2> QED
    BY <2>1, <2>2, <2>3, <2>4, <2>5 DEF CountsInv
<1>2. IngestInv /\ CountsInv /\ [Next]_vars => CountsInv'
  <2> SUFFICES ASSUME IngestInv, CountsInv, [Next]_vars PROVE CountsInv'
    OBVIOUS
  <2>1. /\ CountsExact' /\ IsFiniteSet(processed')
        /\ \A r \in Aggregates : ~exists'[r] => value'[r] = 0
    <3>1. CASE \E s \in Sessions : CommitBatch(s)
      BY <3>1, CommitCounts
    <3>2. CASE ~\E s \in Sessions : CommitBatch(s)
      BY <3>2, CommitsAlone, AloneStays DEF CountsInv, CountsExact
    <3> QED
      BY <3>1, <3>2
  <2>2. /\ \A x \in Sessions : KnownInv(x)'
        /\ ~raced' => \A x \in Sessions : Materializing(x)' => SoloInv(x)'
    BY CountsSessions
  <2>3. ~raced' => \A s, x \in Sessions : Materializing(s)' /\ Materializing(x)' => x = s
    BY AloneStays
  <2> QED
    BY <2>1, <2>2, <2>3 DEF CountsInv
<1> QED
  BY <1>1, <1>2, InductiveIngest, PTL DEF Spec

(* As long as no two materializations have overlapped, the occurrences of  *)
(* a detection are its processed events and the detection_count of an      *)
(* investigation its detections, whatever was rolled back or repeated in   *)
(* between (services.py:473-475 and 522).                                  *)
THEOREM CountsAreExact == Spec => []CountsExact
<1>1. CountsInv => CountsExact
  BY DEF CountsInv
<1> QED
  BY <1>1, CountsKept, PTL

-----------------------------------------------------------------------------
(* Counting undisturbed. *)

(* The investigation whose detection the session has not flushed yet. *)
Uncounted(s) ==
    IF pc[s] \in {"detection", "insertDetection", "flush"}
    THEN {Investigation(s)} ELSE {}

(* Nobody has committed a batch since the session's SELECT: what it has    *)
(* loaded is up to date, though others may have left it wrong, and what it *)
(* has counted itself is right.                                            *)
CalmInv(s) ==
    /\ \A r \in known[s] : ~Written(s, r) => mine[s][r] = value[r]
    /\ \A i \in Sources \cap known[s] : i \notin Uncounted(s) =>
            Count(s, i) = Cardinality(OfSource(s, i))

RecountInv == \A s \in calm : Materializing(s) => CalmInv(s)

(* A step that leaves the session's counts and what it has counted alone,  *)
(* or takes up one more investigation.                                     *)
LEMMA CalmStays ==
    ASSUME TypeOK, NEW s \in Sessions, CalmInv(s), UNCHANGED value,
           \A i \in Sources \cap known'[s] : i \notin Uncounted(s)' =>
                i \in known[s] /\ i \notin Uncounted(s) /\ Count(s, i)' = Count(s, i),
           \A r \in known'[s] : ~Written(s, r)' => mine'[s][r] = value[r],
           \A d \in Detections : Has(s, d)' <=> Has(s, d)
    PROVE  CalmInv(s)'
<1>1. \A i : OfSource(s, i)' = OfSource(s, i)
  BY DEF OfSource
<1>2. ASSUME NEW i \in Sources \cap known'[s], i \notin Uncounted(s)'
      PROVE  Count(s, i)' = Cardinality(OfSource(s, i)')
  <2>1. Count(s, i)' = Count(s, i) /\ Count(s, i) = Cardinality(OfSource(s, i))
    BY <1>2 DEF CalmInv
  <2> QED
    BY <1>1, <2>1
<1> QED
  BY <1>2 DEF CalmInv

LEMMA CalmFrame ==
    ASSUME TypeOK, NEW x \in Sessions, CalmInv(x), UNCHANGED <<exists, value>>,
           \A r \in Rows : owner'[r] = x <=> owner[r] = x,
           SameSession(x)
    PROVE  CalmInv(x)'
<1> USE DEF SameSession
<1>1. \A r \in Aggregates : /\ Written(x, r)' <=> Written(x, r)
                            /\ Has(x, r)' <=> Has(x, r)
                            /\ Count(x, r)' = Count(x, r)
  BY DEF Written, Has, Count
<1>2. known[x] \subseteq Aggregates
  BY DEF TypeOK
<1>3. Uncounted(x)' = Uncounted(x)
  BY DEF Uncounted, Investigation
<1>4. \A r \in known'[x] : ~Written(x, r)' => mine'[x][r] = value[r]
  BY <1>1, <1>2 DEF CalmInv
<1> QED
  BY <1>1, <1>3, <1>4, CalmStays

LEMMA CalmNext ==
    ASSUME TypeOK, NEW s \in Sessions, SessionInv(s), CalmInv(s), NextEvent(s)
    PROVE  CalmInv(s)'
<1>1. PICK e \in Left(s) :
        /\ IsCurrent(s, e)
        /\ \/ /\ dirty' = [dirty EXCEPT ![s] = @ \cup {e}]
              /\ UNCHANGED pc
           \/ /\ pc' = [pc EXCEPT ![s] = "investigation"]
              /\ UNCHANGED dirty
  BY DEF NextEvent
<1>2. /\ e \in Events /\ pc[s] = "event"
      /\ UNCHANGED <<exists, value, owner, known, mine>>
  BY <1>1, OneCurrent DEF NextEvent, tableVars
<1>3. /\ dirty[s] \subseteq dirty'[s] /\ dirty'[s] \subseteq dirty[s] \cup {e}
      /\ pc'[s] \in {"event", "investigation"}
  BY <1>1, <1>2 DEF TypeOK
<1>4. \A r \in Aggregates : /\ Written(s, r)' <=> Written(s, r)
                            /\ Has(s, r)' <=> Has(s, r)
                            /\ Count(s, r)' = Count(s, r)
  BY <1>2, <1>3 DEF Written, Has, Count
<1>5. known[s] \subseteq Aggregates
  BY DEF TypeOK
<1>6. Uncounted(s) = {} /\ Uncounted(s)' = {}
  BY <1>2, <1>3 DEF Uncounted
<1>7. \A r \in known'[s] : ~Written(s, r)' => mine'[s][r] = value[r]
  BY <1>2, <1>4, <1>5 DEF CalmInv
<1> QED
  BY <1>2, <1>4, <1>6, <1>7, CalmStays

LEMMA CalmInvestigation ==
    ASSUME TypeOK, NEW s \in Sessions, SessionInv(s), KnownInv(s), CalmInv(s),
           FindInvestigation(s) \/ MissInvestigation(s) \/ InsertInvestigation(s)
    PROVE  CalmInv(s)'
<1>1. pc[s] \in {"investigation", "insertInvestigation"} /\ pc[s] \in Recording
  BY DEF FindInvestigation, MissInvestigation, InsertInvestigation, Recording
<1>2. PICK i \in Sources : i = Investigation(s) /\ i \in Aggregates /\ i \notin Detections
  BY <1>1, RecordingFacts DEF SessionInv
<1>3. UNCHANGED <<exists, value, todo>> /\ Investigation(s)' = i
  BY <1>2 DEF FindInvestigation, MissInvestigation, InsertInvestigation, tableVars,
              Investigation
<1>4. /\ known[s] \subseteq Aggregates
      /\ \A r \in known[s] : ~Written(s, r) => mine[s][r] = value[r]
      /\ Uncounted(s) = {}
  BY <1>1 DEF CalmInv, TypeOK, Uncounted
<1>5. CASE FindInvestigation(s)
  <2>1. PICK v \in Reads(s, i) : mine' = [mine EXCEPT ![s][i] = v]
    BY <1>2, <1>5 DEF FindInvestigation
  <2>2. ~Written(s, i) => v = value[i]
    BY <1>4, <2>1 DEF Reads
  <2>3. /\ mine'[s][i] = v
        /\ \A r \in Aggregates : r # i => mine'[s][r] = mine[s][r]
    BY <1>2, <2>1 DEF TypeOK
  <2>4. /\ owner' = owner /\ known'[s] = known[s] \cup {i} /\ pc'[s] = "detection"
        /\ \E changed \in SUBSET {i} : dirty' = [dirty EXCEPT ![s] = @ \cup changed]
    BY <1>2, <1>5 DEF FindInvestigation, TypeOK
  <2>5. dirty[s] \subseteq dirty'[s] /\ dirty'[s] \subseteq dirty[s] \cup {i}
    BY <2>4 DEF TypeOK
  <2>6. \A r \in Aggregates : /\ Written(s, r) => Written(s, r)'
                              /\ r # i => (Written(s, r)' <=> Written(s, r))
    BY <2>4, <2>5 DEF Written
  <2>7. \A r \in Aggregates : r # i => Count(s, r)' = Count(s, r)
    BY <1>3, <2>3, <2>6 DEF Count
  <2>8. \A r \in known'[s] : ~Written(s, r)' => mine'[s][r] = value[r]
    BY <1>2, <1>4, <2>2, <2>3, <2>4, <2>6
  <2>9. \A d \in Detections : Has(s, d)' <=> Has(s, d)
    BY <1>2, <1>3, <2>6 DEF Has
  <2>10. Uncounted(s)' = {i}
    BY <1>3, <2>4 DEF Uncounted
  <2> QED
    BY <1>3, <1>4, <2>4, <2>7, <2>8, <2>9, <2>10, CalmStays
<1>6. CASE MissInvestigation(s)
  <2>1. UNCHANGED <<owner, dirty, known, mine>> /\ pc'[s] = "insertInvestigation"
    BY <1>6 DEF MissInvestigation, TypeOK
  <2>2. \A r \in Aggregates : /\ Written(s, r)' <=> Written(s, r)
                              /\ Has(s, r)' <=> Has(s, r)
                              /\ Count(s, r)' = Count(s, r)
    BY <1>3, <2>1 DEF Written, Has, Count
  <2>3. \A r \in known'[s] : ~Written(s, r)' => mine'[s][r] = value[r]
    BY <1>4, <2>1, <2>2
  <2> QED
    BY <1>3, <1>4, <2>1, <2>2, <2>3, CalmStays
<1>7. CASE InsertInvestigation(s)
  <2>1. /\ owner' = Flushed(s) /\ dirty'[s] = {} /\ pc'[s] = "detection"
        /\ known'[s] = known[s] \cup {i}
        /\ Needs(s) = dirty[s] \cup {i}
        /\ mine' = [mine EXCEPT ![s][i] = 0]
    BY <1>2, <1>7 DEF InsertInvestigation, Needs, Investigation, TypeOK
  <2>2. \A r \in Aggregates : r # i => mine'[s][r] = mine[s][r]
    BY <1>2, <2>1 DEF TypeOK
  <2>3. \A r \in Aggregates : Written(s, r)' <=> Written(s, r) \/ r = i
    BY <1>2, <2>1 DEF Written, Flushed, TypeOK
  <2>4. \A r \in Aggregates : r # i => Count(s, r)' = Count(s, r)
    BY <1>3, <2>2, <2>3 DEF Count
  <2>5. \A r \in known'[s] : ~Written(s, r)' => mine'[s][r] = value[r]
    BY <1>2, <1>4, <2>1, <2>2, <2>3
  <2>6. \A d \in Detections : Has(s, d)' <=> Has(s, d)
    BY <1>2, <1>3, <2>3 DEF Has
  <2>7. Uncounted(s)' = {i}
    BY <1>3, <2>1 DEF Uncounted
  <2> QED
    BY <1>3, <1>4, <2>1, <2>4, <2>5, <2>6, <2>7, CalmStays
<1> QED
  BY <1>5, <1>6, <1>7

LEMMA CalmDetection ==
    ASSUME TypeOK, NEW s \in Sessions, SessionInv(s), KnownInv(s), CalmInv(s),
           FindDetection(s) \/ MissDetection(s)
    PROVE  CalmInv(s)'
<1>1. pc[s] = "detection" /\ pc[s] \in Recording /\ pc'[s] \in {"flush", "insertDetection"}
  BY DEF FindDetection, MissDetection, Recording, TypeOK
<1>2. PICK d \in Detections : d = Head(todo[s]) /\ d \in Aggregates /\ d \notin Sources
  BY <1>1, RecordingFacts DEF SessionInv
<1>3. UNCHANGED <<exists, value, owner, todo>>
  BY DEF FindDetection, MissDetection, tableVars
<1>4. Uncounted(s)' = Uncounted(s)
  BY <1>1, <1>3 DEF Uncounted, Investigation
<1>5. known[s] \subseteq Aggregates /\ \A r \in known[s] : ~Written(s, r) => mine[s][r] = value[r]
  BY DEF CalmInv, TypeOK
<1>6. CASE FindDetection(s)
  <2>1. PICK v \in Reads(s, d) : mine' = [mine EXCEPT ![s][d] = v + 1]
    BY <1>2, <1>6 DEF FindDetection
  <2>2. \A r \in Aggregates : r # d => mine'[s][r] = mine[s][r]
    BY <1>2, <2>1 DEF TypeOK
  <2>3. /\ known'[s] = known[s] \cup {d} /\ dirty'[s] = dirty[s] \cup {d}
        /\ Sees(s, d)
    BY <1>2, <1>6 DEF FindDetection, TypeOK
  <2>4. \A r : Written(s, r)' <=> Written(s, r) \/ r = d
    BY <1>3, <2>3 DEF Written
  <2>5. \A x \in Detections : Has(s, x)' <=> Has(s, x)
    BY <1>2, <1>3, <2>3, <2>4, SeesHas DEF Has
  <2>6. \A r \in Aggregates : r # d => Count(s, r)' = Count(s, r)
    BY <1>3, <2>2, <2>4 DEF Count
  <2>7. \A r \in known'[s] : ~Written(s, r)' => mine'[s][r] = value[r]
    BY <1>5, <2>2, <2>3, <2>4
  <2> QED
    BY <1>2, <1>3, <1>4, <2>3, <2>5, <2>6, <2>7, CalmStays
<1>7. CASE MissDetection(s)
  <2>1. UNCHANGED <<dirty, known, mine>>
    BY <1>7 DEF MissDetection
  <2>2. \A r \in Aggregates : /\ Written(s, r)' <=> Written(s, r)
                              /\ Has(s, r)' <=> Has(s, r)
                              /\ Count(s, r)' = Count(s, r)
    BY <1>3, <2>1 DEF Written, Has, Count
  <2>3. \A r \in known'[s] : ~Written(s, r)' => mine'[s][r] = value[r]
    BY <1>5, <2>1, <2>2
  <2> QED
    BY <1>3, <1>4, <2>1, <2>2, <2>3, CalmStays
<1> QED
  BY <1>6, <1>7

LEMMA CalmFlush ==
    ASSUME TypeOK, NEW s \in Sessions, SessionInv(s), KnownInv(s), CalmInv(s),
           FlushDetection(s)
    PROVE  CalmInv(s)'
<1>1. PICK d, i : d = Head(todo[s]) /\ i = Investigation(s)
  OBVIOUS
<1>2. /\ d \in Detections /\ i \in Sources /\ InvestigationOf[d] = i
      /\ UNCHANGED <<exists, value>> /\ known'[s] = known[s] \cup {d}
  BY <1>1, FlushFacts
<1>3. \A r \in known[s] : ~Written(s, r) => mine[s][r] = value[r]
  BY DEF CalmInv
<1>4. /\ \A j \in Sources : j # d
      /\ \A x \in Detections : Has(s, x)' <=> Has(s, x) \/ x = d
      /\ \A r \in known'[s] : ~Written(s, r)' => mine'[s][r] = value'[r]
      /\ \A r \in Aggregates : r # d /\ r # i => Count(s, r)' = Count(s, r)
      /\ Count(s, i)' = Cardinality(OfSource(s, i)')
  BY <1>1, <1>3, FlushWrites
<1>5. Uncounted(s) = {i}
  BY <1>1 DEF Uncounted, FlushDetection
<1>6. ASSUME NEW j \in Sources \cap known'[s], j # i
      PROVE  Count(s, j)' = Cardinality(OfSource(s, j)')
  <2>1. Count(s, j)' = Count(s, j) /\ Count(s, j) = Cardinality(OfSource(s, j))
    BY <1>2, <1>4, <1>5, <1>6 DEF CalmInv
  <2>2. OfSource(s, j)' = OfSource(s, j)
    BY <1>2, <1>4, <1>6 DEF OfSource
  <2> QED
    BY <2>1, <2>2
<1> QED
  BY <1>2, <1>4, <1>6 DEF CalmInv

(* A session stays calm, or becomes so, only when it scans or while nobody *)
(* commits a batch.                                                        *)
LEMMA CalmOnly ==
    ASSUME NEW s \in Sessions,
           \/ Step(s) \/ Fail(s)
           \/ \E e \in Events : Request(s, e)
           \/ s = Worker /\ (WorkerRound \/ WorkerRestart)
    PROVE  /\ CommitBatch(s) => calm' = {}
           /\ Rollback(s) => calm' = calm \ {s}
           /\ calm' \subseteq calm \cup {s}
           /\ s \in calm' => s \in calm \/ ScanPending(s)
<1>1. Rollback(s) => calm' = calm \ {s}
  BY DEF Rollback
<1>2. CASE Step(s) \/ Fail(s)
  BY <1>1, <1>2, RollbackEnds
     DEF Step, Ingest, Materialize, FindEvent, InsertEvent, CommitEvent, ScanPending,
         NextEvent, FindInvestigation, MissInvestigation, InsertInvestigation,
         FindDetection, MissDetection, FlushDetection, CommitBatch
<1>3. CASE \/ \E e \in Events : Request(s, e)
           \/ s = Worker /\ (WorkerRound \/ WorkerRestart)
  <2>1. calm' = calm
    BY <1>3 DEF Request, WorkerRound, WorkerRestart
  <2>2. ~CommitBatch(s)
    BY <1>3 DEF Request, WorkerRound, WorkerRestart, CommitBatch
  <2> QED
    BY <1>1, <2>1, <2>2
<1> QED
  BY <1>2, <1>3

LEMMA CalmOwn ==
    ASSUME IngestInv, CountsInv, RecountInv, NEW s \in Sessions,
           \/ Step(s) \/ Fail(s)
           \/ \E e \in Events : Request(s, e)
           \/ s = Worker /\ (WorkerRound \/ WorkerRestart),
           s \in calm', Materializing(s)'
    PROVE  CalmInv(s)'
<1>1. TypeOK /\ SessionInv(s) /\ KnownInv(s)
  BY DEF IngestInv, CountsInv
<1>2. ~Rollback(s) /\ ~CommitBatch(s)
  BY CalmOnly
<1>3. CASE ScanPending(s)
  <2>1. known'[s] = {} /\ known' = known
    BY <1>1, <1>3 DEF ScanPending, SessionInv, FreshInv, Recording
  <2> QED
    BY <2>1 DEF CalmInv
<1>4. CASE ~ScanPending(s)
  <2>1. ~Ingest(s) /\ Step(s)
    BY <1>1, <1>2, EntersByScan, RollbackEnds
  <2>2. \/ NextEvent(s)
        \/ FindInvestigation(s) \/ MissInvestigation(s) \/ InsertInvestigation(s)
        \/ FindDetection(s) \/ MissDetection(s) \/ FlushDetection(s)
    BY <1>2, <1>4, <2>1, RollbackEnds DEF Step, Materialize
  <2>3. Materializing(s)
    BY <2>2 DEF NextEvent, FindInvestigation, MissInvestigation, InsertInvestigation,
                FindDetection, MissDetection, FlushDetection, Materializing
  <2>4. CalmInv(s)
    BY <1>4, <2>3, CalmOnly DEF RecountInv
  <2> QED
    BY <1>1, <2>2, <2>4, CalmNext, CalmInvestigation, CalmDetection, CalmFlush
<1> QED
  BY <1>3, <1>4

LEMMA CalmOthers ==
    ASSUME IngestInv, RecountInv, NEW s \in Sessions, NEW x \in Sessions, x # s,
           \/ Step(s) \/ Fail(s)
           \/ \E e \in Events : Request(s, e)
           \/ s = Worker /\ (WorkerRound \/ WorkerRestart),
           x \in calm', Materializing(x)'
    PROVE  CalmInv(x)'
<1>1. TypeOK
  BY DEF IngestInv
<1>2. SameSession(x) /\ LocksOf(s)
  BY <1>1, OthersSame
<1>3. \A r \in Rows : owner'[r] = x <=> owner[r] = x
  BY <1>1, <1>2, OwnerFrame DEF LocksOf
<1>4. ~CommitBatch(s) /\ x \in calm
  BY CalmOnly
<1>5. UNCHANGED <<exists, value>>
  BY <1>4, OnlyCommits
<1>6. Materializing(x)
  BY <1>2 DEF SameSession, Materializing
<1>7. CalmInv(x)
  BY <1>4, <1>6 DEF RecountInv
<1> QED
  BY <1>1, <1>2, <1>3, <1>5, <1>7, CalmFrame

(* What a session that nobody disturbed has counted is right.              *)
THEOREM RecountKept == Spec => []RecountInv
<1>1. Init => RecountInv
  BY DEF Init, RecountInv
<1>2. IngestInv /\ CountsInv /\ RecountInv /\ [Next]_vars => RecountInv'
  <2> SUFFICES ASSUME IngestInv, CountsInv, RecountInv, [Next]_vars,
                      NEW x \in calm', Materializing(x)'
               PROVE  CalmInv(x)'
    BY DEF RecountInv
  <2>1. TypeOK
    BY DEF IngestInv
  <2>2. CASE UNCHANGED vars
    <3>1. x \in Sessions /\ x \in calm /\ Materializing(x)
      BY <2>1, <2>2 DEF vars, TypeOK, Materializing
    <3>2. CalmInv(x)
      BY <3>1 DEF RecountInv
    <3> QED
      BY <2>1, <2>2, <3>1, <3>2, CalmFrame DEF vars, SameSession
  <2>3. CASE Next
    <3>1. PICK s \in Sessions :
              \/ Step(s) \/ Fail(s)
              \/ \E e \in Events : Request(s, e)
              \/ s = Worker /\ (WorkerRound \/ WorkerRestart)
      BY <2>3 DEF Next
    <3>2. x \in Sessions
      BY <2>1, <3>1, CalmOnly DEF TypeOK
    <3> QED
      BY <3>1, <3>2, CalmOwn, CalmOthers
  <2> QED
    BY <2>2, <2>3
<1> QED
  BY <1>1, <1>2, InductiveIngest, CountsKept, PTL DEF Spec

(* The statistics of an investigation that overlapping materializations    *)
(* have left wrong are right again with the next one that touches it and   *)
(* that nobody disturbs: they are counted, never added to                  *)
(* (services.py:473-483).                                                  *)
THEOREM StatisticsHeal == Spec => InvestigationsRecounted
<1>1. IngestInv /\ RecountInv /\ [Next]_vars =>
        [\A s \in calm : CommitBatch(s) =>
            \A i \in Sources \cap known[s] :
                value'[i] = Cardinality({d \in Detections :
                                exists'[d] /\ InvestigationOf[d] = i})]_vars
  <2> SUFFICES ASSUME IngestInv, RecountInv, NEW s \in calm, CommitBatch(s),
                      NEW i \in Sources, i \in known[s]
               PROVE  value'[i] = Cardinality({d \in Detections :
                                      exists'[d] /\ InvestigationOf[d] = i})
    OBVIOUS
  <2>1. /\ pc[s] = "event"
        /\ \A r \in Aggregates : exists'[r] = Has(s, r)
        /\ \A r \in Aggregates : value'[r] = Count(s, r)
    BY DEF CommitBatch, Has, Written, Count
  <2>2. CalmInv(s)
    BY <2>1 DEF RecountInv, Materializing
  <2>3. Uncounted(s) = {}
    BY <2>1 DEF Uncounted
  <2>4. Count(s, i) = Cardinality(OfSource(s, i))
    BY <2>2, <2>3 DEF CalmInv
  <2>5. OfSource(s, i) = {d \in Detections : exists'[d] /\ InvestigationOf[d] = i}
    BY <2>1 DEF OfSource
  <2> QED
    BY <2>1, <2>4, <2>5
<1> QED
  BY <1>1, InductiveIngest, RecountKept, PTL DEF Spec, InvestigationsRecounted

=============================================================================

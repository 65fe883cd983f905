----------------------------- MODULE IngestApi -----------------------------
(***************************************************************************)
(* Concurrent transactions of the control plane (ingest_api/main.py,       *)
(* services.py, worker.py, database.py) on its PostgreSQL database.        *)
(*                                                                         *)
(* Each API request that ingests an event stores it in one transaction and *)
(* then, in a second one, materializes detections for every event that is  *)
(* still pending; the worker process does the latter in a loop.  Several   *)
(* API replicas and the worker run at once, on READ COMMITTED: a SELECT    *)
(* sees what is committed when it runs, and what its own transaction has   *)
(* written; an INSERT or UPDATE locks its row until the transaction ends.  *)
(* An INSERT that waited for another one of the same key fails with a      *)
(* unique violation once that one is committed; an UPDATE that waited goes *)
(* on with the value that was computed from the older SELECT.              *)
(*                                                                         *)
(* The detections an event gives rise to are those of the rules on its own *)
(* tags and path (services.py:554-561): they do not depend on which other  *)
(* events are visible.  Fleet rows, which the same transactions touch, are *)
(* left out: what can go wrong with them is an exception here (Fail).      *)
(***************************************************************************)
EXTENDS Integers, Sequences, FiniteSets, Functions

CONSTANTS
    Events,         \* event ids, as numbers in the order of occurred_at
    Detections,     \* detection fingerprints
    Sources,        \* investigation fingerprints: source addresses
    Emits,          \* the detections each event gives rise to, in order
    SourceOf,       \* the source of each event
    InvestigationOf,\* the source of each detection
    Apis,           \* requests being served, by any replica
    Worker,         \* the worker process
    NoSession,      \* a row that is not locked
    NoEvent,        \* a session that serves no request
    ApiLimit, WorkerLimit,      \* materialize_detections(limit)
    MaxRequests,    \* bound: requests in all
    MaxFails        \* bound: exceptions and crashes from outside this module

Sessions == Apis \cup {Worker}
Aggregates == Detections \cup Sources
Rows == Events \cup Aggregates

ASSUME EventsAssumption ==
    /\ Events \subseteq Nat
    /\ NoEvent \notin Events
    /\ Worker \notin Apis
    /\ NoSession \notin Sessions
ASSUME RowsAssumption ==
    /\ Events \cap Aggregates = {}
    /\ Detections \cap Sources = {}
    /\ IsFiniteSet(Detections)
ASSUME EmitsAssumption ==
    /\ Emits \in [Events -> Seq(Detections)]
    /\ SourceOf \in [Events -> Sources]
    /\ InvestigationOf \in [Detections -> Sources]
    /\ \A e \in Events : \A d \in Range(Emits[e]) :
            InvestigationOf[d] = SourceOf[e]
    /\ \A e \in Events : \A i, j \in DOMAIN Emits[e] :
            Emits[e][i] = Emits[e][j] => i = j
ASSUME LimitsAssumption ==
    /\ ApiLimit \in Nat \ {0} /\ WorkerLimit \in Nat \ {0}
    /\ MaxRequests \in Nat /\ MaxFails \in Nat

VARIABLES
    stored,       \* committed event rows
    processed,    \* those with alert_processed
    exists,       \* committed detection and investigation rows
    value,        \* their committed occurrences or detection_count
    owner,        \* which transaction has locked each row
    pc,           \* where each session is
    job,          \* the event of the request it serves
    batch,        \* pending_events
    done,         \* those it has been through
    dirty,        \* rows changed in the session but not flushed
    todo,         \* detections still to record for the current event
    known,        \* rows its transaction has loaded or written
    mine,         \* its own values of them
    acked,        \* events answered "stored"
    raced,        \* two materializations have overlapped
    calm,         \* sessions since whose SELECT of pending events no other
                  \* session has committed a batch
    requests, fails     \* counted for the bounds

sessionVars == <<pc, job, batch, done, dirty, todo, known, mine>>
tableVars == <<stored, processed, exists, value>>
vars == <<stored, processed, exists, value, owner, pc, job, batch, done,
          dirty, todo, known, mine, acked, raced, calm, requests, fails>>

-----------------------------------------------------------------------------
(* Helpers. *)

Limit(s) == IF s = Worker THEN WorkerLimit ELSE ApiLimit

(* The first n events of a set, in the order of occurred_at. *)
FirstOf(es, n) == {e \in es : Cardinality({x \in es : x <= e}) <= n}

(* The event a materialization is at: the first it has not been through. *)
Left(s) == batch[s] \ done[s]
IsCurrent(s, e) == e \in Left(s) /\ \A x \in Left(s) : e <= x

(* Rows the session has changed, and so sees as it left them. *)
Written(s, r) == owner[r] = s \/ r \in dirty[s]

(* What a SELECT in session s finds, and the values it may give the row:  *)
(* an object that is loaded already is not refreshed, but one that is     *)
(* unchanged may have been collected since.                               *)
Sees(s, r) == r \in known[s] \/ exists[r]
Reads(s, r) ==
    IF Written(s, r) THEN {mine[s][r]}
    ELSE {value[r]} \cup {mine[s][x] : x \in known[s] \cap {r}}

(* The rows whose locks the next flush of a session takes. *)
Needs(s) ==
    CASE pc[s] = "insert" -> {job[s]}
      [] pc[s] = "insertInvestigation" ->
            dirty[s] \cup {InvestigationOf[Head(todo[s])]}
      [] pc[s] = "insertDetection" -> dirty[s] \cup {Head(todo[s])}
      [] pc[s] = "flush" -> dirty[s]
      [] pc[s] = "event" /\ Left(s) = {} -> dirty[s]
      [] OTHER -> {}

(* Those locks are to be had; the locks once they are. *)
CanFlush(s) == \A r \in Needs(s) : owner[r] \in {NoSession, s}
Flushed(s) == [r \in Rows |-> IF r \in Needs(s) THEN s ELSE owner[r]]

Released(s) == [r \in Rows |-> IF owner[r] = s THEN NoSession ELSE owner[r]]

Materializing(s) ==
    pc[s] \in {"event", "investigation", "insertInvestigation",
               "detection", "insertDetection", "flush"}

Init ==
    /\ stored = {} /\ processed = {}
    /\ exists = [r \in Aggregates |-> FALSE]
    /\ value = [r \in Aggregates |-> 0]
    /\ owner = [r \in Rows |-> NoSession]
    /\ pc = [s \in Sessions |-> "idle"]
    /\ job = [s \in Sessions |-> NoEvent]
    /\ batch = [s \in Sessions |-> {}]
    /\ done = [s \in Sessions |-> {}]
    /\ dirty = [s \in Sessions |-> {}]
    /\ todo = [s \in Sessions |-> <<>>]
    /\ known = [s \in Sessions |-> {}]
    /\ mine = [s \in Sessions |-> [r \in Aggregates |-> 0]]
    /\ acked = {} /\ raced = FALSE /\ calm = {}
    /\ requests = 0 /\ fails = 0

(* The session is over: what it had in memory and its locks are gone. *)
EndSession(s, to) ==
    /\ owner' = Released(s)
    /\ pc' = [pc EXCEPT ![s] = to]
    /\ job' = [job EXCEPT ![s] = NoEvent]
    /\ batch' = [batch EXCEPT ![s] = {}]
    /\ done' = [done EXCEPT ![s] = {}]
    /\ dirty' = [dirty EXCEPT ![s] = {}]
    /\ todo' = [todo EXCEPT ![s] = <<>>]
    /\ known' = [known EXCEPT ![s] = {}]
    /\ mine' = [mine EXCEPT ![s] = [r \in Aggregates |-> 0]]

(* Variant: the exception is swallowed. *)
RollbackAnswersStored(s) ==
    /\ EndSession(s, IF s = Worker THEN "down" ELSE "idle")
    /\ acked' = IF s = Worker THEN acked ELSE acked \cup {job[s]}
    /\ calm' = calm \ {s}
    /\ UNCHANGED <<tableVars, raced, requests>>

(* Variant: what was flushed before the exception is committed. *)
RollbackCommits(s) ==
    /\ EndSession(s, IF s = Worker THEN "down" ELSE "idle")
    /\ exists' = [r \in Aggregates |-> exists[r] \/ owner[r] = s]
    /\ value' = [r \in Aggregates |->
                    IF owner[r] = s THEN mine[s][r] ELSE value[r]]
    /\ calm' = calm \ {s}
    /\ UNCHANGED <<stored, processed, acked, raced, requests>>

(* An exception in a transaction: it is rolled back.  An API request is   *)
(* answered 400, whatever it has committed before; the worker's exception *)
(* leaves main() and ends the process.                                    *)
Rollback(s) ==
    /\ EndSession(s, IF s = Worker THEN "down" ELSE "idle")
    /\ calm' = calm \ {s}
    /\ UNCHANGED <<tableVars, acked, raced, requests>>

-----------------------------------------------------------------------------
(* POST /api/v1/events: the first transaction, insert_event. *)

Request(s, e) ==
    /\ s \in Apis
    /\ pc[s] = "idle"
    /\ requests < MaxRequests
    /\ requests' = requests + 1
    /\ pc' = [pc EXCEPT ![s] = "select"]
    /\ job' = [job EXCEPT ![s] = e]
    /\ UNCHANGED <<tableVars, owner, batch, done, dirty, todo, known, mine,
                   acked, raced, calm, fails>>

(* Look the event id up: an event that is stored already is returned as   *)
(* it is.                                                                 *)
FindEvent(s) ==
    /\ pc[s] = "select"
    /\ pc' = [pc EXCEPT ![s] = IF job[s] \in stored THEN "commit" ELSE "insert"]
    /\ UNCHANGED <<tableVars, owner, job, batch, done, dirty, todo, known,
                   mine, acked, raced, calm, requests, fails>>

(* Insert the event.  It waits for another transaction that is inserting  *)
(* the same event id.                                                     *)
InsertEvent(s) ==
    /\ pc[s] = "insert"
    /\ job[s] \notin stored
    /\ CanFlush(s)
    /\ owner' = Flushed(s)
    /\ pc' = [pc EXCEPT ![s] = "commit"]
    /\ UNCHANGED <<tableVars, job, batch, done, dirty, todo, known, mine,
                   acked, raced, calm, requests, fails>>

(* The other transaction was first. *)
EventExists(s) ==
    /\ pc[s] = "insert"
    /\ job[s] \in stored
    /\ Rollback(s)
    /\ UNCHANGED fails

(* Variant: the row is written afresh, also when there was one. *)
CommitEventAfresh(s) ==
    /\ pc[s] = "commit"
    /\ stored' = stored \cup {job[s]}
    /\ processed' = processed \ {job[s]}
    /\ owner' = Released(s)
    /\ pc' = [pc EXCEPT ![s] = "scan"]
    /\ UNCHANGED <<exists, value, job, batch, done, dirty, todo, known,
                   mine, acked, raced, calm, requests, fails>>

(* The first commit of _handle_ingest. *)
CommitEvent(s) ==
    /\ pc[s] = "commit"
    /\ stored' = stored \cup {job[s]}
    /\ owner' = Released(s)
    /\ pc' = [pc EXCEPT ![s] = "scan"]
    /\ UNCHANGED <<processed, exists, value, job, batch, done, dirty, todo,
                   known, mine, acked, raced, calm, requests, fails>>

-----------------------------------------------------------------------------
(* materialize_detections, by an API request or by the worker. *)

(* The worker opens a new session for every round. *)
WorkerRound ==
    /\ pc[Worker] = "idle"
    /\ pc' = [pc EXCEPT ![Worker] = "scan"]
    /\ UNCHANGED <<tableVars, owner, job, batch, done, dirty, todo, known,
                   mine, acked, raced, calm, requests, fails>>

(* Variant: the pending events are claimed by marking them first. *)
ScanPendingClaims(s) ==
    /\ pc[s] = "scan"
    /\ batch' = [batch EXCEPT ![s] = FirstOf(stored \ processed, Limit(s))]
    /\ processed' = processed \cup FirstOf(stored \ processed, Limit(s))
    /\ pc' = [pc EXCEPT ![s] = "event"]
    /\ raced' = (raced \/ \E x \in Sessions \ {s} : Materializing(x))
    /\ calm' = calm \cup {s}
    /\ UNCHANGED <<stored, exists, value, owner, job, done, dirty, todo,
                   known, mine, acked, requests, fails>>

(* Select the pending events. *)
ScanPending(s) ==
    /\ pc[s] = "scan"
    /\ batch' = [batch EXCEPT ![s] = FirstOf(stored \ processed, Limit(s))]
    /\ pc' = [pc EXCEPT ![s] = "event"]
    /\ raced' = (raced \/ \E x \in Sessions \ {s} : Materializing(x))
    /\ calm' = calm \cup {s}
    /\ UNCHANGED <<tableVars, owner, job, done, dirty, todo, known, mine,
                   acked, requests, fails>>

(* Go to the next event; it has detections to record, or none. *)
NextEvent(s) ==
    /\ pc[s] = "event"
    /\ \E e \in Left(s) :
        /\ IsCurrent(s, e)
        /\ IF Emits[e] = <<>>
           THEN /\ done' = [done EXCEPT ![s] = @ \cup {e}]
                /\ dirty' = [dirty EXCEPT ![s] = @ \cup {e}]
                /\ UNCHANGED <<pc, todo>>
           ELSE /\ todo' = [todo EXCEPT ![s] = Emits[e]]
                /\ pc' = [pc EXCEPT ![s] = "investigation"]
                /\ UNCHANGED <<done, dirty>>
    /\ UNCHANGED <<tableVars, owner, job, batch, known, mine, acked, raced, calm,
                   requests, fails>>

(* The investigation of the detection that is being recorded. *)
Investigation(s) == InvestigationOf[Head(todo[s])]

(* _ensure_investigation finds the investigation.  It sets last_seen,     *)
(* which makes the row dirty unless the event is an older one.            *)
FindInvestigation(s) ==
    LET i == Investigation(s)
    IN  /\ pc[s] = "investigation"
        /\ Sees(s, i)
        /\ \E v \in Reads(s, i) : mine' = [mine EXCEPT ![s][i] = v]
        /\ known' = [known EXCEPT ![s] = @ \cup {i}]
        /\ \E changed \in SUBSET {i} :
                dirty' = [dirty EXCEPT ![s] = @ \cup changed]
        /\ pc' = [pc EXCEPT ![s] = "detection"]
        /\ UNCHANGED <<tableVars, owner, job, batch, done, todo, acked,
                       raced, calm, requests, fails>>

(* It finds none. *)
MissInvestigation(s) ==
    /\ pc[s] = "investigation"
    /\ ~Sees(s, Investigation(s))
    /\ pc' = [pc EXCEPT ![s] = "insertInvestigation"]
    /\ UNCHANGED <<tableVars, owner, job, batch, done, dirty, todo, known,
                   mine, acked, raced, calm, requests, fails>>

(* And inserts it, with detection_count 0. *)
InsertInvestigation(s) ==
    LET i == Investigation(s)
    IN  /\ pc[s] = "insertInvestigation"
        /\ ~exists[i]
        /\ CanFlush(s)
        /\ owner' = Flushed(s)
        /\ dirty' = [dirty EXCEPT ![s] = {}]
        /\ mine' = [mine EXCEPT ![s][i] = 0]
        /\ known' = [known EXCEPT ![s] = @ \cup {i}]
        /\ pc' = [pc EXCEPT ![s] = "detection"]
        /\ UNCHANGED <<tableVars, job, batch, done, todo, acked, raced, calm,
                       requests, fails>>

(* _record_detection finds the detection and adds one to its occurrences. *)
FindDetection(s) ==
    LET d == Head(todo[s])
    IN  /\ pc[s] = "detection"
        /\ Sees(s, d)
        /\ \E v \in Reads(s, d) : mine' = [mine EXCEPT ![s][d] = v + 1]
        /\ known' = [known EXCEPT ![s] = @ \cup {d}]
        /\ dirty' = [dirty EXCEPT ![s] = @ \cup {d}]
        /\ pc' = [pc EXCEPT ![s] = "flush"]
        /\ UNCHANGED <<tableVars, owner, job, batch, done, todo, acked,
                       raced, calm, requests, fails>>

(* It finds none. *)
MissDetection(s) ==
    /\ pc[s] = "detection"
    /\ ~Sees(s, Head(todo[s]))
    /\ pc' = [pc EXCEPT ![s] = "insertDetection"]
    /\ UNCHANGED <<tableVars, owner, job, batch, done, dirty, todo, known,
                   mine, acked, raced, calm, requests, fails>>

(* The detections of an investigation that the session can see once it    *)
(* has flushed this one.                                                  *)
DetectionCount(s, i, d) ==
    Cardinality({x \in Detections :
                    InvestigationOf[x] = i /\ (x = d \/ Sees(s, x))})

(* Flush the detection, updated or new; then _update_investigation_stats  *)
(* sets detection_count; decoy_spread and activity_class go with it.      *)
(* After the last detection of the event, alert_processed is set.         *)
FlushDetection(s) ==
    LET d == Head(todo[s])
        i == Investigation(s)
        rest == Tail(todo[s])
        occurrences == IF pc[s] = "flush" THEN mine[s][d] ELSE 1
        count == DetectionCount(s, i, d)
        event == IF rest = <<>> THEN {e \in Left(s) : IsCurrent(s, e)} ELSE {}
        recount == IF count = mine[s][i] THEN {} ELSE {i}
    IN  /\ pc[s] \in {"flush", "insertDetection"}
        /\ pc[s] = "insertDetection" => ~exists[d]
        /\ CanFlush(s)
        /\ owner' = Flushed(s)
        /\ mine' = [mine EXCEPT ![s][d] = occurrences, ![s][i] = count]
        /\ known' = [known EXCEPT ![s] = @ \cup {d}]
        /\ todo' = [todo EXCEPT ![s] = rest]
        /\ done' = [done EXCEPT ![s] = @ \cup event]
        /\ dirty' = [dirty EXCEPT ![s] = recount \cup event]
        /\ pc' = [pc EXCEPT ![s] = IF rest = <<>> THEN "event" ELSE "investigation"]
        /\ UNCHANGED <<tableVars, job, batch, acked, raced, calm, requests, fails>>

(* Another transaction has committed the row that was to be inserted. *)
AggregateExists(s) ==
    /\ \/ pc[s] = "insertInvestigation" /\ exists[Investigation(s)]
       \/ pc[s] = "insertDetection" /\ exists[Head(todo[s])]
    /\ Rollback(s)
    /\ UNCHANGED fails

(* Variant: alert_processed is set after the loop, for its last event. *)
MarkedLast(s) == {e \in done[s] : \A x \in done[s] : x <= e}

(* Variant: an event with no detection is passed over before it is marked. *)
MarkedDetected(s) == {e \in done[s] : Emits[e] # <<>>}

(* The events whose alert_processed the session has set. *)
Marked(s) == done[s]

(* Variant: the worker's round has an answer as well. *)
AnsweredAlways(s) == {job[s]}

(* The event a session that ends well answers "stored" for. *)
Answered(s) == IF s = Worker THEN {} ELSE {job[s]}

(* Every pending event is done: the final flush and the commit.  The      *)
(* request is answered "stored"; the worker goes to its next round.       *)
CommitBatch(s) ==
    LET written == {r \in Aggregates : owner[r] = s \/ r \in dirty[s]}
    IN  /\ pc[s] = "event"
        /\ Left(s) = {}
        /\ CanFlush(s)
        /\ processed' = processed \cup Marked(s)
        /\ exists' = [r \in Aggregates |-> exists[r] \/ r \in written]
        /\ value' = [r \in Aggregates |->
                        IF r \in written THEN mine[s][r] ELSE value[r]]
        /\ acked' = acked \cup Answered(s)
        /\ calm' = {}
        /\ EndSession(s, "idle")
        /\ UNCHANGED <<stored, raced, requests, fails>>

-----------------------------------------------------------------------------
(* Failures. *)

(* PostgreSQL ends one transaction of a cycle in which each waits for a   *)
(* lock of another.  A flush takes its locks one by one: one that waits   *)
(* may have taken some of the others already.                             *)
WaitsFor(s, x) ==
    /\ s # x
    /\ \E r \in Needs(s) :
        \/ owner[r] = x
        \/ owner[r] = NoSession /\ r \in Needs(x) /\ ~CanFlush(x)

(* Variant: the exception is caught and the statement tried again.        *)
DeadlockRetried(s) ==
    /\ \E cycle \in SUBSET Sessions :
        /\ s \in cycle
        /\ \A x \in cycle : \E y \in cycle : WaitsFor(x, y)
    /\ UNCHANGED vars

(* The victim's transaction is rolled back as with any exception.         *)
DeadlockVictim(s) ==
    /\ \E cycle \in SUBSET Sessions :
        /\ s \in cycle
        /\ \A x \in cycle : \E y \in cycle : WaitsFor(x, y)
    /\ Rollback(s)
    /\ UNCHANGED fails

(* Any other exception, a lost connection or the death of the process. *)
Fail(s) ==
    /\ pc[s] \notin {"idle", "down"}
    /\ fails < MaxFails
    /\ fails' = fails + 1
    /\ Rollback(s)

(* The worker's container is started again. *)
WorkerRestart ==
    /\ pc[Worker] = "down"
    /\ pc' = [pc EXCEPT ![Worker] = "idle"]
    /\ UNCHANGED <<tableVars, owner, job, batch, done, dirty, todo, known,
                   mine, acked, raced, calm, requests, fails>>

-----------------------------------------------------------------------------

Ingest(s) ==
    FindEvent(s) \/ InsertEvent(s) \/ EventExists(s) \/ CommitEvent(s)

Materialize(s) ==
    \/ ScanPending(s) \/ NextEvent(s)
    \/ FindInvestigation(s) \/ MissInvestigation(s) \/ InsertInvestigation(s)
    \/ FindDetection(s) \/ MissDetection(s) \/ FlushDetection(s)
    \/ AggregateExists(s) \/ CommitBatch(s)

Step(s) == Ingest(s) \/ Materialize(s) \/ DeadlockVictim(s)

Next ==
    \/ \E s \in Sessions : Step(s) \/ Fail(s) \/ \E e \in Events : Request(s, e)
    \/ WorkerRound \/ WorkerRestart

(* Requests and rounds that have begun go on.  A session that waits for a *)
(* row stands in PostgreSQL's queue for it and gets it in its turn, though *)
(* others come and go: hence strong fairness.  The worker loops for ever  *)
(* (worker.py:10-15) and is started again when it ends (the Deployment    *)
(* restarts its container).  Nothing makes a decoy send.                  *)
Fairness ==
    /\ \A s \in Sessions : SF_vars(Step(s))
    /\ WF_vars(WorkerRound) /\ WF_vars(WorkerRestart)

Spec == Init /\ [][Next]_vars
FairSpec == Spec /\ Fairness

-----------------------------------------------------------------------------
(* Properties. *)

(* Every variable stays in its type. *)
TypeOK ==
    /\ stored \subseteq Events /\ processed \subseteq Events
    /\ exists \in [Aggregates -> BOOLEAN]
    /\ value \in [Aggregates -> Nat]
    /\ owner \in [Rows -> Sessions \cup {NoSession}]
    /\ pc \in [Sessions ->
            {"idle", "down", "select", "insert", "commit", "scan", "event",
             "investigation", "insertInvestigation", "detection",
             "insertDetection", "flush"}]
    /\ job \in [Sessions -> Events \cup {NoEvent}]
    /\ batch \in [Sessions -> SUBSET Events]
    /\ done \in [Sessions -> SUBSET Events]
    /\ dirty \in [Sessions -> SUBSET Rows]
    /\ todo \in [Sessions -> Seq(Detections)]
    /\ known \in [Sessions -> SUBSET Aggregates]
    /\ mine \in [Sessions -> [Aggregates -> Nat]]
    /\ acked \subseteq Events
    /\ raced \in BOOLEAN /\ calm \subseteq Sessions
    /\ requests \in 0..MaxRequests /\ fails \in 0..MaxFails

(* "stored" is the truth: an event whose request was answered so is       *)
(* committed, and a concurrent rollback does not take it back             *)
(* (main.py:103-112).                                                     *)
AcknowledgedIsStored == acked \subseteq stored

(* alert_processed is never ahead of the detections: an event that is     *)
(* marked has all of its detections committed, whatever transactions were *)
(* rolled back (services.py:573-590).  A lost one would never be          *)
(* recorded, since a marked event is not looked at again.                 *)
ProcessedIsRecorded ==
    \A e \in processed : \A d \in Range(Emits[e]) :
        exists[d] /\ exists[InvestigationOf[d]]

(* No detection without an event: a committed detection belongs to an     *)
(* event that is stored and marked, so that deleting duplicates of a      *)
(* retried request never leaves one behind.                               *)
RecordedIsProcessed ==
    \A d \in Detections : exists[d] =>
        /\ \E e \in processed \cap stored : d \in Range(Emits[e])
        /\ value[d] > 0

(* The numbers the console shows are exact as long as no two              *)
(* materializations overlap, however often a request is repeated and      *)
(* whatever fails in between: occurrences is the number of processed      *)
(* events of the detection (services.py:522), detection_count the number  *)
(* of detections of the investigation (services.py:473-475).              *)
CountsExact ==
    ~raced =>
        /\ \A d \in Detections :
            value[d] = Cardinality({e \in processed : d \in Range(Emits[e])})
        /\ \A i \in Sources :
            value[i] = Cardinality({d \in Detections :
                                        exists[d] /\ InvestigationOf[d] = i})

(* What overlapping materializations make of the statistics of an         *)
(* investigation, each writing what its own older SELECT gave             *)
(* (services.py:473-483), does not last: the next one that no other one   *)
(* disturbs leaves detection_count right, and with it decoy_spread and    *)
(* activity_class, in every investigation it touches.  It would last if   *)
(* the count were kept by adding to it.                                   *)
InvestigationsRecounted ==
    [][\A s \in calm : CommitBatch(s) =>
        \A i \in Sources \cap known[s] :
            value'[i] = Cardinality({d \in Detections :
                            exists'[d] /\ InvestigationOf[d] = i})]_vars

(* What the console says of a detection, "occurrences linked              *)
(* observations" (DetectionsPage.tsx:247): they are the processed events  *)
(* it stands for.  Two materializations that overlap count an event twice *)
(* or lose one (services.py:498 and 522), so this is violated.            *)
OccurrencesAreObservations ==
    \A d \in Detections :
        value[d] = Cardinality({e \in processed : d \in Range(Emits[e])})

(* Every stored event is materialized in the end, by an API request or by *)
(* the worker, although conflicts abort some of their transactions.       *)
EventuallyProcessed ==
    \A e \in Events : e \in stored ~> e \in processed

(* Every request comes to an end: no session waits for a row lock for     *)
(* ever, neither in a cycle of sessions that lock detections and          *)
(* investigations in the order of their batches (services.py:498-536),    *)
(* nor behind a worker that is rolled back and comes again and again.     *)
RequestsEnd == \A s \in Apis : pc[s] # "idle" ~> pc[s] = "idle"

=============================================================================

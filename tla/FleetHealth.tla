---------------------------- MODULE FleetHealth ----------------------------
(***************************************************************************)
(* What the control plane knows of its decoys: the decoy and deployment    *)
(* rows, and how the inventory, heartbeats, events and the passing of time *)
(* change them (ingest_api/services.py:147-442, main.py, worker.py).       *)
(*                                                                         *)
(* Every request works through a few stages in one session: it reconciles  *)
(* the rows with the expected fleet, applies a heartbeat or an event,      *)
(* refreshes the health of all decoys, reads them for an answer.  A stage  *)
(* loads rows and later flushes what it changed of them.  Sessions run at  *)
(* once, on READ COMMITTED: an UPDATE waits for the transaction that has   *)
(* locked the row, and then writes the columns this session has changed,   *)
(* computed from what it loaded before.  The answer to a GET is computed   *)
(* from its own changes, which are rolled back with its session.           *)
(*                                                                         *)
(* Heartbeats come through relays: of any age, in any order, repeated.     *)
(* A decoy and its deployment are written by the same transactions, and    *)
(* are one row here.                                                       *)
(***************************************************************************)
EXTENDS Integers, Sequences, FiniteSets

CONSTANTS
    Decoys,         \* decoy ids
    Expected,       \* those of settings.expected_fleet()
    Sites,          \* site names, with the placeholder
    Unknown,        \* the placeholder "unknown"
    Inventory,      \* the site the inventory gives each expected decoy
    Reported,       \* the site in the configuration of each decoy
    Apis,           \* requests being served, by any replica
    Worker,         \* the worker process
    NoSession,      \* a row that is not locked
    Degraded,       \* heartbeat_degraded_seconds
    Silent,         \* heartbeat_silent_seconds
    Kinds,          \* the kinds of requests that are made
    MaxTime,        \* bound: the clock stops here
    MaxRequests,    \* bound: requests in all
    MaxFails        \* bound: exceptions and crashes from outside this module

Sessions == Apis \cup {Worker}

(* The stages of the handlers.  "load" stages read rows and flush changes; *)
(* the others end a transaction or read the rows for the answer.           *)
LoadStages == {"reconcile", "refresh", "heartbeat", "event"}
Stages == LoadStages \cup {"report", "commit", "close"}

(* ingest_heartbeat; _handle_ingest with a new and with a known event id; *)
(* list_fleet; fleet_coverage and posture; the HTML management summary;   *)
(* the loop of the worker.                                                *)
Program(kind) ==
    CASE kind = "heartbeat" -> <<"reconcile", "heartbeat", "commit">>
      [] kind = "event" ->
            <<"reconcile", "event", "commit", "reconcile", "refresh", "commit">>
      [] kind = "repeat" ->
            <<"reconcile", "commit", "reconcile", "refresh", "commit">>
      [] kind = "fleet" ->
            <<"refresh", "reconcile", "refresh", "report", "close">>
      [] kind = "posture" -> <<"reconcile", "refresh", "report", "close">>
      [] kind = "summary" -> <<"reconcile", "refresh", "report", "commit">>
      [] kind = "round" ->
            <<"reconcile", "refresh", "reconcile", "refresh", "commit">>

RequestKinds == {"heartbeat", "event", "repeat", "fleet", "posture", "summary"}

ASSUME SessionsAssumption ==
    /\ Worker \notin Apis
    /\ NoSession \notin Sessions
    /\ IsFiniteSet(Sessions)
ASSUME FleetAssumption ==
    /\ Expected \subseteq Decoys /\ Decoys # {}
    /\ Unknown \in Sites
    /\ Inventory \in [Expected -> Sites]
    /\ Reported \in [Decoys -> Sites]
    /\ Kinds \subseteq RequestKinds
ASSUME TimesAssumption ==
    /\ Degraded \in Nat \ {0} /\ Silent \in Nat
    /\ Degraded <= Silent
    /\ MaxTime \in Nat \ {0} /\ MaxRequests \in Nat /\ MaxFails \in Nat

(* A decoy with its deployment: status, last_heartbeat_at (0 when it is    *)
(* NULL), health_status, site, runtime_state, whether there is a           *)
(* failure_reason, and the number of deployment rows.                      *)
Healths == {"healthy", "degraded", "silent"}
Row ==
    [status : {"absent", "expected", "active"}, beat : Nat, health : Healths,
     site : Sites, runtime : {"running", "silent", "not_reported"},
     failed : BOOLEAN, copies : Nat]

(* No row. *)
Absent ==
    [status |-> "absent", beat |-> 0, health |-> "silent", site |-> Unknown,
     runtime |-> "not_reported", failed |-> FALSE, copies |-> 0]

(* What a request is about: a heartbeat has the time at which it was sent. *)
Jobs == [kind : RequestKinds \cup {"round"}, decoy : Decoys, at : Nat,
         site : Sites]

VARIABLES
    rows,           \* the committed rows
    owner,          \* the session whose transaction has locked each row
    work,           \* the row as the owner's transaction has written it
    todo,           \* the stages each session has still to go through
    job,            \* what it was asked
    dirty,          \* the rows it has changed in memory and not flushed
    base,           \* those rows as it has loaded them
    cached,         \* the decoy of the event it stores, kept in memory
    read,           \* when it loaded them: the now of a refresh
    calm,           \* no other session committed since it reconciled last
    now,            \* the clock
    newest,         \* the newest heartbeat received of each decoy
    late,           \* decoys of which an older one came later
    requests, fails \* counted for the bounds

sessionVars == <<todo, job, dirty, base, cached, read>>
history == <<newest, late>>
vars == <<rows, owner, work, todo, job, dirty, base, cached, read, calm,
          now, newest, late, requests, fails>>

-----------------------------------------------------------------------------
(* What the stages make of a row. *)

(* The health of a decoy by the age of its last heartbeat. *)
Health(beat, time) ==
    IF beat = 0 \/ time - beat >= Silent THEN "silent"
    ELSE IF time - beat >= Degraded THEN "degraded"
    ELSE "healthy"

(* reconcile_expected_fleet: insert the row or restore the inventory's     *)
(* values.                                                                 *)
Reconciled(d, r) ==
    IF r = Absent
    THEN [Absent EXCEPT !.status = "expected", !.site = Inventory[d],
                        !.copies = 1]
    ELSE [r EXCEPT !.site = Inventory[d]]

(* Variant: the reason of a failure that is over stays. *)
RefreshedKeepsReason(r, time) ==
    LET health == Health(r.beat, time)
        silent == health = "silent"
    IN  [r EXCEPT !.health = health,
                  !.runtime = IF silent THEN "silent" ELSE "running",
                  !.failed = @ \/ silent]

(* Variant: the status is written only when the deployment fails. *)
RefreshedOnceSilent(r, time) ==
    LET silent == Health(r.beat, time) = "silent"
    IN  IF silent /\ ~r.failed
        THEN [r EXCEPT !.health = "silent", !.runtime = "silent",
                       !.failed = TRUE]
        ELSE r

(* refresh_fleet_health. *)
Refreshed(r, time) ==
    LET health == Health(r.beat, time)
        silent == health = "silent"
    IN  [r EXCEPT !.health = health,
                  !.runtime = IF silent THEN "silent" ELSE "running",
                  !.failed = silent]

(* Variant: what an event says of its decoy is what counts. *)
PreferIncoming(incoming, existing) == incoming

(* _prefer_inventory_value, of the site. *)
Prefer(incoming, existing) == IF incoming = Unknown THEN existing ELSE incoming

(* upsert_decoy: a new row has the default health, "healthy". *)
Seen(j, r) ==
    [r EXCEPT !.status = "active", !.runtime = "running",
              !.site = Prefer(j.site, r.site),
              !.health = IF r = Absent THEN "healthy" ELSE @,
              !.copies = IF r = Absent THEN 1 ELSE @]

(* upsert_heartbeat: no value of an older row is preferred, and the reason *)
(* of a failure is left as it is.                                          *)
Alive(j, r) ==
    [r EXCEPT !.status = "active", !.runtime = "running", !.site = j.site,
              !.health = "healthy", !.beat = j.at,
              !.copies = IF r = Absent THEN 1 ELSE @]

-----------------------------------------------------------------------------
(* Sessions. *)

Stage(s) == Head(todo[s])
Open(s) == todo[s] # <<>>
Reports(s) == \E n \in DOMAIN todo[s] : todo[s][n] = "report"

(* A row as a SELECT in session s finds it. *)
Visible(s, d) == IF owner[d] = s THEN work[d] ELSE rows[d]

(* A row as the session gets it: a decoy that is still in memory is not    *)
(* refreshed, its deployment is.                                           *)
Found(s, d) ==
    LET r == Visible(s, d)
    IN  IF cached[s] = Absent \/ d # job[s].decoy THEN r
        ELSE [r EXCEPT !.status = cached[s].status, !.beat = cached[s].beat,
                       !.health = cached[s].health, !.site = cached[s].site]

(* The rows a stage loads. *)
Scope(s) ==
    CASE Stage(s) = "reconcile" -> Expected
      [] Stage(s) = "refresh" -> {d \in Decoys : Visible(s, d) # Absent}
      [] OTHER -> {job[s].decoy}

(* A row as the stage leaves it in memory. *)
Changed(s, d, r, time) ==
    CASE Stage(s) = "reconcile" -> Reconciled(d, r)
      [] Stage(s) = "refresh" -> Refreshed(r, time)
      [] Stage(s) = "heartbeat" -> Alive(job[s], r)
      [] Stage(s) = "event" -> Seen(job[s], r)

(* The rows it changes.  An event always sets last_seen_at. *)
Changes(s, time) ==
    {d \in Scope(s) : \/ Changed(s, d, Found(s, d), time) # Found(s, d)
                      \/ Stage(s) = "event"}

(* The rows its flush inserts, and those it updates, as it has them. *)
Inserted(s) == {d \in dirty[s] : base[s][d] = Absent}
New(s, d) == Changed(s, d, base[s][d], read[s])

(* Variant: decoy_id has no unique key. *)
ClashUnseen(s) == FALSE

(* A row to be inserted is there by now. *)
Clash(s) == \E d \in Inserted(s) : Visible(s, d) # Absent

CanFlush(s) == \A d \in dirty[s] : owner[d] \in {s, NoSession}

(* Variant: every column is written, changed or not. *)
MergedWhole(r, old, new) == new

(* An UPDATE sets the columns whose value in memory has changed; an INSERT *)
(* adds a row.                                                             *)
Merged(r, old, new) ==
    [c \in DOMAIN r |->
        IF c = "copies" THEN r.copies + new.copies - old.copies
        ELSE IF new[c] # old[c] THEN new[c] ELSE r[c]]

(* Variant: a transaction that ends keeps its changes. *)
ClearedNever(s) == work

(* The locks and the changes that are left when a transaction ends. *)
Released(s) == [d \in Decoys |-> IF owner[d] = s THEN NoSession ELSE owner[d]]
Cleared(s) == [d \in Decoys |-> IF owner[d] = s THEN Absent ELSE work[d]]

NoJob == [kind |-> "round", decoy |-> CHOOSE d \in Decoys : TRUE, at |-> 0,
          site |-> Unknown]
Nothing == [d \in Decoys |-> Absent]

Init ==
    /\ rows = Nothing
    /\ owner = [d \in Decoys |-> NoSession]
    /\ work = Nothing
    /\ todo = [s \in Sessions |-> <<>>]
    /\ job = [s \in Sessions |-> NoJob]
    /\ dirty = [s \in Sessions |-> {}]
    /\ base = [s \in Sessions |-> Nothing]
    /\ cached = [s \in Sessions |-> Absent]
    /\ read = [s \in Sessions |-> 0]
    /\ calm = [s \in Apis |-> FALSE]
    /\ now = 1
    /\ newest = [d \in Decoys |-> 0] /\ late = {}
    /\ requests = 0 /\ fails = 0

(* The next stage. *)
Advance(s) ==
    /\ todo' = [todo EXCEPT ![s] = Tail(@)]
    /\ dirty' = [dirty EXCEPT ![s] = {}]
    /\ base' = [base EXCEPT ![s] = Nothing]

(* The session is closed and forgets everything. *)
End(s) ==
    /\ owner' = Released(s)
    /\ work' = Cleared(s)
    /\ todo' = [todo EXCEPT ![s] = <<>>]
    /\ job' = [job EXCEPT ![s] = NoJob]
    /\ dirty' = [dirty EXCEPT ![s] = {}]
    /\ base' = [base EXCEPT ![s] = Nothing]
    /\ cached' = [cached EXCEPT ![s] = Absent]
    /\ read' = [read EXCEPT ![s] = 0]

Begin(s, j) ==
    /\ ~Open(s)
    /\ todo' = [todo EXCEPT ![s] = Program(j.kind)]
    /\ job' = [job EXCEPT ![s] = j]
    /\ UNCHANGED <<rows, owner, work, dirty, base, cached, read, calm, now,
                   history, fails>>

(* A request.  A heartbeat was sent at any time up to now, by a relay that *)
(* may have kept it; an event may come without a site.                     *)
Request(s) ==
    /\ requests < MaxRequests
    /\ requests' = requests + 1
    /\ \E kind \in Kinds, d \in Decoys, t \in 0..now :
        \E site \in {Reported[d], Unknown} :
            /\ (kind = "heartbeat") = (t > 0)
            /\ kind # "event" => site = Reported[d]
            /\ kind \notin {"heartbeat", "event"} => d = NoJob.decoy
            /\ Begin(s, [kind |-> kind, decoy |-> d, at |-> t, site |-> site])

(* A round of the worker. *)
WorkerRound == Begin(Worker, NoJob) /\ UNCHANGED requests

Tick ==
    /\ now < MaxTime
    /\ now' = now + 1
    /\ UNCHANGED <<rows, owner, work, sessionVars, calm, history, requests,
                   fails>>

-----------------------------------------------------------------------------
(* A stage selects its rows, and is over if it has nothing to change.  Its *)
(* SELECTs are taken together, and so are its flushes: it looks at each    *)
(* row once.                                                               *)
Load(s) ==
    /\ Open(s)
    /\ Stage(s) \in LoadStages
    /\ dirty[s] = {}
    /\ LET changes == Changes(s, now)
       IN  IF changes = {} THEN Advance(s)
           ELSE /\ dirty' = [dirty EXCEPT ![s] = changes]
                /\ base' = [base EXCEPT ![s] = [d \in Decoys |->
                        IF d \in changes THEN Found(s, d) ELSE Absent]]
                /\ UNCHANGED todo
    /\ read' = [read EXCEPT ![s] = now]
    /\ calm' = [x \in Apis |->
            calm[x] \/ (x = s /\ Stage(x) = "reconcile" /\ Reports(x))]
    /\ UNCHANGED <<rows, owner, work, job, cached, now, history, requests,
                   fails>>

(* It flushes what it has changed.  The flush waits for the locks it       *)
(* needs.  An event keeps its decoy in memory, as the session has it and   *)
(* not as the row becomes.                                                 *)
Flush(s) ==
    /\ Open(s)
    /\ dirty[s] # {}
    /\ CanFlush(s)
    /\ ~Clash(s)
    /\ owner' = [d \in Decoys |-> IF d \in dirty[s] THEN s ELSE owner[d]]
    /\ work' = [d \in Decoys |->
            IF d \in dirty[s]
            THEN Merged(Visible(s, d), base[s][d], New(s, d))
            ELSE work[d]]
    /\ cached' = [cached EXCEPT ![s] =
            IF /\ job[s].decoy \in dirty[s]
               /\ Stage(s) = "event" \/ @ # Absent
            THEN New(s, job[s].decoy) ELSE @]
    /\ Advance(s)
    /\ UNCHANGED <<rows, job, read, calm, now, history, requests, fails>>

(* list_fleet: the rows that are there, read once more. *)
Answer(s) ==
    [d \in {x \in Decoys : Visible(s, x) # Absent} |-> Visible(s, d)]

(* fleet_coverage and query_posture: the sites with a silent decoy. *)
Gaps(answer) ==
    {answer[d].site : d \in {x \in DOMAIN answer : answer[x].health = "silent"}}

(* The answer is made. *)
Report(s) ==
    /\ Open(s)
    /\ Stage(s) = "report"
    /\ Advance(s)
    /\ UNCHANGED <<rows, owner, work, job, cached, read, calm, now, history,
                   requests, fails>>

(* The transaction commits.  In _handle_ingest, another one follows, and   *)
(* what is in memory stays as it is (expire_on_commit=False).              *)
Commit(s) ==
    LET j == job[s]
        beat == j.kind = "heartbeat"
    IN  /\ Open(s)
        /\ Stage(s) = "commit"
        /\ rows' = [d \in Decoys |-> Visible(s, d)]
        /\ newest' = [newest EXCEPT ![j.decoy] =
                        IF beat /\ j.at > @ THEN j.at ELSE @]
        /\ late' = late \cup
                {d \in {j.decoy} : beat /\ j.at < newest[d]}
        /\ IF Tail(todo[s]) = <<>> THEN End(s)
           ELSE /\ owner' = Released(s)
                /\ work' = Cleared(s)
                /\ Advance(s)
                /\ UNCHANGED <<job, cached, read>>
        /\ calm' = [x \in Apis |-> FALSE]
        /\ UNCHANGED <<now, requests, fails>>

Rollback(s) ==
    /\ End(s)
    /\ calm' = [x \in Apis |-> x # s /\ calm[x]]
    /\ UNCHANGED <<rows, now, history, requests>>

(* A GET ends: get_db closes the session, which rolls it back. *)
Close(s) ==
    /\ Open(s)
    /\ Stage(s) = "close"
    /\ Rollback(s)
    /\ UNCHANGED fails

(* A row to be inserted was committed by another session meanwhile: a      *)
(* request is answered 400 or 500, the worker is started again.            *)
DuplicateKey(s) ==
    /\ Open(s)
    /\ CanFlush(s)
    /\ Clash(s)
    /\ Rollback(s)
    /\ UNCHANGED fails

(* A session waits for a row that another one has locked. *)
WaitsFor(s, x) == s # x /\ \E d \in dirty[s] : owner[d] = x

(* Variant: the exception is caught and the statement tried again. *)
DeadlockRetried(s) ==
    /\ \E cycle \in SUBSET Sessions :
        /\ s \in cycle
        /\ \A x \in cycle : \E y \in cycle : WaitsFor(x, y)
    /\ UNCHANGED vars

(* PostgreSQL ends a transaction of a cycle in which each waits for the    *)
(* next.                                                                   *)
DeadlockVictim(s) ==
    /\ \E cycle \in SUBSET Sessions :
        /\ s \in cycle
        /\ \A x \in cycle : \E y \in cycle : WaitsFor(x, y)
    /\ Rollback(s)
    /\ UNCHANGED fails

(* Any other exception, a lost connection or the death of the process. *)
Fail(s) ==
    /\ Open(s)
    /\ fails < MaxFails
    /\ fails' = fails + 1
    /\ Rollback(s)

-----------------------------------------------------------------------------
Step(s) ==
    \/ Load(s) \/ Flush(s) \/ Report(s) \/ Commit(s) \/ Close(s)
    \/ DuplicateKey(s) \/ DeadlockVictim(s)

Next ==
    \/ \E s \in Sessions : Step(s) \/ Fail(s)
    \/ \E s \in Apis : Request(s)
    \/ WorkerRound \/ Tick

(* A request that has begun goes on.  A session that waits for a row       *)
(* stands in PostgreSQL's queue for it and gets it in its turn, though     *)
(* others come and go: hence strong fairness.  The worker starts a round   *)
(* after every sleep (worker.py:10-15), in a new process when the last one *)
(* has died.  Nothing makes a decoy send.                                  *)
Fairness ==
    /\ \A s \in Sessions : SF_vars(Step(s))
    /\ WF_vars(WorkerRound) /\ WF_vars(Tick)

Spec == Init /\ [][Next]_vars
FairSpec == Spec /\ Fairness

-----------------------------------------------------------------------------
(* Properties. *)

(* The type of every variable; and a session that is not open has locked   *)
(* nothing and remembers nothing.                                          *)
TypeOK ==
    /\ rows \in [Decoys -> Row]
    /\ owner \in [Decoys -> Sessions \cup {NoSession}]
    /\ work \in [Decoys -> Row]
    /\ \A d \in Decoys : owner[d] = NoSession => work[d] = Absent
    /\ \A s \in Sessions :
        /\ \A n \in DOMAIN todo[s] : todo[s][n] \in Stages
        /\ job[s] \in Jobs
        /\ ~Open(s) => job[s] = NoJob /\ s \notin {owner[d] : d \in Decoys}
    /\ dirty \in [Sessions -> SUBSET Decoys]
    /\ base \in [Sessions -> [Decoys -> Row]]
    /\ cached \in [Sessions -> Row]
    /\ read \in [Sessions -> 0..MaxTime]
    /\ calm \in [Apis -> BOOLEAN]
    /\ now \in 1..MaxTime
    /\ newest \in [Decoys -> 0..MaxTime]
    /\ late \subseteq Decoys
    /\ requests \in 0..MaxRequests /\ fails \in 0..MaxFails

(* Heartbeats, events, the reconciliation of several requests and of the   *)
(* worker may all be the first to see a decoy: it still gets one row and   *)
(* one deployment (services.py:245 and 367), the latter being the one that *)
(* refresh_fleet_health takes first and list_fleet takes last.             *)
OneDeploymentEach ==
    \A d \in Decoys : rows[d].copies = IF rows[d].status = "absent" THEN 0 ELSE 1

(* No session loses a heartbeat: whatever it has loaded before the         *)
(* heartbeat was committed and flushes after it, the stored time is that   *)
(* of the newest heartbeat received, unless an older one came after it     *)
(* (services.py:401).  It would be lost if a refresh wrote the whole row.  *)
BeatsKept ==
    \A d \in Decoys \ late :
        /\ rows[d].beat = newest[d]
        /\ owner[d] # NoSession /\ job[owner[d]].kind # "heartbeat"
                => work[d].beat = newest[d]

(* The answer of the fleet page, its coverage gaps and the posture: every  *)
(* expected decoy is in it at its inventory's site; the health, runtime    *)
(* state and failure of a row are those that the newest heartbeat received *)
(* gives at the time of the refresh, or the last one received if an older  *)
(* one came late; and a site has a gap exactly if one of its decoys is     *)
(* silent (services.py:597-611, main.py:186-245).  This holds of a session *)
(* while no other one commits, whatever others did before and are about to *)
(* do.                                                                     *)
ReportExact ==
    [][\A s \in Apis : Report(s) /\ calm[s] =>
        LET answer == Answer(s)
            beat(d) == IF d \in late THEN answer[d].beat ELSE newest[d]
            silent == {d \in DOMAIN answer : Health(beat(d), read[s]) = "silent"}
            site(d) == IF d \in Expected THEN Inventory[d] ELSE rows[d].site
        IN  /\ Expected \subseteq DOMAIN answer
            /\ \A d \in DOMAIN answer :
                /\ answer[d].health = Health(beat(d), read[s])
                /\ answer[d].failed = (d \in silent)
                /\ (answer[d].runtime = "silent") = (d \in silent)
            /\ Gaps(answer) = {site(d) : d \in silent}
      ]_vars

(* An event that comes without a site, whatever of its decoy the session   *)
(* has in memory by then, does not make the site of a row unknown          *)
(* (services.py:238-241 and 265): only a heartbeat does, which overwrites  *)
(* it (services.py:399), or an inventory that does not know it either.     *)
SitesKept ==
    [][\A d \in Decoys :
        rows[d].site # Unknown /\ rows'[d].site = Unknown =>
            \/ \E s \in Apis : /\ Commit(s)
                               /\ job[s].kind = "heartbeat"
                               /\ job[s].decoy = d
            \/ d \in Expected /\ Inventory[d] = Unknown
      ]_vars

(* Stale writes heal: the health, the runtime state and the failure that   *)
(* are stored agree with the heartbeat that is stored, once and for all    *)
(* when no more requests come and time stands still, although no refresh   *)
(* locks what it reads (services.py:211) and an event makes a silent decoy *)
(* run (services.py:280).                                                  *)
Converges ==
    <>[](\A d \in Decoys : LET r == rows[d] IN
            /\ r.status # "absent" \/ d \notin Expected
            /\ r.status # "absent" =>
                /\ r.health = Health(r.beat, MaxTime)
                /\ r.failed = (r.health = "silent")
                /\ (r.runtime = "silent") = (r.health = "silent"))

(* Every request ends: sessions that wait for each other's rows, in the    *)
(* orders in which reports, events and the worker write them, are told so. *)
RequestsEnd == \A s \in Apis : Open(s) ~> ~Open(s)

=============================================================================

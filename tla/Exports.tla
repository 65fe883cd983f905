------------------------------ MODULE Exports ------------------------------
(***************************************************************************)
(* What an analyst's request does to the database and to the object store: *)
(* it is authenticated, which records the user (security.py:46-94), and    *)
(* then exports an artifact, lists the artifacts or downloads one          *)
(* (main.py:377-464, services.py:704-840, object_store.py).                *)
(*                                                                         *)
(* The sessions of all requests share a pool of connections and wait for   *)
(* each other's row locks.  Authentication and the handler use one session *)
(* (get_db is cached within a request) but two transactions.  The object   *)
(* store takes no part in them: an object is put before its row is         *)
(* inserted.  Ingestion appears as heartbeats, which need the rows of the  *)
(* fleet that a management summary refreshes.                              *)
(***************************************************************************)
EXTENDS Integers, FiniteSets

CONSTANTS
    Analysts,       \* subjects
    Apis,           \* requests being served
    Fleet,          \* the decoy rows, as one
    NoSession,      \* a row that is not locked
    PoolSize,       \* connections: pool_size and max_overflow
    Kinds,          \* the kinds of requests that are made
    MaxRequests,    \* bound: requests in all
    MaxFaults       \* bound: faults of the object store, connections, processes

Exporting == {"blocklist", "evidence", "csv", "summary"}
RequestKinds == Exporting \cup {"list", "download", "heartbeat"}
Rows == Analysts \cup {Fleet}

ASSUME NamesAssumption ==
    /\ Fleet \notin Analysts
    /\ NoSession \notin Apis
    /\ IsFiniteSet(Apis) /\ Analysts # {}
ASSUME ParametersAssumption ==
    /\ PoolSize \in Nat \ {0}
    /\ Kinds \subseteq RequestKinds
    /\ MaxRequests \in Nat /\ MaxFaults \in Nat

VARIABLES
    users,          \* the number of committed rows of each analyst
    artifacts,      \* the committed artifact rows, each by its key and analyst
    bucket,         \* whether the bucket exists
    objects,        \* the keys in it
    pool,           \* the sessions that have a connection
    owner,          \* the session whose transaction has locked each row
    pc,             \* what a session does next
    job,            \* what it was asked, with the key it works on
    known,          \* it has found its user
    used,           \* the keys made are 1..used: uuid4 makes none twice
    acked,          \* the artifacts whose export was answered
    failed,         \* the keys whose export was not
    wiped,          \* the keys the store has lost
    broken,         \* the keys a download did not find
    requests, faults    \* counted for the bounds

database == <<users, artifacts>>
store == <<bucket, objects>>
history == <<acked, failed, broken>>
vars == <<users, artifacts, bucket, objects, pool, owner, pc, job, known, used,
          acked, failed, wiped, broken, requests, faults>>

(* The points of a request: "connect" before the SELECT of the user,       *)
(* "login" before its flush and "logged" before its commit; "work" before  *)
(* the first statement of the handler, "read" before the others, "flush"   *)
(* before a summary writes to the fleet; "head", "create", "put" and       *)
(* "fetch" before calls to the store; "record" before the INSERT of the    *)
(* artifact and its commit; "commit" of a heartbeat.                       *)
Points == {"idle", "connect", "login", "logged", "work", "read", "flush",
           "head", "create", "put", "record", "fetch", "commit"}
AtStore == {"head", "create", "put", "fetch"}

NoJob == [kind |-> "list", analyst |-> CHOOSE a \in Analysts : TRUE, key |-> 0]
Artifact(s) == [key |-> job[s].key, by |-> job[s].analyst]

Init ==
    /\ users = [a \in Analysts |-> 0]
    /\ artifacts = {}
    /\ bucket = FALSE /\ objects = {}
    /\ pool = {}
    /\ owner = [r \in Rows |-> NoSession]
    /\ pc = [s \in Apis |-> "idle"]
    /\ job = [s \in Apis |-> NoJob]
    /\ known = [s \in Apis |-> FALSE]
    /\ used = 0
    /\ acked = {} /\ failed = {} /\ wiped = {} /\ broken = {}
    /\ requests = 0 /\ faults = 0

Goes(s, point) == pc' = [pc EXCEPT ![s] = point]

(* Variant: a request that fails keeps its locks. *)
ReleasedByCommit(s) ==
    IF pc[s] \in {"logged", "record", "commit"}
    THEN [r \in Rows |-> IF owner[r] = s THEN NoSession ELSE owner[r]]
    ELSE owner

(* Variant: the user is committed with the work of the handler. *)
ReleasedForHandler(s) ==
    IF pc[s] = "logged" THEN owner
    ELSE [r \in Rows |-> IF owner[r] = s THEN NoSession ELSE owner[r]]

(* The locks that are left when a transaction ends. *)
Released(s) == [r \in Rows |-> IF owner[r] = s THEN NoSession ELSE owner[r]]

(* Variant: the connection is not given back. *)
EndTransactionOnly(s) == owner' = Released(s) /\ UNCHANGED pool

(* The transaction ends and its connection goes back to the pool. *)
EndTransaction(s) ==
    /\ owner' = Released(s)
    /\ pool' = pool \ {s}

(* The request is answered; get_db closes its session. *)
End(s) ==
    /\ EndTransaction(s)
    /\ Goes(s, "idle")
    /\ job' = [job EXCEPT ![s] = NoJob]
    /\ known' = [known EXCEPT ![s] = FALSE]

(* It is answered 500: nothing but get_db ends its transaction. *)
Refuse(s) ==
    /\ End(s)
    /\ failed' = failed \cup
            {k \in {job[s].key} : job[s].kind \in Exporting /\ k # 0}
    /\ UNCHANGED <<acked, broken>>

(* One more fault, up to the bound. *)
Fault == faults < MaxFaults /\ faults' = faults + 1
Sound == UNCHANGED faults

(* A request with a valid token, or the ingest key, which is checked       *)
(* without a session.  A request without changes nothing.  A download      *)
(* names any artifact.                                                     *)
Request(s) ==
    /\ pc[s] = "idle"
    /\ requests < MaxRequests
    /\ requests' = requests + 1
    /\ \E kind \in Kinds, a \in Analysts, k \in 0..used :
        /\ kind # "download" => k = 0
        /\ kind = "heartbeat" => a = NoJob.analyst
        /\ job' = [job EXCEPT ![s] = [kind |-> kind, analyst |-> a, key |-> k]]
        /\ Goes(s, IF kind = "heartbeat" THEN "work" ELSE "connect")
    /\ UNCHANGED <<database, store, pool, owner, known, used, history, wiped,
                   faults>>

-----------------------------------------------------------------------------
(* Connections and authentication. *)

(* The first statement of a transaction takes a connection, the SELECT of  *)
(* the user or a statement of the handler.                                 *)
Connect(s) ==
    /\ pc[s] \in {"connect", "work"}
    /\ Cardinality(pool) < PoolSize
    /\ pool' = pool \cup {s}
    /\ IF pc[s] = "work" THEN Goes(s, "read") /\ UNCHANGED known
       ELSE /\ Goes(s, "login")
            /\ known' = [known EXCEPT ![s] = users[job[s].analyst] > 0]
    /\ UNCHANGED <<database, store, owner, job, used, history, wiped, requests,
                   faults>>

(* All connections are in use for 30 seconds. *)
PoolTimeout(s) ==
    /\ pc[s] \in {"connect", "work"}
    /\ Cardinality(pool) = PoolSize
    /\ Refuse(s)
    /\ UNCHANGED <<database, store, used, wiped, requests, faults>>

(* Variant: subject has no unique key. *)
TakenUnseen(s) == FALSE

(* The user was inserted by another session meanwhile. *)
Taken(s) == ~known[s] /\ users[job[s].analyst] > 0

(* The flush of the commit inserts the user or updates its last login. *)
Login(s) ==
    LET a == job[s].analyst
    IN  /\ pc[s] = "login"
        /\ owner[a] = NoSession
        /\ ~Taken(s)
        /\ owner' = [owner EXCEPT ![a] = s]
        /\ Goes(s, "logged")
        /\ UNCHANGED <<database, store, pool, job, known, used, history, wiped,
                       requests, faults>>

DuplicateUser(s) ==
    /\ pc[s] = "login"
    /\ owner[job[s].analyst] = NoSession
    /\ Taken(s)
    /\ Refuse(s)
    /\ UNCHANGED <<database, store, used, wiped, requests, faults>>

LoggedIn(s) ==
    /\ pc[s] = "logged"
    /\ users' = [users EXCEPT ![job[s].analyst] = IF known[s] THEN @ ELSE @ + 1]
    /\ EndTransaction(s)
    /\ Goes(s, "work")
    /\ UNCHANGED <<artifacts, store, job, known, used, history, wiped, requests,
                   faults>>

-----------------------------------------------------------------------------
(* Exports. *)

(* A summary reconciles and refreshes the fleet first, and finds rows to   *)
(* change.                                                                 *)
Refresh(s) ==
    /\ pc[s] = "read"
    /\ job[s].kind = "summary"
    /\ Goes(s, "flush")
    /\ UNCHANGED <<database, store, pool, owner, job, known, used, history,
                   wiped, requests, faults>>

(* Variant: the row is committed before the object is put. *)
BuildAndRecord(s) ==
    /\ pc[s] \in {"read", "flush"}
    /\ job[s].kind \in Exporting
    /\ used' = used + 1
    /\ job' = [job EXCEPT ![s].key = used + 1]
    /\ artifacts' = artifacts \cup {[Artifact(s) EXCEPT !.key = used + 1]}
    /\ Goes(s, "head")
    /\ UNCHANGED <<users, store, pool, owner, known, history, wiped, requests,
                   faults>>

(* The body of an artifact is read from the database and its key is made.  *)
(* A summary that changes rows of the fleet waits for their locks, and     *)
(* keeps them.                                                             *)
Build(s) ==
    /\ job[s].kind \in Exporting
    /\ used' = used + 1
    /\ job' = [job EXCEPT ![s].key = used + 1]
    /\ \/ pc[s] = "read" /\ UNCHANGED owner
       \/ /\ pc[s] = "flush"
          /\ owner[Fleet] = NoSession
          /\ owner' = [owner EXCEPT ![Fleet] = s]
    /\ Goes(s, "head")
    /\ UNCHANGED <<database, store, pool, known, history, wiped, requests,
                   faults>>

(* The investigation or detection of an evidence package does not exist. *)
NoEvidence(s) ==
    /\ pc[s] = "read"
    /\ job[s].kind = "evidence"
    /\ Refuse(s)
    /\ UNCHANGED <<database, store, used, wiped, requests, faults>>

(* ensure_bucket_exists: any exception is taken for a missing bucket. *)
HeadBucket(s) ==
    /\ pc[s] = "head"
    /\ \/ bucket /\ Goes(s, "put") /\ Sound
       \/ ~bucket /\ Goes(s, "create") /\ Sound
       \/ Goes(s, "create") /\ Fault
    /\ UNCHANGED <<database, store, pool, owner, job, known, used, history,
                   wiped, requests>>

(* A bucket that is there by now is accepted or refused, as the store has  *)
(* it.                                                                     *)
CreateBucket(s) ==
    /\ pc[s] = "create"
    /\ bucket' = TRUE
    /\ \/ /\ Goes(s, "put")
          /\ UNCHANGED <<pool, owner, job, known, history>>
       \/ bucket /\ Refuse(s)
    /\ UNCHANGED <<database, objects, used, wiped, requests, faults>>

(* put_object.  When it fails the object may be there. *)
PutObject(s) ==
    /\ pc[s] = "put"
    /\ \/ /\ bucket
          /\ objects' = objects \cup {job[s].key}
          /\ Goes(s, "record")
          /\ Sound
          /\ UNCHANGED <<pool, owner, job, known, history>>
       \/ /\ ~bucket
          /\ Refuse(s)
          /\ Sound
          /\ UNCHANGED objects
       \/ /\ Refuse(s)
          /\ Fault
          /\ objects' \in {objects, objects \cup {k \in {job[s].key} : bucket}}
    /\ UNCHANGED <<database, bucket, used, wiped, requests>>

(* Variant: the handler does not commit. *)
RecordUncommitted(s) ==
    /\ pc[s] = "record"
    /\ acked' = acked \cup {Artifact(s)}
    /\ End(s)
    /\ UNCHANGED <<database, store, used, failed, wiped, broken, requests,
                   faults>>

(* The artifact is inserted and committed, and the request answered. *)
Record(s) ==
    /\ pc[s] = "record"
    /\ artifacts' = artifacts \cup {Artifact(s)}
    /\ acked' = acked \cup {Artifact(s)}
    /\ End(s)
    /\ UNCHANGED <<users, store, used, failed, wiped, broken, requests, faults>>

(* The connection breaks: the answer of the commit may be what was lost. *)
RecordFails(s) ==
    /\ pc[s] = "record"
    /\ Fault
    /\ Refuse(s)
    /\ artifacts' \in {artifacts, artifacts \cup {Artifact(s)}}
    /\ UNCHANGED <<users, store, used, wiped, requests>>

-----------------------------------------------------------------------------
(* list_exports. *)
List(s) ==
    /\ pc[s] = "read"
    /\ job[s].kind = "list"
    /\ End(s)
    /\ UNCHANGED <<database, store, used, history, wiped, requests, faults>>

(* download_export finds the row or answers 500, and keeps its connection  *)
(* while it fetches the object.                                            *)
Download(s) ==
    /\ pc[s] = "read"
    /\ job[s].kind = "download"
    /\ IF \E row \in artifacts : row.key = job[s].key
       THEN /\ Goes(s, "fetch")
            /\ UNCHANGED <<pool, owner, job, known, history>>
       ELSE Refuse(s)
    /\ UNCHANGED <<database, store, used, wiped, requests, faults>>

GetObject(s) ==
    /\ pc[s] = "fetch"
    /\ broken' = broken \cup ({job[s].key} \ objects)
    /\ End(s)
    /\ UNCHANGED <<database, store, used, acked, failed, wiped, requests,
                   faults>>

(* A heartbeat updates a decoy and commits. *)
Beat(s) ==
    /\ pc[s] = "read"
    /\ job[s].kind = "heartbeat"
    /\ owner[Fleet] = NoSession
    /\ owner' = [owner EXCEPT ![Fleet] = s]
    /\ Goes(s, "commit")
    /\ UNCHANGED <<database, store, pool, job, known, used, history, wiped,
                   requests, faults>>

CommitBeat(s) ==
    /\ pc[s] = "commit"
    /\ End(s)
    /\ UNCHANGED <<database, store, used, history, wiped, requests, faults>>

(* Any other exception, or the death of the process. *)
Fail(s) ==
    /\ pc[s] # "idle"
    /\ Fault
    /\ Refuse(s)
    /\ UNCHANGED <<database, store, used, wiped, requests>>

(* The store is started again.  Its Deployment has no volume               *)
(* (deploy/k8s/chart/templates/minio.yaml), so that it is empty.           *)
StoreRestarts ==
    /\ bucket
    /\ Fault
    /\ bucket' = FALSE
    /\ objects' = {}
    /\ wiped' = wiped \cup objects
    /\ UNCHANGED <<database, pool, owner, pc, job, known, used, history,
                   requests>>

Step(s) ==
    \/ Connect(s) \/ PoolTimeout(s)
    \/ Login(s) \/ DuplicateUser(s) \/ LoggedIn(s)
    \/ Refresh(s) \/ Build(s) \/ NoEvidence(s)
    \/ HeadBucket(s) \/ CreateBucket(s) \/ PutObject(s)
    \/ Record(s) \/ RecordFails(s)
    \/ List(s) \/ Download(s) \/ GetObject(s)
    \/ Beat(s) \/ CommitBeat(s)

Next ==
    \/ \E s \in Apis : Request(s) \/ Step(s) \/ Fail(s)
    \/ StoreRestarts

(* A request that has begun goes on: statements and calls to the store end *)
(* (boto3 gives up after its timeouts), as does a wait for a connection,   *)
(* and a row that is unlocked goes to one that waits for it.               *)
Fairness == \A s \in Apis : WF_vars(Step(s))

Spec == Init /\ [][Next]_vars
FairSpec == Spec /\ Fairness

-----------------------------------------------------------------------------
(* Properties. *)

(* The type of every variable; a session that has locked rows has a        *)
(* connection, and one that serves no request has neither.                 *)
TypeOK ==
    /\ users \in [Analysts -> Nat]
    /\ artifacts \subseteq [key : 1..used, by : Analysts]
    /\ acked \subseteq [key : 1..used, by : Analysts]
    /\ bucket \in BOOLEAN
    /\ objects \subseteq 1..used /\ (~bucket => objects = {})
    /\ pool \subseteq Apis /\ Cardinality(pool) <= PoolSize
    /\ owner \in [Rows -> pool \cup {NoSession}]
    /\ pc \in [Apis -> Points]
    /\ \A s \in pool : pc[s] \notin {"idle", "connect", "work"}
    /\ job \in [Apis -> [kind : RequestKinds, analyst : Analysts, key : 0..used]]
    /\ known \in [Apis -> BOOLEAN]
    /\ used \in 0..requests
    /\ failed \subseteq 1..used /\ wiped \subseteq 1..used /\ broken \subseteq 1..used
    /\ requests \in 0..MaxRequests /\ faults \in 0..MaxFaults

(* Every artifact that is listed can be downloaded, whatever failed while  *)
(* it was exported and by how many at once: its object is in the store and *)
(* is no other artifact's, unless the store has lost it since              *)
(* (services.py:718, main.py:457-458).                                     *)
ListedIsDownloadable ==
    /\ \A row \in artifacts : row.key \in objects \cup wiped
    /\ \A row1, row2 \in artifacts : row1.key = row2.key => row1 = row2
    /\ broken \subseteq wiped

(* Every object is accounted for: it is listed, or its export goes on, or  *)
(* has failed, and then nobody was told of it; and an export that was      *)
(* answered is listed under the name of who asked for it (main.py:383-385).*)
ExportsAccounted ==
    /\ objects \subseteq {row.key : row \in artifacts} \cup failed
                        \cup {job[s].key : s \in Apis}
    /\ acked \subseteq artifacts
    /\ \A row \in acked : row.key \notin failed

(* All requests of an analyst update his row, and wait for each other      *)
(* there: none of them holds it while it waits for the object store, for   *)
(* the row is committed before the handler runs (security.py:86-93).       *)
LoginsNeverWaitForStore ==
    \A s \in Apis : pc[s] \in AtStore => \A a \in Analysts : owner[a] # s

(* The first requests of an analyst, which the overview page of the        *)
(* console sends together (OverviewPage.tsx:19), all find no user: there   *)
(* is one in the end (security.py:86).                                     *)
OneUserEach == \A a \in Analysts : users[a] <= 1

(* Every request ends and leaves its session idle, heartbeats included,    *)
(* although summaries keep the rows of the fleet locked while they wait    *)
(* for the object store, and although connections run out                  *)
(* (services.py:823, database.py:17).                                      *)
RequestsEnd == \A s \in Apis : []<>(pc[s] = "idle")

=============================================================================

--------------------------- MODULE DetectionRules ---------------------------
(***************************************************************************)
(* The detection rules of the control plane (materialize_detections in     *)
(* ingest_api/services.py) and what they build: detections, investigations *)
(* and the list of sources to block.                                       *)
(*                                                                         *)
(* Events reach the database in any order, for relays hold some back and   *)
(* replay them.  A session goes through its batch event by event, while    *)
(* events are still being committed, and what it records becomes visible   *)
(* at once when it commits.  Analysts change the status of detections      *)
(* meanwhile.                                                              *)
(*                                                                         *)
(* This module looks at one materialization at a time, and so do all its   *)
(* properties.  The code does not ensure that: requests and the worker may *)
(* overlap (services.py:536).  They then repeat each other's detections    *)
(* and overwrite each other's counts, and a class that was computed from   *)
(* an older SELECT can replace a more serious one (services.py:473-483).   *)
(* What overlapping does and does not do is the subject of IngestApi.      *)
(***************************************************************************)
EXTENDS Integers, FiniteSets

CONSTANTS
    Events, Sources, Decoys, Paths, Users, Requests,
    Attr,           \* the columns of each event
    Sensitive,      \* SENSITIVE_PATHS
    Unknown,        \* the source of an event without src_ip: "unknown"
    NoUser,         \* an event without a username
    Window,         \* detection_window_minutes
    WideWindow,     \* distributed_window_minutes
    Limits,         \* limits materialize_detections is called with
    Verdicts,       \* the statuses analysts set
    MaxUpdates      \* bound: changes of a status by analysts

Probes == {"path_traversal_probe", "xss_probe", "sqli_probe"}
Types == Probes \cup
    {"sensitive_path_discovery", "admin_panel_enumeration",
     "credential_bruteforce", "credential_stuffing", "internet_recon",
     "distributed_scanner_activity"}
Statuses == {"new", "triaging", "confirmed", "suppressed", "closed"}
Open == {"new", "triaging", "confirmed"}
Classes == {"unknown", "opportunistic", "targeted"}

(* login: a POST to /login; probes: the probe tags; recon: suspicious and *)
(* of class recon or scan; request: the request fingerprint.              *)
Attributes ==
    [at : Nat, src : Sources, decoy : Decoys, path : Paths, login : BOOLEAN,
     user : Users \cup {NoUser}, probes : SUBSET Probes, recon : BOOLEAN,
     request : Requests]

ASSUME AttrAssumption == Attr \in [Events -> Attributes]
ASSUME EventsAreFinite == IsFiniteSet(Events)
ASSUME WindowsAssumption ==
    /\ Window \in Nat /\ WideWindow \in Nat
    /\ Limits \subseteq Nat \ {0} /\ Limits # {}
    /\ Verdicts \subseteq Statuses /\ MaxUpdates \in Nat
    /\ Sensitive \subseteq Paths
    /\ NoUser \notin Users

At(e) == Attr[e].at
Src(e) == Attr[e].src

VARIABLES
    stored,         \* committed events
    tables,         \* what is committed: marked events, detections and
                    \* investigations
    work,           \* the same as the open transaction sees it
    todo,           \* the events of its batch still to go through
    status,         \* the status of each committed detection
    late,           \* events stored after a later one of their source was
                    \* selected
    updates         \* counted for the bound

vars == <<stored, tables, work, todo, status, late, updates>>

-----------------------------------------------------------------------------
(* The rules. *)

(* Variant: the cutoff is forgotten. *)
AllBefore(e, w, seen) ==
    {x \in seen : Src(x) = Src(e) /\ At(x) <= At(e)}

(* _recent_events_for_source, where seen is what is committed. *)
Recent(e, w, seen) ==
    {x \in seen : Src(x) = Src(e) /\ At(x) <= At(e) /\ At(x) >= At(e) - w}

(* The rules that look at the event alone. *)
OwnTypes(e) ==
    Attr[e].probes
        \cup {t \in {"sensitive_path_discovery"} : Attr[e].path \in Sensitive}
        \cup {t \in {"internet_recon"} : Attr[e].recon}

(* The rules that look at what its source did before. *)
WindowTypes(e, seen) ==
    LET recent == Recent(e, Window, seen)
        users == {Attr[x].user : x \in recent} \ {NoUser}
        paths == {Attr[x].path : x \in recent}
        decoys == {Attr[x].decoy : x \in Recent(e, WideWindow, seen)}
        login == Attr[e].login
    IN  {t \in Types :
            \/ /\ t = "admin_panel_enumeration"
               /\ Cardinality(paths \cap Sensitive) >= 2
            \/ /\ t = "credential_bruteforce"
               /\ login /\ Cardinality(recent) >= 3
            \/ /\ t = "credential_stuffing"
               /\ login /\ Cardinality(recent) >= 5 /\ Cardinality(users) >= 3
            \/ /\ t = "internet_recon"
               /\ Cardinality(paths) >= 4
            \/ /\ t = "distributed_scanner_activity"
               /\ Cardinality(decoys) >= 3}

Emits(e, seen) == OwnTypes(e) \cup WindowTypes(e, seen)

(* The detection a type of an event belongs to. *)
Fingerprint(t, e) ==
    [type |-> t,
     src |-> Src(e),
     scope |-> IF t = "distributed_scanner_activity" THEN <<>>
               ELSE <<Attr[e].decoy, Attr[e].request>>]

Fingerprints(e, seen) == {Fingerprint(t, e) : t \in Emits(e, seen)}

-----------------------------------------------------------------------------
(* _record_detection. *)

(* Variant: occurrences starts at its SQL default. *)
FreshAtZero(e) ==
    [occurrences |-> 0, first |-> At(e), last |-> At(e),
     decoy |-> Attr[e].decoy, targets |-> {Src(e)} \ {Unknown}]

(* A detection of which this is the first event. *)
Fresh(e) ==
    [occurrences |-> 1, first |-> At(e), last |-> At(e),
     decoy |-> Attr[e].decoy, targets |-> {Src(e)} \ {Unknown}]

(* One that exists already. *)
Repeated(d, e) ==
    [occurrences |-> d.occurrences + 1, first |-> d.first, last |-> At(e),
     decoy |-> d.decoy, targets |-> d.targets \cup {Src(e)}]

RecordDetections(e, prints, ds) ==
    [f \in DOMAIN ds \cup prints |->
        IF f \notin prints THEN ds[f]
        ELSE IF f \in DOMAIN ds THEN Repeated(ds[f], e) ELSE Fresh(e)]

Class(count, spread) ==
    IF spread >= 3 /\ count >= 3 THEN "targeted"
    ELSE IF spread >= 2 THEN "opportunistic" ELSE "unknown"

(* Variant: the statistics are those of the detections that were touched. *)
TouchedBy(s, ds, e) == {f \in DOMAIN ds : f.src = s /\ ds[f].last = At(e)}

(* The detections of the investigation of a source. *)
DetectionsOf(s, ds, e) == {f \in DOMAIN ds : f.src = s}

(* _ensure_investigation and _update_investigation_stats, after the last  *)
(* detection of the event.                                                *)
Investigate(e, ds, is) ==
    LET s == Src(e)
        own == DetectionsOf(s, ds, e)
        count == Cardinality(own)
        spread == Cardinality({ds[f].decoy : f \in own})
        known == s \in DOMAIN is
    IN  [x \in DOMAIN is \cup {s} |->
            IF x # s THEN is[x]
            ELSE [first |-> IF known THEN is[s].first ELSE At(e),
                  last |-> IF known /\ is[s].last > At(e)
                           THEN is[s].last ELSE At(e),
                  count |-> count, spread |-> spread,
                  class |-> Class(count, spread)]]

-----------------------------------------------------------------------------

Init ==
    /\ stored = {} /\ late = {} /\ todo = {} /\ status = <<>> /\ updates = 0
    /\ tables = [processed |-> {}, detections |-> <<>>,
                 investigations |-> <<>>]
    /\ work = tables

(* An event is committed (insert_event). *)
Store(e) ==
    /\ e \notin stored
    /\ stored' = stored \cup {e}
    /\ late' = IF \E x \in work.processed \cup todo : Src(x) = Src(e) /\ At(x) >= At(e)
               THEN late \cup {e} ELSE late
    /\ UNCHANGED <<tables, work, todo, status, updates>>

(* No transaction is open. *)
Idle == todo = {} /\ work = tables
Pending == stored \ tables.processed

(* Variant: the latest events come first. *)
IsBatchFromTheEnd(es, n) ==
    /\ es \subseteq Pending
    /\ Cardinality(es) = IF n < Cardinality(Pending) THEN n
                         ELSE Cardinality(Pending)
    /\ \A x \in es, y \in Pending \ es : At(x) >= At(y)

(* The first n pending events; those of the same time come in any order. *)
IsBatch(es, n) ==
    /\ es \subseteq Pending
    /\ Cardinality(es) = IF n < Cardinality(Pending) THEN n
                         ELSE Cardinality(Pending)
    /\ \A x \in es, y \in Pending \ es : At(x) <= At(y)

(* materialize_detections selects its events.  That no transaction is open *)
(* is the restriction of this module, and not a guard of the code.         *)
TakeBatch ==
    /\ Idle
    /\ Pending # {}
    /\ \E n \in Limits : \E es \in SUBSET Pending :
        IsBatch(es, n) /\ todo' = es
    /\ UNCHANGED <<stored, tables, work, status, late, updates>>

(* And goes through the next one. *)
Process(e) ==
    LET prints == Fingerprints(e, stored)
        ds == RecordDetections(e, prints, work.detections)
    IN  /\ e \in todo
        /\ \A x \in todo : At(e) <= At(x)
        /\ todo' = todo \ {e}
        /\ work' = [processed |-> work.processed \cup {e},
                    detections |-> ds,
                    investigations |->
                        IF prints = {} THEN work.investigations
                        ELSE Investigate(e, ds, work.investigations)]
        /\ UNCHANGED <<stored, tables, status, late, updates>>

(* Variant: a detection that is repeated is opened again. *)
CommittedStatusReopened(f) ==
    IF f \in DOMAIN status /\ work.detections[f] = tables.detections[f]
    THEN status[f] ELSE "new"

CommittedStatus(f) == IF f \in DOMAIN status THEN status[f] ELSE "new"

(* The transaction commits; new detections have status "new". *)
Commit ==
    /\ todo = {}
    /\ work # tables
    /\ tables' = work
    /\ status' = [f \in DOMAIN work.detections |-> CommittedStatus(f)]
    /\ UNCHANGED <<stored, work, todo, late, updates>>

(* Or it is rolled back. *)
Abort ==
    /\ ~Idle
    /\ work' = tables
    /\ todo' = {}
    /\ UNCHANGED <<stored, tables, status, late, updates>>

(* PATCH /api/v1/detections/{id}: any status replaces any other.  It waits *)
(* for the lock of a row the open transaction has changed.                 *)
UpdateDetection(f, s) ==
    /\ f \in DOMAIN tables.detections
    /\ updates < MaxUpdates
    /\ updates' = updates + 1
    /\ work.detections[f] = tables.detections[f]
    /\ status' = [status EXCEPT ![f] = s]
    /\ UNCHANGED <<stored, tables, work, todo, late>>

Next ==
    \/ \E e \in Events : Store(e) \/ Process(e)
    \/ TakeBatch \/ Commit \/ Abort
    \/ \E f \in DOMAIN status : \E s \in Verdicts : UpdateDetection(f, s)

Spec == Init /\ [][Next]_vars

(* list_block_targets, and recommended_blocks of the posture. *)
BlockTargets ==
    UNION {tables.detections[f].targets :
            f \in {x \in DOMAIN status : status[x] \in Open}}

-----------------------------------------------------------------------------
(* Properties. *)

Detection ==
    [occurrences : Nat \ {0}, first : Nat, last : Nat, decoy : Decoys,
     targets : SUBSET Sources]
Investigation ==
    [first : Nat, last : Nat, count : Nat, spread : Nat, class : Classes]
Scopes == {<<>>} \cup (Decoys \X Requests)
TablesOK(t) ==
    /\ t.processed \subseteq stored
    /\ DOMAIN t.detections \subseteq
            [type : Types, src : Sources, scope : Scopes]
    /\ \A f \in DOMAIN t.detections : t.detections[f] \in Detection
    /\ DOMAIN t.investigations \subseteq Sources
    /\ \A s \in DOMAIN t.investigations : t.investigations[s] \in Investigation

(* Every variable stays in its type. *)
TypeOK ==
    /\ stored \subseteq Events
    /\ late \subseteq stored
    /\ TablesOK(tables) /\ TablesOK(work)
    /\ todo \subseteq stored
    /\ DOMAIN status = DOMAIN tables.detections
    /\ \A f \in DOMAIN status : status[f] \in Statuses
    /\ updates \in 0..MaxUpdates

(* Of a source whose events all came in order, the detections are exactly *)
(* those the rules give on the complete history, each with the number of  *)
(* its events and the times of the first and the last of them             *)
(* (services.py:498-528): cutting the history into batches, running the   *)
(* rules while events arrive and rolling batches back make no difference. *)
InOrderExact ==
    \A s \in Sources :
        (\A e \in late : Src(e) # s) =>
            LET mine == {e \in tables.processed : Src(e) = s}
                prints == UNION {Fingerprints(e, stored) : e \in mine}
            IN  /\ prints = {f \in DOMAIN tables.detections : f.src = s}
                /\ \A f \in prints :
                    LET hits == {e \in mine : f \in Fingerprints(e, stored)}
                        d == tables.detections[f]
                    IN  /\ d.occurrences = Cardinality(hits)
                        /\ \E e \in hits : d.first = At(e)
                        /\ \E e \in hits : d.last = At(e)
                        /\ \A e \in hits : d.first <= At(e) /\ At(e) <= d.last

(* Three events of a source at three decoys, at most w apart. *)
Scan(s, w) ==
    \E x, y, z \in {e \in stored : Src(e) = s} :
        /\ At(x) <= At(y) /\ At(y) <= At(z) /\ At(z) - At(x) <= w
        /\ Cardinality({Attr[x].decoy, Attr[y].decoy, Attr[z].decoy}) = 3

(* Two other events of the source of a login that come at most w before it. *)
Burst(s, w) ==
    \E x, y, z \in {e \in stored : Src(e) = s} :
        /\ Cardinality({x, y, z}) = 3
        /\ Attr[z].login
        /\ At(x) \in At(z) - w .. At(z) /\ At(y) \in At(z) - w .. At(z)

(* A source is never accused of a distributed scan or of brute force on   *)
(* events that do not bear it out (services.py:564-571), however late and *)
(* in whatever batches they came.                                         *)
NoFalseDetections ==
    \A f \in DOMAIN tables.detections :
        /\ f.type = "distributed_scanner_activity" => Scan(f.src, WideWindow)
        /\ f.type = "credential_bruteforce" => Burst(f.src, Window)

(* An investigation and its detections agree (services.py:473-483): its   *)
(* count is their number, its spread the number of decoys they name, and  *)
(* it was last seen no earlier than any of them, also when events came    *)
(* late.  A detection always has its investigation.  Materializations     *)
(* that overlap are excluded here: of those, see InvestigationsRecounted   *)
(* of IngestApi.                                                           *)
InvestigationsAgree ==
    /\ {f.src : f \in DOMAIN tables.detections} = DOMAIN tables.investigations
    /\ \A s \in DOMAIN tables.investigations :
        LET own == {f \in DOMAIN tables.detections : f.src = s}
            i == tables.investigations[s]
        IN  /\ i.count = Cardinality(own)
            /\ i.spread = Cardinality({tables.detections[f].decoy : f \in own})
            /\ \A f \in own : tables.detections[f].last <= i.last

(* What an analyst has decided on a detection stays decided               *)
(* (services.py:521-528): that its events go on, that a batch which       *)
(* touches it commits late or is rolled back, does not open it again.     *)
VerdictsKept ==
    [][\A f \in DOMAIN status :
        /\ f \in DOMAIN status'
        /\ status'[f] # status[f] => tables' = tables]_vars

(* The block list follows detections and verdicts (services.py:695-701):   *)
(* an address that is not on it comes onto it only with a detection of its *)
(* own that is new, or when an analyst opens one again, and never because  *)
(* a closed one is repeated; and only an analyst takes it off.  The        *)
(* placeholder of an event without an address is the exception: it comes   *)
(* with a repetition (services.py:525).                                    *)
BlocksFollowVerdicts ==
    [][\A s \in Sources \ {Unknown} :
        (s \in BlockTargets) # (s \in BlockTargets') =>
            \/ tables' = tables
            \/ /\ s \in BlockTargets'
               /\ \E f \in DOMAIN status' \ DOMAIN status : f.src = s]_vars

(* What test_services.py:75-108 asserts of three decoys that one source   *)
(* visits: when every event is processed, the scan is detected.  An event *)
(* that a relay held back is not looked at when the later ones are, and   *)
(* they are not looked at again (services.py:449, 538), so this is        *)
(* violated.                                                              *)
ScansDetected ==
    Idle /\ Pending = {} =>
        \A s \in Sources : Scan(s, WideWindow) =>
            \E f \in DOMAIN tables.detections :
                f.type = "distributed_scanner_activity" /\ f.src = s

=============================================================================

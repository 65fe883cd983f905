-------------------------- MODULE FleetHealthProofs --------------------------
(***************************************************************************)
(* Theorems about FleetHealth, for any fleet, requests at once, times and  *)
(* bounds.                                                                 *)
(*                                                                         *)
(* Whoever sees a decoy first, and however many do at once, it gets one    *)
(* row and one deployment.  A flush adds a deployment when it inserts the  *)
(* decoy; that it does so once rests on rows staying: a row that was there *)
(* when the session loaded it is there when it flushes (SessionInv), for a *)
(* session that is rolled back takes away only what no other has seen.     *)
(*                                                                         *)
(* No heartbeat is lost, for a session writes the time of a heartbeat only *)
(* in the stage that is about one, whatever it has loaded (BeatInv).       *)
(* Neither does an event take a site away (SiteInv).                       *)
(*                                                                         *)
(* An answer is exact when no other session has committed since the rows   *)
(* were reconciled for it: what the session flushes is then what it has in *)
(* memory, stage by stage (CalmInv).                                       *)
(***************************************************************************)
EXTENDS FleetHealth, TLAPS

Columns == {"status", "beat", "health", "site", "runtime", "failed", "copies"}

(* A row of a decoy with its one deployment, or none. *)
Present(r) ==
    /\ DOMAIN r = Columns
    /\ r.status \in {"expected", "active"} /\ r.copies = 1
Well(r) == r = Absent \/ Present(r)

(* The committed rows, and what their owners have made of them. *)
RowsInv ==
    \A d \in Decoys :
        /\ Well(rows[d]) /\ Well(work[d])
        /\ owner[d] # NoSession => work[d] # Absent

(* A session ends with its last stage. *)
Ends(t) ==
    /\ t \in Seq(Stages)
    /\ t # <<>> => t[Len(t)] \in {"commit", "close"}

(* What a session has in memory, of rows that it can still see. *)
SessionInv(s) ==
    /\ Ends(todo[s])
    /\ ~Open(s) => dirty[s] = {} /\ base[s] = Nothing /\ cached[s] = Absent
    /\ job[s].decoy \in Decoys
    /\ Well(cached[s])
    /\ cached[s] # Absent => Visible(s, job[s].decoy) # Absent
    /\ \A d \in Decoys :
        /\ Well(base[s][d])
        /\ base[s][d] # Absent => Visible(s, d) # Absent
    /\ dirty[s] \subseteq Decoys
    /\ dirty[s] # {} => Stage(s) \in LoadStages
    /\ \A d \in dirty[s] :
        /\ Stage(s) = "reconcile" => d \in Expected
        /\ Stage(s) = "refresh" => base[s][d] # Absent

TablesInv ==
    /\ owner \in [Decoys -> Sessions \cup {NoSession}]
    /\ DOMAIN job = Sessions /\ DOMAIN todo = Sessions
    /\ DOMAIN dirty = Sessions /\ DOMAIN base = Sessions
    /\ DOMAIN cached = Sessions

FleetInv ==
    /\ TablesInv /\ RowsInv
    /\ \A s \in Sessions : SessionInv(s)

USE FleetAssumption, SessionsAssumption

-----------------------------------------------------------------------------
(* What is made of a row. *)

LEMMA AbsentFacts ==
    /\ DOMAIN Absent = Columns /\ Absent.status = "absent" /\ Absent.copies = 0
    /\ \A r : Present(r) => r # Absent
BY DEF Absent, Columns, Present

LEMMA ReconciledPresent ==
    ASSUME NEW d \in Expected, NEW r, Well(r)
    PROVE  Present(Reconciled(d, r))
<1>1. CASE r = Absent
  BY <1>1 DEF Reconciled, Absent, Present, Columns
<1>2. CASE r # Absent
  BY <1>2 DEF Reconciled, Well, Present, Columns
<1> QED
  BY <1>1, <1>2

LEMMA OthersPresent ==
    ASSUME NEW r, Well(r), NEW j, NEW time
    PROVE  /\ r # Absent => Present(Refreshed(r, time))
           /\ Present(Alive(j, r))
           /\ Present(Seen(j, r))
<1>1. r # Absent => Present(Refreshed(r, time))
  BY DEF Refreshed, Well, Present, Columns
<1>2. CASE r = Absent
  BY <1>1, <1>2 DEF Alive, Seen, Absent, Present, Columns
<1>3. CASE r # Absent
  BY <1>1, <1>3 DEF Alive, Seen, Well, Present, Columns
<1> QED
  BY <1>2, <1>3

LEMMA MergedPresent ==
    ASSUME NEW r, NEW old, NEW new, Well(r), Well(old), Present(new), r = Absent <=> old = Absent
    PROVE  Present(Merged(r, old, new))
<1>1. DOMAIN Merged(r, old, new) = Columns
  BY AbsentFacts DEF Merged, Well, Present
<1>2. /\ Merged(r, old, new).copies = r.copies + new.copies - old.copies
      /\ Merged(r, old, new).status = IF new.status # old.status THEN new.status ELSE r.status
  BY AbsentFacts DEF Merged, Well, Present, Columns
<1> QED
  BY <1>1, <1>2, AbsentFacts DEF Well, Present

-----------------------------------------------------------------------------
(* The stages that are left. *)

LEMMA ProgramEnds ==
    ASSUME NEW kind \in RequestKinds \cup {"round"}
    PROVE  Ends(Program(kind))
<1> USE DEF Ends, Program, Stages, LoadStages
<1>1. CASE kind = "heartbeat"
  BY <1>1
<1>2. CASE kind = "event"
  BY <1>2
<1>3. CASE kind = "repeat"
  BY <1>3
<1>4. CASE kind = "fleet"
  BY <1>4
<1>5. CASE kind = "posture"
  BY <1>5
<1>6. CASE kind = "round"
  BY <1>6
<1>7. CASE kind = "summary"
  BY <1>7
<1> QED
  BY <1>1, <1>2, <1>3, <1>4, <1>5, <1>6, <1>7 DEF RequestKinds

LEMMA LenOfEmpty == \A t \in Seq(Stages) : t = <<>> <=> Len(t) = 0
OBVIOUS

LEMMA TailEnds ==
    ASSUME NEW t, Ends(t), t # <<>>
    PROVE  /\ Ends(Tail(t))
           /\ Head(t) \notin {"commit", "close"} => Tail(t) # <<>>
<1>1. t \in Seq(Stages) /\ t[Len(t)] \in {"commit", "close"}
  BY DEF Ends
<1>0. Len(t) \in Nat /\ Len(t) > 0
  BY <1>1
<1>2. Tail(t) \in Seq(Stages) /\ Len(Tail(t)) = Len(t) - 1
  BY <1>1
<1>3. CASE Len(t) = 1
  <2>1. Len(Tail(t)) = 0
    BY <1>1, <1>2, <1>3
  <2>2. Tail(t) = <<>>
    BY <1>2, <2>1, LenOfEmpty
  <2>3. Head(t) = t[Len(t)]
    BY <1>1, <1>3
  <2> QED
    BY <1>1, <1>2, <2>2, <2>3 DEF Ends
<1>4. CASE Len(t) # 1
  <2>1. Tail(t)[Len(Tail(t))] = t[Len(t)]
    BY <1>1, <1>0, <1>2, <1>4
  <2>2. Len(Tail(t)) # 0
    BY <1>1, <1>0, <1>2, <1>4
  <2>3. Tail(t) # <<>>
    BY <1>2, <2>2, LenOfEmpty
  <2> QED
    BY <1>1, <1>2, <2>1, <2>3 DEF Ends
<1> QED
  BY <1>3, <1>4

-----------------------------------------------------------------------------
(* Sessions. *)

LEMMA InitInv == Init => FleetInv
<1> SUFFICES ASSUME Init PROVE FleetInv
  OBVIOUS
<1>1. NoJob.decoy \in Decoys
  BY DEF NoJob
<1>2. TablesInv /\ RowsInv
  BY AbsentFacts DEF Init, TablesInv, RowsInv, Nothing, Well
<1>3. ASSUME NEW s \in Sessions PROVE SessionInv(s)
  BY <1>1, AbsentFacts DEF Init, SessionInv, Nothing, Well, Ends, Open
<1> QED
  BY <1>2, <1>3 DEF FleetInv

LEMMA VisibleWell ==
    ASSUME RowsInv, NEW s \in Sessions, NEW d \in Decoys
    PROVE  Well(Visible(s, d))
BY DEF RowsInv, Visible

(* A row in memory is one that is there. *)
LEMMA FoundFacts ==
    ASSUME RowsInv, NEW s \in Sessions, SessionInv(s), NEW d \in Decoys
    PROVE  /\ Well(Found(s, d))
           /\ Found(s, d) = Absent <=> Visible(s, d) = Absent
<1>1. Well(Visible(s, d))
  BY VisibleWell
<1>2. CASE cached[s] = Absent \/ d # job[s].decoy
  BY <1>1, <1>2 DEF Found
<1>3. CASE ~(cached[s] = Absent \/ d # job[s].decoy)
  <2>1. Present(Visible(s, d)) /\ Present(cached[s])
    BY <1>1, <1>3 DEF SessionInv, Well
  <2>2. Present(Found(s, d))
    BY <1>3, <2>1 DEF Found, Present, Columns
  <2> QED
    BY <2>1, <2>2, AbsentFacts DEF Well
<1> QED
  BY <1>2, <1>3

(* What a session does not touch, and rows that stay, keep what it knows.  *)
LEMMA FrameKeeps ==
    ASSUME NEW x \in Sessions, SessionInv(x),
           todo'[x] = todo[x], job'[x] = job[x], dirty'[x] = dirty[x],
           base'[x] = base[x], cached'[x] = cached[x],
           \A d \in Decoys : Visible(x, d) # Absent => Visible(x, d)' # Absent
    PROVE  SessionInv(x)'
BY DEF SessionInv, Stage, Open, Nothing, Absent

(* A session that has nothing in memory but its event, or ends. *)
LEMMA ForgottenSession ==
    ASSUME NEW s \in Sessions, job'[s].decoy \in Decoys, Ends(todo'[s]),
           todo'[s] = <<>> => cached'[s] = Absent,
           dirty'[s] = {}, base'[s] = Nothing,
           Well(cached'[s]),
           cached'[s] # Absent => Visible(s, job[s].decoy)' # Absent
    PROVE  SessionInv(s)'
<1>1. \A d \in Decoys : base'[s][d] = Absent
  BY DEF Nothing
<1>2. Absent' = Absent /\ Nothing' = Nothing
  BY DEF Absent, Nothing
<1>3. \A d \in Decoys : Well(base[s][d])' /\ (base[s][d])' = Absent
  BY <1>1 DEF Well, Absent, Present, Columns
<1>4. Ends(todo[s])' /\ Well(cached[s])'
  BY DEF Ends, Well, Absent, Present, Columns, Stages, LoadStages
<1>5. (~Open(s))' => cached'[s] = Absent
  BY DEF Open
<1> QED
  BY <1>1, <1>2, <1>3, <1>4, <1>5 DEF SessionInv

(* The end of a session takes its own changes back. *)
LEMMA EndKeeps ==
    ASSUME FleetInv, NEW s \in Sessions, End(s),
           \/ rows' = rows
           \/ rows' = [d \in Decoys |-> Visible(s, d)]
    PROVE  FleetInv'
<1>1. NoJob.decoy \in Decoys
  BY DEF NoJob
<1>2. /\ TablesInv' /\ job'[s] = NoJob /\ dirty'[s] = {} /\ todo'[s] = <<>>
      /\ base'[s] = Nothing
      /\ cached'[s] = Absent
      /\ \A x \in Sessions : x # s =>
            /\ todo'[x] = todo[x] /\ job'[x] = job[x] /\ dirty'[x] = dirty[x]
            /\ base'[x] = base[x] /\ cached'[x] = cached[x]
  BY DEF End, FleetInv, TablesInv, Released
<1>3. \A d \in Decoys :
        /\ owner'[d] = IF owner[d] = s THEN NoSession ELSE owner[d]
        /\ work'[d] = IF owner[d] = s THEN Absent ELSE work[d]
        /\ rows'[d] \in {rows[d], Visible(s, d)}
  BY DEF End, Released, Cleared
<1>4. RowsInv'
  BY <1>3, VisibleWell DEF FleetInv, RowsInv, Well
<1>5. \A d \in Decoys : rows[d] # Absent => rows'[d] # Absent
  BY <1>3 DEF FleetInv, RowsInv, Visible
<1>6. ASSUME NEW x \in Sessions PROVE SessionInv(x)'
  <2>1. CASE x = s
    <3>1. Ends(<<>>) /\ Well(Absent)
      BY DEF Ends, Well
    <3>2. Ends(todo'[s]) /\ Well(cached'[s])
      BY <1>2, <3>1
    <3> QED
      BY <1>1, <1>2, <2>1, <3>2, ForgottenSession
  <2>2. CASE x # s
    <3>1. \A d \in Decoys : Visible(x, d) # Absent => Visible(x, d)' # Absent
      BY <1>3, <1>5, <2>2 DEF Visible
    <3> QED
      BY <1>2, <2>2, <3>1, FrameKeeps DEF FleetInv
  <2> QED
    BY <2>1, <2>2
<1> QED
  BY <1>2, <1>4, <1>6 DEF FleetInv

-----------------------------------------------------------------------------
(* The steps. *)

LEMMA BeginKeeps ==
    ASSUME FleetInv, NEW s \in Sessions, NEW j,
           j.decoy \in Decoys, j.kind \in RequestKinds \cup {"round"},
           Begin(s, j)
    PROVE  FleetInv'
<1>1. /\ UNCHANGED <<rows, owner, work, dirty, base, cached>>
      /\ job'[s] = j /\ DOMAIN job' = Sessions /\ DOMAIN todo' = Sessions
      /\ \A x \in Sessions : x # s => todo'[x] = todo[x] /\ job'[x] = job[x]
  BY DEF Begin, FleetInv, TablesInv
<1>2. \A x \in Sessions, d \in Decoys : Visible(x, d)' = Visible(x, d)
  BY <1>1 DEF Visible
<1>3. ASSUME NEW x \in Sessions PROVE SessionInv(x)'
  <2>1. CASE x = s
    <3>1. dirty[s] = {} /\ base[s] = Nothing /\ cached[s] = Absent
      BY DEF Begin, FleetInv, SessionInv
    <3>2. Ends(todo'[s])
      BY ProgramEnds DEF Begin, FleetInv, TablesInv
    <3>3. Absent' = Absent /\ Well(Absent)
      BY DEF Absent, Well
    <3> QED
      BY <1>1, <2>1, <3>1, <3>2, <3>3, ForgottenSession
  <2>2. CASE x # s
    BY <1>1, <1>2, <2>2, FrameKeeps DEF FleetInv
  <2> QED
    BY <2>1, <2>2
<1> QED
  BY <1>1, <1>3 DEF FleetInv, TablesInv, RowsInv

(* The next stage: the session has nothing in memory but its event. *)
LEMMA AdvanceFacts ==
    ASSUME FleetInv, NEW s \in Sessions, Open(s), Advance(s)
    PROVE  /\ DOMAIN todo' = Sessions /\ DOMAIN dirty' = Sessions
           /\ DOMAIN base' = Sessions
           /\ Ends(todo'[s])
           /\ Stage(s) \notin {"commit", "close"} => todo'[s] # <<>>
           /\ dirty'[s] = {} /\ base'[s] = Nothing
           /\ \A x \in Sessions : x # s =>
                /\ todo'[x] = todo[x] /\ dirty'[x] = dirty[x]
                /\ base'[x] = base[x]
<1>1. Ends(todo[s]) /\ todo[s] # <<>>
  BY DEF FleetInv, SessionInv, Open
<1>2. /\ Ends(Tail(todo[s]))
      /\ Stage(s) \notin {"commit", "close"} => Tail(todo[s]) # <<>>
  BY <1>1, TailEnds DEF Stage
<1> QED
  BY <1>2 DEF Advance, FleetInv, TablesInv

LEMMA LoadKeeps ==
    ASSUME FleetInv, NEW s \in Sessions, Load(s)
    PROVE  FleetInv'
<1> DEFINE changes == Changes(s, now)
<1>1. UNCHANGED <<rows, owner, work, job, cached>>
  BY DEF Load
<1>2. \A x \in Sessions, d \in Decoys : Visible(x, d)' = Visible(x, d)
  BY <1>1 DEF Visible
<1>3. changes \subseteq Decoys
  BY DEF Changes, Scope, FleetInv, SessionInv
<1>4. \A d \in changes :
        /\ Well(Found(s, d))
        /\ Found(s, d) # Absent => Visible(s, d) # Absent
        /\ Stage(s) = "reconcile" => d \in Expected
        /\ Stage(s) = "refresh" => Found(s, d) # Absent
  <2>1. \A d \in changes :
            /\ Stage(s) = "reconcile" => d \in Expected
            /\ Stage(s) = "refresh" => Visible(s, d) # Absent
    BY DEF Changes, Scope
  <2> QED
    BY <1>3, <2>1, FoundFacts DEF FleetInv
<1> HIDE DEF changes
<1>5. CASE changes = {}
  <2>1. Advance(s)
    BY <1>5 DEF Load, changes
  <2>2. /\ TablesInv'
        /\ Ends(todo'[s]) /\ todo'[s] # <<>>
        /\ dirty'[s] = {} /\ base'[s] = Nothing
        /\ \A x \in Sessions : x # s =>
                todo'[x] = todo[x] /\ dirty'[x] = dirty[x] /\ base'[x] = base[x]
    <3>1. Open(s) /\ Stage(s) \notin {"commit", "close"}
      BY DEF Load, LoadStages
    <3> QED
      BY <1>1, <2>1, <3>1, AdvanceFacts DEF FleetInv, TablesInv
  <2>3. SessionInv(s)'
    <3>1. /\ job[s].decoy \in Decoys /\ Well(cached[s])
          /\ cached[s] # Absent => Visible(s, job[s].decoy) # Absent
      BY DEF FleetInv, SessionInv
    <3>2. /\ job'[s].decoy \in Decoys /\ Well(cached'[s])
          /\ cached'[s] # Absent => Visible(s, job[s].decoy)' # Absent
      BY <1>1, <3>1 DEF Visible
    <3> QED
      BY <2>2, <3>2, ForgottenSession
  <2>4. ASSUME NEW x \in Sessions, x # s PROVE SessionInv(x)'
    BY <1>1, <1>2, <2>2, <2>4, FrameKeeps DEF FleetInv
  <2> QED
    BY <1>1, <2>2, <2>3, <2>4 DEF FleetInv, RowsInv
<1>6. CASE changes # {}
  <2>1. /\ todo' = todo
        /\ dirty' = [dirty EXCEPT ![s] = changes]
        /\ base' = [base EXCEPT ![s] = [d \in Decoys |->
                        IF d \in changes THEN Found(s, d) ELSE Absent]]
        /\ Stage(s) \in LoadStages
    BY <1>6 DEF Load, changes
  <2>2. /\ TablesInv' /\ dirty'[s] = changes
        /\ \A d \in Decoys : base'[s][d] = IF d \in changes THEN Found(s, d) ELSE Absent
        /\ \A x \in Sessions : x # s => dirty'[x] = dirty[x] /\ base'[x] = base[x]
    BY <1>1, <2>1 DEF FleetInv, TablesInv
  <2>3. Stage(s)' = Stage(s) /\ Absent' = Absent
    BY <2>1 DEF Stage, Absent
  <2>4. \A d \in Decoys :
            /\ Well(base[s][d])'
            /\ (base[s][d] # Absent)' => Visible(s, d) # Absent
    BY <1>4, <2>2 DEF Well
  <2>5. \A d \in dirty'[s] :
            /\ Stage(s)' = "reconcile" => d \in Expected
            /\ Stage(s)' = "refresh" => (base[s][d] # Absent)'
    BY <1>3, <1>4, <2>2, <2>3
  <2>6. SessionInv(s)'
    <3>1. Open(s)' = Open(s) /\ Ends(todo[s])' = Ends(todo[s])
      BY <2>1 DEF Open, Ends, Stages, LoadStages
    <3>2. Open(s)
      BY DEF Load
    <3>3. /\ job[s].decoy \in Decoys /\ Well(cached[s]) /\ Ends(todo[s])
          /\ cached[s] # Absent => Visible(s, job[s].decoy) # Absent
      BY DEF FleetInv, SessionInv
    <3>4. /\ (job[s].decoy)' \in Decoys /\ Well(cached[s])'
          /\ (cached[s] # Absent)' => Visible(s, job[s].decoy)' # Absent
      BY <1>1, <2>3, <3>3 DEF Visible, Well, Present, Columns
    <3>5. \A d \in Decoys : Visible(s, d)' = Visible(s, d)
      BY <1>2
    <3>6. (dirty[s] \subseteq Decoys)' /\ Stage(s)' \in LoadStages
      BY <1>3, <2>1, <2>2, <2>3
    <3> QED
      BY <2>3, <2>4, <2>5, <3>1, <3>2, <3>3, <3>4, <3>5, <3>6 DEF SessionInv
  <2>7. ASSUME NEW x \in Sessions, x # s PROVE SessionInv(x)'
    BY <1>1, <1>2, <2>1, <2>2, <2>7, FrameKeeps DEF FleetInv
  <2> QED
    BY <1>1, <2>2, <2>6, <2>7 DEF FleetInv, RowsInv
<1> QED
  BY <1>5, <1>6

(* A flush inserts only what is not there, and it writes rows that no      *)
(* other session has locked.                                               *)
LEMMA FlushedPresent ==
    ASSUME FleetInv, NEW s \in Sessions, Flush(s), NEW d \in dirty[s]
    PROVE  /\ Present(New(s, d))
           /\ Present(Merged(Visible(s, d), base[s][d], New(s, d)))
<1>1. /\ d \in Decoys /\ Well(base[s][d]) /\ Stage(s) \in LoadStages
      /\ base[s][d] # Absent => Visible(s, d) # Absent
      /\ Stage(s) = "reconcile" => d \in Expected
      /\ Stage(s) = "refresh" => base[s][d] # Absent
  BY DEF FleetInv, SessionInv
<1>2. base[s][d] = Absent => Visible(s, d) = Absent
  BY DEF Flush, Clash, Inserted
<1>3. Well(Visible(s, d))
  BY <1>1, VisibleWell DEF FleetInv
<1>4. Present(New(s, d))
  <2>1. CASE Stage(s) = "reconcile"
    BY <1>1, <2>1, ReconciledPresent DEF New, Changed
  <2>2. CASE Stage(s) = "refresh"
    <3>1. New(s, d) = Refreshed(base[s][d], read[s])
      BY <2>2 DEF New, Changed
    <3> QED
      BY <1>1, <2>2, <3>1, OthersPresent
  <2>3. CASE Stage(s) = "heartbeat"
    <3>1. New(s, d) = Alive(job[s], base[s][d])
      BY <2>3 DEF New, Changed
    <3> QED
      BY <1>1, <3>1, OthersPresent
  <2>4. CASE Stage(s) = "event"
    <3>1. New(s, d) = Seen(job[s], base[s][d])
      BY <2>4 DEF New, Changed
    <3> QED
      BY <1>1, <3>1, OthersPresent
  <2> QED
    BY <1>1, <2>1, <2>2, <2>3, <2>4 DEF LoadStages
<1> QED
  BY <1>1, <1>2, <1>3, <1>4, MergedPresent

LEMMA FlushKeeps ==
    ASSUME FleetInv, NEW s \in Sessions, Flush(s)
    PROVE  FleetInv'
<1>1. /\ Open(s) /\ Advance(s) /\ rows' = rows /\ job' = job
      /\ Stage(s) \notin {"commit", "close"}
      /\ dirty[s] \subseteq Decoys
      /\ \A d \in dirty[s] : owner[d] \in {s, NoSession}
  BY DEF Flush, CanFlush, FleetInv, SessionInv, LoadStages
<1>2. /\ owner' = [d \in Decoys |-> IF d \in dirty[s] THEN s ELSE owner[d]]
      /\ \A d \in Decoys : work'[d] =
            IF d \in dirty[s]
            THEN Merged(Visible(s, d), base[s][d], New(s, d)) ELSE work[d]
      /\ DOMAIN cached' = Sessions
      /\ \/ cached'[s] = cached[s]
         \/ job[s].decoy \in dirty[s] /\ cached'[s] = New(s, job[s].decoy)
      /\ \A x \in Sessions : x # s => cached'[x] = cached[x]
  BY DEF Flush, FleetInv, TablesInv
<1>3. TablesInv'
  BY <1>1, <1>2, AdvanceFacts DEF FleetInv, TablesInv
<1>4. ASSUME NEW d \in Decoys
      PROVE  /\ Well(work'[d])
             /\ owner'[d] # NoSession => work'[d] # Absent
             /\ d \in dirty[s] => work'[d] # Absent
  <2>1. CASE d \in dirty[s]
    BY <1>2, <2>1, FlushedPresent, AbsentFacts DEF Well
  <2>2. CASE d \notin dirty[s]
    BY <1>2, <2>2 DEF FleetInv, RowsInv
  <2> QED
    BY <2>1, <2>2
<1>5. RowsInv'
  <2>1. \A r : Well(r)' <=> Well(r)
    BY DEF Well, Absent, Present, Columns
  <2> QED
    BY <1>1, <1>4, <2>1 DEF FleetInv, RowsInv
<1>6. ASSUME NEW x \in Sessions, NEW d \in Decoys, Visible(x, d) # Absent
      PROVE  Visible(x, d)' # Absent
  <2>1. CASE d \in dirty[s] /\ x = s
    BY <1>2, <1>4, <2>1 DEF Visible
  <2>2. CASE d \in dirty[s] /\ x # s
    <3>1. owner[d] # x /\ owner'[d] # x
      BY <1>1, <1>2, <2>2
    <3> QED
      BY <1>1, <1>6, <3>1 DEF Visible
  <2>3. CASE d \notin dirty[s]
    BY <1>1, <1>2, <1>6, <2>3 DEF Visible
  <2> QED
    BY <2>1, <2>2, <2>3
<1>7. SessionInv(s)'
  <2>1. /\ job[s].decoy \in Decoys /\ Well(cached[s])
        /\ cached[s] # Absent => Visible(s, job[s].decoy) # Absent
    BY DEF FleetInv, SessionInv
  <2>2. Well(cached'[s])
    BY <1>2, <2>1, FlushedPresent DEF Well
  <2>3. job[s].decoy \in dirty[s] => Visible(s, job[s].decoy)' # Absent
    BY <1>1, <1>2, <1>4, <2>1 DEF Visible
  <2>4. cached'[s] # Absent => Visible(s, job[s].decoy)' # Absent
    BY <1>1, <1>2, <1>6, <2>1, <2>3
  <2> QED
    BY <1>1, <2>1, <2>2, <2>4, AdvanceFacts, ForgottenSession
<1>8. ASSUME NEW x \in Sessions, x # s PROVE SessionInv(x)'
  BY <1>1, <1>2, <1>6, <1>8, AdvanceFacts, FrameKeeps DEF FleetInv
<1> QED
  BY <1>3, <1>5, <1>7, <1>8 DEF FleetInv

LEMMA ReportKeeps ==
    ASSUME FleetInv, NEW s \in Sessions, Report(s)
    PROVE  FleetInv'
<1>1. /\ UNCHANGED <<rows, owner, work, job, cached>>
      /\ Open(s) /\ Advance(s) /\ Stage(s) \notin {"commit", "close"}
  BY DEF Report
<1>2. \A x \in Sessions, d \in Decoys : Visible(x, d)' = Visible(x, d)
  BY <1>1 DEF Visible
<1>3. TablesInv' /\ RowsInv'
  BY <1>1, AdvanceFacts DEF FleetInv, TablesInv, RowsInv
<1>4. SessionInv(s)'
  <2>1. /\ job[s].decoy \in Decoys /\ Well(cached[s])
        /\ cached[s] # Absent => Visible(s, job[s].decoy) # Absent
    BY DEF FleetInv, SessionInv
  <2>2. /\ job'[s].decoy \in Decoys /\ Well(cached'[s])
        /\ cached'[s] # Absent => Visible(s, job[s].decoy)' # Absent
    BY <1>1, <2>1 DEF Visible
  <2> QED
    BY <1>1, <2>2, AdvanceFacts, ForgottenSession
<1>5. ASSUME NEW x \in Sessions, x # s PROVE SessionInv(x)'
  BY <1>1, <1>2, <1>5, AdvanceFacts, FrameKeeps DEF FleetInv
<1> QED
  BY <1>3, <1>4, <1>5 DEF FleetInv

(* The rows a session commits are those it saw: none goes.                 *)
LEMMA CommitKeeps ==
    ASSUME FleetInv, NEW s \in Sessions, Commit(s)
    PROVE  FleetInv'
<1>1. Open(s) /\ rows' = [d \in Decoys |-> Visible(s, d)]
  BY DEF Commit
<1>2. CASE Tail(todo[s]) = <<>>
  <2>1. End(s)
    BY <1>2 DEF Commit
  <2> QED
    BY <1>1, <2>1, EndKeeps
<1>3. CASE Tail(todo[s]) # <<>>
  <2>1. /\ owner' = Released(s) /\ work' = Cleared(s)
        /\ Advance(s)
        /\ UNCHANGED <<job, cached>>
    BY <1>3 DEF Commit
  <2>3. todo'[s] # <<>>
    BY <1>3, <2>1 DEF Advance, FleetInv, TablesInv
  <2>4. \A d \in Decoys :
            /\ owner'[d] = IF owner[d] = s THEN NoSession ELSE owner[d]
            /\ work'[d] = IF owner[d] = s THEN Absent ELSE work[d]
            /\ rows'[d] = Visible(s, d)
    BY <1>1, <2>1 DEF Released, Cleared
  <2>5. TablesInv'
    BY <1>1, <2>1, AdvanceFacts DEF FleetInv, TablesInv, Released
  <2>6. RowsInv'
    BY <2>4, VisibleWell DEF FleetInv, RowsInv, Well
  <2>7. ASSUME NEW x \in Sessions, NEW d \in Decoys, Visible(x, d) # Absent
        PROVE  Visible(x, d)' # Absent
    BY <2>4, <2>7 DEF FleetInv, RowsInv, Visible
  <2>8. SessionInv(s)'
    <3>1. job[s].decoy \in Decoys /\ Well(cached[s])
      BY DEF FleetInv, SessionInv
    <3>2. Well(cached'[s])
      BY <2>1, <3>1
    <3>3. cached'[s] # Absent => Visible(s, job[s].decoy)' # Absent
      <4>1. cached'[s] # Absent => Visible(s, job[s].decoy) # Absent
        BY <2>1 DEF FleetInv, SessionInv
      <4> QED
        BY <2>1, <2>7, <3>1, <4>1
    <3> QED
      BY <1>1, <2>1, <2>3, <3>1, <3>2, <3>3, AdvanceFacts, ForgottenSession
  <2>9. ASSUME NEW x \in Sessions, x # s PROVE SessionInv(x)'
    BY <1>1, <2>1, <2>7, <2>9, AdvanceFacts, FrameKeeps DEF FleetInv
  <2> QED
    BY <2>5, <2>6, <2>8, <2>9 DEF FleetInv
<1> QED
  BY <1>2, <1>3

LEMMA RollbackKeeps ==
    ASSUME FleetInv, NEW s \in Sessions, Rollback(s)
    PROVE  FleetInv'
BY EndKeeps DEF Rollback

LEMMA NextKeeps == FleetInv /\ [Next]_vars => FleetInv'
<1> SUFFICES ASSUME FleetInv, [Next]_vars PROVE FleetInv'
  OBVIOUS
<1>1. ASSUME NEW s \in Sessions, Load(s) PROVE FleetInv'
  BY <1>1, LoadKeeps
<1>2. ASSUME NEW s \in Sessions, Flush(s) PROVE FleetInv'
  BY <1>2, FlushKeeps
<1>3. ASSUME NEW s \in Sessions, Report(s) PROVE FleetInv'
  BY <1>3, ReportKeeps
<1>4. ASSUME NEW s \in Sessions, Commit(s) PROVE FleetInv'
  BY <1>4, CommitKeeps
<1>5. ASSUME NEW s \in Sessions,
             Close(s) \/ DuplicateKey(s) \/ DeadlockVictim(s) \/ Fail(s)
      PROVE  FleetInv'
  BY <1>5, RollbackKeeps DEF Close, DuplicateKey, DeadlockVictim, Fail
<1>6. ASSUME NEW s \in Apis, Request(s) PROVE FleetInv'
  <2>1. PICK kind \in Kinds, d \in Decoys, t \in 0..now :
            \E site \in {Reported[d], Unknown} :
                Begin(s, [kind |-> kind, decoy |-> d, at |-> t, site |-> site])
    BY <1>6 DEF Request
  <2>2. PICK site \in {Reported[d], Unknown} :
            Begin(s, [kind |-> kind, decoy |-> d, at |-> t, site |-> site])
    BY <2>1
  <2>3. kind \in RequestKinds \cup {"round"} /\ s \in Sessions
    BY DEF Sessions
  <2> QED
    BY <2>2, <2>3, BeginKeeps
<1>7. CASE WorkerRound
  <2>1. NoJob.decoy \in Decoys /\ NoJob.kind \in RequestKinds \cup {"round"}
    BY DEF NoJob
  <2>2. Worker \in Sessions
    BY DEF Sessions
  <2> QED
    BY <1>7, <2>1, <2>2, BeginKeeps DEF WorkerRound
<1>8. CASE Tick \/ UNCHANGED vars
  <2>1. UNCHANGED <<rows, owner, work, todo, job, dirty, base, cached>>
    BY <1>8 DEF Tick, vars, sessionVars
  <2>2. \A x \in Sessions, d \in Decoys : Visible(x, d)' = Visible(x, d)
    BY <2>1 DEF Visible
  <2>3. ASSUME NEW x \in Sessions PROVE SessionInv(x)'
    BY <2>1, <2>2, FrameKeeps DEF FleetInv
  <2> QED
    BY <2>1, <2>3 DEF FleetInv, TablesInv, RowsInv
<1> QED
  BY <1>1, <1>2, <1>3, <1>4, <1>5, <1>6, <1>7, <1>8 DEF Next, Step

(* Every decoy has one row and one deployment, or none, whichever sessions *)
(* were the first to see it and flushed what they loaded before            *)
(* (services.py:245 and 367).                                              *)
THEOREM OneDeployment == Spec => []OneDeploymentEach
<1>1. FleetInv => OneDeploymentEach
  BY AbsentFacts DEF FleetInv, RowsInv, Well, Present, OneDeploymentEach
<1> QED
  BY <1>1, InitInv, NextKeeps, PTL DEF Spec

-----------------------------------------------------------------------------
(* Heartbeats.  What is stored is the newest one, and what a transaction   *)
(* has written of it is that or, with nothing but its commit left, the one *)
(* it was sent.  A heartbeat that found its own time stored writes nothing *)
(* and may find another one there when it commits; it is late then.        *)

HeartbeatStages ==
    {<<"commit">>, <<"heartbeat", "commit">>, <<"reconcile", "heartbeat", "commit">>}

Applied(s, d) ==
    job[s].kind = "heartbeat" /\ job[s].decoy = d /\ todo[s] = <<"commit">>

JobInv(s) ==
    /\ job[s].at \in Nat
    /\ cached[s] # Absent => job[s].kind # "heartbeat"
    /\ job[s].kind = "heartbeat" => todo[s] \in HeartbeatStages
    /\ job[s].kind # "heartbeat" =>
            \A n \in DOMAIN todo[s] : todo[s][n] # "heartbeat"
    /\ dirty[s] # {} /\ Stage(s) = "heartbeat" => dirty[s] = {job[s].decoy}

BeatInv(s, d) ==
    /\ owner[d] = s =>
            \/ work[d].beat = newest[d]
            \/ Applied(s, d) /\ work[d].beat = job[s].at
    /\ Stage(s) = "heartbeat" /\ d \in dirty[s] /\ base[s][d].beat = job[s].at
            => job[s].at <= newest[d]
    /\ Applied(s, d) =>
            Visible(s, d).beat = job[s].at \/ job[s].at <= newest[d]

HeartbeatsInv ==
    /\ newest \in [Decoys -> Nat]
    /\ \A s \in Sessions : JobInv(s)
    /\ \A d \in Decoys \ late :
        /\ rows[d].beat = newest[d]
        /\ \A s \in Sessions : BeatInv(s, d)

LEMMA StagesLeft ==
    ASSUME NEW t \in HeartbeatStages
    PROVE  /\ Head(t) \in {"reconcile", "heartbeat", "commit"}
           /\ Head(t) = "commit" <=> t = <<"commit">>
           /\ Head(t) = "heartbeat" => Tail(t) = <<"commit">>
           /\ Head(t) = "reconcile" => Tail(t) = <<"heartbeat", "commit">>
           /\ t # <<>>
<1>1. CASE t = <<"commit">>
  BY <1>1
<1>2. CASE t = <<"heartbeat", "commit">>
  BY <1>2
<1>3. CASE t = <<"reconcile", "heartbeat", "commit">>
  BY <1>3
<1> QED
  BY <1>1, <1>2, <1>3 DEF HeartbeatStages

LEMMA ProgramOfHeartbeat ==
    ASSUME NEW kind \in RequestKinds \cup {"round"}
    PROVE  /\ kind = "heartbeat" =>
                /\ Program(kind) \in HeartbeatStages
                /\ Program(kind) # <<"commit">>
           /\ kind # "heartbeat" => \A n \in DOMAIN Program(kind) :
                Program(kind)[n] # "heartbeat"
<1> USE DEF Program, HeartbeatStages
<1>1. CASE kind = "heartbeat"
  BY <1>1
<1>2. CASE kind = "event"
  BY <1>2
<1>3. CASE kind = "repeat"
  BY <1>3
<1>4. CASE kind = "fleet"
  BY <1>4
<1>5. CASE kind = "posture"
  BY <1>5
<1>6. CASE kind = "summary"
  BY <1>6
<1>7. CASE kind = "round"
  BY <1>7
<1> QED
  BY <1>1, <1>2, <1>3, <1>4, <1>5, <1>6, <1>7 DEF RequestKinds

LEMMA OneStageLeft == Tail(<<"commit">>) = <<>> /\ <<"heartbeat", "commit">> # <<"commit">>
OBVIOUS

(* What only a heartbeat changes of a row. *)
LEMMA BeatsOfRows ==
    ASSUME NEW d \in Decoys, NEW r, Well(r), NEW j, NEW time
    PROVE  /\ Reconciled(d, r).beat = r.beat
           /\ Refreshed(r, time).beat = r.beat
           /\ Seen(j, r).beat = r.beat
           /\ Alive(j, r).beat = j.at
<1>1. DOMAIN r = Columns
  BY AbsentFacts DEF Well, Present
<1>2. Reconciled(d, r).beat = r.beat
  BY <1>1 DEF Reconciled, Absent, Columns
<1>3. Refreshed(r, time).beat = r.beat
  BY <1>1 DEF Refreshed, Columns
<1>4. Seen(j, r).beat = r.beat /\ Alive(j, r).beat = j.at
  BY <1>1 DEF Seen, Alive, Columns
<1> QED
  BY <1>2, <1>3, <1>4

LEMMA InitHeartbeats == Init => HeartbeatsInv
<1> SUFFICES ASSUME Init PROVE HeartbeatsInv
  OBVIOUS
<1>1. ASSUME NEW s \in Sessions PROVE JobInv(s)
  BY DEF Init, JobInv, NoJob
<1>2. ASSUME NEW s \in Sessions, NEW d \in Decoys PROVE BeatInv(s, d)
  BY DEF Init, BeatInv, Applied, NoJob
<1>3. /\ newest \in [Decoys -> Nat]
      /\ \A d \in Decoys : rows[d].beat = newest[d]
  BY DEF Init, Nothing, Absent
<1> QED
  BY <1>1, <1>2, <1>3 DEF HeartbeatsInv

(* A row that a session loads has the newest heartbeat. *)
LEMMA VisibleBeat ==
    ASSUME HeartbeatsInv, NEW s \in Sessions, NEW d \in Decoys \ late, ~Applied(s, d)
    PROVE  Visible(s, d).beat = newest[d]
BY DEF HeartbeatsInv, BeatInv, Visible

(* What other sessions do, of which a heartbeat is the newest.             *)
LEMMA OthersBeats ==
    ASSUME HeartbeatsInv, NEW x \in Sessions, NEW d \in Decoys \ late,
           todo'[x] = todo[x], job'[x] = job[x], dirty'[x] = dirty[x],
           base'[x] = base[x],
           owner'[d] = x <=> owner[d] = x,
           owner[d] = x => work'[d] = work[d] /\ newest'[d] = newest[d],
           newest'[d] \in Nat, newest[d] <= newest'[d]
    PROVE  BeatInv(x, d)'
<1>1. /\ BeatInv(x, d) /\ rows[d].beat = newest[d]
      /\ newest[d] \in Nat /\ job[x].at \in Nat
  BY DEF HeartbeatsInv, JobInv
<1>2. Stage(x)' = Stage(x) /\ Applied(x, d)' = Applied(x, d)
  BY DEF Stage, Applied
<1>3. CASE owner[d] = x
  <2>1. Visible(x, d)' = Visible(x, d)
    BY <1>3 DEF Visible
  <2> QED
    BY <1>1, <1>2, <1>3, <2>1 DEF BeatInv
<1>4. CASE owner[d] # x
  <2>1. job[x].at <= newest[d] => job[x].at <= newest'[d]
    BY <1>1
  <2>2. Applied(x, d) => job[x].at <= newest[d]
    BY <1>1, <1>4 DEF BeatInv, Visible
  <2> QED
    BY <1>1, <1>2, <1>4, <2>1, <2>2 DEF BeatInv
<1> QED
  BY <1>3, <1>4

LEMMA OthersJobs ==
    ASSUME NEW x \in Sessions, JobInv(x),
           todo'[x] = todo[x], job'[x] = job[x], dirty'[x] = dirty[x],
           cached'[x] = cached[x]
    PROVE  JobInv(x)'
<1>1. Stage(x)' = Stage(x) /\ Absent' = Absent
  BY DEF Stage, Absent
<1> QED
  BY <1>1 DEF JobInv, HeartbeatStages

(* A session that goes on to its next stage. *)
LEMMA NextJob ==
    ASSUME NEW s \in Sessions, JobInv(s), Ends(todo[s]), Open(s),
           todo'[s] = Tail(todo[s]), job'[s] = job[s], dirty'[s] = {},
           cached'[s] # Absent => job[s].kind # "heartbeat",
           Stage(s) # "commit" \/ job[s].kind # "heartbeat"
    PROVE  /\ JobInv(s)'
           /\ job[s].kind # "heartbeat" => Stage(s) # "heartbeat"
           /\ \A d \in Decoys : Stage(s) # "heartbeat" => ~Applied(s, d)'
           /\ \A d \in Decoys : ~Applied(s, d)
<1>1. Absent' = Absent
  BY DEF Absent
<1>2. CASE job[s].kind = "heartbeat"
  <2>1. todo[s] \in HeartbeatStages
    BY <1>2 DEF JobInv
  <2>2. Stage(s) \in {"reconcile", "heartbeat"}
    BY <1>2, <2>1, StagesLeft DEF Stage
  <2>3. todo'[s] \in HeartbeatStages
    BY <2>1, <2>2, StagesLeft DEF Stage, HeartbeatStages
  <2>4. JobInv(s)'
    BY <1>1, <1>2, <2>3 DEF JobInv, HeartbeatStages
  <2>5. Stage(s) # "heartbeat" => todo'[s] # <<"commit">>
    BY <2>1, <2>2, StagesLeft, OneStageLeft DEF Stage
  <2>6. todo[s] # <<"commit">>
    BY <2>1, <2>2, StagesLeft DEF Stage
  <2> QED
    BY <1>2, <2>4, <2>5, <2>6 DEF Applied
<1>3. CASE job[s].kind # "heartbeat"
  <2>1. todo[s] \in Seq(Stages) /\ todo[s] # <<>>
    BY DEF Ends, Open
  <2>2. \A n \in DOMAIN todo[s] : todo[s][n] # "heartbeat"
    BY <1>3 DEF JobInv
  <2>3. \A n \in DOMAIN Tail(todo[s]) :
            n + 1 \in DOMAIN todo[s] /\ Tail(todo[s])[n] = todo[s][n + 1]
    BY <2>1
  <2>4. Stage(s) # "heartbeat"
    <3>1. Len(todo[s]) \in Nat /\ Len(todo[s]) # 0
      BY <2>1, LenOfEmpty
    <3>2. 1 \in DOMAIN todo[s] /\ Head(todo[s]) = todo[s][1]
      BY <2>1, <3>1
    <3> QED
      BY <2>2, <3>2 DEF Stage
  <2>5. \A n \in DOMAIN todo'[s] : todo'[s][n] # "heartbeat"
    BY <2>2, <2>3
  <2>6. JobInv(s)'
    BY <1>1, <1>3, <2>5 DEF JobInv
  <2> QED
    BY <1>3, <2>4, <2>6 DEF Applied
<1> QED
  BY <1>2, <1>3

(* A session that ends or begins. *)
LEMMA EndBeats ==
    ASSUME FleetInv, HeartbeatsInv, NEW s \in Sessions, End(s),
           rows' = rows, UNCHANGED history
    PROVE  HeartbeatsInv'
<1>1. /\ job'[s] = NoJob /\ dirty'[s] = {} /\ todo'[s] = <<>>
      /\ cached'[s] = Absent
      /\ \A x \in Sessions : x # s =>
            /\ todo'[x] = todo[x] /\ job'[x] = job[x] /\ dirty'[x] = dirty[x]
            /\ base'[x] = base[x] /\ cached'[x] = cached[x]
  BY DEF End, FleetInv, TablesInv
<1>2. \A d \in Decoys :
        /\ owner'[d] = IF owner[d] = s THEN NoSession ELSE owner[d]
        /\ work'[d] = IF owner[d] = s THEN Absent ELSE work[d]
  BY DEF End, Released, Cleared
<1>3. NoJob.kind = "round" /\ NoJob.at = 0
  BY DEF NoJob
<1>4. ASSUME NEW x \in Sessions PROVE JobInv(x)'
  <2>1. CASE x = s
    <3>1. Absent' = Absent /\ DOMAIN todo'[s] = {}
      BY <1>1 DEF Absent
    <3> QED
      BY <1>1, <1>3, <2>1, <3>1 DEF JobInv
  <2>2. CASE x # s
    BY <1>1, <2>2, OthersJobs DEF HeartbeatsInv
  <2> QED
    BY <2>1, <2>2
<1>5. ASSUME NEW d \in Decoys \ late, NEW x \in Sessions PROVE BeatInv(x, d)'
  <2>1. CASE x = s
    <3>1. owner'[d] # s /\ ~Applied(s, d)'
      BY <1>1, <1>2, <1>3 DEF Applied
    <3> QED
      BY <1>1, <2>1, <3>1 DEF BeatInv
  <2>2. CASE x # s
    <3>1. newest'[d] = newest[d] /\ newest[d] \in Nat
      BY DEF history, HeartbeatsInv
    <3> QED
      BY <1>1, <1>2, <2>2, <3>1, OthersBeats
  <2> QED
    BY <2>1, <2>2
<1> QED
  BY <1>4, <1>5 DEF HeartbeatsInv, history

LEMMA BeginBeats ==
    ASSUME FleetInv, HeartbeatsInv, NEW s \in Sessions, NEW j,
           j.kind \in RequestKinds \cup {"round"}, j.at \in Nat, Begin(s, j)
    PROVE  HeartbeatsInv'
<1>1. /\ UNCHANGED <<rows, owner, work, dirty, base, cached, newest, late>>
      /\ job'[s] = j /\ todo'[s] = Program(j.kind)
      /\ dirty[s] = {} /\ cached[s] = Absent /\ todo[s] = <<>>
      /\ \A x \in Sessions : x # s => todo'[x] = todo[x] /\ job'[x] = job[x]
  BY DEF Begin, FleetInv, SessionInv, TablesInv, Open, history
<1>2. /\ j.kind = "heartbeat" =>
            /\ Program(j.kind) \in HeartbeatStages
            /\ Program(j.kind) # <<"commit">>
      /\ j.kind # "heartbeat" => \A n \in DOMAIN Program(j.kind) :
            Program(j.kind)[n] # "heartbeat"
  BY ProgramOfHeartbeat
<1>3. ASSUME NEW x \in Sessions PROVE JobInv(x)'
  <2>1. CASE x = s
    <3>1. Absent' = Absent
      BY DEF Absent
    <3> QED
      BY <1>1, <1>2, <2>1, <3>1 DEF JobInv, HeartbeatStages
  <2>2. CASE x # s
    BY <1>1, <2>2, OthersJobs DEF HeartbeatsInv
  <2> QED
    BY <2>1, <2>2
<1>4. ASSUME NEW d \in Decoys \ late, NEW x \in Sessions PROVE BeatInv(x, d)'
  <2>1. CASE x = s
    <3>1. <<>> # <<"commit">>
      OBVIOUS
    <3>2. ~Applied(s, d) /\ ~Applied(s, d)'
      BY <1>1, <1>2, <3>1 DEF Applied
    <3>3. BeatInv(s, d)
      BY DEF HeartbeatsInv
    <3> QED
      BY <1>1, <2>1, <3>2, <3>3 DEF BeatInv
  <2>2. CASE x # s
    <3>1. newest'[d] = newest[d] /\ newest[d] \in Nat
      BY <1>1 DEF HeartbeatsInv
    <3> QED
      BY <1>1, <2>2, <3>1, OthersBeats
  <2> QED
    BY <2>1, <2>2
<1> QED
  BY <1>1, <1>3, <1>4 DEF HeartbeatsInv

(* A session that reads, and the other sessions meanwhile. *)
LEMMA ReadersBeats ==
    ASSUME FleetInv, HeartbeatsInv, NEW s \in Sessions,
           UNCHANGED <<rows, owner, work, job, cached, newest, late>>,
           \A x \in Sessions : x # s =>
                /\ todo'[x] = todo[x] /\ dirty'[x] = dirty[x]
                /\ base'[x] = base[x],
           JobInv(s)',
           \A d \in Decoys \ late : BeatInv(s, d)'
    PROVE  HeartbeatsInv'
<1>1. ASSUME NEW x \in Sessions, x # s PROVE JobInv(x)'
  BY <1>1, OthersJobs DEF HeartbeatsInv
<1>2. ASSUME NEW d \in Decoys \ late, NEW x \in Sessions, x # s
      PROVE  BeatInv(x, d)'
  <2>1. newest'[d] = newest[d] /\ newest[d] \in Nat
    BY DEF HeartbeatsInv
  <2> QED
    BY <1>2, <2>1, OthersBeats
<1>3. /\ newest' \in [Decoys -> Nat]
      /\ \A d \in Decoys \ late' : rows'[d].beat = newest'[d]
  BY DEF HeartbeatsInv
<1> QED
  BY <1>1, <1>2, <1>3 DEF HeartbeatsInv

(* A heartbeat that changes nothing has found its own time. *)
LEMMA LoadBeats ==
    ASSUME FleetInv, HeartbeatsInv, NEW s \in Sessions, Load(s)
    PROVE  HeartbeatsInv'
<1> DEFINE changes == Changes(s, now)
<1>1. /\ UNCHANGED <<rows, owner, work, job, cached, newest, late>>
      /\ Open(s) /\ Stage(s) \in LoadStages /\ Stage(s) # "commit"
  BY DEF Load, history, LoadStages
<1>2. SessionInv(s) /\ JobInv(s) /\ RowsInv
  BY DEF FleetInv, HeartbeatsInv
<1>3. ASSUME NEW d \in Decoys \ late, Stage(s) = "heartbeat", d = job[s].decoy
      PROVE  Found(s, d).beat = newest[d]
  <2>1. job[s].kind = "heartbeat"
    <3>1. todo[s] \in Seq(Stages) /\ todo[s] # <<>>
      BY <1>1, <1>2 DEF SessionInv, Ends, Open
    <3>2. Len(todo[s]) \in Nat /\ Len(todo[s]) # 0
      BY <3>1, LenOfEmpty
    <3>3. 1 \in DOMAIN todo[s] /\ todo[s][1] = "heartbeat"
      BY <1>3, <3>1, <3>2 DEF Stage
    <3> QED
      BY <1>2, <3>3 DEF JobInv
  <2>2. Found(s, d) = Visible(s, d)
    BY <1>2, <2>1 DEF JobInv, Found
  <2>3. todo[s] # <<"commit">>
    BY <1>3, <1>2, <2>1, StagesLeft DEF JobInv, Stage
  <2> QED
    BY <2>2, <2>3, VisibleBeat DEF Applied
<1>4. Stage(s) = "heartbeat" => Scope(s) = {job[s].decoy}
  BY DEF Scope
<1>5. CASE changes = {}
  <2>1. Advance(s)
    BY <1>5 DEF Load
  <2>2. /\ todo'[s] = Tail(todo[s]) /\ dirty'[s] = {}
        /\ \A x \in Sessions : x # s =>
                /\ todo'[x] = todo[x] /\ dirty'[x] = dirty[x]
                /\ base'[x] = base[x]
    BY <2>1 DEF Advance, FleetInv, TablesInv
  <2>3. cached'[s] # Absent => job[s].kind # "heartbeat"
    BY <1>1, <1>2 DEF JobInv
  <2>4. /\ JobInv(s)'
        /\ \A d \in Decoys : Stage(s) # "heartbeat" => ~Applied(s, d)'
        /\ \A d \in Decoys : ~Applied(s, d)
    BY <1>1, <1>2, <2>2, <2>3, NextJob DEF SessionInv
  <2>5. ASSUME NEW d \in Decoys \ late PROVE BeatInv(s, d)'
    <3>1. owner[d] = s => work[d].beat = newest[d]
      BY <2>4 DEF HeartbeatsInv, BeatInv
    <3>2. Applied(s, d)' => job[s].at <= newest[d]
      <4> SUFFICES ASSUME Applied(s, d)' PROVE job[s].at <= newest[d]
        OBVIOUS
      <4>1. Stage(s) = "heartbeat" /\ d = job[s].decoy
        BY <1>1, <2>4 DEF Applied
      <4>2. Alive(job[s], Found(s, d)) = Found(s, d)
        BY <1>4, <1>5, <4>1 DEF Changes, Changed
      <4>3. Found(s, d).beat = job[s].at
        BY <1>2, <4>2, FoundFacts, BeatsOfRows
      <4> QED
        BY <1>2, <1>3, <4>1, <4>3 DEF JobInv
    <3> QED
      BY <1>1, <2>2, <3>1, <3>2 DEF BeatInv
  <2> QED
    BY <1>1, <2>2, <2>4, <2>5, ReadersBeats
<1>6. CASE changes # {}
  <2>1. /\ todo' = todo /\ dirty'[s] = changes
        /\ \A d \in Decoys : base'[s][d] =
                IF d \in changes THEN Found(s, d) ELSE Absent
        /\ \A x \in Sessions : x # s =>
                dirty'[x] = dirty[x] /\ base'[x] = base[x]
    BY <1>6 DEF Load, FleetInv, TablesInv
  <2>2. Stage(s)' = Stage(s) /\ Absent' = Absent
    BY <2>1 DEF Stage, Absent
  <2>3. Stage(s) = "heartbeat" => changes = {job[s].decoy}
    BY <1>4, <1>6 DEF Changes
  <2>4. JobInv(s)'
    BY <1>1, <1>2, <2>1, <2>2, <2>3 DEF JobInv, HeartbeatStages
  <2>5. ASSUME NEW d \in Decoys \ late PROVE BeatInv(s, d)'
    <3>1. BeatInv(s, d) /\ Applied(s, d)' = Applied(s, d)
      BY <1>1, <2>1 DEF HeartbeatsInv, Applied
    <3>2. Visible(s, d)' = Visible(s, d)
      BY <1>1 DEF Visible
    <3>3. ASSUME Stage(s) = "heartbeat", d \in dirty'[s],
                 base'[s][d].beat = job[s].at
          PROVE  job[s].at <= newest[d]
      <4>1. d = job[s].decoy /\ base'[s][d] = Found(s, d)
        BY <2>1, <2>3, <3>3
      <4> QED
        BY <1>2, <1>3, <3>3, <4>1 DEF JobInv
    <3> QED
      BY <1>1, <2>2, <3>1, <3>2, <3>3 DEF BeatInv
  <2> QED
    BY <1>1, <2>1, <2>4, <2>5, ReadersBeats
<1> QED
  BY <1>5, <1>6

LEMMA ReportBeats ==
    ASSUME FleetInv, HeartbeatsInv, NEW s \in Sessions, Report(s)
    PROVE  HeartbeatsInv'
<1>1. /\ UNCHANGED <<rows, owner, work, job, cached, newest, late>>
      /\ Open(s) /\ Stage(s) = "report" /\ Advance(s)
  BY DEF Report, history
<1>2. /\ todo'[s] = Tail(todo[s]) /\ dirty'[s] = {}
      /\ \A x \in Sessions : x # s =>
            /\ todo'[x] = todo[x] /\ dirty'[x] = dirty[x]
            /\ base'[x] = base[x]
  BY <1>1 DEF Advance, FleetInv, TablesInv
<1>3. SessionInv(s) /\ JobInv(s)
  BY DEF FleetInv, HeartbeatsInv
<1>4. /\ JobInv(s)'
      /\ \A d \in Decoys : ~Applied(s, d)' /\ ~Applied(s, d)
  BY <1>1, <1>2, <1>3, NextJob DEF SessionInv, JobInv
<1>5. ASSUME NEW d \in Decoys \ late PROVE BeatInv(s, d)'
  BY <1>1, <1>2, <1>4 DEF HeartbeatsInv, BeatInv
<1> QED
  BY <1>1, <1>2, <1>4, <1>5, ReadersBeats

(* A flush writes the time of its own heartbeat, or none. *)
LEMMA FlushedBeat ==
    ASSUME FleetInv, HeartbeatsInv, NEW s \in Sessions, Flush(s), NEW d \in dirty[s]
    PROVE  LET m == Merged(Visible(s, d), base[s][d], New(s, d))
           IN  IF Stage(s) = "heartbeat" /\ base[s][d].beat # job[s].at
               THEN m.beat = job[s].at
               ELSE m.beat = Visible(s, d).beat
<1>1. /\ d \in Decoys /\ Well(base[s][d]) /\ Stage(s) \in LoadStages
      /\ Stage(s) = "reconcile" => d \in Expected
  BY DEF FleetInv, SessionInv
<1>2. New(s, d).beat =
        IF Stage(s) = "heartbeat" THEN job[s].at ELSE base[s][d].beat
  BY <1>1, BeatsOfRows DEF New, Changed, LoadStages
<1>3. DOMAIN Visible(s, d) = Columns
  BY <1>1, VisibleWell, AbsentFacts DEF FleetInv, Well, Present
<1> QED
  BY <1>2, <1>3 DEF Merged, Columns

LEMMA FlushBeats ==
    ASSUME FleetInv, HeartbeatsInv, NEW s \in Sessions, Flush(s)
    PROVE  HeartbeatsInv'
<1>1. /\ UNCHANGED <<rows, job, newest, late>>
      /\ Open(s) /\ Advance(s)
      /\ dirty[s] # {} /\ dirty[s] \subseteq Decoys
      /\ Stage(s) \in LoadStages /\ Stage(s) # "commit"
      /\ \A d \in dirty[s] : owner[d] \in {s, NoSession}
  BY DEF Flush, CanFlush, FleetInv, SessionInv, LoadStages, history
<1>2. /\ \A d \in Decoys :
            /\ owner'[d] = IF d \in dirty[s] THEN s ELSE owner[d]
            /\ work'[d] = IF d \in dirty[s]
                          THEN Merged(Visible(s, d), base[s][d], New(s, d))
                          ELSE work[d]
      /\ cached'[s] # Absent => cached[s] # Absent \/ Stage(s) = "event"
      /\ \A x \in Sessions : x # s => cached'[x] = cached[x]
  BY DEF Flush, FleetInv, TablesInv
<1>3. /\ todo'[s] = Tail(todo[s]) /\ dirty'[s] = {}
      /\ \A x \in Sessions : x # s =>
            /\ todo'[x] = todo[x] /\ dirty'[x] = dirty[x]
            /\ base'[x] = base[x]
  BY <1>1 DEF Advance, FleetInv, TablesInv
<1>4. SessionInv(s) /\ JobInv(s)
  BY DEF FleetInv, HeartbeatsInv
<1>5. /\ JobInv(s)'
      /\ job[s].kind # "heartbeat" => Stage(s) # "heartbeat"
      /\ \A d \in Decoys : Stage(s) # "heartbeat" => ~Applied(s, d)'
      /\ \A d \in Decoys : ~Applied(s, d)
  <2>1. Stage(s) = "event" => job[s].kind # "heartbeat"
    BY <1>4, StagesLeft DEF JobInv, Stage
  <2>2. cached'[s] # Absent => job[s].kind # "heartbeat"
    BY <1>2, <1>4, <2>1 DEF JobInv
  <2> QED
    BY <1>1, <1>3, <1>4, <2>2, NextJob DEF SessionInv
<1>6. Stage(s) = "heartbeat" =>
        dirty[s] = {job[s].decoy} /\ todo'[s] = <<"commit">>
  BY <1>1, <1>3, <1>4, <1>5, StagesLeft DEF JobInv, Stage
<1>7. ASSUME NEW d \in Decoys \ late PROVE BeatInv(s, d)'
  <2>1. Visible(s, d).beat = newest[d] /\ newest[d] \in Nat
    BY <1>5, VisibleBeat DEF HeartbeatsInv
  <2>2. BeatInv(s, d)
    BY DEF HeartbeatsInv
  <2>3. CASE d \notin dirty[s]
    <3>1. ~Applied(s, d)'
      <4>1. CASE Stage(s) = "heartbeat"
        BY <1>1, <1>6, <2>3, <4>1 DEF Applied
      <4> QED
        BY <1>5, <4>1
    <3> QED
      BY <1>1, <1>2, <1>3, <1>5, <2>2, <2>3, <3>1 DEF BeatInv
  <2>4. CASE d \in dirty[s] /\ Stage(s) # "heartbeat"
    <3>1. work'[d].beat = newest[d]
      BY <1>2, <2>1, <2>4, FlushedBeat
    <3> QED
      BY <1>1, <1>3, <1>5, <2>4, <3>1 DEF BeatInv
  <2>5. CASE d \in dirty[s] /\ Stage(s) = "heartbeat"
    <3>1. Applied(s, d)'
      BY <1>1, <1>5, <1>6, <2>5 DEF Applied
    <3>2. Visible(s, d)' = work'[d]
      BY <1>2, <2>5 DEF Visible
    <3>3. CASE base[s][d].beat # job[s].at
      <4>1. work'[d].beat = job[s].at
        BY <1>2, <2>5, <3>3, FlushedBeat
      <4> QED
        BY <1>1, <1>3, <3>1, <3>2, <4>1 DEF BeatInv
    <3>4. CASE base[s][d].beat = job[s].at
      <4>1. work'[d].beat = newest[d]
        BY <1>2, <2>1, <2>5, <3>4, FlushedBeat
      <4>2. job[s].at <= newest[d]
        BY <2>2, <2>5, <3>4 DEF BeatInv
      <4> QED
        BY <1>1, <1>3, <3>1, <3>2, <4>1, <4>2 DEF BeatInv
    <3> QED
      BY <3>3, <3>4
  <2> QED
    BY <2>3, <2>4, <2>5
<1>8. ASSUME NEW x \in Sessions, x # s PROVE JobInv(x)'
  BY <1>1, <1>2, <1>3, <1>8, OthersJobs DEF HeartbeatsInv
<1>9. ASSUME NEW d \in Decoys \ late, NEW x \in Sessions, x # s
      PROVE  BeatInv(x, d)'
  <2>1. newest'[d] = newest[d] /\ newest[d] \in Nat
    BY <1>1 DEF HeartbeatsInv
  <2>2. owner'[d] = x <=> owner[d] = x
    BY <1>1, <1>2, <1>9
  <2>3. owner[d] = x => work'[d] = work[d]
    BY <1>1, <1>2, <1>9
  <2> QED
    BY <1>1, <1>3, <1>9, <2>1, <2>2, <2>3, OthersBeats
<1> QED
  BY <1>1, <1>5, <1>7, <1>8, <1>9 DEF HeartbeatsInv

(* What a commit makes the newest heartbeat is what it stores. *)
LEMMA CommittedBeat ==
    ASSUME FleetInv, HeartbeatsInv, NEW s \in Sessions, Commit(s),
           NEW d \in Decoys \ late'
    PROVE  /\ d \notin late
           /\ newest'[d] \in Nat /\ newest[d] <= newest'[d]
           /\ rows'[d].beat = newest'[d]
           /\ owner[d] # s => newest'[d] = newest[d]
<1>1. /\ rows'[d] = Visible(s, d)
      /\ d \notin late
      /\ d = job[s].decoy /\ job[s].kind = "heartbeat" => ~(job[s].at < newest[d])
      /\ newest'[d] = IF d = job[s].decoy /\ job[s].kind = "heartbeat"
                           /\ job[s].at > newest[d]
                      THEN job[s].at ELSE newest[d]
      /\ Open(s) /\ Stage(s) = "commit"
  BY DEF Commit, HeartbeatsInv
<1>2. /\ job[s].at \in Nat /\ newest[d] \in Nat /\ rows[d].beat = newest[d]
      /\ BeatInv(s, d) /\ JobInv(s)
  BY <1>1 DEF HeartbeatsInv, JobInv
<1>3. CASE Applied(s, d)
  <2>1. newest'[d] = job[s].at /\ newest[d] <= job[s].at
    BY <1>1, <1>2, <1>3 DEF Applied
  <2>2. Visible(s, d).beat = job[s].at \/ job[s].at <= newest[d]
    BY <1>2, <1>3 DEF BeatInv
  <2>3. CASE job[s].at = newest[d]
    BY <1>1, <1>2, <2>1, <2>3 DEF BeatInv, Visible
  <2>4. CASE job[s].at # newest[d]
    <3>1. Visible(s, d).beat = job[s].at
      BY <1>2, <2>1, <2>2, <2>4
    <3>2. owner[d] = s
      BY <1>2, <2>4, <3>1 DEF Visible
    <3> QED
      BY <1>1, <1>2, <2>1, <3>1, <3>2
  <2> QED
    BY <2>3, <2>4
<1>4. CASE ~Applied(s, d)
  <2>1. job[s].kind = "heartbeat" => todo[s] = <<"commit">>
    BY <1>1, <1>2, StagesLeft DEF JobInv, Stage
  <2>2. newest'[d] = newest[d]
    BY <1>1, <1>4, <2>1 DEF Applied
  <2> QED
    BY <1>1, <1>2, <1>4, <2>2, VisibleBeat
<1> QED
  BY <1>3, <1>4

LEMMA CommitBeats ==
    ASSUME FleetInv, HeartbeatsInv, NEW s \in Sessions, Commit(s)
    PROVE  HeartbeatsInv'
<1>1. /\ Open(s) /\ Stage(s) = "commit"
      /\ owner' = Released(s) /\ work' = Cleared(s)
      /\ \A x \in Sessions : x # s =>
            /\ todo'[x] = todo[x] /\ job'[x] = job[x] /\ dirty'[x] = dirty[x]
            /\ base'[x] = base[x] /\ cached'[x] = cached[x]
      /\ dirty'[s] = {}
  BY DEF Commit, End, Advance, FleetInv, TablesInv
<1>2. \A d \in Decoys :
        /\ owner'[d] = IF owner[d] = s THEN NoSession ELSE owner[d]
        /\ work'[d] = IF owner[d] = s THEN Absent ELSE work[d]
  BY <1>1 DEF Released, Cleared
<1>3. SessionInv(s) /\ JobInv(s)
  BY DEF FleetInv, HeartbeatsInv
<1>4. JobInv(s)' /\ \A d \in Decoys : ~Applied(s, d)'
  <2>1. CASE Tail(todo[s]) = <<>>
    <3>1. /\ todo'[s] = <<>> /\ job'[s] = NoJob /\ cached'[s] = Absent
          /\ NoJob.kind = "round" /\ NoJob.at = 0
      BY <2>1 DEF Commit, End, FleetInv, TablesInv, NoJob
    <3>2. Absent' = Absent /\ DOMAIN todo'[s] = {}
      BY <3>1 DEF Absent
    <3> QED
      BY <1>1, <3>1, <3>2 DEF JobInv, Applied
  <2>2. CASE Tail(todo[s]) # <<>>
    <3>1. /\ todo'[s] = Tail(todo[s]) /\ job'[s] = job[s]
          /\ cached'[s] = cached[s] /\ Absent' = Absent
      BY <2>2 DEF Commit, Advance, FleetInv, TablesInv, Absent
    <3>2. job[s].kind # "heartbeat"
      BY <1>1, <1>3, <2>2, StagesLeft, OneStageLeft DEF JobInv, Stage
    <3>3. cached'[s] # Absent => job[s].kind # "heartbeat"
      BY <1>3, <3>1 DEF JobInv
    <3> QED
      BY <1>1, <1>3, <3>1, <3>2, <3>3, NextJob DEF SessionInv, Applied
  <2> QED
    BY <2>1, <2>2
<1>5. ASSUME NEW d \in Decoys \ late' PROVE BeatInv(s, d)'
  BY <1>1, <1>2, <1>4, <1>5 DEF BeatInv
<1>6. ASSUME NEW x \in Sessions, x # s PROVE JobInv(x)'
  BY <1>1, <1>6, OthersJobs DEF HeartbeatsInv
<1>7. ASSUME NEW d \in Decoys \ late', NEW x \in Sessions, x # s
      PROVE  BeatInv(x, d)'
  <2>1. /\ d \notin late
        /\ newest'[d] \in Nat /\ newest[d] <= newest'[d]
        /\ owner[d] = x => newest'[d] = newest[d]
    BY <1>7, CommittedBeat
  <2>2. owner'[d] = x <=> owner[d] = x
    BY <1>2, <1>7
  <2>3. owner[d] = x => work'[d] = work[d]
    BY <1>2, <1>7
  <2> QED
    BY <1>1, <1>7, <2>1, <2>2, <2>3, OthersBeats
<1>8. newest' \in [Decoys -> Nat]
  BY <1>3 DEF Commit, HeartbeatsInv, JobInv
<1>9. \A d \in Decoys \ late' : rows'[d].beat = newest'[d]
  BY CommittedBeat
<1> QED
  BY <1>4, <1>5, <1>6, <1>7, <1>8, <1>9 DEF HeartbeatsInv

LEMMA NextBeats == FleetInv /\ HeartbeatsInv /\ [Next]_vars => HeartbeatsInv'
<1> SUFFICES ASSUME FleetInv, HeartbeatsInv, [Next]_vars PROVE HeartbeatsInv'
  OBVIOUS
<1>1. ASSUME NEW s \in Sessions, Load(s) PROVE HeartbeatsInv'
  BY <1>1, LoadBeats
<1>2. ASSUME NEW s \in Sessions, Flush(s) PROVE HeartbeatsInv'
  BY <1>2, FlushBeats
<1>3. ASSUME NEW s \in Sessions, Report(s) PROVE HeartbeatsInv'
  BY <1>3, ReportBeats
<1>4. ASSUME NEW s \in Sessions, Commit(s) PROVE HeartbeatsInv'
  BY <1>4, CommitBeats
<1>5. ASSUME NEW s \in Sessions,
             Close(s) \/ DuplicateKey(s) \/ DeadlockVictim(s) \/ Fail(s)
      PROVE  HeartbeatsInv'
  BY <1>5, EndBeats DEF Close, DuplicateKey, DeadlockVictim, Fail, Rollback
<1>6. ASSUME NEW s \in Apis, Request(s) PROVE HeartbeatsInv'
  <2>1. PICK kind \in Kinds, d \in Decoys, t \in 0..now :
            \E site \in {Reported[d], Unknown} :
                Begin(s, [kind |-> kind, decoy |-> d, at |-> t, site |-> site])
    BY <1>6 DEF Request
  <2>2. PICK site \in {Reported[d], Unknown} :
            Begin(s, [kind |-> kind, decoy |-> d, at |-> t, site |-> site])
    BY <2>1
  <2>3. kind \in RequestKinds \cup {"round"} /\ s \in Sessions /\ t \in Nat
    BY DEF Sessions
  <2> QED
    BY <2>2, <2>3, BeginBeats
<1>7. CASE WorkerRound
  <2>1. NoJob.at \in Nat /\ NoJob.kind \in RequestKinds \cup {"round"}
    BY DEF NoJob
  <2>2. Worker \in Sessions
    BY DEF Sessions
  <2> QED
    BY <1>7, <2>1, <2>2, BeginBeats DEF WorkerRound
<1>8. CASE Tick \/ UNCHANGED vars
  <2>1. /\ UNCHANGED <<rows, owner, work, todo, job, dirty, base, cached>>
        /\ UNCHANGED <<newest, late>>
    BY <1>8 DEF Tick, vars, sessionVars, history
  <2>2. ASSUME NEW s \in Sessions PROVE JobInv(s)'
    BY <2>1, OthersJobs DEF HeartbeatsInv
  <2>3. ASSUME NEW d \in Decoys \ late, NEW s \in Sessions PROVE BeatInv(s, d)'
    <3>1. newest'[d] = newest[d] /\ newest[d] \in Nat
      BY <2>1 DEF HeartbeatsInv
    <3> QED
      BY <2>1, <3>1, OthersBeats
  <2> QED
    BY <2>1, <2>2, <2>3 DEF HeartbeatsInv
<1> QED
  BY <1>1, <1>2, <1>3, <1>4, <1>5, <1>6, <1>7, <1>8 DEF Next, Step

-----------------------------------------------------------------------------
(* The stored heartbeat of a decoy is the newest one received, in every     *)
(* committed row and in every row that a session which is not about one     *)
(* has written, unless an older one came after it: no refresh,              *)
(* reconciliation or event writes over it, however long ago it was loaded   *)
(* (services.py:211 and 401).                                               *)
THEOREM HeartbeatsKept == Spec => []BeatsKept
<1>1. FleetInv /\ HeartbeatsInv => BeatsKept
  <2> SUFFICES ASSUME FleetInv, HeartbeatsInv, NEW d \in Decoys \ late
               PROVE  /\ rows[d].beat = newest[d]
                      /\ owner[d] # NoSession /\ job[owner[d]].kind # "heartbeat"
                            => work[d].beat = newest[d]
    BY DEF BeatsKept
  <2>1. owner[d] # NoSession => owner[d] \in Sessions
    BY DEF FleetInv, TablesInv
  <2> QED
    BY <2>1 DEF HeartbeatsInv, BeatInv, Applied
<1> QED
  BY <1>1, InitInv, NextKeeps, InitHeartbeats, NextBeats, PTL DEF Spec

-----------------------------------------------------------------------------
(* Types, sites and reports. *)

(* A request is about what has happened, the worker about nothing; a       *)
(* session that is not open has no row.                                    *)
JobTypes(s) ==
    /\ job[s] \in Jobs /\ job[s].at <= now
    /\ ~Open(s) => job[s] = NoJob /\ \A d \in Decoys : owner[d] # s

RowTypes ==
    /\ rows \in [Decoys -> Row] /\ work \in [Decoys -> Row]
    /\ base \in [Sessions -> [Decoys -> Row]]
    /\ cached \in [Sessions -> Row]
    /\ \A d \in Decoys : owner[d] = NoSession => work[d] = Absent

OtherTypes ==
    /\ dirty \in [Sessions -> SUBSET Decoys]
    /\ read \in [Sessions -> 0..MaxTime]
    /\ calm \in [Apis -> BOOLEAN]
    /\ now \in 1..MaxTime
    /\ newest \in [Decoys -> 0..MaxTime]
    /\ late \subseteq Decoys
    /\ requests \in 0..MaxRequests /\ fails \in 0..MaxFails

TypedInv ==
    /\ RowTypes /\ OtherTypes
    /\ \A s \in Sessions : JobTypes(s)
    /\ job[Worker] = NoJob

(* A session that may take the site of a decoy away: one about a heartbeat *)
(* of it, or any if the inventory does not know the site either.           *)
Forgets(s, d) ==
    \/ job[s].kind = "heartbeat" /\ job[s].decoy = d
    \/ d \in Expected /\ Inventory[d] = Unknown

(* What the owner of a row has made of its site. *)
SiteInv(s, d) ==
    owner[d] = s =>
        /\ rows[d].site # Unknown => work[d].site # Unknown \/ Forgets(s, d)
        /\ d \notin Expected /\ job[s].kind \notin {"heartbeat", "event"}
                => work[d].site = rows[d].site

(* The stages that are left of a session with an answer to make; those     *)
(* after the rows were reconciled.                                         *)
CalmStages ==
    {<<"reconcile", "refresh", "report", "close">>,
     <<"refresh", "report", "close">>, <<"report", "close">>, <<"close">>,
     <<"reconcile", "refresh", "report", "commit">>,
     <<"refresh", "report", "commit">>, <<"report", "commit">>, <<"commit">>}
ReportStages ==
    CalmStages \cup {<<"refresh", "reconcile", "refresh", "report", "close">>}

ReportKinds == {"fleet", "posture", "summary"}

StagesInv(s) ==
    /\ job[s].kind \in ReportKinds => todo[s] \in ReportStages
    /\ job[s].kind \notin ReportKinds =>
            \A n \in DOMAIN todo[s] : todo[s][n] # "report"
    /\ job[s].kind # "event" =>
            \A n \in DOMAIN todo[s] : todo[s][n] # "event"
    /\ cached[s] # Absent => job[s].kind = "event"

(* An expected decoy is there, at its site; a row has the state that its   *)
(* heartbeat gives it.                                                     *)
InPlace(s, d) == Visible(s, d) # Absent /\ Visible(s, d).site = Inventory[d]
Fresh(r, time) ==
    LET silent == Health(r.beat, time) = "silent"
    IN  /\ r.health = Health(r.beat, time)
        /\ r.failed = silent
        /\ r.runtime = IF silent THEN "silent" ELSE "running"

(* While no other session commits, one that makes an answer sees what it   *)
(* has loaded and has made of it.                                          *)
CalmInv(s) ==
    /\ todo[s] \in CalmStages /\ job[s].kind \in ReportKinds
    /\ \A d \in Expected :
            InPlace(s, d) \/ (Stage(s) = "reconcile" /\ d \in dirty[s])
    /\ Stage(s) = "reconcile" => dirty[s] # {}
    /\ \A d \in dirty[s] : base[s][d] = Visible(s, d)
    /\ \A d \in Decoys :
            \/ Stage(s) \notin {"refresh", "report"}
            \/ Stage(s) = "refresh" /\ (dirty[s] = {} \/ d \in dirty[s])
            \/ Visible(s, d) = Absent
            \/ Fresh(Visible(s, d), read[s])

SitesInv ==
    \A s \in Sessions : StagesInv(s) /\ \A d \in Decoys : SiteInv(s, d)

ReportsInv == \A s \in Apis : calm[s] => CalmInv(s)

-----------------------------------------------------------------------------
(* Types. *)

LEMMA NothingTypes ==
    /\ Absent \in Row /\ Nothing \in [Decoys -> Row]
    /\ NoJob \in Jobs /\ NoJob.at = 0
<1>1. Absent \in Row
  BY DEF Absent, Row, Healths
<1>2. (CHOOSE d \in Decoys : TRUE) \in Decoys
  OBVIOUS
<1> QED
  BY <1>1, <1>2 DEF Nothing, NoJob, Jobs

LEMMA HealthType == \A beat, time : Health(beat, time) \in Healths
BY DEF Health, Healths

(* What is made of a row is a row. *)
LEMMA RowsMade ==
    ASSUME NEW r \in Row, NEW time
    PROVE  /\ \A d \in Expected : Reconciled(d, r) \in Row
           /\ Refreshed(r, time) \in Row
           /\ \A j \in Jobs : Seen(j, r) \in Row /\ Alive(j, r) \in Row
<1>1. ASSUME NEW d \in Expected PROVE Reconciled(d, r) \in Row
  <2>1. Inventory[d] \in Sites
    OBVIOUS
  <2> QED
    BY <2>1 DEF Reconciled, Absent, Row, Healths
<1>2. Refreshed(r, time) \in Row
  <2>1. Health(r.beat, time) \in Healths
    BY HealthType
  <2> QED
    BY <2>1 DEF Refreshed, Row
<1>3. ASSUME NEW j \in Jobs PROVE Seen(j, r) \in Row /\ Alive(j, r) \in Row
  <2>1. j.site \in Sites /\ j.at \in Nat
    BY DEF Jobs
  <2>2. Prefer(j.site, r.site) \in Sites
    BY <2>1 DEF Prefer, Row
  <2> QED
    BY <2>1, <2>2 DEF Seen, Alive, Row, Healths
<1> QED
  BY <1>1, <1>2, <1>3

LEMMA MergedRow ==
    ASSUME NEW r \in Row, NEW old \in Row, NEW new \in Row,
           Present(Merged(r, old, new))
    PROVE  Merged(r, old, new) \in Row
<1> DEFINE m == Merged(r, old, new)
<1>1. DOMAIN r = Columns
  BY DEF Row, Columns
<1>2. /\ m = [c \in Columns |-> m[c]]
      /\ \A c \in Columns \ {"copies"} : m[c] = IF new[c] # old[c] THEN new[c] ELSE r[c]
  BY <1>1 DEF Merged, Columns
<1>3. m.copies \in Nat
  BY DEF Present
<1> HIDE DEF m
<1>4. /\ m.status \in {"absent", "expected", "active"} /\ m.beat \in Nat
      /\ m.health \in Healths /\ m.site \in Sites
      /\ m.runtime \in {"running", "silent", "not_reported"}
  BY <1>2 DEF Row, Columns
<1>5. m.failed \in BOOLEAN
  BY <1>2 DEF Row, Columns
<1>6. m \in Row
  BY <1>2, <1>3, <1>4, <1>5 DEF Row, Columns
<1> QED
  BY <1>6 DEF m

LEMMA VisibleRow ==
    ASSUME RowTypes, NEW s \in Sessions, NEW d \in Decoys
    PROVE  Visible(s, d) \in Row /\ Found(s, d) \in Row
<1>1. Visible(s, d) \in Row /\ cached[s] \in Row
  BY DEF RowTypes, Visible
<1> QED
  BY <1>1 DEF Found, Row

LEMMA InitTyped == Init => TypedInv
<1> SUFFICES ASSUME Init PROVE TypedInv
  OBVIOUS
<1>1. RowTypes
  BY NothingTypes DEF Init, RowTypes, Nothing
<1>2. /\ dirty \in [Sessions -> SUBSET Decoys]
      /\ read \in [Sessions -> 0..MaxTime]
      /\ now \in 1..MaxTime
      /\ newest \in [Decoys -> 0..MaxTime]
      /\ late \subseteq Decoys
      /\ requests \in 0..MaxRequests /\ fails \in 0..MaxFails
  BY TimesAssumption DEF Init
<1>3. calm \in [Apis -> BOOLEAN]
  BY DEF Init
<1>4. ASSUME NEW s \in Sessions PROVE JobTypes(s)
  BY NothingTypes DEF Init, JobTypes, Open
<1>5. job[Worker] = NoJob
  BY DEF Init, Sessions
<1> QED
  BY <1>1, <1>2, <1>3, <1>4, <1>5 DEF TypedInv, OtherTypes

(* What a load leaves alone. *)
LEMMA LoadOthers ==
    ASSUME TypedInv, NEW s \in Sessions,
           UNCHANGED <<rows, owner, work, job, cached, now, newest, late, requests, fails>>,
           read' = [read EXCEPT ![s] = now],
           calm' \in [Apis -> BOOLEAN],
           base' \in [Sessions -> [Decoys -> Row]],
           dirty' \in [Sessions -> SUBSET Decoys],
           \A x \in Sessions : JobTypes(x)'
    PROVE  TypedInv'
<1>1. Row' = Row /\ Absent' = Absent /\ NoJob' = NoJob
  BY DEF Row, Absent, NoJob, Healths
<1>2. RowTypes'
  BY <1>1 DEF TypedInv, RowTypes
<1>3. read' \in [Sessions -> 0..MaxTime]
  BY TimesAssumption DEF TypedInv, OtherTypes
<1>4. OtherTypes'
  BY <1>3 DEF TypedInv, OtherTypes
<1> QED
  BY <1>1, <1>2, <1>4 DEF TypedInv

(* A session that goes on stays open. *)
LEMMA AdvanceTypes ==
    ASSUME FleetInv, TypedInv, NEW s \in Sessions, Open(s), Advance(s),
           Stage(s) \notin {"commit", "close"},
           UNCHANGED <<job, now>>,
           \A x \in Sessions, d \in Decoys : owner'[d] = x => owner[d] = x \/ x = s
    PROVE  \A x \in Sessions : JobTypes(x)'
<1>1. /\ todo'[s] # <<>>
      /\ \A x \in Sessions : x # s => todo'[x] = todo[x]
  BY AdvanceFacts
<1>2. NoJob' = NoJob /\ Jobs' = Jobs
  BY DEF NoJob, Jobs
<1>3. ASSUME NEW x \in Sessions PROVE JobTypes(x)'
  <2>1. JobTypes(x)
    BY DEF TypedInv
  <2>2. ~Open(x)' => ~Open(x) /\ x # s
    BY <1>1 DEF Open
  <2> QED
    BY <1>2, <2>1, <2>2 DEF JobTypes
<1> QED
  BY <1>3

LEMMA LoadTypes ==
    ASSUME FleetInv, TypedInv, NEW s \in Sessions, Load(s)
    PROVE  TypedInv'
<1> DEFINE changes == Changes(s, now)
<1>1. /\ UNCHANGED <<rows, owner, work, job, cached, now, newest, late, requests, fails>>
      /\ Open(s) /\ Stage(s) \notin {"commit", "close"}
      /\ read' = [read EXCEPT ![s] = now]
      /\ calm' \in [Apis -> BOOLEAN]
  BY DEF Load, history, LoadStages
<1>2. changes \subseteq Decoys
  BY DEF Changes, Scope, FleetInv, SessionInv
<1>3. \A d \in Decoys : Found(s, d) \in Row
  BY VisibleRow DEF TypedInv
<1> HIDE DEF changes
<1>4. CASE changes = {}
  <2>1. Advance(s)
    BY <1>4 DEF Load, changes
  <2>2. \A x \in Sessions : JobTypes(x)'
    BY <1>1, <2>1, AdvanceTypes
  <2>3. base' \in [Sessions -> [Decoys -> Row]] /\ dirty' \in [Sessions -> SUBSET Decoys]
    BY <2>1, NothingTypes DEF Advance, TypedInv, RowTypes, OtherTypes
  <2> QED
    BY <1>1, <2>2, <2>3, LoadOthers
<1>5. CASE changes # {}
  <2>1. /\ todo' = todo
        /\ dirty' = [dirty EXCEPT ![s] = changes]
        /\ base' = [base EXCEPT ![s] = [d \in Decoys |->
                        IF d \in changes THEN Found(s, d) ELSE Absent]]
    BY <1>5 DEF Load, changes
  <2>2. \A x \in Sessions : JobTypes(x)'
    <3>1. NoJob' = NoJob /\ Jobs' = Jobs
      BY DEF NoJob, Jobs
    <3> QED
      BY <1>1, <2>1, <3>1 DEF TypedInv, JobTypes, Open
  <2>3. base' \in [Sessions -> [Decoys -> Row]]
    <3>1. [d \in Decoys |-> IF d \in changes THEN Found(s, d) ELSE Absent] \in [Decoys -> Row]
      BY <1>3, NothingTypes
    <3> QED
      BY <2>1, <3>1 DEF TypedInv, RowTypes
  <2>4. dirty' \in [Sessions -> SUBSET Decoys]
    BY <1>2, <2>1 DEF TypedInv, OtherTypes
  <2> QED
    BY <1>1, <2>2, <2>3, <2>4, LoadOthers
<1> QED
  BY <1>4, <1>5

LEMMA FlushTypes ==
    ASSUME FleetInv, TypedInv, NEW s \in Sessions, Flush(s)
    PROVE  TypedInv'
<1>1. /\ UNCHANGED <<rows, job, read, calm, now, newest, late, requests, fails>>
      /\ Open(s) /\ Advance(s) /\ Stage(s) \notin {"commit", "close"}
      /\ dirty[s] \subseteq Decoys
      /\ owner' = [d \in Decoys |-> IF d \in dirty[s] THEN s ELSE owner[d]]
      /\ work' = [d \in Decoys |->
            IF d \in dirty[s]
            THEN Merged(Visible(s, d), base[s][d], New(s, d))
            ELSE work[d]]
      /\ cached' = [cached EXCEPT ![s] =
            IF /\ job[s].decoy \in dirty[s]
               /\ Stage(s) = "event" \/ @ # Absent
            THEN New(s, job[s].decoy) ELSE @]
  BY DEF Flush, history, FleetInv, SessionInv, LoadStages
<1>2. ASSUME NEW d \in dirty[s]
      PROVE  New(s, d) \in Row /\ Merged(Visible(s, d), base[s][d], New(s, d)) \in Row
  <2>1. /\ d \in Decoys /\ base[s][d] \in Row /\ job[s] \in Jobs
        /\ Stage(s) \in LoadStages
        /\ Stage(s) = "reconcile" => d \in Expected
    BY <1>1 DEF TypedInv, RowTypes, JobTypes, FleetInv, SessionInv
  <2>2. New(s, d) \in Row
    BY <2>1, RowsMade DEF New, Changed, LoadStages
  <2>3. Visible(s, d) \in Row
    BY <2>1, VisibleRow DEF TypedInv
  <2>4. Present(Merged(Visible(s, d), base[s][d], New(s, d)))
    BY FlushedPresent
  <2> QED
    BY <2>1, <2>2, <2>3, <2>4, MergedRow
<1>3. work' \in [Decoys -> Row]
  BY <1>1, <1>2 DEF TypedInv, RowTypes
<1>4. cached' \in [Sessions -> Row]
  BY <1>1, <1>2 DEF TypedInv, RowTypes
<1>5. /\ base' \in [Sessions -> [Decoys -> Row]]
      /\ dirty' \in [Sessions -> SUBSET Decoys]
  BY <1>1, NothingTypes DEF Advance, TypedInv, RowTypes, OtherTypes
<1>6. \A d \in Decoys : owner'[d] = NoSession => work'[d] = Absent
  BY <1>1 DEF TypedInv, RowTypes, Sessions
<1>7. Row' = Row /\ Absent' = Absent /\ NoJob' = NoJob
  BY DEF Row, Absent, NoJob, Healths
<1>8. RowTypes'
  BY <1>1, <1>3, <1>4, <1>5, <1>6, <1>7 DEF TypedInv, RowTypes
<1>9. OtherTypes'
  BY <1>1, <1>5 DEF TypedInv, OtherTypes
<1>10. \A x \in Sessions : JobTypes(x)'
  BY <1>1, AdvanceTypes
<1> QED
  BY <1>1, <1>7, <1>8, <1>9, <1>10 DEF TypedInv

LEMMA ReportTypes ==
    ASSUME FleetInv, TypedInv, NEW s \in Sessions, Report(s)
    PROVE  TypedInv'
<1>1. /\ UNCHANGED <<rows, owner, work, job, cached, read, calm, now, newest, late,
                     requests, fails>>
      /\ Open(s) /\ Advance(s) /\ Stage(s) \notin {"commit", "close"}
  BY DEF Report, history
<1>2. /\ base' \in [Sessions -> [Decoys -> Row]]
      /\ dirty' \in [Sessions -> SUBSET Decoys]
  BY <1>1, NothingTypes DEF Advance, TypedInv, RowTypes, OtherTypes
<1>3. Row' = Row /\ Absent' = Absent /\ NoJob' = NoJob
  BY DEF Row, Absent, NoJob, Healths
<1>4. RowTypes' /\ OtherTypes'
  BY <1>1, <1>2, <1>3 DEF TypedInv, RowTypes, OtherTypes
<1>5. \A x \in Sessions : JobTypes(x)'
  BY <1>1, AdvanceTypes
<1> QED
  BY <1>1, <1>3, <1>4, <1>5 DEF TypedInv

(* A transaction that ends takes its changes with it. *)
LEMMA ReleasedTypes ==
    ASSUME FleetInv, TypedInv, NEW s \in Sessions,
           owner' = Released(s), work' = Cleared(s)
    PROVE  /\ work' \in [Decoys -> Row]
           /\ \A d \in Decoys : owner'[d] = NoSession => work'[d] = Absent
           /\ \A d \in Decoys, x \in Sessions : owner'[d] = x => owner[d] = x /\ x # s
<1>1. \A d \in Decoys :
        /\ owner'[d] = IF owner[d] = s THEN NoSession ELSE owner[d]
        /\ work'[d] = IF owner[d] = s THEN Absent ELSE work[d]
  BY DEF Released, Cleared
<1>2. work' \in [Decoys -> Row]
  BY NothingTypes DEF Cleared, TypedInv, RowTypes
<1> QED
  BY <1>1, <1>2 DEF TypedInv, RowTypes

LEMMA EndTypes ==
    ASSUME FleetInv, TypedInv, NEW s \in Sessions, End(s),
           rows' \in [Decoys -> Row], calm' \in [Apis -> BOOLEAN],
           newest' \in [Decoys -> 0..MaxTime], late' \subseteq Decoys,
           fails' \in 0..MaxFails, UNCHANGED <<now, requests>>
    PROVE  TypedInv'
<1>1. Row' = Row /\ Absent' = Absent /\ NoJob' = NoJob /\ Jobs' = Jobs
  BY DEF Row, Absent, NoJob, Healths, Jobs
<1>2. /\ work' \in [Decoys -> Row]
      /\ \A d \in Decoys : owner'[d] = NoSession => work'[d] = Absent
      /\ \A d \in Decoys, x \in Sessions : owner'[d] = x => owner[d] = x /\ x # s
  BY ReleasedTypes DEF End
<1>3. /\ base' \in [Sessions -> [Decoys -> Row]]
      /\ cached' \in [Sessions -> Row]
  BY NothingTypes DEF End, TypedInv, RowTypes
<1>4. dirty' \in [Sessions -> SUBSET Decoys]
  BY DEF End, TypedInv, OtherTypes
<1>5. read' \in [Sessions -> 0..MaxTime]
  BY TimesAssumption DEF End, TypedInv, OtherTypes
<1>6. RowTypes'
  BY <1>1, <1>2, <1>3 DEF RowTypes
<1>7. OtherTypes'
  BY <1>4, <1>5 DEF TypedInv, OtherTypes
<1>8. /\ job'[s] = NoJob
      /\ \A x \in Sessions : x # s => job'[x] = job[x] /\ todo'[x] = todo[x]
  BY DEF End, FleetInv, TablesInv
<1>9. ASSUME NEW x \in Sessions PROVE JobTypes(x)'
  <2>1. CASE x = s
    <3>1. NoJob \in Jobs /\ NoJob.at <= now
      BY NothingTypes, TimesAssumption DEF TypedInv, OtherTypes
    <3> QED
      BY <1>1, <1>2, <1>8, <2>1, <3>1 DEF JobTypes
  <2>2. CASE x # s
    BY <1>1, <1>2, <1>8, <2>2 DEF TypedInv, JobTypes, Open
  <2> QED
    BY <2>1, <2>2
<1>10. job'[Worker] = NoJob
  BY <1>8 DEF TypedInv, Sessions
<1> QED
  BY <1>1, <1>6, <1>7, <1>9, <1>10 DEF TypedInv

LEMMA CommitTypes ==
    ASSUME FleetInv, TypedInv, NEW s \in Sessions, Commit(s)
    PROVE  TypedInv'
<1>1. Row' = Row /\ Absent' = Absent /\ NoJob' = NoJob /\ Jobs' = Jobs
  BY DEF Row, Absent, NoJob, Healths, Jobs
<1>2. rows' \in [Decoys -> Row]
  BY VisibleRow DEF Commit, TypedInv
<1>3. /\ Open(s) /\ calm' \in [Apis -> BOOLEAN]
      /\ UNCHANGED <<now, requests, fails>>
  BY DEF Commit
<1>4. newest' \in [Decoys -> 0..MaxTime]
  <2>1. /\ job[s].at \in Nat /\ job[s].at <= now /\ job[s].decoy \in Decoys
        /\ now \in Nat /\ now <= MaxTime /\ newest \in [Decoys -> 0..MaxTime]
    BY TimesAssumption DEF TypedInv, JobTypes, Jobs, OtherTypes
  <2>2. job[s].at \in 0..MaxTime
    BY <2>1, TimesAssumption
  <2> QED
    BY <2>1, <2>2 DEF Commit
<1>5. late' \subseteq Decoys
  BY DEF Commit, TypedInv, OtherTypes, JobTypes, Jobs
<1>6. CASE Tail(todo[s]) = <<>>
  <2>1. End(s) /\ fails' \in 0..MaxFails
    BY <1>3, <1>6 DEF Commit, TypedInv, OtherTypes
  <2> QED
    BY <1>2, <1>3, <1>4, <1>5, <2>1, EndTypes
<1>7. CASE Tail(todo[s]) # <<>>
  <2>1. /\ owner' = Released(s) /\ work' = Cleared(s)
        /\ Advance(s)
        /\ UNCHANGED <<job, cached, read>>
    BY <1>7 DEF Commit
  <2>2. /\ work' \in [Decoys -> Row]
        /\ \A d \in Decoys : owner'[d] = NoSession => work'[d] = Absent
        /\ \A d \in Decoys, x \in Sessions : owner'[d] = x => owner[d] = x /\ x # s
    BY <2>1, ReleasedTypes
  <2>3. cached' \in [Sessions -> Row]
    BY <2>1 DEF TypedInv, RowTypes
  <2>4. /\ base' \in [Sessions -> [Decoys -> Row]]
        /\ dirty' \in [Sessions -> SUBSET Decoys]
    BY <2>1, NothingTypes DEF Advance, TypedInv, RowTypes, OtherTypes
  <2>5. /\ todo'[s] # <<>>
        /\ \A x \in Sessions : x # s => todo'[x] = todo[x]
    BY <1>7, <2>1 DEF Advance, FleetInv, TablesInv
  <2>6. ASSUME NEW x \in Sessions PROVE JobTypes(x)'
    BY <1>1, <1>3, <2>1, <2>2, <2>5 DEF TypedInv, JobTypes, Open
  <2>7. RowTypes'
    BY <1>1, <1>2, <2>2, <2>3, <2>4 DEF RowTypes
  <2>8. OtherTypes'
    BY <1>3, <1>4, <1>5, <2>1, <2>4 DEF TypedInv, OtherTypes
  <2> QED
    BY <1>1, <2>1, <2>6, <2>7, <2>8 DEF TypedInv
<1> QED
  BY <1>6, <1>7

LEMMA BeginTypes ==
    ASSUME FleetInv, TypedInv, NEW s \in Sessions, NEW j \in Jobs, j.at <= now,
           s = Worker => j = NoJob, Begin(s, j), requests' \in 0..MaxRequests
    PROVE  TypedInv'
<1>1. Row' = Row /\ Absent' = Absent /\ NoJob' = NoJob /\ Jobs' = Jobs
  BY DEF Row, Absent, NoJob, Healths, Jobs
<1>2. /\ UNCHANGED <<rows, owner, work, dirty, base, cached, read, calm, now, newest,
                     late, fails>>
      /\ ~Open(s) /\ job'[s] = j /\ todo'[s] = Program(j.kind)
      /\ \A x \in Sessions : x # s => job'[x] = job[x] /\ todo'[x] = todo[x]
  BY DEF Begin, history, FleetInv, TablesInv
<1>3. todo'[s] # <<>>
  <2>1. j.kind \in RequestKinds \cup {"round"}
    BY DEF Jobs
  <2>2. Program(j.kind) # <<>>
    BY <2>1 DEF Program, RequestKinds
  <2> QED
    BY <1>2, <2>2
<1>4. ASSUME NEW x \in Sessions PROVE JobTypes(x)'
  <2>1. CASE x = s
    BY <1>1, <1>2, <1>3, <2>1 DEF JobTypes, Open
  <2>2. CASE x # s
    BY <1>1, <1>2, <2>2 DEF TypedInv, JobTypes, Open
  <2> QED
    BY <2>1, <2>2
<1>5. RowTypes' /\ OtherTypes'
  BY <1>1, <1>2 DEF TypedInv, RowTypes, OtherTypes
<1>6. job'[Worker] = NoJob
  BY <1>2 DEF TypedInv, Sessions
<1> QED
  BY <1>1, <1>4, <1>5, <1>6 DEF TypedInv

LEMMA NextTyped == FleetInv /\ TypedInv /\ [Next]_vars => TypedInv'
<1> SUFFICES ASSUME FleetInv, TypedInv, [Next]_vars PROVE TypedInv'
  OBVIOUS
<1>1. ASSUME NEW s \in Sessions, Load(s) \/ Flush(s) \/ Report(s) \/ Commit(s)
      PROVE  TypedInv'
  BY <1>1, LoadTypes, FlushTypes, ReportTypes, CommitTypes
<1>2. ASSUME NEW s \in Sessions,
             Close(s) \/ DuplicateKey(s) \/ DeadlockVictim(s) \/ Fail(s)
      PROVE  TypedInv'
  <2>1. Rollback(s)
    BY <1>2 DEF Close, DuplicateKey, DeadlockVictim, Fail
  <2>2. /\ End(s) /\ UNCHANGED <<rows, now, newest, late, requests>>
        /\ calm' = [x \in Apis |-> x # s /\ calm[x]]
    BY <2>1 DEF Rollback, history
  <2>3. fails' \in 0..MaxFails
    BY <1>2, TimesAssumption DEF Close, DuplicateKey, DeadlockVictim, Fail, TypedInv,
                                 OtherTypes
  <2>4. calm' \in [Apis -> BOOLEAN]
    BY <2>2 DEF TypedInv, OtherTypes
  <2>5. /\ rows' \in [Decoys -> Row]
        /\ newest' \in [Decoys -> 0..MaxTime] /\ late' \subseteq Decoys
    BY <2>2 DEF TypedInv, RowTypes, OtherTypes
  <2> QED
    BY <2>2, <2>3, <2>4, <2>5, EndTypes
<1>3. ASSUME NEW s \in Apis, Request(s) PROVE TypedInv'
  <2>1. PICK kind \in Kinds, d \in Decoys, t \in 0..now :
            \E site \in {Reported[d], Unknown} :
                Begin(s, [kind |-> kind, decoy |-> d, at |-> t, site |-> site])
    BY <1>3 DEF Request
  <2>2. PICK site \in {Reported[d], Unknown} :
            Begin(s, [kind |-> kind, decoy |-> d, at |-> t, site |-> site])
    BY <2>1
  <2>3. now \in Nat
    BY TimesAssumption DEF TypedInv, OtherTypes
  <2>4. [kind |-> kind, decoy |-> d, at |-> t, site |-> site] \in Jobs
    BY <2>3 DEF Jobs
  <2>5. requests' \in 0..MaxRequests
    BY <1>3, TimesAssumption DEF Request, TypedInv, OtherTypes
  <2>6. s \in Sessions /\ s # Worker /\ t <= now
    BY <2>3 DEF Sessions
  <2> QED
    BY <2>2, <2>4, <2>5, <2>6, BeginTypes
<1>4. CASE WorkerRound
  <2>1. Begin(Worker, NoJob) /\ requests' \in 0..MaxRequests
    BY <1>4 DEF WorkerRound, TypedInv, OtherTypes
  <2>2. NoJob \in Jobs /\ NoJob.at <= now /\ Worker \in Sessions
    BY NothingTypes, TimesAssumption DEF TypedInv, OtherTypes, Sessions
  <2> QED
    BY <2>1, <2>2, BeginTypes
<1>5. CASE Tick \/ UNCHANGED vars
  <2>1. UNCHANGED <<rows, owner, work, todo, job, dirty, base, cached, read, calm,
                    newest, late, requests, fails>>
    BY <1>5 DEF Tick, vars, sessionVars, history
  <2>2. now' \in 1..MaxTime /\ (now' = now \/ now' = now + 1)
    BY <1>5, TimesAssumption DEF Tick, vars, TypedInv, OtherTypes
  <2>3. Row' = Row /\ Absent' = Absent /\ NoJob' = NoJob /\ Jobs' = Jobs
    BY DEF Row, Absent, NoJob, Healths, Jobs
  <2>4. RowTypes' /\ OtherTypes'
    BY <2>1, <2>2, <2>3 DEF TypedInv, RowTypes, OtherTypes
  <2>5. ASSUME NEW x \in Sessions PROVE JobTypes(x)'
    <3>1. JobTypes(x) /\ job[x].at \in Nat /\ now \in Nat /\ job[x].at <= now
      BY TimesAssumption DEF TypedInv, JobTypes, Jobs, OtherTypes
    <3>2. job[x].at <= now'
      BY <2>2, <3>1
    <3> QED
      BY <2>1, <2>3, <3>1, <3>2 DEF JobTypes, Open
  <2> QED
    BY <2>1, <2>3, <2>4, <2>5 DEF TypedInv
<1> QED
  BY <1>1, <1>2, <1>3, <1>4, <1>5 DEF Next, Step

(* Every variable stays in its type, whatever the sessions have loaded and *)
(* merged (the columns of models.py); a session that is not open has       *)
(* locked nothing (database.py:21-26).                                     *)
THEOREM FleetTypes == Spec => []TypeOK
<1>1. FleetInv /\ TypedInv => TypeOK
  <2> SUFFICES ASSUME FleetInv, TypedInv PROVE TypeOK
    OBVIOUS
  <2>1. ASSUME NEW s \in Sessions
        PROVE  /\ \A n \in DOMAIN todo[s] : todo[s][n] \in Stages
               /\ job[s] \in Jobs
               /\ ~Open(s) => job[s] = NoJob /\ s \notin {owner[d] : d \in Decoys}
    BY DEF FleetInv, SessionInv, Ends, TypedInv, JobTypes
  <2> QED
    BY <2>1 DEF TypeOK, FleetInv, TablesInv, TypedInv, RowTypes, OtherTypes
<1> QED
  BY <1>1, InitInv, NextKeeps, InitTyped, NextTyped, PTL DEF Spec

-----------------------------------------------------------------------------
(* The stages that are left, by what the session was asked. *)

LEMMA ReportTails ==
    ASSUME NEW t \in ReportStages
    PROVE  /\ t # <<>> /\ Head(t) \in {"reconcile", "refresh", "report", "close", "commit"}
           /\ Tail(t) # <<>> => Tail(t) \in CalmStages
           /\ Head(t) = "report" => Tail(t) \in {<<"close">>, <<"commit">>}
           /\ Head(t) = "reconcile" =>
                /\ t \in CalmStages
                /\ Head(Tail(t)) = "refresh" /\ Tail(t) # <<>>
           /\ t \in CalmStages /\ Head(t) = "refresh" => Head(Tail(t)) = "report"
           /\ t \in CalmStages /\ Head(t) \in {"close", "commit"} => Tail(t) = <<>>
<1> USE DEF ReportStages, CalmStages
<1>1. CASE t = <<"refresh", "reconcile", "refresh", "report", "close">>
  BY <1>1
<1>2. CASE t = <<"reconcile", "refresh", "report", "close">>
  BY <1>2
<1>3. CASE t = <<"refresh", "report", "close">>
  BY <1>3
<1>4. CASE t = <<"report", "close">>
  BY <1>4
<1>5. CASE t = <<"close">>
  BY <1>5
<1>6. CASE t = <<"reconcile", "refresh", "report", "commit">>
  BY <1>6
<1>7. CASE t = <<"refresh", "report", "commit">>
  BY <1>7
<1>8. CASE t = <<"report", "commit">>
  BY <1>8
<1>9. CASE t = <<"commit">>
  BY <1>9
<1> QED
  BY <1>1, <1>2, <1>3, <1>4, <1>5, <1>6, <1>7, <1>8, <1>9

LEMMA ProgramStages ==
    ASSUME NEW kind \in RequestKinds \cup {"round"}
    PROVE  /\ kind \in ReportKinds => Program(kind) \in ReportStages
           /\ kind \notin ReportKinds =>
                \A n \in DOMAIN Program(kind) : Program(kind)[n] # "report"
           /\ kind # "event" =>
                \A n \in DOMAIN Program(kind) : Program(kind)[n] # "event"
<1> USE DEF Program, ReportKinds, ReportStages, CalmStages
<1>1. CASE kind = "heartbeat"
  BY <1>1
<1>2. CASE kind = "event"
  BY <1>2
<1>3. CASE kind = "repeat"
  BY <1>3
<1>4. CASE kind = "fleet"
  BY <1>4
<1>5. CASE kind = "posture"
  BY <1>5
<1>6. CASE kind = "summary"
  BY <1>6
<1>7. CASE kind = "round"
  BY <1>7
<1> QED
  BY <1>1, <1>2, <1>3, <1>4, <1>5, <1>6, <1>7 DEF RequestKinds

LEMMA TailElements ==
    ASSUME NEW t \in Seq(Stages), t # <<>>
    PROVE  /\ \A n \in DOMAIN Tail(t) :
                n + 1 \in DOMAIN t /\ Tail(t)[n] = t[n + 1]
           /\ 1 \in DOMAIN t /\ Head(t) = t[1]
<1>1. Len(t) \in Nat /\ Len(t) # 0
  BY LenOfEmpty
<1>2. 1 \in DOMAIN t /\ Head(t) = t[1]
  BY <1>1
<1>3. \A n \in DOMAIN Tail(t) : n + 1 \in DOMAIN t /\ Tail(t)[n] = t[n + 1]
  OBVIOUS
<1> QED
  BY <1>2, <1>3

(* A session is at the stages of what it was asked. *)
LEMMA StageKinds ==
    ASSUME FleetInv, HeartbeatsInv, NEW s \in Sessions, StagesInv(s), Open(s)
    PROVE  /\ Stage(s) = "event" => job[s].kind = "event"
           /\ Stage(s) = "heartbeat" => job[s].kind = "heartbeat"
           /\ Stage(s) = "report" => job[s].kind \in ReportKinds
           /\ Reports(s) => job[s].kind \in ReportKinds
<1>1. todo[s] \in Seq(Stages) /\ todo[s] # <<>>
  BY DEF FleetInv, SessionInv, Ends, Open
<1>2. 1 \in DOMAIN todo[s] /\ Stage(s) = todo[s][1]
  BY <1>1, TailElements DEF Stage
<1> QED
  BY <1>2 DEF StagesInv, HeartbeatsInv, JobInv, Reports

LEMMA StagesNext ==
    ASSUME NEW s \in Sessions, StagesInv(s), todo[s] \in Seq(Stages), todo[s] # <<>>,
           todo'[s] = Tail(todo[s]), todo'[s] # <<>>, job'[s] = job[s],
           cached'[s] # Absent => cached[s] # Absent \/ Stage(s) = "event"
    PROVE  StagesInv(s)'
<1>1. \A n \in DOMAIN todo'[s] : n + 1 \in DOMAIN todo[s] /\ todo'[s][n] = todo[s][n + 1]
  BY TailElements
<1>2. todo[s] \in ReportStages => todo'[s] \in ReportStages
  BY ReportTails DEF ReportStages
<1>3. job[s].kind \in ReportKinds => todo'[s] \in ReportStages
  BY <1>2 DEF StagesInv
<1>4. /\ job[s].kind \notin ReportKinds =>
            \A n \in DOMAIN todo'[s] : todo'[s][n] # "report"
      /\ job[s].kind # "event" => \A n \in DOMAIN todo'[s] : todo'[s][n] # "event"
  BY <1>1 DEF StagesInv
<1>5. ReportStages' = ReportStages /\ ReportKinds' = ReportKinds
  BY DEF ReportStages, ReportKinds, CalmStages
<1>6. (cached[s] # Absent)' => job[s].kind = "event"
  <2>1. Absent' = Absent
    BY DEF Absent
  <2>2. Stage(s) = "event" => job[s].kind = "event"
    BY TailElements DEF StagesInv, Stage
  <2> QED
    BY <2>1, <2>2 DEF StagesInv
<1> QED
  BY <1>3, <1>4, <1>5, <1>6 DEF StagesInv

-----------------------------------------------------------------------------
(* What the step of one session is to another one: its variables and its   *)
(* rows are as they were, and so are the committed rows it has locked.     *)
Untouched(x) ==
    /\ todo'[x] = todo[x] /\ job'[x] = job[x] /\ dirty'[x] = dirty[x]
    /\ base'[x] = base[x] /\ cached'[x] = cached[x] /\ read'[x] = read[x]
    /\ \A d \in Decoys :
        /\ owner'[d] = x <=> owner[d] = x
        /\ owner[d] = x => work'[d] = work[d] /\ rows'[d] = rows[d]

Moves(s) ==
    \/ Step(s) \/ Fail(s)
    \/ s \in Apis /\ Request(s)
    \/ s = Worker /\ WorkerRound

LEMMA Ended ==
    ASSUME NEW s \in Sessions,
           Close(s) \/ DuplicateKey(s) \/ DeadlockVictim(s) \/ Fail(s)
    PROVE  Rollback(s)
BY DEF Close, DuplicateKey, DeadlockVictim, Fail

LEMMA EndUntouched ==
    ASSUME FleetInv, TypedInv, NEW s \in Sessions, NEW x \in Sessions, x # s, End(s),
           \A d \in Decoys : owner[d] = x => rows'[d] = rows[d]
    PROVE  Untouched(x)
<1>1. /\ todo'[x] = todo[x] /\ job'[x] = job[x] /\ dirty'[x] = dirty[x]
      /\ base'[x] = base[x] /\ cached'[x] = cached[x] /\ read'[x] = read[x]
  BY DEF End, FleetInv, TablesInv, TypedInv, OtherTypes
<1>2. \A d \in Decoys :
        /\ owner'[d] = IF owner[d] = s THEN NoSession ELSE owner[d]
        /\ work'[d] = IF owner[d] = s THEN Absent ELSE work[d]
  BY DEF End, Released, Cleared
<1> QED
  BY <1>1, <1>2 DEF Untouched

LEMMA BeginUntouched ==
    ASSUME FleetInv, TypedInv, NEW s \in Sessions, NEW x \in Sessions, x # s,
           NEW j, Begin(s, j)
    PROVE  Untouched(x)
BY DEF Begin, Untouched, FleetInv, TablesInv

LEMMA AdvanceUntouched ==
    ASSUME FleetInv, NEW s \in Sessions, NEW x \in Sessions, x # s, Advance(s)
    PROVE  todo'[x] = todo[x] /\ dirty'[x] = dirty[x] /\ base'[x] = base[x]
BY DEF Advance, FleetInv, TablesInv

LEMMA OthersUntouched ==
    ASSUME FleetInv, TypedInv, NEW s \in Sessions, NEW x \in Sessions, x # s, Moves(s)
    PROVE  Untouched(x)
<1>1. CASE Load(s)
  <2>1. /\ UNCHANGED <<rows, owner, work, job, cached>>
        /\ read'[x] = read[x]
    BY <1>1 DEF Load, TypedInv, OtherTypes
  <2>2. todo'[x] = todo[x] /\ dirty'[x] = dirty[x] /\ base'[x] = base[x]
    BY <1>1, AdvanceUntouched DEF Load, FleetInv, TablesInv
  <2> QED
    BY <2>1, <2>2 DEF Untouched
<1>2. CASE Flush(s)
  <2>1. /\ UNCHANGED <<rows, job, read>>
        /\ cached'[x] = cached[x]
    BY <1>2 DEF Flush, FleetInv, TablesInv
  <2>2. todo'[x] = todo[x] /\ dirty'[x] = dirty[x] /\ base'[x] = base[x]
    BY <1>2, AdvanceUntouched DEF Flush
  <2>3. \A d \in Decoys :
            /\ owner'[d] = IF d \in dirty[s] THEN s ELSE owner[d]
            /\ d \notin dirty[s] => work'[d] = work[d]
    BY <1>2 DEF Flush
  <2>4. \A d \in dirty[s] : owner[d] # x
    BY <1>2 DEF Flush, CanFlush
  <2> QED
    BY <2>1, <2>2, <2>3, <2>4 DEF Untouched
<1>3. CASE Report(s)
  <2>1. UNCHANGED <<rows, owner, work, job, cached, read>>
    BY <1>3 DEF Report
  <2>2. todo'[x] = todo[x] /\ dirty'[x] = dirty[x] /\ base'[x] = base[x]
    BY <1>3, AdvanceUntouched DEF Report
  <2> QED
    BY <2>1, <2>2 DEF Untouched
<1>4. CASE Commit(s)
  <2>1. \A d \in Decoys : owner[d] = x => rows'[d] = rows[d]
    BY <1>4 DEF Commit, Visible
  <2>2. CASE Tail(todo[s]) = <<>>
    <3>1. End(s)
      BY <1>4, <2>2 DEF Commit
    <3> QED
      BY <2>1, <3>1, EndUntouched
  <2>3. CASE Tail(todo[s]) # <<>>
    <3>1. /\ owner' = Released(s) /\ work' = Cleared(s)
          /\ cached'[x] = cached[x]
          /\ Advance(s)
          /\ UNCHANGED <<job, read>>
      BY <1>4, <2>3 DEF Commit, FleetInv, TablesInv
    <3>2. \A d \in Decoys :
            /\ owner'[d] = IF owner[d] = s THEN NoSession ELSE owner[d]
            /\ work'[d] = IF owner[d] = s THEN Absent ELSE work[d]
      BY <3>1 DEF Released, Cleared
    <3>3. todo'[x] = todo[x] /\ dirty'[x] = dirty[x] /\ base'[x] = base[x]
      BY <3>1, AdvanceUntouched
    <3> QED
      BY <2>1, <3>1, <3>2, <3>3 DEF Untouched
  <2> QED
    BY <2>2, <2>3
<1>5. CASE Rollback(s)
  BY <1>5, EndUntouched DEF Rollback
<1>6. CASE s \in Apis /\ Request(s)
  BY <1>6, BeginUntouched DEF Request
<1>7. CASE s = Worker /\ WorkerRound
  BY <1>7, BeginUntouched DEF WorkerRound
<1> QED
  BY <1>1, <1>2, <1>3, <1>4, <1>5, <1>6, <1>7, Ended DEF Moves, Step

(* How a session itself goes on. *)
LEMMA OwnStages ==
    ASSUME FleetInv, FleetInv', NEW s \in Sessions, StagesInv(s), Moves(s)
    PROVE  StagesInv(s)'
<1>1. Ends(todo[s])
  BY DEF FleetInv, SessionInv
<1>2. ReportStages' = ReportStages /\ ReportKinds' = ReportKinds
  BY DEF ReportStages, ReportKinds, CalmStages
<1>3. CASE End(s)
  <2>1. /\ todo'[s] = <<>> /\ job'[s] = NoJob
        /\ cached'[s] = Absent /\ Absent' = Absent
    BY <1>3 DEF End, FleetInv, TablesInv, Absent
  <2> QED
    BY <1>2, <2>1 DEF StagesInv, NoJob, ReportKinds
<1>4. CASE job' = job /\ todo' = todo /\ cached' = cached
  BY <1>2, <1>4 DEF StagesInv, Absent
<1>5. CASE /\ job' = job /\ Open(s) /\ Advance(s) /\ todo'[s] # <<>>
           /\ cached'[s] # Absent => cached[s] # Absent \/ Stage(s) = "event"
  <2>1. todo'[s] = Tail(todo[s])
    BY <1>5 DEF Advance, FleetInv, TablesInv
  <2> QED
    BY <1>1, <1>5, <2>1, StagesNext DEF Ends, Open
<1>6. ASSUME NEW j, Begin(s, j), j.kind \in RequestKinds \cup {"round"}
      PROVE  StagesInv(s)'
  <2>1. todo'[s] = Program(j.kind) /\ job'[s] = j
    BY <1>6 DEF Begin, FleetInv, TablesInv
  <2>2. cached'[s] = Absent /\ Absent' = Absent
    BY <1>6 DEF Begin, FleetInv, SessionInv, Absent
  <2> QED
    BY <1>2, <1>6, <2>1, <2>2, ProgramStages DEF StagesInv
<1>7. CASE Load(s) \/ Flush(s) \/ Report(s)
  <2>1. Open(s) /\ job' = job /\ Stage(s) \notin {"commit", "close"}
    BY <1>7 DEF Load, Flush, Report, LoadStages, FleetInv, SessionInv
  <2>2. Advance(s) \/ (todo' = todo /\ cached' = cached)
    BY <1>7 DEF Load, Flush, Report
  <2>3. cached'[s] # Absent => cached[s] # Absent \/ Stage(s) = "event"
    BY <1>7 DEF Load, Flush, Report, FleetInv, TablesInv
  <2> QED
    BY <1>4, <1>5, <2>1, <2>2, <2>3, AdvanceFacts
<1>8. CASE Commit(s)
  <2>1. Open(s) /\ (Tail(todo[s]) # <<>> =>
                         Advance(s) /\ job' = job /\ cached' = cached)
    BY <1>8 DEF Commit
  <2>2. Tail(todo[s]) = <<>> => End(s)
    BY <1>8 DEF Commit
  <2>3. Advance(s) => todo'[s] = Tail(todo[s])
    BY DEF Advance, FleetInv, TablesInv
  <2> QED
    BY <1>3, <1>5, <2>1, <2>2, <2>3
<1>9. CASE s \in Apis /\ Request(s)
  <2>1. PICK kind \in Kinds, d \in Decoys, t \in 0..now :
            \E site \in {Reported[d], Unknown} :
                Begin(s, [kind |-> kind, decoy |-> d, at |-> t, site |-> site])
    BY <1>9 DEF Request
  <2> QED
    BY <1>6, <2>1
<1>10. CASE s = Worker /\ WorkerRound
  BY <1>6, <1>10 DEF WorkerRound, NoJob
<1> QED
  BY <1>3, <1>7, <1>8, <1>9, <1>10, Ended DEF Moves, Step, Rollback

-----------------------------------------------------------------------------
(* Sites. *)

LEMMA SitesOfRows ==
    ASSUME NEW r, Well(r), NEW j, NEW time
    PROVE  /\ \A d \in Expected : Reconciled(d, r).site = Inventory[d]
           /\ Refreshed(r, time).site = r.site
           /\ Seen(j, r).site = IF j.site = Unknown THEN r.site ELSE j.site
<1>1. DOMAIN r = Columns
  BY AbsentFacts DEF Well, Present
<1>2. \A d \in Expected : Reconciled(d, r).site = Inventory[d]
  BY <1>1 DEF Reconciled, Absent, Columns
<1>3. Refreshed(r, time).site = r.site
  BY <1>1 DEF Refreshed, Columns
<1>4. Seen(j, r).site = IF j.site = Unknown THEN r.site ELSE j.site
  BY <1>1 DEF Seen, Prefer, Columns
<1> QED
  BY <1>2, <1>3, <1>4

(* What a flush makes of the site of a row: it leaves it, or writes the    *)
(* inventory's or the one that the request has come with.                  *)
LEMMA FlushedSite ==
    ASSUME FleetInv, NEW s \in Sessions, Flush(s), NEW d \in dirty[s]
    PROVE  \/ Merged(Visible(s, d), base[s][d], New(s, d)).site = Visible(s, d).site
           \/ /\ Stage(s) = "reconcile" /\ d \in Expected
              /\ Merged(Visible(s, d), base[s][d], New(s, d)).site = Inventory[d]
           \/ Stage(s) = "heartbeat"
           \/ /\ Stage(s) = "event" /\ job[s].site # Unknown
              /\ Merged(Visible(s, d), base[s][d], New(s, d)).site = job[s].site
<1>1. /\ d \in Decoys /\ Well(base[s][d]) /\ Stage(s) \in LoadStages
      /\ Stage(s) = "reconcile" => d \in Expected
  BY DEF FleetInv, SessionInv
<1>2. DOMAIN Visible(s, d) = Columns
  BY <1>1, VisibleWell, AbsentFacts DEF FleetInv, Well, Present
<1>3. Merged(Visible(s, d), base[s][d], New(s, d)).site =
        IF New(s, d).site # base[s][d].site THEN New(s, d).site ELSE Visible(s, d).site
  BY <1>2 DEF Merged, Columns
<1>4. CASE Stage(s) = "reconcile"
  <2>1. New(s, d).site = Inventory[d]
    BY <1>1, <1>4, SitesOfRows DEF New, Changed
  <2> QED
    BY <1>1, <1>3, <1>4, <2>1
<1>5. CASE Stage(s) = "refresh"
  <2>1. New(s, d).site = base[s][d].site
    BY <1>1, <1>5, SitesOfRows DEF New, Changed
  <2> QED
    BY <1>3, <2>1
<1>6. CASE Stage(s) = "event"
  <2>1. New(s, d).site = IF job[s].site = Unknown THEN base[s][d].site ELSE job[s].site
    BY <1>1, <1>6, SitesOfRows DEF New, Changed
  <2> QED
    BY <1>3, <1>6, <2>1
<1> QED
  BY <1>1, <1>4, <1>5, <1>6 DEF LoadStages

LEMMA FlushSites ==
    ASSUME FleetInv, HeartbeatsInv, NEW s \in Sessions, StagesInv(s), Flush(s),
           NEW d \in Decoys, SiteInv(s, d)
    PROVE  SiteInv(s, d)'
<1>1. /\ UNCHANGED <<rows, job>> /\ Open(s)
      /\ owner'[d] = IF d \in dirty[s] THEN s ELSE owner[d]
      /\ work'[d] = IF d \in dirty[s]
                    THEN Merged(Visible(s, d), base[s][d], New(s, d))
                    ELSE work[d]
  BY DEF Flush
<1>2. CASE d \notin dirty[s]
  BY <1>1, <1>2 DEF SiteInv, Forgets
<1>3. CASE d \in dirty[s]
  <2>1. Visible(s, d) = IF owner[d] = s THEN work[d] ELSE rows[d]
    BY DEF Visible
  <2>2. /\ rows[d].site # Unknown => Visible(s, d).site # Unknown \/ Forgets(s, d)
        /\ d \notin Expected /\ job[s].kind \notin {"heartbeat", "event"}
                => Visible(s, d).site = rows[d].site
    BY <2>1 DEF SiteInv
  <2>3. /\ Stage(s) = "event" => job[s].kind = "event"
        /\ Stage(s) = "heartbeat" => job[s].kind = "heartbeat"
    BY <1>1, StageKinds
  <2>4. Stage(s) = "heartbeat" => Forgets(s, d)
    BY <1>3, <2>3 DEF HeartbeatsInv, JobInv, Forgets
  <2>5. /\ rows[d].site # Unknown => work'[d].site # Unknown \/ Forgets(s, d)
        /\ d \notin Expected /\ job[s].kind \notin {"heartbeat", "event"}
                => work'[d].site = rows[d].site
    BY <1>1, <1>3, <2>2, <2>3, <2>4, FlushedSite DEF Forgets
  <2> QED
    BY <1>1, <2>5 DEF SiteInv, Forgets
<1> QED
  BY <1>2, <1>3

LEMMA OwnSites ==
    ASSUME FleetInv, TypedInv, HeartbeatsInv, NEW s \in Sessions, StagesInv(s), Moves(s),
           NEW d \in Decoys, SiteInv(s, d)
    PROVE  SiteInv(s, d)'
<1>1. CASE UNCHANGED <<rows, owner, work, job>>
  BY <1>1 DEF SiteInv, Forgets
<1>2. CASE owner'[d] # s
  BY <1>2 DEF SiteInv
<1>3. CASE Load(s) \/ Report(s)
  BY <1>1, <1>3 DEF Load, Report
<1>4. CASE Commit(s) \/ Rollback(s)
  <2>1. owner' = Released(s)
    BY <1>4 DEF Commit, Rollback, End
  <2> QED
    BY <1>2, <2>1 DEF Released
<1>5. CASE (s \in Apis /\ Request(s)) \/ (s = Worker /\ WorkerRound)
  <2>1. ~Open(s) /\ owner' = owner
    BY <1>5 DEF Request, WorkerRound, Begin
  <2> QED
    BY <1>2, <2>1 DEF TypedInv, JobTypes
<1> QED
  BY <1>3, <1>4, <1>5, FlushSites, Ended DEF Moves, Step

LEMMA OthersSites ==
    ASSUME NEW x \in Sessions, NEW d \in Decoys, SiteInv(x, d), Untouched(x)
    PROVE  SiteInv(x, d)'
BY DEF SiteInv, Untouched, Forgets

(* Only a commit changes what is committed. *)
LEMMA RowsCommitted ==
    ASSUME NEW s \in Sessions, Moves(s), ~Commit(s)
    PROVE  UNCHANGED <<rows, newest, late>>
<1>1. Rollback(s) => UNCHANGED <<rows, newest, late>>
  BY DEF Rollback, history
<1> QED
  BY <1>1, Ended DEF Moves, Step, Load, Flush, Report, Request, WorkerRound, Begin, history

LEMMA InitSites == Init => SitesInv
<1> SUFFICES ASSUME Init PROVE SitesInv
  OBVIOUS
<1>1. ASSUME NEW s \in Sessions PROVE StagesInv(s)
  BY DEF Init, StagesInv, NoJob, ReportKinds
<1>2. ASSUME NEW s \in Sessions, NEW d \in Decoys PROVE SiteInv(s, d)
  BY DEF Init, SiteInv
<1> QED
  BY <1>1, <1>2 DEF SitesInv

LEMMA StagesFrame ==
    ASSUME NEW x \in Sessions, StagesInv(x), todo'[x] = todo[x], job'[x] = job[x],
           cached'[x] = cached[x]
    PROVE  StagesInv(x)'
BY DEF StagesInv, ReportStages, CalmStages, ReportKinds, Absent

LEMMA NextSites ==
    FleetInv /\ TypedInv /\ HeartbeatsInv /\ SitesInv /\ [Next]_vars => SitesInv'
<1> SUFFICES ASSUME FleetInv, TypedInv, HeartbeatsInv, SitesInv, [Next]_vars
             PROVE  SitesInv'
  OBVIOUS
<1>1. FleetInv'
  BY NextKeeps
<1>2. CASE Tick \/ UNCHANGED vars
  <2>1. UNCHANGED <<rows, owner, work, todo, job, cached>>
    BY <1>2 DEF Tick, vars, sessionVars
  <2>2. ASSUME NEW x \in Sessions PROVE StagesInv(x)'
    BY <2>1, StagesFrame DEF SitesInv
  <2>3. ASSUME NEW x \in Sessions, NEW d \in Decoys PROVE SiteInv(x, d)'
    BY <2>1 DEF SitesInv, SiteInv, Forgets
  <2> QED
    BY <2>2, <2>3 DEF SitesInv
<1>3. ASSUME NEW s \in Sessions, Moves(s)
      PROVE  SitesInv'
  <2>1. StagesInv(s)' /\ \A d \in Decoys : SiteInv(s, d)'
    BY <1>1, <1>3, OwnStages, OwnSites DEF SitesInv
  <2>2. ASSUME NEW x \in Sessions, x # s
        PROVE  StagesInv(x)' /\ \A d \in Decoys : SiteInv(x, d)'
    <3>1. Untouched(x)
      BY <1>3, <2>2, OthersUntouched
    <3>2. StagesInv(x)'
      BY <3>1, StagesFrame DEF SitesInv, Untouched
    <3>3. \A d \in Decoys : SiteInv(x, d)'
      BY <3>1, OthersSites DEF SitesInv
    <3> QED
      BY <3>2, <3>3
  <2> QED
    BY <2>1, <2>2 DEF SitesInv
<1>4. Next => Tick \/ \E s \in Sessions : Moves(s)
  BY DEF Next, Moves, Sessions
<1> QED
  BY <1>2, <1>3, <1>4

(* No step but the commit of a heartbeat takes the site of a decoy away,   *)
(* unless the inventory itself does not know it: whatever a session has    *)
(* loaded, and however long ago (services.py:238-241, 265 and 399).        *)
THEOREM SitesStay == Spec => SitesKept
<1>1. FleetInv /\ TypedInv /\ HeartbeatsInv /\ SitesInv /\ [Next]_vars =>
        [\A d \in Decoys :
            rows[d].site # Unknown /\ rows'[d].site = Unknown =>
                \/ \E s \in Apis : /\ Commit(s)
                                   /\ job[s].kind = "heartbeat"
                                   /\ job[s].decoy = d
                \/ d \in Expected /\ Inventory[d] = Unknown]_vars
  <2> SUFFICES ASSUME FleetInv, TypedInv, HeartbeatsInv, SitesInv, [Next]_vars,
                      NEW d \in Decoys,
                      rows[d].site # Unknown, rows'[d].site = Unknown
               PROVE  \/ \E s \in Apis : /\ Commit(s)
                                         /\ job[s].kind = "heartbeat"
                                         /\ job[s].decoy = d
                      \/ d \in Expected /\ Inventory[d] = Unknown
    OBVIOUS
  <2>1. ~(Tick \/ UNCHANGED vars)
    BY DEF Tick, vars
  <2>2. PICK s \in Sessions : Moves(s)
    BY <2>1 DEF Next, Moves, Sessions
  <2>3. Commit(s)
    BY <2>2, RowsCommitted
  <2>4. rows'[d] = IF owner[d] = s THEN work[d] ELSE rows[d]
    BY <2>3 DEF Commit, Visible
  <2>5. Forgets(s, d)
    BY <2>4 DEF SitesInv, SiteInv
  <2>6. job[s].kind = "heartbeat" => s \in Apis
    BY DEF TypedInv, NoJob, Sessions
  <2> QED
    BY <2>3, <2>5, <2>6 DEF Forgets
<1> QED
  BY <1>1, InitInv, NextKeeps, InitTyped, NextTyped, InitHeartbeats, NextBeats,
     InitSites, NextSites, PTL DEF Spec, SitesKept

-----------------------------------------------------------------------------
(* Reports. *)

LEMMA ReconciledFixed ==
    ASSUME NEW d \in Expected, NEW r, Well(r), Reconciled(d, r) = r
    PROVE  r # Absent /\ r.site = Inventory[d]
<1>1. r # Absent
  BY ReconciledPresent, AbsentFacts
<1>2. r.site = Inventory[d]
  BY SitesOfRows
<1> QED
  BY <1>1, <1>2

LEMMA RefreshedFresh ==
    ASSUME NEW r, Present(r), NEW time
    PROVE  /\ Fresh(Refreshed(r, time), time)
           /\ Refreshed(r, time) = r => Fresh(r, time)
<1>1. DOMAIN r = Columns
  BY DEF Present
<1> DEFINE silent == Health(r.beat, time) = "silent"
<1>2. /\ Refreshed(r, time).health = Health(r.beat, time)
      /\ Refreshed(r, time).runtime = IF silent THEN "silent" ELSE "running"
      /\ Refreshed(r, time).beat = r.beat
  BY <1>1 DEF Refreshed, Columns
<1>3. Refreshed(r, time).failed = silent
  BY <1>1 DEF Refreshed, Columns
<1>4. Fresh(Refreshed(r, time), time)
  BY <1>2, <1>3 DEF Fresh
<1> QED
  BY <1>4

(* An update of a row that nobody has changed meanwhile leaves what the    *)
(* session has in memory.                                                  *)
LEMMA MergedSelf ==
    ASSUME NEW r, NEW new, Well(r)
    PROVE  \A c \in Columns \ {"copies"} : Merged(r, r, new)[c] = new[c]
<1>1. DOMAIN r = Columns
  BY AbsentFacts DEF Well, Present
<1> QED
  BY <1>1 DEF Merged

LEMMA MergedFresh ==
    ASSUME NEW r, NEW new, Well(r), NEW time, Fresh(new, time)
    PROVE  Fresh(Merged(r, r, new), time)
<1> DEFINE m == Merged(r, r, new)
<1>1. /\ m.health = new.health /\ m.beat = new.beat /\ m.runtime = new.runtime
      /\ m.failed = new.failed
  BY MergedSelf DEF Columns
<1> HIDE DEF m
<1>2. Fresh(m, time)
  BY <1>1 DEF Fresh
<1> QED
  BY <1>2 DEF m

(* A session that makes an answer gets the rows it sees. *)
LEMMA FoundVisible ==
    ASSUME NEW s \in Sessions, StagesInv(s), job[s].kind \in ReportKinds,
           NEW d \in Decoys
    PROVE  Found(s, d) = Visible(s, d)
BY DEF StagesInv, Found, ReportKinds

(* It is calm once it loads the rows to reconcile them. *)
LEMMA CalmBegins ==
    ASSUME FleetInv, HeartbeatsInv, NEW s \in Apis, StagesInv(s), Load(s), calm'[s],
           calm[s] => CalmInv(s)
    PROVE  /\ job[s].kind \in ReportKinds /\ todo[s] \in CalmStages
           /\ Stage(s) \in {"reconcile", "refresh"}
           /\ Stage(s) = "refresh" => CalmInv(s)
<1>1. /\ Open(s) /\ Stage(s) \in LoadStages /\ s \in Sessions
      /\ calm[s] \/ (Stage(s) = "reconcile" /\ Reports(s))
  BY DEF Load, Sessions
<1>2. CASE Stage(s) = "reconcile" /\ Reports(s)
  <2>1. job[s].kind \in ReportKinds
    BY <1>1, <1>2, StageKinds
  <2>2. todo[s] \in ReportStages
    BY <2>1 DEF StagesInv
  <2> QED
    BY <1>2, <2>1, <2>2, ReportTails DEF Stage
<1>3. CASE calm[s]
  <2>1. CalmInv(s)
    BY <1>3
  <2>2. job[s].kind \in ReportKinds /\ todo[s] \in CalmStages
    BY <2>1 DEF CalmInv
  <2>3. Stage(s) \in {"reconcile", "refresh", "report", "close", "commit"}
    BY <2>2, ReportTails DEF Stage, ReportStages
  <2> QED
    BY <1>1, <2>1, <2>2, <2>3 DEF LoadStages
<1> QED
  BY <1>1, <1>2, <1>3

(* What the session has loaded, when it has something to change. *)
LEMMA CalmLoads ==
    ASSUME FleetInv, TypedInv, HeartbeatsInv, NEW s \in Apis, StagesInv(s), Load(s), calm'[s],
           calm[s] => CalmInv(s)
    PROVE  CalmInv(s)'
<1> DEFINE changes == Changes(s, now)
<1>1. /\ job[s].kind \in ReportKinds /\ todo[s] \in CalmStages
      /\ Stage(s) \in {"reconcile", "refresh"}
      /\ Stage(s) = "refresh" => CalmInv(s)
  BY CalmBegins
<1>2. /\ UNCHANGED <<rows, owner, work, job>>
      /\ s \in Sessions /\ Open(s) /\ read' = [read EXCEPT ![s] = now]
  BY DEF Load, Sessions
<1>3. \A d \in Decoys :
        /\ Visible(s, d)' = Visible(s, d) /\ Found(s, d) = Visible(s, d)
        /\ Well(Visible(s, d))
  BY <1>1, <1>2, FoundVisible, VisibleWell DEF Visible, FleetInv
<1>4. changes \subseteq Decoys
  BY <1>1 DEF Changes, Scope
<1>5. ASSUME NEW d \in Expected, d \notin changes \/ Stage(s) = "refresh"
      PROVE  InPlace(s, d)'
  <2>1. CASE Stage(s) = "refresh"
    BY <1>1, <1>3, <2>1 DEF CalmInv, InPlace, Absent
  <2>2. CASE Stage(s) = "reconcile"
    <3>1. Reconciled(d, Visible(s, d)) = Visible(s, d)
      BY <1>3, <1>5, <2>2 DEF Changes, Scope, Changed
    <3>2. Visible(s, d) # Absent /\ Visible(s, d).site = Inventory[d]
      BY <1>3, <3>1, ReconciledFixed
    <3> QED
      BY <1>3, <3>2 DEF InPlace, Absent
  <2> QED
    BY <1>1, <2>1, <2>2
<1>6. ASSUME NEW d \in Decoys \ changes, Stage(s) = "refresh", Visible(s, d) # Absent
      PROVE  Fresh(Visible(s, d), now)
  <2>1. Refreshed(Visible(s, d), now) = Visible(s, d)
    BY <1>3, <1>6 DEF Changes, Scope, Changed
  <2>2. Present(Visible(s, d))
    BY <1>3, <1>6 DEF Well
  <2> QED
    BY <2>1, <2>2, RefreshedFresh
<1> HIDE DEF changes
<1>7. Absent' = Absent /\ CalmStages' = CalmStages /\ ReportKinds' = ReportKinds
  BY DEF Absent, CalmStages, ReportKinds
<1>8. read'[s] = now
  BY <1>2 DEF TypedInv, OtherTypes
<1>9. \A d \in Decoys : Fresh(Visible(s, d), now) => Fresh(Visible(s, d), read[s])'
  BY <1>3, <1>8 DEF Fresh, Health
<1>10. CASE changes = {}
  <2>1. Advance(s)
    BY <1>10 DEF Load, changes
  <2>2. todo'[s] = Tail(todo[s]) /\ dirty'[s] = {}
    BY <1>2, <2>1 DEF Advance, FleetInv, TablesInv
  <2>3. Tail(todo[s]) # <<>>
    BY <1>1, <1>2, <2>1, <2>2, AdvanceFacts
  <2>4. /\ todo'[s] \in CalmStages
        /\ Stage(s) = "reconcile" => Stage(s)' = "refresh"
        /\ Stage(s) = "refresh" => Stage(s)' = "report"
    BY <1>1, <2>2, <2>3, ReportTails DEF Stage, ReportStages
  <2>5. \A d \in Expected : InPlace(s, d)'
    BY <1>5, <1>10
  <2>6. ASSUME NEW d \in Decoys, Stage(s)' = "report"
        PROVE  Visible(s, d)' = Absent \/ Fresh(Visible(s, d), read[s])'
    BY <1>1, <1>3, <1>6, <1>9, <1>10, <2>4, <2>6
  <2> QED
    BY <1>1, <1>2, <1>7, <2>2, <2>4, <2>5, <2>6 DEF CalmInv
<1>11. CASE changes # {}
  <2>1. /\ todo' = todo
        /\ dirty' = [dirty EXCEPT ![s] = changes]
        /\ base' = [base EXCEPT ![s] = [d \in Decoys |->
                        IF d \in changes THEN Found(s, d) ELSE Absent]]
    BY <1>11 DEF Load, changes
  <2>2. /\ dirty'[s] = changes
        /\ \A d \in changes : base'[s][d] = Visible(s, d)'
    BY <1>2, <1>3, <1>4, <2>1 DEF FleetInv, TablesInv
  <2>3. Stage(s)' = Stage(s)
    BY <2>1 DEF Stage
  <2>4. ASSUME NEW d \in Expected
        PROVE  InPlace(s, d)' \/ (Stage(s)' = "reconcile" /\ d \in dirty'[s])
    BY <1>1, <1>5, <2>2, <2>3
  <2>5. ASSUME NEW d \in Decoys \ changes, Stage(s)' = "refresh"
        PROVE  Visible(s, d)' = Absent \/ Fresh(Visible(s, d), read[s])'
    BY <1>3, <1>6, <1>9, <2>3, <2>5
  <2> QED
    BY <1>1, <1>2, <1>7, <1>11, <2>1, <2>2, <2>3, <2>4, <2>5 DEF CalmInv
<1> QED
  BY <1>10, <1>11

(* What it has flushed, of rows that nobody has changed meanwhile.         *)
LEMMA CalmFlushes ==
    ASSUME FleetInv, TypedInv, HeartbeatsInv, NEW s \in Apis, CalmInv(s), Flush(s)
    PROVE  CalmInv(s)'
<1>1. /\ s \in Sessions /\ Open(s) /\ Advance(s) /\ dirty[s] # {}
      /\ UNCHANGED <<rows, job, read>>
      /\ \A d \in Decoys : owner'[d] = IF d \in dirty[s] THEN s ELSE owner[d]
      /\ \A d \in Decoys : work'[d] =
            IF d \in dirty[s]
            THEN Merged(Visible(s, d), base[s][d], New(s, d)) ELSE work[d]
  BY DEF Flush, Sessions
<1>2. /\ todo[s] \in CalmStages /\ job[s].kind \in ReportKinds
      /\ Stage(s) \in {"reconcile", "refresh"}
      /\ dirty[s] \subseteq Decoys
  <2>1. /\ todo[s] \in CalmStages /\ job[s].kind \in ReportKinds
        /\ Stage(s) \in LoadStages /\ dirty[s] \subseteq Decoys
    BY <1>1 DEF CalmInv, FleetInv, SessionInv
  <2>2. Stage(s) \in {"reconcile", "refresh", "report", "close", "commit"}
    BY <2>1, ReportTails DEF Stage, ReportStages
  <2> QED
    BY <2>1, <2>2 DEF LoadStages
<1>3. todo'[s] = Tail(todo[s]) /\ dirty'[s] = {}
  BY <1>1 DEF Advance, FleetInv, TablesInv
<1>4. Tail(todo[s]) # <<>>
  BY <1>1, <1>2, <1>3, AdvanceFacts
<1>5. /\ todo'[s] \in CalmStages
      /\ Stage(s) = "reconcile" => Stage(s)' = "refresh"
      /\ Stage(s) = "refresh" => Stage(s)' = "report"
  BY <1>2, <1>3, <1>4, ReportTails DEF Stage, ReportStages
<1>6. ASSUME NEW d \in Decoys \ dirty[s] PROVE Visible(s, d)' = Visible(s, d)
  BY <1>1 DEF Visible
<1>7. ASSUME NEW d \in dirty[s]
      PROVE  /\ Visible(s, d)' = Merged(Visible(s, d), Visible(s, d), New(s, d))
             /\ Visible(s, d)' # Absent
             /\ Visible(s, d)'.site = New(s, d).site
             /\ Well(Visible(s, d)) /\ base[s][d] = Visible(s, d)
  <2>1. base[s][d] = Visible(s, d) /\ d \in Decoys
    BY <1>2 DEF CalmInv
  <2>2. Visible(s, d)' = Merged(Visible(s, d), Visible(s, d), New(s, d))
    BY <1>1, <2>1 DEF Visible
  <2>3. Visible(s, d)' # Absent
    <3>1. Present(Merged(Visible(s, d), base[s][d], New(s, d)))
      BY <1>1, <1>7, FlushedPresent
    <3>2. Merged(Visible(s, d), base[s][d], New(s, d)) # Absent
      BY <3>1, AbsentFacts
    <3> QED
      BY <2>1, <2>2, <3>2
  <2>4. Well(Visible(s, d))
    BY <1>1, <2>1, VisibleWell DEF FleetInv
  <2>5. Visible(s, d)'.site = New(s, d).site
    BY <2>2, <2>4, MergedSelf DEF Columns
  <2> QED
    BY <2>1, <2>2, <2>3, <2>4, <2>5
<1>8. ASSUME NEW d \in Expected PROVE InPlace(s, d)'
  <2>1. CASE d \notin dirty[s]
    BY <1>6, <2>1 DEF CalmInv, InPlace, Absent
  <2>2. CASE d \in dirty[s] /\ Stage(s) = "reconcile"
    <3>1. New(s, d).site = Inventory[d]
      BY <1>7, <2>2, SitesOfRows DEF New, Changed
    <3> QED
      BY <1>7, <2>2, <3>1 DEF InPlace, Absent
  <2>3. CASE d \in dirty[s] /\ Stage(s) = "refresh"
    <3>1. New(s, d).site = Visible(s, d).site
      BY <1>7, <2>3, SitesOfRows DEF New, Changed
    <3>2. Visible(s, d).site = Inventory[d]
      BY <2>3 DEF CalmInv, InPlace
    <3> QED
      BY <1>7, <2>3, <3>1, <3>2 DEF InPlace, Absent
  <2> QED
    BY <1>2, <2>1, <2>2, <2>3
<1>9. ASSUME NEW d \in Decoys, Stage(s) = "refresh"
      PROVE  Visible(s, d)' = Absent \/ Fresh(Visible(s, d), read[s])'
  <2>1. CASE d \notin dirty[s]
    BY <1>1, <1>6, <1>9, <2>1 DEF CalmInv, Fresh, Health
  <2>2. CASE d \in dirty[s]
    <3>1. Present(Visible(s, d))
      BY <1>7, <1>9, <2>2 DEF FleetInv, SessionInv, Well, Sessions
    <3>2. New(s, d) = Refreshed(Visible(s, d), read[s])
      BY <1>7, <1>9, <2>2 DEF New, Changed
    <3>3. Fresh(Visible(s, d)', read[s])
      BY <1>7, <2>2, <3>1, <3>2, RefreshedFresh, MergedFresh
    <3> QED
      BY <1>1, <3>3 DEF Fresh, Health
  <2> QED
    BY <2>1, <2>2
<1>10. Absent' = Absent /\ CalmStages' = CalmStages /\ ReportKinds' = ReportKinds
  BY DEF Absent, CalmStages, ReportKinds
<1> QED
  BY <1>1, <1>2, <1>3, <1>5, <1>8, <1>9, <1>10 DEF CalmInv

LEMMA CalmReports ==
    ASSUME FleetInv, NEW s \in Apis, CalmInv(s), Report(s)
    PROVE  CalmInv(s)'
<1>1. /\ s \in Sessions /\ Open(s) /\ Advance(s) /\ Stage(s) = "report"
      /\ UNCHANGED <<rows, owner, work, job>>
  BY DEF Report, Sessions
<1>2. todo[s] \in CalmStages /\ job[s].kind \in ReportKinds
  BY DEF CalmInv
<1>3. todo'[s] = Tail(todo[s]) /\ dirty'[s] = {}
  BY <1>1 DEF Advance, FleetInv, TablesInv
<1>4. todo'[s] \in {<<"close">>, <<"commit">>}
  BY <1>1, <1>2, <1>3, ReportTails DEF Stage, ReportStages
<1>5. todo'[s] \in CalmStages /\ Stage(s)' \in {"close", "commit"}
  BY <1>4 DEF CalmStages, Stage
<1>6. \A d \in Expected : InPlace(s, d)'
  BY <1>1 DEF CalmInv, InPlace, Visible, Absent
<1>7. Absent' = Absent /\ CalmStages' = CalmStages /\ ReportKinds' = ReportKinds
  BY DEF Absent, CalmStages, ReportKinds
<1> QED
  BY <1>1, <1>2, <1>3, <1>5, <1>6, <1>7 DEF CalmInv

(* Another session, as long as it does not commit. *)
LEMMA CalmFrame ==
    ASSUME FleetInv, NEW x \in Sessions, CalmInv(x), Untouched(x), rows' = rows
    PROVE  CalmInv(x)'
<1>1. \A d \in Decoys : Visible(x, d)' = Visible(x, d)
  BY DEF Untouched, Visible
<1>2. /\ todo'[x] = todo[x] /\ job'[x] = job[x] /\ dirty'[x] = dirty[x]
      /\ base'[x] = base[x] /\ read'[x] = read[x] /\ Stage(x)' = Stage(x)
  BY DEF Untouched, Stage
<1>3. \A d \in Expected : InPlace(x, d)' <=> InPlace(x, d)
  BY <1>1 DEF InPlace, Absent
<1>4. \A d \in Decoys : Fresh(Visible(x, d), read[x])' <=> Fresh(Visible(x, d), read[x])
  BY <1>1, <1>2 DEF Fresh, Health
<1>5. \A d \in dirty[x] : base[x][d] = Visible(x, d) => base'[x][d] = Visible(x, d)'
  BY <1>1, <1>2 DEF FleetInv, SessionInv
<1>6. Absent' = Absent /\ CalmStages' = CalmStages /\ ReportKinds' = ReportKinds
  BY DEF Absent, CalmStages, ReportKinds
<1> QED
  BY <1>1, <1>2, <1>3, <1>4, <1>5, <1>6 DEF CalmInv

LEMMA InitReports == Init => ReportsInv
BY DEF Init, ReportsInv

LEMMA NextReports ==
    /\ FleetInv /\ TypedInv /\ HeartbeatsInv /\ SitesInv /\ ReportsInv
    /\ [Next]_vars
    => ReportsInv'
<1> SUFFICES ASSUME FleetInv, TypedInv, HeartbeatsInv, SitesInv, ReportsInv, [Next]_vars
             PROVE  ReportsInv'
  OBVIOUS
<1>1. CASE Tick \/ UNCHANGED vars
  <2>1. UNCHANGED <<rows, owner, work, todo, job, dirty, base, cached, read, calm>>
    BY <1>1 DEF Tick, vars, sessionVars
  <2>2. \A x \in Sessions : Untouched(x)
    BY <2>1 DEF Untouched
  <2> QED
    BY <2>1, <2>2, CalmFrame DEF ReportsInv, Sessions
<1>2. ASSUME NEW s \in Sessions, Moves(s), NEW x \in Apis, calm'[x]
      PROVE  CalmInv(x)'
  <2>1. ~Commit(s)
    BY <1>2 DEF Commit
  <2>2. rows' = rows
    BY <1>2, <2>1, RowsCommitted
  <2>3. CASE x # s
    <3>1. calm[x]
      BY <1>2, <2>1, <2>3, Ended
         DEF Moves, Step, Load, Flush, Report, Rollback, Request, WorkerRound, Begin
    <3>2. Untouched(x)
      BY <1>2, <2>3, OthersUntouched DEF Sessions
    <3> QED
      BY <2>2, <3>1, <3>2, CalmFrame DEF ReportsInv, Sessions
  <2>4. CASE x = s
    <3>1. ~Rollback(s)
      BY <1>2, <2>4 DEF Rollback
    <3>2. ~((s \in Apis /\ Request(s)) \/ (s = Worker /\ WorkerRound))
      <4> SUFFICES ASSUME NEW j, Begin(s, j) PROVE FALSE
        BY DEF Request, WorkerRound
      <4>1. calm[s] /\ todo[s] = <<>>
        BY <1>2, <2>4 DEF Begin, Open
      <4>2. todo[s] \in CalmStages
        BY <2>4, <4>1 DEF ReportsInv, CalmInv
      <4> QED
        BY <4>1, <4>2, ReportTails DEF ReportStages
    <3>3. Load(s) \/ Flush(s) \/ Report(s)
      BY <1>2, <2>1, <3>1, <3>2, Ended DEF Moves, Step
    <3>4. Flush(s) \/ Report(s) => CalmInv(s)
      BY <1>2, <2>4 DEF Flush, Report, ReportsInv
    <3>5. StagesInv(s) /\ (calm[s] => CalmInv(s))
      BY <1>2, <2>4 DEF SitesInv, ReportsInv
    <3> QED
      BY <1>2, <2>4, <3>3, <3>4, <3>5, CalmLoads, CalmFlushes, CalmReports
  <2> QED
    BY <2>3, <2>4
<1>3. Next => Tick \/ \E s \in Sessions : Moves(s)
  BY DEF Next, Moves, Sessions
<1> QED
  BY <1>1, <1>2, <1>3 DEF ReportsInv

(* What a session that makes an answer in a calm sees. *)
LEMMA AnswerFacts ==
    ASSUME FleetInv, HeartbeatsInv, SitesInv, ReportsInv, NEW s \in Apis,
           Report(s), calm[s]
    PROVE  /\ \A d \in Expected : Visible(s, d) # Absent
           /\ \A d \in Decoys : Visible(s, d) # Absent =>
                /\ Fresh(Visible(s, d), read[s])
                /\ d \notin late => Visible(s, d).beat = newest[d]
                /\ Visible(s, d).site =
                        IF d \in Expected THEN Inventory[d] ELSE rows[d].site
<1>1. CalmInv(s) /\ Stage(s) = "report" /\ s \in Sessions
  BY DEF ReportsInv, Report, Sessions
<1>2. job[s].kind \in ReportKinds
  BY <1>1 DEF CalmInv
<1>3. \A d \in Expected : InPlace(s, d)
  BY <1>1 DEF CalmInv
<1>4. \A d \in Decoys : Visible(s, d) # Absent => Fresh(Visible(s, d), read[s])
  BY <1>1 DEF CalmInv
<1>5. \A d \in Decoys \ late : Visible(s, d).beat = newest[d]
  BY <1>1, <1>2, VisibleBeat DEF Applied, ReportKinds
<1>6. \A d \in Decoys \ Expected : Visible(s, d).site = rows[d].site
  BY <1>1, <1>2 DEF SitesInv, SiteInv, Visible, ReportKinds
<1> QED
  BY <1>3, <1>4, <1>5, <1>6 DEF InPlace

(* What the fleet page, its coverage gaps and the posture show agrees with *)
(* the heartbeats received and the inventory, for a session during which   *)
(* no other one commits (services.py:597-611, main.py:186-245).            *)
THEOREM ReportsAreExact == Spec => ReportExact
<1>1. FleetInv /\ HeartbeatsInv /\ SitesInv /\ ReportsInv =>
        [\A s \in Apis : Report(s) /\ calm[s] =>
            LET answer == Answer(s)
                beat(d) == IF d \in late THEN answer[d].beat ELSE newest[d]
                silent == {d \in DOMAIN answer : Health(beat(d), read[s]) = "silent"}
                site(d) == IF d \in Expected THEN Inventory[d] ELSE rows[d].site
            IN  /\ Expected \subseteq DOMAIN answer
                /\ \A d \in DOMAIN answer :
                    /\ answer[d].health = Health(beat(d), read[s])
                    /\ answer[d].failed = (d \in silent)
                    /\ (answer[d].runtime = "silent") = (d \in silent)
                /\ Gaps(answer) = {site(d) : d \in silent}]_vars
  <2> SUFFICES ASSUME FleetInv, HeartbeatsInv, SitesInv, ReportsInv,
                      NEW s \in Apis, Report(s), calm[s]
      PROVE LET answer == Answer(s)
                beat(d) == IF d \in late THEN answer[d].beat ELSE newest[d]
                silent == {d \in DOMAIN answer : Health(beat(d), read[s]) = "silent"}
                site(d) == IF d \in Expected THEN Inventory[d] ELSE rows[d].site
            IN  /\ Expected \subseteq DOMAIN answer
                /\ \A d \in DOMAIN answer :
                    /\ answer[d].health = Health(beat(d), read[s])
                    /\ answer[d].failed = (d \in silent)
                    /\ (answer[d].runtime = "silent") = (d \in silent)
                /\ Gaps(answer) = {site(d) : d \in silent}
    OBVIOUS
  <2> DEFINE answer == Answer(s)
             beat(d) == IF d \in late THEN answer[d].beat ELSE newest[d]
             silent == {d \in DOMAIN answer : Health(beat(d), read[s]) = "silent"}
             site(d) == IF d \in Expected THEN Inventory[d] ELSE rows[d].site
  <2>1. /\ DOMAIN answer = {d \in Decoys : Visible(s, d) # Absent}
        /\ \A d \in DOMAIN answer : answer[d] = Visible(s, d)
    BY DEF Answer
  <2>2. /\ Expected \subseteq DOMAIN answer
        /\ \A d \in DOMAIN answer :
            /\ Fresh(answer[d], read[s])
            /\ d \notin late => answer[d].beat = newest[d]
            /\ answer[d].site = IF d \in Expected THEN Inventory[d] ELSE rows[d].site
    BY <2>1, AnswerFacts
  <2> HIDE DEF answer
  <2>3. \A d \in DOMAIN answer : beat(d) = answer[d].beat /\ answer[d].site = site(d)
    BY <2>2
  <2> HIDE DEF beat, site
  <2>4. ASSUME NEW d \in DOMAIN answer
        PROVE  /\ answer[d].health = Health(beat(d), read[s])
               /\ d \in silent <=> Health(beat(d), read[s]) = "silent"
    BY <2>2, <2>3 DEF Fresh
  <2>5. ASSUME NEW d \in DOMAIN answer
        PROVE  (answer[d].runtime = "silent") = (d \in silent)
    BY <2>2, <2>3, <2>4 DEF Fresh
  <2>6. ASSUME NEW d \in DOMAIN answer
        PROVE  answer[d].failed = (d \in silent)
    BY <2>2, <2>3, <2>4 DEF Fresh
  <2>7. Gaps(answer) = {site(d) : d \in silent}
    <3>1. silent = {d \in DOMAIN answer : answer[d].health = "silent"}
      BY <2>4
    <3> QED
      BY <2>3, <3>1 DEF Gaps
  <2> QED
    BY <2>2, <2>4, <2>5, <2>6, <2>7 DEF beat, site, answer
<1> QED
  BY <1>1, InitInv, NextKeeps, InitTyped, NextTyped, InitHeartbeats, NextBeats,
     InitSites, NextSites, InitReports, NextReports, PTL DEF Spec, ReportExact

=============================================================================

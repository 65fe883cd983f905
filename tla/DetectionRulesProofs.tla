------------------------ MODULE DetectionRulesProofs ------------------------
(***************************************************************************)
(* Theorems about DetectionRules, for any events and order of their        *)
(* arrival, windows, batches, verdicts and bounds.                         *)
(*                                                                         *)
(* What a transaction has recorded so far is as good as what is committed: *)
(* DetectionsInv and InvestigationsInv hold of both, and going through an  *)
(* event preserves them.  A detection that is there stays, and keeps its   *)
(* decoy and the address it names.  HistoryInv counts: what is recorded is *)
(* what the rules find in the events gone through, while these come in the *)
(* order of their times.                                                   *)
(***************************************************************************)
EXTENDS DetectionRules, FiniteSetTheorems, TLAPS

(* The detections of a source, and the decoys they name. *)
Own(s, ds) == {f \in DOMAIN ds : f.src = s}
Visited(s, ds) == {ds[f].decoy : f \in Own(s, ds)}

(* Detections are well formed and name the address of their source. *)
DetectionsInv(ds) ==
    /\ IsFiniteSet(DOMAIN ds)
    /\ \A f \in DOMAIN ds :
        /\ f \in [type : Types, src : Sources, scope : Scopes]
        /\ ds[f] \in Detection
        /\ ds[f].targets \ {Unknown} = {f.src} \ {Unknown}

(* Investigations sum up the detections of their source. *)
InvestigationsInv(ds, is) ==
    /\ {f.src : f \in DOMAIN ds} = DOMAIN is
    /\ \A s \in DOMAIN is :
        /\ is[s] \in Investigation
        /\ is[s].count = Cardinality(Own(s, ds))
        /\ is[s].spread = Cardinality(Visited(s, ds))
        /\ is[s].class = Class(is[s].count, is[s].spread)
        /\ \A f \in Own(s, ds) : ds[f].last <= is[s].last

(* Accusations that the stored events bear out. *)
BorneOut(ds) ==
    \A f \in DOMAIN ds :
        /\ f.type = "distributed_scanner_activity" => Scan(f.src, WideWindow)
        /\ f.type = "credential_bruteforce" => Burst(f.src, Window)

(* Of the tables as committed, and as the open transaction sees them. *)
TablesInv(t) ==
    /\ t.processed \subseteq stored
    /\ DetectionsInv(t.detections)
    /\ InvestigationsInv(t.detections, t.investigations)

(* The inductive invariant.  The last part: a transaction keeps the         *)
(* detections that are committed and their decoys.                         *)
RulesInv ==
    /\ stored \subseteq Events /\ late \subseteq stored /\ todo \subseteq stored
    /\ updates \in 0..MaxUpdates
    /\ DOMAIN status = DOMAIN tables.detections
    /\ \A f \in DOMAIN status : status[f] \in Statuses
    /\ TablesInv(tables) /\ TablesInv(work)
    /\ BorneOut(tables.detections) /\ BorneOut(work.detections)
    /\ \A f \in DOMAIN tables.detections :
        /\ f \in DOMAIN work.detections
        /\ work.detections[f].decoy = tables.detections[f].decoy

USE AttrAssumption, EventsAreFinite, WindowsAssumption

-----------------------------------------------------------------------------
(* Events and what they emit. *)

(* What the columns of an event are. *)
LEMMA EventFacts ==
    ASSUME NEW e \in Events
    PROVE  /\ At(e) \in Nat /\ Src(e) \in Sources
           /\ Attr[e].decoy \in Decoys /\ Attr[e].request \in Requests
           /\ Attr[e].probes \subseteq Probes
BY DEF At, Src, Attributes

(* There are finitely many rules, so an event has finitely many detections. *)
LEMMA TypesAreFinite == IsFiniteSet(Types)
<1>1. Types = {} \cup {"path_traversal_probe"} \cup {"xss_probe"} \cup {"sqli_probe"}
        \cup {"sensitive_path_discovery"} \cup {"admin_panel_enumeration"}
        \cup {"credential_bruteforce"} \cup {"credential_stuffing"}
        \cup {"internet_recon"} \cup {"distributed_scanner_activity"}
  BY DEF Types, Probes
<1>2. IsFiniteSet({})
  BY FS_EmptySet
<1>3. \A S, x : IsFiniteSet(S) => IsFiniteSet(S \cup {x})
  BY FS_AddElement
<1> QED
  BY <1>1, <1>2, <1>3

(* An event emits fingerprints of its own source only. *)
LEMMA PrintFacts ==
    ASSUME NEW e \in Events, NEW seen
    PROVE  /\ IsFiniteSet(Fingerprints(e, seen))
           /\ \A f \in Fingerprints(e, seen) :
                /\ f \in [type : Types, src : Sources, scope : Scopes]
                /\ f.src = Src(e)
                /\ f.type \in Emits(e, seen)
<1>1. Emits(e, seen) \subseteq Types
  BY EventFacts DEF Emits, OwnTypes, WindowTypes, Types
<1>2. IsFiniteSet(Emits(e, seen))
  BY <1>1, TypesAreFinite, FS_Subset
<1>3. IsFiniteSet(Fingerprints(e, seen))
  <2> DEFINE g == [t \in Emits(e, seen) |-> Fingerprint(t, e)]
  <2>1. g \in Surjection(Emits(e, seen), Fingerprints(e, seen))
    BY DEF Surjection, Fingerprints
  <2> QED
    BY <1>2, <2>1, FS_Surjection
<1>4. ASSUME NEW t \in Emits(e, seen)
      PROVE  /\ Fingerprint(t, e) \in [type : Types, src : Sources, scope : Scopes]
             /\ Fingerprint(t, e).src = Src(e)
             /\ Fingerprint(t, e).type = t
  <2>1. <<Attr[e].decoy, Attr[e].request>> \in Scopes /\ <<>> \in Scopes
    BY EventFacts DEF Scopes
  <2> QED
    BY <1>1, <2>1, EventFacts DEF Fingerprint
<1> QED
  BY <1>3, <1>4 DEF Fingerprints

(* A repetition counts, and keeps the decoy. *)
LEMMA RepeatedFacts ==
    ASSUME NEW e \in Events, NEW d \in Detection
    PROVE  /\ Repeated(d, e) \in Detection /\ Repeated(d, e).last = At(e)
           /\ Repeated(d, e).decoy = d.decoy
           /\ Repeated(d, e).targets = d.targets \cup {Src(e)}
<1>1. /\ d.occurrences \in Nat /\ d.first \in Nat
      /\ d.decoy \in Decoys /\ d.targets \in SUBSET Sources
  BY DEF Detection
<1>2. d.occurrences + 1 \in Nat \ {0} /\ d.targets \cup {Src(e)} \in SUBSET Sources
  BY <1>1, EventFacts
<1> QED
  BY <1>1, <1>2, EventFacts DEF Repeated, Detection

(* The detections after an event, with the rules run on what is seen. *)
Recorded(e, seen, ds) == RecordDetections(e, Fingerprints(e, seen), ds)

(* What recording leaves of the detections that are there. *)
Keeps(e, prints, ds, new) ==
    /\ DetectionsInv(new)
    /\ DOMAIN new = DOMAIN ds \cup prints
    /\ \A f \in DOMAIN ds : new[f].decoy = ds[f].decoy
    /\ \A f \in DOMAIN ds \ prints : new[f] = ds[f]
    /\ \A f \in prints : new[f].last = At(e)

LEMMA RecordedKeeps ==
    ASSUME NEW e \in Events, NEW seen, NEW ds, DetectionsInv(ds)
    PROVE  Keeps(e, Fingerprints(e, seen), ds, Recorded(e, seen, ds))
<1> DEFINE prints == Fingerprints(e, seen)
           new == Recorded(e, seen, ds)
<1>1. /\ IsFiniteSet(prints)
      /\ \A f \in prints :
            f \in [type : Types, src : Sources, scope : Scopes] /\ f.src = Src(e)
  BY PrintFacts
<1> HIDE DEF prints
<1>2. /\ DOMAIN new = DOMAIN ds \cup prints
      /\ \A f \in DOMAIN ds \ prints : new[f] = ds[f]
      /\ \A f \in DOMAIN ds \cap prints : new[f] = Repeated(ds[f], e)
      /\ \A f \in prints \ DOMAIN ds : new[f] = Fresh(e)
  BY DEF RecordDetections, Recorded, prints
<1>3. /\ Fresh(e) \in Detection /\ Fresh(e).last = At(e)
      /\ Fresh(e).targets = {Src(e)} \ {Unknown}
  BY EventFacts DEF Fresh, Detection
<1>4. \A d \in Detection :
          /\ Repeated(d, e) \in Detection /\ Repeated(d, e).last = At(e)
          /\ Repeated(d, e).decoy = d.decoy
          /\ Repeated(d, e).targets = d.targets \cup {Src(e)}
  BY RepeatedFacts
<1>5. IsFiniteSet(DOMAIN ds \cup prints)
  BY <1>1, FS_Union DEF DetectionsInv
<1>6. ASSUME NEW f \in DOMAIN ds \cup prints
      PROVE  /\ f \in [type : Types, src : Sources, scope : Scopes]
             /\ new[f] \in Detection
             /\ new[f].targets \ {Unknown} = {f.src} \ {Unknown}
             /\ f \in DOMAIN ds => new[f].decoy = ds[f].decoy
             /\ f \in prints => new[f].last = At(e)
  <2>1. CASE f \in DOMAIN ds \ prints
    BY <1>2, <2>1 DEF DetectionsInv
  <2>2. CASE f \in DOMAIN ds \cap prints
    BY <1>1, <1>2, <1>4, <2>2 DEF DetectionsInv
  <2>3. CASE f \in prints \ DOMAIN ds
    BY <1>1, <1>2, <1>3, <2>3
  <2> QED
    BY <2>1, <2>2, <2>3
<1> HIDE DEF new
<1>7. DetectionsInv(new)
  BY <1>2, <1>5, <1>6 DEF DetectionsInv
<1> QED
  BY <1>2, <1>6, <1>7 DEF new, prints, Keeps

(* The detections of a source are finitely many, and so are their decoys. *)
LEMMA OwnFinite ==
    ASSUME NEW ds, DetectionsInv(ds), NEW s
    PROVE  /\ IsFiniteSet(Own(s, ds)) /\ Cardinality(Own(s, ds)) \in Nat
           /\ IsFiniteSet(Visited(s, ds)) /\ Cardinality(Visited(s, ds)) \in Nat
<1>1. IsFiniteSet(Own(s, ds))
  BY FS_Subset DEF Own, DetectionsInv
<1>2. IsFiniteSet(Visited(s, ds))
  <2> DEFINE g == [f \in Own(s, ds) |-> ds[f].decoy]
  <2>1. g \in Surjection(Own(s, ds), Visited(s, ds))
    BY DEF Surjection, Visited
  <2> QED
    BY <1>1, <2>1, FS_Surjection
<1> QED
  BY <1>1, <1>2, FS_CardinalityType

(* The investigation of the source of an event is brought up to date, and  *)
(* the others are not concerned.                                           *)
LEMMA InvestigatedOK ==
    ASSUME NEW e \in Events, NEW seen, NEW ds, NEW is,
           DetectionsInv(ds), InvestigationsInv(ds, is),
           Fingerprints(e, seen) # {}
    PROVE  InvestigationsInv(Recorded(e, seen, ds),
                             Investigate(e, Recorded(e, seen, ds), is))
<1> DEFINE prints == Fingerprints(e, seen)
           new == Recorded(e, seen, ds)
           after == Investigate(e, new, is)
           s == Src(e)
<1>1. Keeps(e, prints, ds, new)
  BY RecordedKeeps
<1>2. prints # {} /\ \A f \in prints : f.src = s
  BY PrintFacts
<1>3. /\ s \in Sources /\ At(e) \in Nat
  BY EventFacts
<1> HIDE DEF prints, new
<1> USE DEF Keeps
<1>4. /\ DOMAIN after = DOMAIN is \cup {s}
      /\ \A x \in DOMAIN is \ {s} : after[x] = is[x]
      /\ after[s].count = Cardinality(Own(s, new))
      /\ after[s].spread = Cardinality(Visited(s, new))
      /\ after[s].class = Class(after[s].count, after[s].spread)
      /\ after[s].first = IF s \in DOMAIN is THEN is[s].first ELSE At(e)
      /\ after[s].last = IF s \in DOMAIN is /\ is[s].last > At(e)
                         THEN is[s].last ELSE At(e)
      /\ after[s] = [first |-> after[s].first, last |-> after[s].last,
                     count |-> after[s].count, spread |-> after[s].spread,
                     class |-> after[s].class]
  BY DEF Investigate, DetectionsOf, Own, Visited
<1> HIDE DEF s, after
<1>5. \A x \in DOMAIN is : is[x].first \in Nat /\ is[x].last \in Nat
  BY DEF InvestigationsInv, Investigation
<1>6. {f.src : f \in DOMAIN new} = DOMAIN after
  BY <1>1, <1>2, <1>4 DEF InvestigationsInv
<1>7. ASSUME NEW x \in DOMAIN is \ {s}
      PROVE  Own(x, new) = Own(x, ds) /\ \A f \in Own(x, ds) : new[f] = ds[f]
  BY <1>1, <1>2 DEF Own
<1>8. ASSUME NEW x \in DOMAIN after
      PROVE  /\ after[x] \in Investigation
             /\ after[x].count = Cardinality(Own(x, new))
             /\ after[x].spread = Cardinality(Visited(x, new))
             /\ after[x].class = Class(after[x].count, after[x].spread)
             /\ \A f \in Own(x, new) : new[f].last <= after[x].last
  <2>1. CASE x # s
    <3>1. x \in DOMAIN is \ {s} /\ after[x] = is[x]
      BY <1>4, <2>1
    <3>2. Visited(x, new) = Visited(x, ds)
      BY <1>7, <3>1 DEF Visited
    <3> QED
      BY <1>7, <3>1, <3>2 DEF InvestigationsInv
  <2>2. CASE x = s
    <3>1. /\ after[s].count \in Nat /\ after[s].spread \in Nat
          /\ after[s].first \in Nat /\ after[s].last \in Nat
      BY <1>1, <1>3, <1>4, <1>5, OwnFinite
    <3>2. Class(after[s].count, after[s].spread) \in Classes
      BY DEF Class, Classes
    <3>3. after[s] \in Investigation
      BY <1>4, <3>1, <3>2 DEF Investigation
    <3>4. ASSUME NEW f \in Own(s, new)
          PROVE  new[f].last <= after[s].last
      <4>1. CASE f \in prints
        BY <1>1, <1>3, <1>4, <1>5, <4>1
      <4>2. CASE f \notin prints
        <5>1. f \in Own(s, ds) /\ new[f] = ds[f]
          BY <1>1, <4>2 DEF Own
        <5>2. s \in DOMAIN is /\ ds[f].last <= is[s].last /\ ds[f].last \in Nat
          BY <5>1 DEF InvestigationsInv, DetectionsInv, Detection, Own
        <5> QED
          BY <1>3, <1>4, <1>5, <5>1, <5>2
      <4> QED
        BY <4>1, <4>2
    <3> QED
      BY <1>4, <2>2, <3>3, <3>4
  <2> QED
    BY <2>1, <2>2
<1> QED
  BY <1>6, <1>8 DEF InvestigationsInv, after, new

-----------------------------------------------------------------------------
(* Events that bear an accusation out. *)

(* A set of n + 1 elements or more has one beside which n or more are left. *)
LEMMA RemoveOne ==
    ASSUME NEW S, IsFiniteSet(S), NEW n \in Nat, Cardinality(S) >= n + 1
    PROVE  \E x \in S : /\ IsFiniteSet(S \ {x})
                        /\ Cardinality(S \ {x}) >= n
<1>1. S # {}
  BY FS_EmptySet
<1>2. PICK x \in S : TRUE
  BY <1>1
<1>3. IsFiniteSet(S \ {x}) /\ Cardinality(S \ {x}) = Cardinality(S) - 1
  BY FS_RemoveElement
<1>4. Cardinality(S) \in Nat
  BY FS_CardinalityType
<1>5. Cardinality(S \ {x}) >= n
  BY <1>3, <1>4
<1> QED
  BY <1>2, <1>3, <1>5

(* A set of two elements or more has two that differ. *)
LEMMA TwoOf ==
    ASSUME NEW S, IsFiniteSet(S), Cardinality(S) >= 2
    PROVE  \E x, y \in S : x # y
<1>1. PICK x \in S : IsFiniteSet(S \ {x}) /\ Cardinality(S \ {x}) >= 1
  BY RemoveOne
<1>2. PICK y \in S \ {x} : TRUE
  BY <1>1, FS_EmptySet
<1> QED
  BY <1>2

(* And one of three or more has three. *)
LEMMA ThreeOf ==
    ASSUME NEW S, IsFiniteSet(S), Cardinality(S) >= 3
    PROVE  \E x, y, z \in S : x # y /\ y # z /\ x # z
<1>1. PICK x \in S : IsFiniteSet(S \ {x}) /\ Cardinality(S \ {x}) >= 2
  BY RemoveOne
<1>2. PICK y, z \in S \ {x} : y # z
  BY <1>1, TwoOf
<1> QED
  BY <1>2

(* Three things that differ are three. *)
LEMMA ThreeElements ==
    ASSUME NEW x, NEW y, NEW z, x # y, y # z, x # z
    PROVE  Cardinality({x, y, z}) = 3
<1>1. \A S, a : IsFiniteSet(S) /\ a \notin S =>
          IsFiniteSet(S \cup {a}) /\ Cardinality(S \cup {a}) = Cardinality(S) + 1
  BY FS_AddElement
<1>2. IsFiniteSet({x}) /\ Cardinality({x}) = 1
  BY FS_Singleton
<1>3. IsFiniteSet({x} \cup {y}) /\ Cardinality({x} \cup {y}) = 2
  BY <1>1, <1>2
<1>4. {x} \cup {y} = {x, y} /\ {x, y} \cup {z} = {x, y, z} /\ z \notin {x, y}
  OBVIOUS
<1> QED
  BY <1>1, <1>3, <1>4

(* Three events of a source at three decoys and at most w apart are a     *)
(* scan, in whatever order they are.                                      *)
LEMMA AnyThree ==
    ASSUME NEW s, NEW w \in Nat, NEW last \in Nat, stored \subseteq Events,
           NEW x \in stored, NEW y \in stored, NEW z \in stored,
           \A a \in {x, y, z} : Src(a) = s /\ At(a) <= last /\ At(a) >= last - w,
           Attr[x].decoy # Attr[y].decoy, Attr[y].decoy # Attr[z].decoy,
           Attr[x].decoy # Attr[z].decoy
    PROVE  Scan(s, w)
<1>1. \A a \in {x, y, z} : At(a) \in Nat
  BY EventFacts
<1>2. ASSUME NEW a \in {x, y, z}, NEW b \in {x, y, z}, NEW c \in {x, y, z},
             At(a) <= At(b), At(b) <= At(c),
             Attr[a].decoy # Attr[b].decoy, Attr[b].decoy # Attr[c].decoy,
             Attr[a].decoy # Attr[c].decoy
      PROVE  Scan(s, w)
  <2>1. Cardinality({Attr[a].decoy, Attr[b].decoy, Attr[c].decoy}) = 3
    BY <1>2, ThreeElements
  <2>2. At(c) - At(a) <= w
    BY <1>1
  <2>3. a \in stored /\ b \in stored /\ c \in stored
        /\ Src(a) = s /\ Src(b) = s /\ Src(c) = s
    OBVIOUS
  <2> QED
    BY <1>2, <2>1, <2>2, <2>3 DEF Scan
<1>3. \/ At(x) <= At(y) /\ At(y) <= At(z)
      \/ At(x) <= At(z) /\ At(z) <= At(y)
      \/ At(y) <= At(x) /\ At(x) <= At(z)
      \/ At(y) <= At(z) /\ At(z) <= At(x)
      \/ At(z) <= At(x) /\ At(x) <= At(y)
      \/ At(z) <= At(y) /\ At(y) <= At(x)
  BY <1>1
<1> QED
  BY <1>2, <1>3

(* A scan is reported on the events that bear it out. *)
LEMMA ScanReported ==
    ASSUME NEW e \in Events, stored \subseteq Events,
           "distributed_scanner_activity" \in Emits(e, stored)
    PROVE  Scan(Src(e), WideWindow)
<1> DEFINE recent == Recent(e, WideWindow, stored)
           decoys == {Attr[x].decoy : x \in recent}
<1>1. Cardinality(decoys) >= 3
  BY EventFacts DEF Emits, OwnTypes, WindowTypes, Probes
<1>2. IsFiniteSet(decoys)
  <2>1. IsFiniteSet(recent)
    BY FS_Subset DEF Recent
  <2> DEFINE g == [x \in recent |-> Attr[x].decoy]
  <2>2. g \in Surjection(recent, decoys)
    BY DEF Surjection
  <2> QED
    BY <2>1, <2>2, FS_Surjection
<1>3. PICK a, b, c \in decoys : a # b /\ b # c /\ a # c
  <2> HIDE DEF decoys
  <2> QED
    BY <1>1, <1>2, ThreeOf
<1>4. PICK x, y, z \in recent :
          Attr[x].decoy = a /\ Attr[y].decoy = b /\ Attr[z].decoy = c
  BY <1>3
<1>5. \A i \in {x, y, z} :
          i \in stored /\ Src(i) = Src(e) /\ At(i) <= At(e) /\ At(i) >= At(e) - WideWindow
  BY DEF Recent
<1> HIDE DEF recent, decoys
<1> QED
  BY <1>3, <1>4, <1>5, AnyThree, EventFacts

(* And so is brute force. *)
LEMMA BurstReported ==
    ASSUME NEW e \in stored, stored \subseteq Events,
           "credential_bruteforce" \in Emits(e, stored)
    PROVE  Burst(Src(e), Window)
<1> DEFINE recent == Recent(e, Window, stored)
<1>1. Attr[e].login /\ Cardinality(recent) >= 3
  BY EventFacts DEF Emits, OwnTypes, WindowTypes, Probes
<1>2. /\ IsFiniteSet(recent)
      /\ \A x \in recent : x \in stored /\ Src(x) = Src(e)
                           /\ At(x) <= At(e) /\ At(x) >= At(e) - Window
  BY FS_Subset DEF Recent
<1>3. e \in recent
  BY EventFacts DEF Recent
<1> HIDE DEF recent
<1>4. PICK x, y \in recent \ {e} : x # y
  <2>1. IsFiniteSet(recent \ {e}) /\ Cardinality(recent \ {e}) = Cardinality(recent) - 1
    BY <1>2, <1>3, FS_RemoveElement
  <2>2. Cardinality(recent \ {e}) >= 2
    BY <1>1, <1>2, <2>1, FS_CardinalityType
  <2> QED
    BY <2>1, <2>2, TwoOf
<1>5. Cardinality({x, y, e}) = 3
  BY <1>4, ThreeElements
<1>6. \A i \in {x, y} : At(i) \in At(e) - Window .. At(e)
  BY <1>2, <1>4, EventFacts
<1>7. x \in stored /\ y \in stored /\ Src(x) = Src(e) /\ Src(y) = Src(e)
  BY <1>2, <1>4
<1> QED
  BY <1>1, <1>5, <1>6, <1>7 DEF Burst

(* What an event adds is borne out by the events that are stored then. *)
LEMMA RecordedBorneOut ==
    ASSUME NEW e \in stored, stored \subseteq Events, NEW ds, DetectionsInv(ds),
           BorneOut(ds)
    PROVE  BorneOut(Recorded(e, stored, ds))
<1>1. Keeps(e, Fingerprints(e, stored), ds, Recorded(e, stored, ds))
  BY RecordedKeeps
<1>2. \A f \in Fingerprints(e, stored) : f.src = Src(e) /\ f.type \in Emits(e, stored)
  BY PrintFacts
<1>3. ASSUME NEW f \in DOMAIN Recorded(e, stored, ds)
      PROVE  /\ f.type = "distributed_scanner_activity" => Scan(f.src, WideWindow)
             /\ f.type = "credential_bruteforce" => Burst(f.src, Window)
  <2>1. CASE f \in DOMAIN ds
    BY <2>1 DEF BorneOut
  <2>2. CASE f \in Fingerprints(e, stored)
    BY <1>2, <2>2, ScanReported, BurstReported
  <2> QED
    BY <1>1, <2>1, <2>2 DEF Keeps
<1> QED
  BY <1>3 DEF BorneOut

-----------------------------------------------------------------------------
(* The invariant. *)

(* Of a source, more is stored after any step, never less. *)
LEMMA StoredGrows ==
    ASSUME [Next]_vars
    PROVE  stored \subseteq stored'
BY DEF Next, vars, Store, Process, TakeBatch, Commit, Abort, UpdateDetection

(* What is borne out stays so. *)
LEMMA BorneOutLater ==
    ASSUME stored \subseteq stored', NEW s, NEW w
    PROVE  /\ Scan(s, w) => Scan(s, w)'
           /\ Burst(s, w) => Burst(s, w)'
<1>1. Scan(s, w) => Scan(s, w)'
  BY DEF Scan
<1>2. Burst(s, w) => Burst(s, w)'
  BY DEF Burst
<1> QED
  BY <1>1, <1>2

(* Nothing is recorded at first. *)
LEMMA InitInv == Init => RulesInv
<1> SUFFICES ASSUME Init PROVE RulesInv
  OBVIOUS
<1> DEFINE none == <<>>
<1>1. DOMAIN none = {}
  OBVIOUS
<1>2. DetectionsInv(none) /\ BorneOut(none)
  <2>1. IsFiniteSet(DOMAIN none)
    BY <1>1, FS_EmptySet
  <2> HIDE DEF none
  <2> QED
    BY <1>1, <2>1 DEF DetectionsInv, BorneOut
<1> HIDE DEF none
<1>3. InvestigationsInv(none, none)
  BY <1>1 DEF InvestigationsInv
<1>4. /\ tables.processed = {} /\ tables.detections = none
      /\ tables.investigations = none /\ work = tables /\ status = none
  BY DEF Init, none
<1>5. TablesInv(tables) /\ BorneOut(tables.detections)
  BY <1>2, <1>3, <1>4 DEF TablesInv
<1>6. stored = {} /\ late = {} /\ todo = {} /\ updates \in 0..MaxUpdates
  BY DEF Init
<1> QED
  BY <1>1, <1>4, <1>5, <1>6 DEF RulesInv

(* What a step leaves of a part of the invariant when the tables it is     *)
(* about are those of before, the committed ones or the session's.         *)
LEMMA TablesLater ==
    ASSUME RulesInv, stored \subseteq stored'
    PROVE  /\ tables' = tables => TablesInv(tables)' /\ BorneOut(tables.detections)'
           /\ tables' = work => TablesInv(tables)' /\ BorneOut(tables.detections)'
           /\ work' = work => TablesInv(work)' /\ BorneOut(work.detections)'
           /\ work' = tables => TablesInv(work)' /\ BorneOut(work.detections)'
<1> DEFINE Later(t) ==
        /\ t.processed \subseteq stored'
        /\ DetectionsInv(t.detections)
        /\ InvestigationsInv(t.detections, t.investigations)
        /\ \A f \in DOMAIN t.detections :
              /\ f.type = "distributed_scanner_activity" => Scan(f.src, WideWindow)'
              /\ f.type = "credential_bruteforce" => Burst(f.src, Window)'
<1>1. Later(tables) /\ Later(work)
  BY BorneOutLater DEF RulesInv, TablesInv, BorneOut
<1>2. Later(tables') => TablesInv(tables)' /\ BorneOut(tables.detections)'
  BY DEF TablesInv, BorneOut
<1>3. Later(work') => TablesInv(work)' /\ BorneOut(work.detections)'
  BY DEF TablesInv, BorneOut
<1> HIDE DEF Later
<1>4. /\ tables' = tables => Later(tables')
      /\ tables' = work => Later(tables')
      /\ work' = work => Later(work')
      /\ work' = tables => Later(work')
  BY <1>1
<1> QED
  BY <1>2, <1>3, <1>4

(* Every step keeps the invariant. *)
LEMMA NextInv == RulesInv /\ [Next]_vars => RulesInv'
<1> SUFFICES ASSUME RulesInv, [Next]_vars PROVE RulesInv'
  OBVIOUS
<1>0. stored \subseteq stored'
  BY StoredGrows
<1>1. ASSUME NEW e \in Events, Store(e)
      PROVE  RulesInv'
  <2>1. tables' = tables /\ work' = work
    BY <1>1 DEF Store
  <2>2. /\ TablesInv(tables)' /\ BorneOut(tables.detections)'
        /\ TablesInv(work)' /\ BorneOut(work.detections)'
    BY <1>0, <2>1, TablesLater
  <2> QED
    BY <1>1, <2>2 DEF Store, RulesInv
<1>2. ASSUME NEW e \in Events, Process(e)
      PROVE  RulesInv'
  <2> DEFINE prints == Fingerprints(e, stored)
             ds == Recorded(e, stored, work.detections)
             is == IF prints = {} THEN work.investigations
                   ELSE Investigate(e, ds, work.investigations)
  <2>1. /\ e \in stored /\ DetectionsInv(work.detections)
        /\ InvestigationsInv(work.detections, work.investigations)
        /\ work.processed \subseteq stored /\ BorneOut(work.detections)
        /\ stored \subseteq Events
    BY <1>2 DEF Process, RulesInv, TablesInv
  <2>2. Keeps(e, prints, work.detections, ds)
    BY <2>1, RecordedKeeps
  <2>3. BorneOut(ds)
    BY <2>1, RecordedBorneOut
  <2>4. InvestigationsInv(ds, is)
    <3>1. CASE prints = {}
      <4>1. /\ DOMAIN ds = DOMAIN work.detections
            /\ \A f \in DOMAIN ds : ds[f] = work.detections[f]
        BY <2>2, <3>1 DEF Keeps
      <4>2. is = work.investigations
        BY <3>1
      <4> HIDE DEF ds, is
      <4>3. /\ {f.src : f \in DOMAIN ds} = DOMAIN is
            /\ \A s : /\ Own(s, ds) = Own(s, work.detections)
                     /\ Visited(s, ds) = Visited(s, work.detections)
        BY <2>1, <4>1, <4>2 DEF InvestigationsInv, Own, Visited
      <4>4. \A s : \A f \in Own(s, ds) : ds[f] = work.detections[f]
        BY <4>1 DEF Own
      <4> QED
        BY <2>1, <4>2, <4>3, <4>4 DEF InvestigationsInv
    <3>2. CASE prints # {}
      BY <2>1, <3>2, InvestigatedOK
    <3> QED
      BY <3>1, <3>2
  <2>5. work' = [processed |-> work.processed \cup {e}, detections |-> ds,
                 investigations |-> is]
    BY <1>2 DEF Process, Recorded
  <2>6. /\ todo' \subseteq stored /\ stored' = stored /\ tables' = tables
        /\ status' = status /\ late' = late /\ updates' = updates
    BY <1>2 DEF Process, RulesInv
  <2> HIDE DEF prints, ds, is
  <2>7. TablesInv(work)' /\ BorneOut(work.detections)'
    <3>1. /\ work'.processed = work.processed \cup {e}
          /\ work'.detections = ds /\ work'.investigations = is
      BY <2>5
    <3>2. TablesInv(work')
      BY <2>1, <2>2, <2>4, <3>1 DEF TablesInv, Keeps
    <3>3. TablesInv(work)'
      BY <2>6, <3>2 DEF TablesInv
    <3>4. \A s, w : Scan(s, w)' = Scan(s, w) /\ Burst(s, w)' = Burst(s, w)
      BY <2>6 DEF Scan, Burst
    <3>5. BorneOut(work.detections)'
      BY <2>3, <3>1, <3>4 DEF BorneOut
    <3> QED
      BY <3>3, <3>5
  <2>8. TablesInv(tables)' /\ BorneOut(tables.detections)'
    BY <1>0, <2>6, TablesLater
  <2>9. \A f \in DOMAIN tables.detections :
            /\ f \in DOMAIN ds
            /\ ds[f].decoy = tables.detections[f].decoy
    BY <2>2 DEF RulesInv, Keeps
  <2> QED
    BY <2>5, <2>6, <2>7, <2>8, <2>9 DEF RulesInv
<1>3. CASE TakeBatch
  <2>1. tables' = tables /\ work' = work /\ todo' \subseteq stored
    BY <1>3 DEF TakeBatch, IsBatch, Pending
  <2>2. /\ TablesInv(tables)' /\ BorneOut(tables.detections)'
        /\ TablesInv(work)' /\ BorneOut(work.detections)'
    BY <1>0, <2>1, TablesLater
  <2> QED
    BY <1>3, <2>1, <2>2 DEF TakeBatch, RulesInv
<1>4. CASE Commit
  <2>1. tables' = work /\ work' = work
    BY <1>4 DEF Commit
  <2>2. /\ TablesInv(tables)' /\ BorneOut(tables.detections)'
        /\ TablesInv(work)' /\ BorneOut(work.detections)'
    BY <1>0, <2>1, TablesLater
  <2>3. /\ DOMAIN status' = DOMAIN work.detections
        /\ \A f \in DOMAIN status' : status'[f] \in Statuses
    BY <1>4 DEF Commit, CommittedStatus, RulesInv, Statuses
  <2>4. /\ stored' = stored /\ late' = late /\ todo' = todo /\ updates' = updates
    BY <1>4 DEF Commit
  <2> QED
    BY <2>1, <2>2, <2>3, <2>4 DEF RulesInv
<1>5. CASE Abort
  <2>1. tables' = tables /\ work' = tables /\ todo' = {}
    BY <1>5 DEF Abort
  <2>2. /\ TablesInv(tables)' /\ BorneOut(tables.detections)'
        /\ TablesInv(work)' /\ BorneOut(work.detections)'
    BY <1>0, <2>1, TablesLater
  <2> QED
    BY <1>5, <2>1, <2>2 DEF Abort, RulesInv
<1>6. ASSUME NEW f \in DOMAIN status, NEW s \in Verdicts, UpdateDetection(f, s)
      PROVE  RulesInv'
  <2>1. tables' = tables /\ work' = work
    BY <1>6 DEF UpdateDetection
  <2>2. /\ TablesInv(tables)' /\ BorneOut(tables.detections)'
        /\ TablesInv(work)' /\ BorneOut(work.detections)'
    BY <1>0, <2>1, TablesLater
  <2>3. /\ DOMAIN status' = DOMAIN status
        /\ \A g \in DOMAIN status' : status'[g] \in Statuses
    BY <1>6 DEF UpdateDetection, RulesInv
  <2>4. updates' \in 0..MaxUpdates
    BY <1>6 DEF UpdateDetection, RulesInv
  <2> QED
    BY <1>6, <2>1, <2>2, <2>3, <2>4 DEF UpdateDetection, RulesInv
<1>7. CASE UNCHANGED vars
  <2>1. tables' = tables /\ work' = work
    BY <1>7 DEF vars
  <2>2. /\ TablesInv(tables)' /\ BorneOut(tables.detections)'
        /\ TablesInv(work)' /\ BorneOut(work.detections)'
    BY <1>0, <2>1, TablesLater
  <2> QED
    BY <1>7, <2>1, <2>2 DEF vars, RulesInv
<1> QED
  BY <1>1, <1>2, <1>3, <1>4, <1>5, <1>6, <1>7 DEF Next

(* So the invariant always holds. *)
THEOREM InductiveRules == Spec => []RulesInv
BY InitInv, NextInv, PTL DEF Spec

-----------------------------------------------------------------------------
(* Theorems. *)

(* Every variable stays in its type, the tables of an open transaction    *)
(* included.                                                              *)
THEOREM TypeCorrect == Spec => []TypeOK
<1>1. RulesInv => TypeOK
  <2> SUFFICES ASSUME RulesInv PROVE TypeOK
    OBVIOUS
  <2>1. ASSUME NEW t, TablesInv(t)
        PROVE  TablesOK(t)
    <3>1. DOMAIN t.detections \subseteq [type : Types, src : Sources, scope : Scopes]
      BY <2>1 DEF TablesInv, DetectionsInv
    <3>2. \A f \in DOMAIN t.detections : f.src \in Sources
      BY <3>1
    <3>3. DOMAIN t.investigations \subseteq Sources
      BY <2>1, <3>2 DEF TablesInv, InvestigationsInv
    <3> QED
      BY <2>1, <3>1, <3>3 DEF TablesInv, DetectionsInv, InvestigationsInv, TablesOK
  <2> QED
    BY <2>1 DEF RulesInv, TypeOK
<1> QED
  BY <1>1, InductiveRules, PTL

(* Nobody is accused of a distributed scan or of brute force on events    *)
(* that do not bear it out.                                               *)
THEOREM NobodyAccusedFalsely == Spec => []NoFalseDetections
<1>1. RulesInv => NoFalseDetections
  BY DEF RulesInv, BorneOut, NoFalseDetections
<1> QED
  BY <1>1, InductiveRules, PTL

(* Investigations and their detections agree. *)
THEOREM InvestigationsRight == Spec => []InvestigationsAgree
<1>1. RulesInv => InvestigationsAgree
  BY DEF RulesInv, TablesInv, InvestigationsInv, InvestigationsAgree, Own, Visited
<1> QED
  BY <1>1, InductiveRules, PTL

(* What a commit does to the status of the detections that are there. *)
LEMMA CommitKeeps ==
    ASSUME RulesInv, Commit
    PROVE  \A f \in DOMAIN status : f \in DOMAIN status' /\ status'[f] = status[f]
BY DEF RulesInv, Commit, CommittedStatus

(* The tables change with a commit only. *)
LEMMA CommitOnly ==
    ASSUME [Next]_vars, tables' # tables
    PROVE  Commit
BY DEF Next, vars, Store, Process, TakeBatch, Abort, UpdateDetection

(* A detection never goes away. *)
LEMMA StatusStays ==
    ASSUME RulesInv, [Next]_vars
    PROVE  DOMAIN status \subseteq DOMAIN status'
<1>1. CASE Commit
  BY <1>1, CommitKeeps
<1>2. CASE ~Commit
  BY <1>2 DEF Next, vars, Store, Process, TakeBatch, Abort, UpdateDetection
<1> QED
  BY <1>1, <1>2

(* What an analyst decided is not decided again by a commit. *)
THEOREM VerdictsStay == Spec => VerdictsKept
<1> DEFINE Kept ==
        \A f \in DOMAIN status :
            /\ f \in DOMAIN status'
            /\ status'[f] # status[f] => tables' = tables
<1>1. RulesInv /\ [Next]_vars => Kept
  BY StatusStays, CommitOnly, CommitKeeps
<1>2. RulesInv /\ [Next]_vars => [Kept]_vars
  BY <1>1
<1> QED
  BY <1>2, InductiveRules, PTL DEF Spec, VerdictsKept

(* The block list follows detections and verdicts. *)
THEOREM BlocksFollow == Spec => BlocksFollowVerdicts
<1> DEFINE Follows(s) ==
        (s \in BlockTargets) # (s \in BlockTargets') =>
            \/ tables' = tables
            \/ /\ s \in BlockTargets'
               /\ \E f \in DOMAIN status' \ DOMAIN status : f.src = s
<1>1. ASSUME RulesInv, Commit, NEW s \in Sources \ {Unknown}
      PROVE  Follows(s)
  <2>1. /\ DOMAIN status = DOMAIN tables.detections
        /\ DOMAIN status' = DOMAIN work.detections /\ tables' = work
        /\ DOMAIN status \subseteq DOMAIN status'
        /\ \A f \in DOMAIN status : status'[f] = status[f]
    BY <1>1, CommitKeeps DEF Commit, RulesInv
  <2>2. /\ \A f \in DOMAIN status :
              s \in tables.detections[f].targets <=> s = f.src
        /\ \A f \in DOMAIN status' :
              s \in tables'.detections[f].targets <=> s = f.src
    BY <1>1, <2>1 DEF RulesInv, TablesInv, DetectionsInv
  <2>3. s \in BlockTargets <=> \E f \in DOMAIN status : status[f] \in Open /\ s = f.src
    BY <2>2 DEF BlockTargets
  <2>4. s \in BlockTargets' <=>
            \E f \in DOMAIN status' : status'[f] \in Open /\ s = f.src
    BY <2>2 DEF BlockTargets, Open
  <2> QED
    BY <2>1, <2>3, <2>4
<1>2. RulesInv /\ [Next]_vars => \A s \in Sources \ {Unknown} : Follows(s)
  BY <1>1, CommitOnly
<1>3. RulesInv /\ [Next]_vars => [\A s \in Sources \ {Unknown} : Follows(s)]_vars
  BY <1>2
<1> QED
  BY <1>3, InductiveRules, PTL DEF Spec, BlocksFollowVerdicts

-----------------------------------------------------------------------------
(* Sources whose events came in order. *)

(* No event of the source was stored after a later one was selected. *)
OnTime(s) == \A e \in late : Src(e) # s

(* The events of a source among some, and those that hit a detection. *)
Mine(s, done) == {e \in done : Src(e) = s}
Hits(f, s, done, seen) == {e \in Mine(s, done) : f \in Fingerprints(e, seen)}

(* A detection counts its events and spans them. *)
Spans(d, hits) ==
    /\ d.occurrences = Cardinality(hits)
    /\ \E e \in hits : d.first = At(e)
    /\ \E e \in hits : d.last = At(e)
    /\ \A e \in hits : d.first <= At(e) /\ At(e) <= d.last

(* The detections of a source are those of the events gone through. *)
Exact(t, s, seen) ==
    /\ \A e \in Mine(s, t.processed) : Fingerprints(e, seen) \subseteq DOMAIN t.detections
    /\ \A f \in Own(s, t.detections) :
          Spans(t.detections[f], Hits(f, s, t.processed, seen))

(* The events of a source that are done are not after those that are not. *)
Before(s, done, seen) ==
    \A x \in Mine(s, done), y \in Mine(s, seen \ done) : At(x) <= At(y)

(* What is committed, what the transaction has gone through, and what is   *)
(* left of its batch: each is a beginning of the source's history.         *)
HistoryInv ==
    /\ tables.processed \subseteq work.processed
    /\ todo \cap work.processed = {}
    /\ \A s \in Sources : OnTime(s) =>
          /\ Before(s, tables.processed, stored)
          /\ Before(s, work.processed, stored)
          /\ Before(s, work.processed \cup todo, stored)
          /\ Exact(tables, s, stored) /\ Exact(work, s, stored)

LEMMA MineGrows ==
    ASSUME NEW s, NEW done, NEW e
    PROVE  Mine(s, done \cup {e}) = IF Src(e) = s THEN Mine(s, done) \cup {e}
                                    ELSE Mine(s, done)
BY DEF Mine

(* An event changes nothing for those it is no part of the past of.        *)
LEMMA SamePrints ==
    ASSUME NEW x \in Events, NEW e \in Events, NEW seen,
           Src(e) = Src(x) => At(x) < At(e)
    PROVE  Fingerprints(x, seen \cup {e}) = Fingerprints(x, seen)
<1>1. At(x) \in Nat /\ At(e) \in Nat
  BY EventFacts
<1>2. ASSUME NEW w
      PROVE  Recent(x, w, seen \cup {e}) = Recent(x, w, seen)
  <2>1. ~(Src(e) = Src(x) /\ At(e) <= At(x))
    BY <1>1
  <2> QED
    BY <2>1 DEF Recent
<1>3. /\ Recent(x, Window, seen \cup {e}) = Recent(x, Window, seen)
      /\ Recent(x, WideWindow, seen \cup {e}) = Recent(x, WideWindow, seen)
  BY <1>2
<1>4. WindowTypes(x, seen \cup {e}) = WindowTypes(x, seen)
  BY <1>3, Zenon DEF WindowTypes
<1> QED
  BY <1>4 DEF Fingerprints, Emits

(* A source that is on time was on time before, and an event that is not   *)
(* late comes after all that its source has in work.                       *)
LEMMA StoredOnTime ==
    ASSUME RulesInv, HistoryInv, NEW e \in Events, Store(e),
           NEW s \in Sources, OnTime(s)'
    PROVE  /\ OnTime(s)
           /\ Src(e) = s => \A x \in Mine(s, work.processed \cup todo) : At(x) < At(e)
<1>1. late \subseteq late'
  BY DEF Store
<1>2. OnTime(s)
  BY <1>1 DEF OnTime
<1>3. ASSUME Src(e) = s, NEW x \in Mine(s, work.processed \cup todo)
      PROVE  At(x) < At(e)
  <2>1. e \notin late'
    BY <1>3 DEF OnTime
  <2>2. ~(Src(x) = Src(e) /\ At(x) >= At(e)) /\ x \in stored
    BY <1>3, <2>1 DEF Store, Mine, RulesInv, TablesInv
  <2>3. At(x) \in Nat /\ At(e) \in Nat
    BY <2>2, EventFacts DEF RulesInv
  <2> QED
    BY <1>3, <2>2, <2>3 DEF Mine
<1> QED
  BY <1>2, <1>3

(* Then it comes after what was done of the source in particular, and the  *)
(* detections of the source stay exact.                                    *)
LEMMA StoredAfter ==
    ASSUME NEW s, NEW done, NEW seen, NEW e,
           Before(s, done, seen), done \subseteq seen, e \notin seen,
           Src(e) = s => \A x \in Mine(s, done) : At(x) <= At(e)
    PROVE  Before(s, done, seen \cup {e})
BY DEF Before, Mine

LEMMA StoredExact ==
    ASSUME NEW s, NEW t, NEW seen, NEW e \in Events,
           t.processed \subseteq Events, Exact(t, s, seen),
           Src(e) = s => \A x \in Mine(s, t.processed) : At(x) < At(e)
    PROVE  Exact(t, s, seen \cup {e})
<1>1. \A x \in Mine(s, t.processed) :
          Fingerprints(x, seen \cup {e}) = Fingerprints(x, seen)
  BY SamePrints DEF Mine
<1>2. \A f : Hits(f, s, t.processed, seen \cup {e}) = Hits(f, s, t.processed, seen)
  BY <1>1 DEF Hits
<1> QED
  BY <1>1, <1>2 DEF Exact

LEMMA StoreKeepsHistory ==
    ASSUME RulesInv, HistoryInv, NEW e \in Events, Store(e)
    PROVE  HistoryInv'
<1>1. /\ e \notin stored /\ stored' = stored \cup {e}
      /\ tables' = tables /\ work' = work /\ todo' = todo
  BY DEF Store
<1>2. ASSUME NEW s \in Sources, OnTime(s)'
      PROVE  /\ Before(s, tables.processed, stored \cup {e})
             /\ Before(s, work.processed, stored \cup {e})
             /\ Before(s, work.processed \cup todo, stored \cup {e})
             /\ Exact(tables, s, stored \cup {e})
             /\ Exact(work, s, stored \cup {e})
  <2>1. /\ OnTime(s)
        /\ Src(e) = s => \A x \in Mine(s, work.processed \cup todo) : At(x) < At(e)
    BY <1>2, StoredOnTime
  <2>2. /\ tables.processed \subseteq work.processed
        /\ Before(s, tables.processed, stored)
        /\ Before(s, work.processed, stored)
        /\ Before(s, work.processed \cup todo, stored)
        /\ Exact(tables, s, stored) /\ Exact(work, s, stored)
    BY <2>1 DEF HistoryInv
  <2>3. /\ stored \subseteq Events
        /\ tables.processed \subseteq stored /\ work.processed \subseteq stored
        /\ todo \subseteq stored
    BY DEF RulesInv, TablesInv
  <2>4. Src(e) = s => /\ \A x \in Mine(s, tables.processed) : At(x) < At(e)
                      /\ \A x \in Mine(s, work.processed) : At(x) < At(e)
    BY <2>1, <2>2 DEF Mine
  <2>5. \A x \in stored : At(x) < At(e) => At(x) <= At(e)
    BY <2>3, EventFacts
  <2>6. /\ Exact(tables, s, stored \cup {e})
        /\ Exact(work, s, stored \cup {e})
    BY <2>2, <2>3, <2>4, StoredExact
  <2>7. Src(e) = s => /\ \A x \in Mine(s, tables.processed) : At(x) <= At(e)
                      /\ \A x \in Mine(s, work.processed) : At(x) <= At(e)
                      /\ \A x \in Mine(s, work.processed \cup todo) : At(x) <= At(e)
    BY <2>1, <2>3, <2>4, <2>5 DEF Mine
  <2>8. work.processed \cup todo \subseteq stored
    BY <2>3
  <2>9. Before(s, tables.processed, stored \cup {e})
    BY <1>1, <2>2, <2>3, <2>7, StoredAfter
  <2>10. Before(s, work.processed, stored \cup {e})
    BY <1>1, <2>2, <2>3, <2>7, StoredAfter
  <2>11. Before(s, work.processed \cup todo, stored \cup {e})
    BY <1>1, <2>2, <2>7, <2>8, StoredAfter
  <2> QED
    BY <2>6, <2>9, <2>10, <2>11
<1> QED
  BY <1>1, <1>2 DEF HistoryInv

(* Going through an event adds it to the detections it emits, and to no    *)
(* other.                                                                  *)
LEMMA RecordedExact ==
    ASSUME NEW s, NEW t, NEW u, NEW seen, NEW e \in Events,
           IsFiniteSet(t.processed), t.processed \subseteq Events, e \notin t.processed,
           DetectionsInv(t.detections), Exact(t, s, seen),
           Src(e) = s => \A x \in Mine(s, t.processed) : At(x) <= At(e),
           u.processed = t.processed \cup {e},
           u.detections = Recorded(e, seen, t.detections)
    PROVE  Exact(u, s, seen)
<1> DEFINE prints == Fingerprints(e, seen)
           ds == t.detections
           new == u.detections
           was(f) == Hits(f, s, t.processed, seen)
           is(f) == Hits(f, s, u.processed, seen)
<1>1. /\ DOMAIN new = DOMAIN ds \cup prints
      /\ \A f \in DOMAIN ds \ prints : new[f] = ds[f]
      /\ \A f \in DOMAIN ds \cap prints : new[f] = Repeated(ds[f], e)
      /\ \A f \in prints \ DOMAIN ds : new[f] = Fresh(e)
  BY DEF Recorded, RecordDetections
<1>2. \A f \in prints : f.src = Src(e)
  BY PrintFacts
<1>3. /\ Mine(s, u.processed) = IF Src(e) = s THEN Mine(s, t.processed) \cup {e}
                                ELSE Mine(s, t.processed)
      /\ e \notin Mine(s, t.processed)
  BY MineGrows DEF Mine
<1>4. ASSUME NEW f
      PROVE  /\ is(f) = IF Src(e) = s /\ f \in prints THEN was(f) \cup {e} ELSE was(f)
             /\ e \notin was(f)
             /\ IsFiniteSet(was(f))
             /\ was(f) \subseteq Mine(s, t.processed)
  <2>1. was(f) \subseteq t.processed
    BY DEF Hits, Mine
  <2>2. IsFiniteSet(was(f))
    BY <2>1, FS_Subset
  <2> QED
    BY <1>3, <2>1, <2>2 DEF Hits
<1>5. \A x \in t.processed \cup {e} : At(x) \in Nat
  BY EventFacts
<1>6. \A x \in Mine(s, t.processed) : Fingerprints(x, seen) \subseteq DOMAIN ds
  BY DEF Exact
<1>7. \A f \in Own(s, ds) : Spans(ds[f], was(f))
  BY DEF Exact
<1>8. \A f \in DOMAIN ds : ds[f] \in Detection
  BY DEF DetectionsInv
<1>9. \A x \in Mine(s, u.processed) : Fingerprints(x, seen) \subseteq DOMAIN new
  <2>1. \A x \in Mine(s, u.processed) : x \in Mine(s, t.processed) \/ x = e
    BY <1>3
  <2> QED
    BY <1>1, <1>6, <2>1
<1> HIDE DEF prints, ds, new, was, is
<1>10. ASSUME NEW f \in Own(s, new)
       PROVE  Spans(new[f], is(f))
  <2>0. f \in DOMAIN new /\ f.src = s
    BY DEF Own
  <2>1. CASE f \notin prints
    <3>1. f \in Own(s, ds) /\ new[f] = ds[f] /\ is(f) = was(f)
      BY <1>1, <1>4, <2>0, <2>1 DEF Own
    <3> QED
      BY <1>7, <3>1
  <2>2. CASE f \in prints /\ f \in DOMAIN ds
    <3>1. /\ Src(e) = s /\ f \in Own(s, ds) /\ is(f) = was(f) \cup {e}
          /\ new[f] = Repeated(ds[f], e)
      BY <1>1, <1>2, <1>4, <2>0, <2>2 DEF Own
    <3>2. Spans(ds[f], was(f))
      BY <1>7, <3>1
    <3>3. Cardinality(is(f)) = Cardinality(was(f)) + 1
      BY <1>4, <3>1, FS_AddElement
    <3>4. \A x \in was(f) : At(x) <= At(e) /\ At(x) \in Nat /\ x \in t.processed
      BY <1>4, <1>5, <3>1 DEF Mine
    <3>5. At(e) \in Nat /\ ds[f].first \in Nat
      BY <1>5, <1>8, <2>2 DEF Detection
    <3>6. /\ new[f].occurrences = ds[f].occurrences + 1
          /\ new[f].first = ds[f].first /\ new[f].last = At(e)
      BY <3>1 DEF Repeated
    <3>7. \E x \in was(f) : ds[f].first = At(x)
      BY <3>2 DEF Spans
    <3>8. ds[f].first <= At(e)
      BY <3>4, <3>7
    <3>9. \A x \in is(f) : new[f].first <= At(x) /\ At(x) <= new[f].last
      <4>1. \A x \in was(f) : ds[f].first <= At(x)
        BY <3>2 DEF Spans
      <4>2. At(e) <= At(e)
        BY <3>5
      <4> QED
        BY <3>1, <3>4, <3>6, <3>8, <4>1, <4>2
    <3>10. new[f].occurrences = Cardinality(is(f))
      BY <3>2, <3>3, <3>6 DEF Spans
    <3> QED
      BY <3>1, <3>6, <3>7, <3>9, <3>10 DEF Spans
  <2>3. CASE f \in prints /\ f \notin DOMAIN ds
    <3>1. Src(e) = s /\ new[f] = Fresh(e)
      BY <1>1, <1>2, <2>0, <2>3
    <3>2. was(f) = {}
      BY <1>6, <2>3 DEF was, Hits
    <3>3. is(f) = {e}
      BY <1>4, <2>3, <3>1, <3>2
    <3>4. Cardinality(is(f)) = 1
      BY <3>3, FS_Singleton
    <3>5. new[f].occurrences = 1 /\ new[f].first = At(e) /\ new[f].last = At(e)
      BY <3>1 DEF Fresh
    <3>6. At(e) <= At(e)
      BY <1>5
    <3> QED
      BY <3>3, <3>4, <3>5, <3>6 DEF Spans
  <2> QED
    BY <1>1, <2>0, <2>1, <2>2, <2>3
<1> QED
  BY <1>9, <1>10 DEF Exact, new, is

LEMMA ProcessKeepsHistory ==
    ASSUME RulesInv, HistoryInv, NEW e \in Events, Process(e)
    PROVE  HistoryInv'
<1>1. /\ e \in todo /\ \A x \in todo : At(e) <= At(x)
      /\ todo' = todo \ {e} /\ stored' = stored /\ tables' = tables /\ late' = late
  BY DEF Process
<1>2. /\ work'.processed = work.processed \cup {e}
      /\ work'.detections = Recorded(e, stored, work.detections)
  BY DEF Process, Recorded
<1>3. /\ stored \subseteq Events /\ work.processed \subseteq stored /\ todo \subseteq stored
      /\ e \notin work.processed /\ DetectionsInv(work.detections)
      /\ tables.processed \subseteq work.processed
  BY <1>1 DEF RulesInv, TablesInv, HistoryInv
<1>4. IsFiniteSet(work.processed) /\ work.processed \subseteq Events
  BY <1>3, FS_Subset
<1>5. work'.processed \cup todo' = work.processed \cup todo
  BY <1>1, <1>2
<1>6. ASSUME NEW s \in Sources, OnTime(s)
      PROVE  Before(s, work'.processed, stored) /\ Exact(work', s, stored)
  <2>1. /\ Before(s, work.processed, stored)
        /\ Before(s, work.processed \cup todo, stored)
        /\ Exact(work, s, stored)
    BY <1>6 DEF HistoryInv
  <2>2. Before(s, work'.processed, stored)
    BY <1>1, <1>2, <1>3, <2>1 DEF Before, Mine
  <2>3. Src(e) = s => \A x \in Mine(s, work.processed) : At(x) <= At(e)
    BY <1>1, <1>3, <2>1 DEF Before, Mine
  <2>4. Exact(work', s, stored)
    BY <1>2, <1>3, <1>4, <2>1, <2>3, RecordedExact
  <2> QED
    BY <2>2, <2>4
<1>7. \A s : OnTime(s)' <=> OnTime(s)
  BY <1>1 DEF OnTime
<1>8. tables'.processed \subseteq work'.processed /\ todo' \cap work'.processed = {}
  BY <1>1, <1>2, <1>3 DEF HistoryInv
<1>9. \A s \in Sources : OnTime(s) =>
          /\ Before(s, tables'.processed, stored')
          /\ Before(s, work'.processed, stored')
          /\ Before(s, work'.processed \cup todo', stored')
          /\ Exact(tables', s, stored') /\ Exact(work', s, stored')
  BY <1>1, <1>5, <1>6 DEF HistoryInv
<1> QED
  BY <1>7, <1>8, <1>9 DEF HistoryInv

(* A batch is a beginning of what is pending.                              *)
LEMMA BatchKeepsHistory ==
    ASSUME RulesInv, HistoryInv, TakeBatch
    PROVE  HistoryInv'
<1>1. /\ work = tables /\ stored' = stored /\ tables' = tables /\ work' = work /\ late' = late
      /\ todo' \subseteq stored \ tables.processed
      /\ \A x \in todo', y \in (stored \ tables.processed) \ todo' : At(x) <= At(y)
  BY DEF TakeBatch, Idle, IsBatch, Pending
<1>2. ASSUME NEW s \in Sources, OnTime(s)
      PROVE  Before(s, work.processed \cup todo', stored)
  <2>1. Before(s, work.processed, stored)
    BY <1>2 DEF HistoryInv
  <2> QED
    BY <1>1, <2>1 DEF Before, Mine
<1>3. \A s : OnTime(s)' <=> OnTime(s)
  BY <1>1 DEF OnTime
<1>4. todo' \cap work'.processed = {} /\ tables'.processed \subseteq work'.processed
  BY <1>1
<1>5. \A s \in Sources : OnTime(s) =>
          /\ Before(s, tables'.processed, stored')
          /\ Before(s, work'.processed, stored')
          /\ Before(s, work'.processed \cup todo', stored')
          /\ Exact(tables', s, stored') /\ Exact(work', s, stored')
  BY <1>1, <1>2 DEF HistoryInv
<1> QED
  BY <1>3, <1>4, <1>5 DEF HistoryInv

(* The end of a transaction leaves one of the two tables. *)
LEMMA EndKeepsHistory ==
    ASSUME HistoryInv, Commit \/ Abort
    PROVE  HistoryInv'
<1>1. /\ stored' = stored /\ late' = late /\ todo' = {} /\ tables' = work'
      /\ work' = work \/ work' = tables
  BY DEF Commit, Abort
<1>2. \A s : OnTime(s)' <=> OnTime(s)
  BY <1>1 DEF OnTime
<1>3. \A s \in Sources : OnTime(s) =>
          Before(s, work'.processed, stored) /\ Exact(work', s, stored)
  BY <1>1 DEF HistoryInv
<1>4. work'.processed \cup todo' = work'.processed
  BY <1>1
<1>5. todo' \cap work'.processed = {} /\ tables'.processed \subseteq work'.processed
  BY <1>1
<1>6. \A s \in Sources : OnTime(s) =>
          /\ Before(s, tables'.processed, stored')
          /\ Before(s, work'.processed, stored')
          /\ Before(s, work'.processed \cup todo', stored')
          /\ Exact(tables', s, stored') /\ Exact(work', s, stored')
  BY <1>1, <1>3, <1>4
<1> QED
  BY <1>2, <1>5, <1>6 DEF HistoryInv

LEMMA HistoryIsInductive == RulesInv /\ HistoryInv /\ [Next]_vars => HistoryInv'
<1> SUFFICES ASSUME RulesInv, HistoryInv, [Next]_vars PROVE HistoryInv'
  OBVIOUS
<1>1. ASSUME UNCHANGED <<stored, tables, work, todo, late>>
      PROVE  HistoryInv'
  BY <1>1 DEF HistoryInv, OnTime
<1>2. ASSUME NEW f \in DOMAIN status, NEW s \in Verdicts, UpdateDetection(f, s)
      PROVE  HistoryInv'
  BY <1>1, <1>2 DEF UpdateDetection
<1>3. CASE UNCHANGED vars
  BY <1>1, <1>3 DEF vars
<1> QED
  BY <1>2, <1>3, StoreKeepsHistory, ProcessKeepsHistory, BatchKeepsHistory,
     EndKeepsHistory DEF Next

(* What is done of a source that is on time is a beginning of its history, *)
(* and its detections are exactly those of what is done.                   *)
THEOREM HistoryKept == Spec => []HistoryInv
<1>1. Init => HistoryInv
  BY DEF Init, HistoryInv, Before, Exact, Mine, Own
<1> QED
  BY <1>1, InductiveRules, HistoryIsInductive, PTL DEF Spec

(* Cutting a history that comes in order into batches, running the rules   *)
(* while events arrive and rolling batches back make no difference: the    *)
(* detections are those the rules give on the complete history             *)
(* (services.py:498-528).                                                  *)
THEOREM InOrderIsExact == Spec => []InOrderExact
<1>1. RulesInv /\ HistoryInv => InOrderExact
  <2> SUFFICES ASSUME RulesInv, HistoryInv, NEW s \in Sources, \A e \in late : Src(e) # s
               PROVE  LET mine == {e \in tables.processed : Src(e) = s}
                          prints == UNION {Fingerprints(e, stored) : e \in mine}
                      IN  /\ prints = Own(s, tables.detections)
                          /\ \A f \in prints :
                                LET hits == {e \in mine : f \in Fingerprints(e, stored)}
                                IN  Spans(tables.detections[f], hits)
    BY DEF InOrderExact, Own, Spans
  <2> DEFINE mine == Mine(s, tables.processed)
             prints == UNION {Fingerprints(e, stored) : e \in mine}
             own == Own(s, tables.detections)
  <2>1. Exact(tables, s, stored)
    BY DEF HistoryInv, OnTime
  <2>2. \A e \in mine : e \in Events /\ Src(e) = s
    BY DEF Mine, RulesInv, TablesInv
  <2>3. \A e \in mine : \A f \in Fingerprints(e, stored) : f.src = s
    BY <2>2, PrintFacts
  <2>4. prints \subseteq own
    BY <2>1, <2>3 DEF Exact, Own
  <2>5. \A f \in own : \E e \in mine : f \in Fingerprints(e, stored)
    BY <2>1 DEF Exact, Spans, Hits
  <2>6. prints = own
    BY <2>4, <2>5
  <2>7. \A f \in own :
           Spans(tables.detections[f], {e \in mine : f \in Fingerprints(e, stored)})
    BY <2>1 DEF Exact, Hits
  <2> QED
    BY <2>6, <2>7 DEF Mine
<1> QED
  BY <1>1, InductiveRules, HistoryKept, PTL

=============================================================================

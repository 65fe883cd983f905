---------------------------- MODULE ExportsProofs ----------------------------
(***************************************************************************)
(* Theorems about Exports, for any analysts, requests at once, connections *)
(* and bounds.                                                             *)
(*                                                                         *)
(* None of the properties is inductive.  That there is one row of each     *)
(* analyst rests on the lock that a session which has inserted the user    *)
(* keeps until it commits (LockInv); that artifacts and objects agree, on  *)
(* what each point of an export implies of its key, and on keys being      *)
(* nobody else's (MakeInv, RowsInv, AccountInv).  The types of all         *)
(* variables rest on these and on who has a connection (PoolInv), on how   *)
(* many exports still have to make their key (KeysInv), and on what is     *)
(* stored (StoreInv).  With them, sessions never wait in a circle.         *)
(***************************************************************************)
EXTENDS Exports, FiniteSetTheorems, TLAPS

(* The points of an export after its key was made. *)
Making == {"head", "create", "put", "record"}

TypeInv ==
    /\ users \in [Analysts -> Nat]
    /\ owner \in [Rows -> Apis \cup {NoSession}]
    /\ pc \in [Apis -> Points]
    /\ job \in [Apis -> [kind : RequestKinds, analyst : Analysts, key : Nat]]
    /\ known \in [Apis -> BOOLEAN]
    /\ used \in Nat

(* A session holds the row of its analyst between its flush and its        *)
(* commit, and no other row of an analyst at any time; nobody else can     *)
(* have inserted that row.                                                 *)
LockInv ==
    \A s \in Apis :
        /\ pc[s] = "logged" =>
            /\ owner[job[s].analyst] = s
            /\ known[s] \/ users[job[s].analyst] = 0
        /\ \A a \in Analysts : owner[a] = s => pc[s] = "logged"

(* The rows of artifacts. *)
RowsInv ==
    /\ \A row \in artifacts : row.key \in 1..used /\ row.key \in objects \cup wiped
    /\ \A row1, row2 \in artifacts : row1.key = row2.key => row1 = row2
    /\ broken \subseteq wiped

(* The keys of exports and downloads that go on. *)
MakeInv ==
    /\ \A s \in Apis :
        /\ pc[s] \in Making =>
            /\ job[s].kind \in Exporting
            /\ job[s].key \in 1..used
            /\ job[s].key \notin failed
            /\ \A row \in artifacts : row.key # job[s].key
        /\ job[s].kind \in Exporting /\ job[s].key # 0 => pc[s] \in Making
        /\ pc[s] = "record" => job[s].key \in objects \cup wiped
        /\ pc[s] = "fetch" => \E row \in artifacts : row.key = job[s].key
    /\ \A s, t \in Apis :
        s # t /\ pc[s] \in Making /\ pc[t] \in Making => job[s].key # job[t].key

(* What became of the exports that have ended. *)
AccountInv ==
    /\ failed \subseteq 1..used
    /\ acked \subseteq artifacts
    /\ \A row \in acked : row.key \notin failed
    /\ \A k \in objects :
        \/ \E row \in artifacts : row.key = k
        \/ k \in failed
        \/ \E s \in Apis : pc[s] \in Making /\ job[s].key = k

ExportInv ==
    /\ TypeInv /\ LockInv /\ OneUserEach
    /\ RowsInv /\ MakeInv /\ AccountInv

USE NamesAssumption, ParametersAssumption
    DEF Rows, Points, Exporting, RequestKinds, Making

-----------------------------------------------------------------------------
LEMMA NoJobType ==
    /\ NoJob \in [kind : RequestKinds, analyst : Analysts, key : Nat]
    /\ NoJob.kind \notin Exporting
BY DEF NoJob

LEMMA InitInv == Init => ExportInv
<1> SUFFICES ASSUME Init PROVE ExportInv
  OBVIOUS
<1> USE NoJobType DEF Init
<1>1. TypeInv
  BY DEF TypeInv
<1>2. LockInv /\ OneUserEach
  BY DEF LockInv, OneUserEach
<1>3. RowsInv /\ AccountInv
  BY DEF RowsInv, AccountInv
<1>4. MakeInv
  BY DEF MakeInv
<1> QED
  BY <1>1, <1>2, <1>3, <1>4 DEF ExportInv

(* A session that ends, with or without an answer, gives its locks up.     *)
LEMMA EndKeepsLocks ==
    ASSUME TypeInv, LockInv, OneUserEach, NEW s \in Apis, End(s),
           users' = users, used' = used
    PROVE  TypeInv' /\ LockInv' /\ OneUserEach'
<1> USE NoJobType DEF End, EndTransaction, Released, Goes
<1>1. TypeInv'
  BY DEF TypeInv
<1>2. LockInv'
  BY DEF TypeInv, LockInv
<1>3. OneUserEach'
  BY DEF OneUserEach
<1> QED
  BY <1>1, <1>2, <1>3

(* A session that goes on to another point keeps them. *)
LEMMA MoveKeepsLocks ==
    ASSUME TypeInv, LockInv, OneUserEach, NEW s \in Apis, NEW point \in Points,
           Goes(s, point), pc[s] # "logged", point # "logged",
           job' \in [Apis -> [kind : RequestKinds, analyst : Analysts, key : Nat]],
           \A x \in Apis : x # s => job'[x] = job[x],
           known' \in [Apis -> BOOLEAN],
           \A x \in Apis : x # s => known'[x] = known[x],
           owner' = owner \/ owner' = [owner EXCEPT ![Fleet] = s],
           users' = users, used' \in Nat
    PROVE  TypeInv' /\ LockInv' /\ OneUserEach'
<1> USE DEF Goes
<1>1. /\ pc' \in [Apis -> Points]
      /\ pc'[s] = point
      /\ \A x \in Apis : x # s => pc'[x] = pc[x]
  BY DEF TypeInv
<1>2. /\ owner' \in [Rows -> Apis \cup {NoSession}]
      /\ \A a \in Analysts : owner'[a] = owner[a]
  BY DEF TypeInv
<1>3. TypeInv'
  BY <1>1, <1>2 DEF TypeInv
<1>4. LockInv'
  BY <1>1, <1>2 DEF TypeInv, LockInv
<1>5. OneUserEach'
  BY DEF OneUserEach
<1> QED
  BY <1>3, <1>4, <1>5

LEMMA LoginKeepsLocks ==
    ASSUME TypeInv, LockInv, OneUserEach, NEW s \in Apis, Login(s)
    PROVE  TypeInv' /\ LockInv' /\ OneUserEach'
<1> DEFINE a == job[s].analyst
<1> USE DEF Login, Taken, Goes, database, store, history
<1>1. a \in Analysts /\ users[a] \in Nat
  BY DEF TypeInv
<1>2. /\ pc' \in [Apis -> Points]
      /\ pc'[s] = "logged"
      /\ \A x \in Apis : x # s => pc'[x] = pc[x]
  BY DEF TypeInv
<1>3. /\ owner' \in [Rows -> Apis \cup {NoSession}]
      /\ owner[a] = NoSession /\ owner'[a] = s
      /\ \A b \in Analysts : b # a => owner'[b] = owner[b]
  BY <1>1 DEF TypeInv
<1>4. known[s] \/ users[a] = 0
  BY <1>1
<1>5. TypeInv'
  BY <1>2, <1>3 DEF TypeInv
<1>6. LockInv'
  BY <1>1, <1>2, <1>3, <1>4 DEF TypeInv, LockInv
<1>7. OneUserEach'
  BY DEF OneUserEach
<1> QED
  BY <1>5, <1>6, <1>7

LEMMA LoggedInKeepsLocks ==
    ASSUME TypeInv, LockInv, OneUserEach, NEW s \in Apis, LoggedIn(s)
    PROVE  TypeInv' /\ LockInv' /\ OneUserEach'
<1> DEFINE a == job[s].analyst
<1> USE DEF LoggedIn, EndTransaction, Released, Goes, store, history
<1>1. /\ a \in Analysts /\ users[a] \in Nat
      /\ owner[a] = s
      /\ known[s] \/ users[a] = 0
  BY DEF TypeInv, LockInv
<1>2. /\ pc' \in [Apis -> Points]
      /\ pc'[s] = "work"
      /\ \A x \in Apis : x # s => pc'[x] = pc[x]
  BY DEF TypeInv
<1>3. /\ owner' \in [Rows -> Apis \cup {NoSession}]
      /\ \A r \in Rows : owner'[r] = IF owner[r] = s THEN NoSession ELSE owner[r]
  BY DEF TypeInv
<1>4. /\ users' \in [Analysts -> Nat]
      /\ users'[a] = users[a] \/ users'[a] = 1
      /\ \A b \in Analysts : b # a => users'[b] = users[b]
  BY <1>1 DEF TypeInv
<1>5. TypeInv'
  BY <1>2, <1>3, <1>4 DEF TypeInv
<1>6. LockInv'
  BY <1>1, <1>2, <1>3, <1>4 DEF TypeInv, LockInv
<1>7. OneUserEach'
  BY <1>1, <1>4 DEF OneUserEach
<1> QED
  BY <1>5, <1>6, <1>7

(* Every step keeps the types, the locks and one row of each analyst. *)
LEMMA LocksStep ==
    ASSUME TypeInv, LockInv, OneUserEach, [Next]_vars
    PROVE  TypeInv' /\ LockInv' /\ OneUserEach'
<1> DEFINE Good == TypeInv' /\ LockInv' /\ OneUserEach'
<1> USE DEF Refuse, database, store, history
<1>1. ASSUME NEW s \in Apis, Request(s) PROVE Good
  <2>1. PICK kind \in Kinds, a \in Analysts, k \in 0..used :
            /\ job' = [job EXCEPT ![s] = [kind |-> kind, analyst |-> a, key |-> k]]
            /\ Goes(s, IF kind = "heartbeat" THEN "work" ELSE "connect")
    BY <1>1 DEF Request
  <2>2. [kind |-> kind, analyst |-> a, key |-> k]
            \in [kind : RequestKinds, analyst : Analysts, key : Nat]
    BY DEF TypeInv
  <2>3. /\ job' \in [Apis -> [kind : RequestKinds, analyst : Analysts, key : Nat]]
        /\ \A x \in Apis : x # s => job'[x] = job[x]
    BY <2>1, <2>2 DEF TypeInv
  <2> QED
    BY <1>1, <2>1, <2>3, MoveKeepsLocks DEF Request, TypeInv
<1>2. ASSUME NEW s \in Apis, Connect(s) PROVE Good
  <2>1. /\ known' \in [Apis -> BOOLEAN]
        /\ \A x \in Apis : x # s => known'[x] = known[x]
    <3> DEFINE found == users[job[s].analyst] > 0
    <3>1. found \in BOOLEAN
      OBVIOUS
    <3>2. known' = known \/ known' = [known EXCEPT ![s] = found]
      BY <1>2 DEF Connect
    <3> HIDE DEF found
    <3> QED
      BY <3>1, <3>2 DEF TypeInv
  <2>2. PICK point \in {"read", "login"} : Goes(s, point)
    BY <1>2 DEF Connect
  <2> QED
    BY <1>2, <2>1, <2>2, MoveKeepsLocks DEF Connect, TypeInv
<1>3. ASSUME NEW s \in Apis, PoolTimeout(s) \/ DuplicateUser(s) PROVE Good
  BY <1>3, EndKeepsLocks DEF PoolTimeout, DuplicateUser
<1>4. ASSUME NEW s \in Apis, Login(s) PROVE Good
  BY <1>4, LoginKeepsLocks
<1>5. ASSUME NEW s \in Apis, LoggedIn(s) PROVE Good
  BY <1>5, LoggedInKeepsLocks
<1>6. ASSUME NEW s \in Apis, Build(s) PROVE Good
  <2>1. /\ job' \in [Apis -> [kind : RequestKinds, analyst : Analysts, key : Nat]]
        /\ \A x \in Apis : x # s => job'[x] = job[x]
        /\ used' \in Nat
    BY <1>6 DEF Build, TypeInv
  <2> QED
    BY <1>6, <2>1, MoveKeepsLocks DEF Build, TypeInv
<1>7. ASSUME NEW s \in Apis, NoEvidence(s) \/ Record(s) \/ RecordFails(s) PROVE Good
  BY <1>7, EndKeepsLocks DEF NoEvidence, Record, RecordFails
<1>8. ASSUME NEW s \in Apis, HeadBucket(s) PROVE Good
  BY <1>8, MoveKeepsLocks DEF HeadBucket, TypeInv
<1>9. ASSUME NEW s \in Apis, CreateBucket(s) PROVE Good
  <2>1. CASE Refuse(s)
    BY <1>9, <2>1, EndKeepsLocks DEF CreateBucket
  <2>2. CASE Goes(s, "put") /\ UNCHANGED <<owner, job, known>>
    BY <1>9, <2>2, MoveKeepsLocks DEF CreateBucket, TypeInv
  <2> QED
    BY <1>9, <2>1, <2>2 DEF CreateBucket
<1>10. ASSUME NEW s \in Apis, PutObject(s) PROVE Good
  <2>1. CASE Refuse(s)
    BY <1>10, <2>1, EndKeepsLocks DEF PutObject
  <2>2. CASE Goes(s, "record") /\ UNCHANGED <<owner, job, known>>
    BY <1>10, <2>2, MoveKeepsLocks DEF PutObject, TypeInv
  <2> QED
    BY <1>10, <2>1, <2>2 DEF PutObject
<1>11. ASSUME NEW s \in Apis, List(s) \/ GetObject(s) \/ CommitBeat(s) PROVE Good
  BY <1>11, EndKeepsLocks DEF List, GetObject, CommitBeat
<1>12. ASSUME NEW s \in Apis, Download(s) PROVE Good
  <2>1. CASE Refuse(s)
    BY <1>12, <2>1, EndKeepsLocks DEF Download
  <2>2. CASE Goes(s, "fetch") /\ UNCHANGED <<owner, job, known>>
    BY <1>12, <2>2, MoveKeepsLocks DEF Download, TypeInv
  <2> QED
    BY <1>12, <2>1, <2>2 DEF Download
<1>13. ASSUME NEW s \in Apis, Beat(s) PROVE Good
  BY <1>13, MoveKeepsLocks DEF Beat, TypeInv
<1>14. ASSUME NEW s \in Apis, Fail(s) PROVE Good
  BY <1>14, EndKeepsLocks DEF Fail
<1>15. CASE StoreRestarts
  BY <1>15 DEF StoreRestarts, TypeInv, LockInv, OneUserEach
<1>16. CASE UNCHANGED vars
  BY <1>16 DEF vars, TypeInv, LockInv, OneUserEach
<1>17. ASSUME NEW s \in Apis, Refresh(s) PROVE Good
  BY <1>17, MoveKeepsLocks DEF Refresh, TypeInv
<1> QED
  BY <1>1, <1>2, <1>3, <1>4, <1>5, <1>6, <1>7, <1>8, <1>9, <1>10, <1>11, <1>12,
     <1>13, <1>14, <1>15, <1>16, <1>17 DEF Next, Step

-----------------------------------------------------------------------------
(* A session that goes on without making a key keeps what is known of the  *)
(* exports, if it stays among the points of an export or outside of them.  *)
LEMMA MoveKeepsExports ==
    ASSUME ExportInv, NEW s \in Apis, NEW point \in Points, Goes(s, point),
           pc[s] \in Making <=> point \in Making, point # "record",
           point = "fetch" => \E row \in artifacts : row.key = job[s].key,
           UNCHANGED <<artifacts, objects, job, used, history, wiped>>
    PROVE  RowsInv' /\ MakeInv' /\ AccountInv'
<1> USE DEF history, ExportInv
<1>1. /\ pc'[s] = point
      /\ \A x \in Apis : x # s => pc'[x] = pc[x]
  BY DEF Goes, TypeInv
<1>2. \A x \in Apis : pc'[x] \in Making <=> pc[x] \in Making
  BY <1>1
<1>3. RowsInv'
  BY DEF RowsInv
<1>4. MakeInv'
  BY <1>1, <1>2 DEF MakeInv
<1>5. AccountInv'
  BY <1>2 DEF AccountInv
<1> QED
  BY <1>3, <1>4, <1>5

(* A session that ends leaves no key behind: its object is listed, or its  *)
(* export has failed.                                                      *)
LEMMA EndKeepsExports ==
    ASSUME ExportInv, NEW s \in Apis, End(s), UNCHANGED <<used, wiped>>,
           \/ artifacts' = artifacts
           \/ pc[s] = "record" /\ artifacts' = artifacts \cup {Artifact(s)},
           \/ objects' = objects
           \/ pc[s] = "put" /\ objects' = objects \cup {job[s].key},
           \/ broken' = broken
           \/ pc[s] = "fetch" /\ broken' = broken \cup ({job[s].key} \ objects),
           \/ /\ acked' = acked
              /\ failed' = failed \cup
                    {k \in {job[s].key} : job[s].kind \in Exporting /\ k # 0}
           \/ pc[s] \notin Making /\ UNCHANGED <<acked, failed>>
           \/ /\ pc[s] = "record" /\ failed' = failed
              /\ artifacts' = artifacts \cup {Artifact(s)}
              /\ acked' = acked \cup {Artifact(s)}
    PROVE  RowsInv' /\ MakeInv' /\ AccountInv'
<1> DEFINE key == job[s].key
<1> USE NoJobType DEF ExportInv
<1>1. /\ pc'[s] = "idle" /\ job'[s] = NoJob
      /\ \A x \in Apis : x # s => pc'[x] = pc[x] /\ job'[x] = job[x]
  BY DEF End, Goes, TypeInv
<1>2. /\ pc[s] \in Making => /\ job[s].kind \in Exporting
                            /\ key \in 1..used /\ key # 0 /\ key \notin failed
                            /\ \A row \in artifacts : row.key # key
      /\ job[s].kind \in Exporting /\ key # 0 => pc[s] \in Making
      /\ pc[s] = "record" => key \in objects \cup wiped
      /\ \A x \in Apis : x # s /\ pc[s] \in Making /\ pc[x] \in Making
            => job[x].key # key
  BY DEF MakeInv, TypeInv
<1>3. Artifact(s).key = key
  BY DEF Artifact
<1>4. /\ objects \subseteq objects'
      /\ \A k \in objects' : k \in objects \/ (pc[s] \in Making /\ k = key)
  OBVIOUS
<1>5. /\ artifacts \subseteq artifacts'
      /\ \A row \in artifacts' :
            row \in artifacts \/ (pc[s] = "record" /\ row = Artifact(s))
  OBVIOUS
<1>6. /\ failed \subseteq failed'
      /\ \A k \in failed' : k \in failed \/ (pc[s] \in Making /\ k = key)
      /\ pc[s] \in Making /\ key \notin failed'
            => \E row \in artifacts' : row.key = key
  BY <1>2, <1>3
<1>7. RowsInv'
  <2>1. \A row \in artifacts' : row.key \in 1..used /\ row.key \in objects' \cup wiped
    BY <1>2, <1>3, <1>4, <1>5 DEF RowsInv
  <2>2. \A row1, row2 \in artifacts' : row1.key = row2.key => row1 = row2
    BY <1>2, <1>3, <1>5 DEF RowsInv
  <2>3. broken' \subseteq wiped
    <3>1. pc[s] = "fetch" => key \in objects \cup wiped
      BY DEF MakeInv, RowsInv
    <3> QED
      BY <3>1 DEF RowsInv
  <2> QED
    BY <2>1, <2>2, <2>3 DEF RowsInv
<1>8. MakeInv'
  <2>1. \A x \in Apis : pc'[x] \in Making =>
            /\ x # s /\ pc[x] \in Making /\ job'[x] = job[x]
    BY <1>1
  <2>2. \A x \in Apis : pc'[x] \in Making =>
            /\ job'[x].kind \in Exporting
            /\ job'[x].key \in 1..used
            /\ job'[x].key \notin failed'
            /\ \A row \in artifacts' : row.key # job'[x].key
    BY <2>1, <1>2, <1>3, <1>5, <1>6 DEF MakeInv
  <2>3. \A x \in Apis :
            /\ job'[x].kind \in Exporting /\ job'[x].key # 0 => pc'[x] \in Making
            /\ pc'[x] = "record" => job'[x].key \in objects' \cup wiped
            /\ pc'[x] = "fetch" => \E row \in artifacts' : row.key = job'[x].key
    BY <1>1, <1>4, <1>5 DEF MakeInv
  <2>4. \A x, y \in Apis : x # y /\ pc'[x] \in Making /\ pc'[y] \in Making
            => job'[x].key # job'[y].key
    BY <2>1 DEF MakeInv
  <2> QED
    BY <2>2, <2>3, <2>4 DEF MakeInv
<1>9. AccountInv'
  <2>1. failed' \subseteq 1..used
    <3>1. \A k \in failed : k \in 1..used
      BY DEF AccountInv
    <3>2. \A k \in failed' : k \in failed \/ k \in 1..used
      BY <1>2, <1>6
    <3> QED
      BY <3>1, <3>2
  <2>2. acked' \subseteq artifacts' /\ \A row \in acked' : row.key \notin failed'
    <3>1. \A row \in acked : row \in artifacts /\ row.key \notin failed
      BY DEF AccountInv
    <3>2. \A row \in acked : row.key \notin failed'
      BY <3>1, <1>2, <1>6
    <3> QED
      BY <3>1, <3>2, <1>2, <1>3, <1>5
  <2>3. ASSUME NEW k \in objects'
        PROVE  \/ \E row \in artifacts' : row.key = k
               \/ k \in failed'
               \/ \E x \in Apis : pc'[x] \in Making /\ job'[x].key = k
    <3>1. CASE pc[s] \in Making /\ k = key
      BY <3>1, <1>6
    <3>2. CASE ~(pc[s] \in Making /\ k = key)
      <4>1. k \in objects
        BY <3>2, <1>4
      <4>2. CASE (\E row \in artifacts : row.key = k) \/ k \in failed
        BY <4>2, <1>5, <1>6
      <4>3. CASE \E x \in Apis : pc[x] \in Making /\ job[x].key = k
        BY <4>3, <3>2, <1>1
      <4> QED
        BY <4>1, <4>2, <4>3 DEF AccountInv
    <3> QED
      BY <3>1, <3>2
  <2> QED
    BY <2>1, <2>2, <2>3 DEF AccountInv
<1> QED
  BY <1>7, <1>8, <1>9

LEMMA RequestKeepsExports ==
    ASSUME ExportInv, NEW s \in Apis, Request(s)
    PROVE  RowsInv' /\ MakeInv' /\ AccountInv'
<1> USE DEF ExportInv, database, store, history
<1>1. PICK kind \in Kinds, a \in Analysts, k \in 0..used :
            /\ kind # "download" => k = 0
            /\ job' = [job EXCEPT ![s] = [kind |-> kind, analyst |-> a, key |-> k]]
            /\ Goes(s, IF kind = "heartbeat" THEN "work" ELSE "connect")
  BY DEF Request
<1>2. /\ pc[s] = "idle" /\ pc'[s] \in {"work", "connect"}
      /\ job'[s].kind \in Exporting => job'[s].key = 0
      /\ \A x \in Apis : x # s => pc'[x] = pc[x] /\ job'[x] = job[x]
  BY <1>1 DEF Request, Goes, TypeInv
<1>3. UNCHANGED <<artifacts, objects, used, history, wiped>>
  BY DEF Request
<1>4. \A x \in Apis : pc'[x] \in Making <=> x # s /\ pc[x] \in Making
  BY <1>2
<1>5. RowsInv'
  BY <1>3 DEF RowsInv
<1>6. MakeInv'
  BY <1>2, <1>3, <1>4 DEF MakeInv
<1>7. AccountInv'
  BY <1>2, <1>3, <1>4 DEF AccountInv
<1> QED
  BY <1>5, <1>6, <1>7

(* A new key is nobody else's. *)
LEMMA BuildKeepsExports ==
    ASSUME ExportInv, NEW s \in Apis, Build(s)
    PROVE  RowsInv' /\ MakeInv' /\ AccountInv'
<1> USE DEF ExportInv, database, store, history
<1>1. /\ pc[s] \in {"read", "flush"} /\ pc'[s] = "head"
      /\ job'[s].kind = job[s].kind /\ job[s].kind \in Exporting
      /\ job'[s].key = used + 1
      /\ \A x \in Apis : x # s => pc'[x] = pc[x] /\ job'[x] = job[x]
  BY DEF Build, Goes, TypeInv
<1>2. /\ used' = used + 1 /\ used \in Nat
      /\ 1..used \subseteq 1..used'
      /\ used' \in 1..used' /\ used' \notin 1..used
  BY DEF Build, TypeInv
<1>3. UNCHANGED <<artifacts, objects, history, wiped>>
  BY DEF Build
<1>4. \A x \in Apis : pc'[x] \in Making <=> x = s \/ pc[x] \in Making
  BY <1>1
<1>5. RowsInv'
  BY <1>2, <1>3 DEF RowsInv
<1>6. MakeInv'
  <2>1. ASSUME NEW x \in Apis, pc'[x] \in Making
        PROVE  /\ job'[x].kind \in Exporting
               /\ job'[x].key \in 1..used'
               /\ job'[x].key \notin failed'
               /\ \A row \in artifacts' : row.key # job'[x].key
    <3>1. CASE x = s
      <4>1. used' \notin failed /\ \A row \in artifacts : row.key # used'
        BY <1>2 DEF RowsInv, AccountInv
      <4> QED
        BY <3>1, <4>1, <1>1, <1>2, <1>3
    <3>2. CASE x # s
      BY <2>1, <3>2, <1>1, <1>2, <1>3 DEF MakeInv
    <3> QED
      BY <3>1, <3>2
  <2>2. \A x \in Apis :
            /\ job'[x].kind \in Exporting /\ job'[x].key # 0 => pc'[x] \in Making
            /\ pc'[x] = "record" => job'[x].key \in objects' \cup wiped'
            /\ pc'[x] = "fetch" => \E row \in artifacts' : row.key = job'[x].key
    BY <1>1, <1>3 DEF MakeInv
  <2>3. ASSUME NEW x \in Apis, NEW y \in Apis,
               x # y, pc'[x] \in Making, pc'[y] \in Making
        PROVE  job'[x].key # job'[y].key
    <3>1. \A z \in Apis : z # s /\ pc[z] \in Making => job'[z].key \in 1..used
      BY <1>1 DEF MakeInv
    <3> QED
      BY <2>3, <3>1, <1>1, <1>2, <1>4 DEF MakeInv
  <2> QED
    BY <2>1, <2>2, <2>3 DEF MakeInv
<1>7. AccountInv'
  <2>1. \A x \in Apis : pc[x] \in Making => job'[x] = job[x]
    BY <1>1
  <2> QED
    BY <2>1, <1>2, <1>3, <1>4 DEF AccountInv
<1> QED
  BY <1>5, <1>6, <1>7

(* The object is there before its row can be. *)
LEMMA PutKeepsExports ==
    ASSUME ExportInv, NEW s \in Apis, pc[s] = "put", Goes(s, "record"),
           objects' = objects \cup {job[s].key},
           UNCHANGED <<artifacts, job, used, history, wiped>>
    PROVE  RowsInv' /\ MakeInv' /\ AccountInv'
<1> USE DEF ExportInv, history
<1>1. /\ pc'[s] = "record"
      /\ \A x \in Apis : x # s => pc'[x] = pc[x]
  BY DEF Goes, TypeInv
<1>2. \A x \in Apis : pc'[x] \in Making <=> pc[x] \in Making
  BY <1>1
<1>3. RowsInv'
  BY DEF RowsInv
<1>4. MakeInv'
  BY <1>1, <1>2 DEF MakeInv
<1>5. AccountInv'
  BY <1>1, <1>2 DEF AccountInv
<1> QED
  BY <1>3, <1>4, <1>5

(* What the store loses is remembered as lost. *)
LEMMA RestartKeepsExports ==
    ASSUME ExportInv, StoreRestarts
    PROVE  RowsInv' /\ MakeInv' /\ AccountInv'
<1> USE DEF ExportInv, StoreRestarts, database, history
<1>1. objects' = {} /\ wiped' = wiped \cup objects
  OBVIOUS
<1>2. RowsInv'
  BY <1>1 DEF RowsInv
<1>3. MakeInv'
  BY <1>1 DEF MakeInv
<1>4. AccountInv'
  BY <1>1 DEF AccountInv
<1> QED
  BY <1>2, <1>3, <1>4

(* Every step keeps what is known of the exports. *)
LEMMA ExportsStep ==
    ASSUME ExportInv, [Next]_vars
    PROVE  RowsInv' /\ MakeInv' /\ AccountInv'
<1> DEFINE Good == RowsInv' /\ MakeInv' /\ AccountInv'
<1> USE DEF Refuse, database, store, history
<1>1. ASSUME NEW s \in Apis, Request(s) PROVE Good
  BY <1>1, RequestKeepsExports
<1>2. ASSUME NEW s \in Apis, Connect(s) PROVE Good
  BY <1>2, MoveKeepsExports DEF Connect
<1>3. ASSUME NEW s \in Apis, PoolTimeout(s) \/ DuplicateUser(s) PROVE Good
  BY <1>3, EndKeepsExports DEF PoolTimeout, DuplicateUser
<1>4. ASSUME NEW s \in Apis, Login(s) \/ LoggedIn(s) PROVE Good
  BY <1>4, MoveKeepsExports DEF Login, LoggedIn
<1>5. ASSUME NEW s \in Apis, Build(s) PROVE Good
  BY <1>5, BuildKeepsExports
<1>6. ASSUME NEW s \in Apis, NoEvidence(s) PROVE Good
  BY <1>6, EndKeepsExports DEF NoEvidence
<1>7. ASSUME NEW s \in Apis, Record(s) PROVE Good
  BY <1>7, EndKeepsExports DEF Record
<1>8. ASSUME NEW s \in Apis, RecordFails(s) PROVE Good
  BY <1>8, EndKeepsExports DEF RecordFails
<1>9. ASSUME NEW s \in Apis, HeadBucket(s) PROVE Good
  BY <1>9, MoveKeepsExports DEF HeadBucket
<1>10. ASSUME NEW s \in Apis, CreateBucket(s) PROVE Good
  <2>1. CASE Refuse(s)
    BY <1>10, <2>1, EndKeepsExports DEF CreateBucket
  <2>2. CASE Goes(s, "put") /\ UNCHANGED <<job, history>>
    BY <1>10, <2>2, MoveKeepsExports DEF CreateBucket
  <2> QED
    BY <1>10, <2>1, <2>2 DEF CreateBucket
<1>11. ASSUME NEW s \in Apis, PutObject(s) PROVE Good
  <2>1. CASE Refuse(s)
    <3>1. objects' = objects \/ objects' = objects \cup {job[s].key}
      BY <1>11, <2>1 DEF PutObject
    <3> QED
      BY <1>11, <2>1, <3>1, EndKeepsExports DEF PutObject
  <2>2. CASE /\ Goes(s, "record")
             /\ objects' = objects \cup {job[s].key}
             /\ UNCHANGED <<job, history>>
    BY <1>11, <2>2, PutKeepsExports DEF PutObject
  <2> QED
    BY <1>11, <2>1, <2>2 DEF PutObject
<1>12. ASSUME NEW s \in Apis, List(s) \/ GetObject(s) \/ CommitBeat(s) PROVE Good
  BY <1>12, EndKeepsExports DEF List, GetObject, CommitBeat
<1>13. ASSUME NEW s \in Apis, Download(s) PROVE Good
  <2>1. CASE Refuse(s)
    BY <1>13, <2>1, EndKeepsExports DEF Download
  <2>2. CASE /\ Goes(s, "fetch")
             /\ \E row \in artifacts : row.key = job[s].key
             /\ UNCHANGED <<job, history>>
    BY <1>13, <2>2, MoveKeepsExports DEF Download
  <2> QED
    BY <1>13, <2>1, <2>2 DEF Download
<1>14. ASSUME NEW s \in Apis, Beat(s) PROVE Good
  BY <1>14, MoveKeepsExports DEF Beat
<1>15. ASSUME NEW s \in Apis, Fail(s) PROVE Good
  BY <1>15, EndKeepsExports DEF Fail
<1>16. CASE StoreRestarts
  BY <1>16, RestartKeepsExports
<1>17. CASE UNCHANGED vars
  BY <1>17 DEF vars, ExportInv, RowsInv, MakeInv, AccountInv
<1>18. ASSUME NEW s \in Apis, Refresh(s) PROVE Good
  BY <1>18, MoveKeepsExports DEF Refresh
<1> QED
  BY <1>1, <1>2, <1>3, <1>4, <1>5, <1>6, <1>7, <1>8, <1>9, <1>10, <1>11, <1>12,
     <1>13, <1>14, <1>15, <1>16, <1>17, <1>18 DEF Next, Step

-----------------------------------------------------------------------------
(* The inductive invariant holds in every state: what each session holds   *)
(* and works on, and what is stored and listed, agree (services.py:704-840,*)
(* security.py:86-93).                                                     *)
THEOREM InductiveExports == Spec => []ExportInv
<1>1. ExportInv /\ [Next]_vars => ExportInv'
  BY LocksStep, ExportsStep DEF ExportInv
<1> QED
  BY InitInv, <1>1, PTL DEF Spec

(* Whatever requests are answered at once, an analyst has one row          *)
(* (security.py:86).                                                       *)
THEOREM OneUser == Spec => []OneUserEach
<1>1. ExportInv => OneUserEach
  BY DEF ExportInv
<1> QED
  BY <1>1, InductiveExports, PTL

(* No session waits for the object store with the row of an analyst locked *)
(* (security.py:86-93).                                                    *)
THEOREM LoginsAreShort == Spec => []LoginsNeverWaitForStore
<1>1. ExportInv => LoginsNeverWaitForStore
  BY DEF ExportInv, LockInv, LoginsNeverWaitForStore, AtStore
<1> QED
  BY <1>1, InductiveExports, PTL

(* An artifact that is listed has an object of its own, unless the store   *)
(* has lost it (services.py:718, main.py:457-458).                         *)
THEOREM ListedCanBeDownloaded == Spec => []ListedIsDownloadable
<1>1. ExportInv => ListedIsDownloadable
  BY DEF ExportInv, RowsInv, ListedIsDownloadable
<1> QED
  BY <1>1, InductiveExports, PTL

(* No object is there that nobody lists, works on or was refused; what was *)
(* answered is listed (main.py:383-385).                                   *)
THEOREM NoExportIsLost == Spec => []ExportsAccounted
<1>1. ExportInv => ExportsAccounted
  <2>1. ASSUME ExportInv, NEW k \in objects
        PROVE  k \in {row.key : row \in artifacts} \cup failed
                     \cup {job[s].key : s \in Apis}
    BY <2>1 DEF ExportInv, AccountInv
  <2> QED
    BY <2>1 DEF ExportInv, AccountInv, ExportsAccounted
<1> QED
  BY <1>1, InductiveExports, PTL

-----------------------------------------------------------------------------
(* The types of all variables, which need more than each variable alone.   *)

(* The points at which a session has no connection. *)
Waiting == {"idle", "connect", "work"}

(* The exports whose key is not made yet. *)
Unbuilt == {s \in Apis : job[s].kind \in Exporting /\ job[s].key = 0}

(* Who has a connection is told by his point, and who holds a row has one. *)
PoolInv ==
    /\ pool \subseteq Apis /\ Cardinality(pool) <= PoolSize
    /\ \A s \in Apis : s \in pool <=> pc[s] \notin Waiting
    /\ \A r \in Rows : owner[r] # NoSession => owner[r] \in pool

(* Every key is that of a request of its own, made or still to be made. *)
KeysInv ==
    /\ \A s \in Apis : job[s].key \in 0..used
    /\ requests \in 0..MaxRequests
    /\ used + Cardinality(Unbuilt) <= requests

(* What is stored and listed. *)
StoreInv ==
    /\ artifacts \subseteq [key : 1..used, by : Analysts]
    /\ bucket \in BOOLEAN /\ (~bucket => objects = {})
    /\ objects \subseteq 1..used /\ wiped \subseteq 1..used
    /\ faults \in 0..MaxFaults

TypesInv == ExportInv /\ PoolInv /\ KeysInv /\ StoreInv

LEMMA InitTypes == Init => TypesInv
<1> SUFFICES ASSUME Init PROVE TypesInv
  OBVIOUS
<1> USE NoJobType DEF Init
<1>1. ExportInv
  BY InitInv
<1>2. PoolInv
  BY FS_EmptySet DEF PoolInv, Waiting
<1>3. KeysInv
  <2>1. Unbuilt = {}
    BY DEF Unbuilt
  <2>2. NoJob.key = 0
    BY DEF NoJob
  <2> QED
    BY <2>1, <2>2, FS_EmptySet DEF KeysInv
<1>4. StoreInv
  <2>1. bucket \in BOOLEAN
    OBVIOUS
  <2>2. faults \in 0..MaxFaults
    OBVIOUS
  <2>3. artifacts = {} /\ objects = {} /\ wiped = {}
    OBVIOUS
  <2> QED
    BY <2>1, <2>2, <2>3 DEF StoreInv
<1> QED
  BY <1>1, <1>2, <1>3, <1>4 DEF TypesInv

(* A transaction that ends gives its connection and its locks back. *)
LEMMA EndKeepsPool ==
    ASSUME TypeInv, PoolInv, NEW s \in Apis, NEW point \in Waiting,
           EndTransaction(s), Goes(s, point)
    PROVE  PoolInv'
<1> USE DEF EndTransaction, Released, Goes, Waiting
<1>1. /\ pc'[s] \in Waiting
      /\ \A x \in Apis : x # s => pc'[x] = pc[x]
  BY DEF TypeInv
<1>2. pool' \subseteq pool
  OBVIOUS
<1>3. pool' \subseteq Apis /\ Cardinality(pool') <= PoolSize
  <2>1. IsFiniteSet(pool)
    BY FS_Subset DEF PoolInv
  <2>2. /\ Cardinality(pool) \in Nat /\ Cardinality(pool') \in Nat
        /\ Cardinality(pool') <= Cardinality(pool)
    BY <1>2, <2>1, FS_Subset, FS_CardinalityType
  <2> QED
    BY <1>2, <2>2 DEF PoolInv
<1>4. \A x \in Apis : x \in pool' <=> pc'[x] \notin Waiting
  BY <1>1 DEF PoolInv
<1>5. \A r \in Rows : owner'[r] # NoSession => owner'[r] \in pool'
  BY DEF PoolInv, TypeInv
<1> QED
  BY <1>3, <1>4, <1>5 DEF PoolInv

(* A session that goes on keeps its connection, and may lock a row with it.*)
LEMMA MoveKeepsPool ==
    ASSUME TypeInv, PoolInv, NEW s \in Apis, NEW point \in Points,
           Goes(s, point), pc[s] \in Waiting <=> point \in Waiting,
           pool' = pool,
           \/ owner' = owner
           \/ /\ pc[s] \notin Waiting
              /\ \E row \in Rows : owner' = [owner EXCEPT ![row] = s]
    PROVE  PoolInv'
<1>1. /\ pc'[s] = point
      /\ \A x \in Apis : x # s => pc'[x] = pc[x]
  BY DEF Goes, TypeInv
<1>2. \A x \in Apis : x \in pool' <=> pc'[x] \notin Waiting
  BY <1>1 DEF PoolInv
<1>3. \A r \in Rows :
        owner'[r] = owner[r] \/ (owner'[r] = s /\ pc[s] \notin Waiting)
  BY DEF TypeInv
<1>4. \A r \in Rows : owner'[r] # NoSession => owner'[r] \in pool'
  BY <1>3 DEF PoolInv
<1> QED
  BY <1>2, <1>4 DEF PoolInv

(* A connection is taken only when one is left. *)
LEMMA ConnectKeepsPool ==
    ASSUME TypeInv, PoolInv, NEW s \in Apis, Connect(s)
    PROVE  PoolInv'
<1> USE DEF Connect, Goes, Waiting
<1>1. /\ pc'[s] \in {"read", "login"} /\ pc[s] \in Waiting
      /\ \A x \in Apis : x # s => pc'[x] = pc[x]
  BY DEF TypeInv
<1>2. pool' = pool \cup {s} /\ owner' = owner /\ s \notin pool
  BY <1>1 DEF PoolInv
<1>3. Cardinality(pool') <= PoolSize
  <2>1. IsFiniteSet(pool)
    BY FS_Subset DEF PoolInv
  <2>2. Cardinality(pool) \in Nat
    BY <2>1, FS_CardinalityType
  <2>3. Cardinality(pool \cup {s}) = Cardinality(pool) + 1
    BY <1>2, <2>1, FS_AddElement
  <2>4. Cardinality(pool) < PoolSize
    OBVIOUS
  <2> QED
    BY <1>2, <2>2, <2>3, <2>4
<1>4. \A x \in Apis : x \in pool' <=> pc'[x] \notin Waiting
  BY <1>1, <1>2 DEF PoolInv
<1> QED
  BY <1>2, <1>3, <1>4 DEF PoolInv

LEMMA PoolStep ==
    ASSUME TypeInv, PoolInv, [Next]_vars
    PROVE  PoolInv'
<1> USE DEF Refuse, End
<1>0. "idle" \in Waiting /\ "work" \in Waiting /\ "connect" \in Waiting
  BY DEF Waiting
<1>1. ASSUME NEW s \in Apis, Request(s) PROVE PoolInv'
  <2>1. PICK point \in {"work", "connect"} : Goes(s, point)
    BY <1>1 DEF Request
  <2> QED
    BY <1>1, <2>1, MoveKeepsPool DEF Request, Waiting
<1>2. ASSUME NEW s \in Apis, Connect(s) PROVE PoolInv'
  BY <1>2, ConnectKeepsPool
<1>3. ASSUME NEW s \in Apis, End(s) PROVE PoolInv'
  BY <1>0, <1>3, EndKeepsPool
<1>4. ASSUME NEW s \in Apis, Login(s) PROVE PoolInv'
  <2>1. job[s].analyst \in Rows
    BY DEF TypeInv
  <2> QED
    BY <1>4, <2>1, MoveKeepsPool DEF Login, Waiting
<1>5. ASSUME NEW s \in Apis, LoggedIn(s) PROVE PoolInv'
  BY <1>0, <1>5, EndKeepsPool DEF LoggedIn
<1>6. ASSUME NEW s \in Apis, Build(s) PROVE PoolInv'
  BY <1>6, MoveKeepsPool DEF Build, Waiting
<1>7. ASSUME NEW s \in Apis, HeadBucket(s) PROVE PoolInv'
  BY <1>7, MoveKeepsPool DEF HeadBucket, Waiting
<1>8. ASSUME NEW s \in Apis, CreateBucket(s) PROVE PoolInv'
  BY <1>8, <1>3, MoveKeepsPool DEF CreateBucket, Waiting
<1>9. ASSUME NEW s \in Apis, PutObject(s) PROVE PoolInv'
  BY <1>9, <1>3, MoveKeepsPool DEF PutObject, Waiting
<1>10. ASSUME NEW s \in Apis, Download(s) PROVE PoolInv'
  BY <1>10, <1>3, MoveKeepsPool DEF Download, Waiting
<1>11. ASSUME NEW s \in Apis, Beat(s) PROVE PoolInv'
  BY <1>11, MoveKeepsPool DEF Beat, Waiting
<1>12. ASSUME NEW s \in Apis,
              \/ PoolTimeout(s) \/ DuplicateUser(s) \/ NoEvidence(s)
              \/ Record(s) \/ RecordFails(s) \/ List(s) \/ GetObject(s)
              \/ CommitBeat(s) \/ Fail(s)
       PROVE  End(s)
  BY <1>12 DEF PoolTimeout, DuplicateUser, NoEvidence, Record, RecordFails, List,
               GetObject, CommitBeat, Fail
<1>13. CASE StoreRestarts
  BY <1>13 DEF StoreRestarts, PoolInv
<1>14. CASE UNCHANGED vars
  BY <1>14 DEF vars, PoolInv
<1>15. ASSUME NEW s \in Apis, Refresh(s) PROVE PoolInv'
  BY <1>15, MoveKeepsPool DEF Refresh, Waiting
<1> QED
  BY <1>1, <1>2, <1>3, <1>4, <1>5, <1>6, <1>7, <1>8, <1>9, <1>10, <1>11, <1>12,
     <1>13, <1>14, <1>15 DEF Next, Step

(* A subset of the sessions is finite, and its number grows by one at most *)
(* with one session more.                                                  *)
LEMMA SessionsCount ==
    /\ \A S \in SUBSET Apis :
        IsFiniteSet(S) /\ Cardinality(S) \in Nat
    /\ \A S \in SUBSET Apis, s \in Apis :
        s \notin S => Cardinality(S \cup {s}) = Cardinality(S) + 1
    /\ \A S, T \in SUBSET Apis : S \subseteq T => Cardinality(S) <= Cardinality(T)
<1>1. \A S \in SUBSET Apis : IsFiniteSet(S)
  BY FS_Subset
<1> QED
  BY <1>1, FS_CardinalityType, FS_AddElement, FS_Subset

LEMMA RequestKeepsKeys ==
    ASSUME TypeInv, KeysInv, NEW s \in Apis, Request(s)
    PROVE  KeysInv'
<1> USE DEF Request
<1>1. PICK kind \in Kinds, a \in Analysts, k \in 0..used :
            job' = [job EXCEPT ![s] = [kind |-> kind, analyst |-> a, key |-> k]]
  OBVIOUS
<1>2. /\ job'[s].key \in 0..used
      /\ \A x \in Apis : x # s => job'[x] = job[x]
  BY <1>1 DEF TypeInv
<1>3. Cardinality(Unbuilt') <= Cardinality(Unbuilt) + 1
  <2>1. Unbuilt \in SUBSET Apis /\ Unbuilt' \in SUBSET Apis
    BY DEF Unbuilt
  <2>2. Unbuilt' \subseteq Unbuilt \cup {s}
    BY <1>2 DEF Unbuilt
  <2>3. /\ Cardinality(Unbuilt) \in Nat /\ Cardinality(Unbuilt') \in Nat
        /\ Cardinality(Unbuilt') <= Cardinality(Unbuilt \cup {s})
    BY <2>1, <2>2, SessionsCount
  <2>4. CASE s \in Unbuilt
    <3>1. Unbuilt \cup {s} = Unbuilt
      BY <2>4
    <3>2. Cardinality(Unbuilt \cup {s}) = Cardinality(Unbuilt)
      BY <3>1, Zenon
    <3> QED
      BY <2>3, <3>2
  <2>5. CASE s \notin Unbuilt
    <3>1. Cardinality(Unbuilt \cup {s}) = Cardinality(Unbuilt) + 1
      BY <2>1, <2>5, SessionsCount
    <3> QED
      BY <2>3, <3>1
  <2> QED
    BY <2>4, <2>5
<1>4. Cardinality(Unbuilt) \in Nat /\ Cardinality(Unbuilt') \in Nat
  BY SessionsCount DEF Unbuilt
<1>5. used' = used /\ requests' = requests + 1 /\ requests < MaxRequests
  OBVIOUS
<1>6. used' + Cardinality(Unbuilt') <= requests' /\ requests' \in 0..MaxRequests
  BY <1>3, <1>4, <1>5 DEF KeysInv, TypeInv
<1> QED
  BY <1>2, <1>5, <1>6 DEF KeysInv

(* A key that is made takes the place of the export that waited for it. *)
LEMMA BuildKeepsKeys ==
    ASSUME TypeInv, MakeInv, KeysInv, NEW s \in Apis, Build(s)
    PROVE  KeysInv'
<1> USE DEF Build
<1>1. /\ used \in Nat /\ used' = used + 1 /\ requests' = requests
      /\ job'[s].key = used + 1
      /\ \A x \in Apis : x # s => job'[x] = job[x]
  BY DEF TypeInv
<1>2. \A x \in Apis : job'[x].key \in 0..used'
  BY <1>1 DEF KeysInv
<1>3. s \in Unbuilt
  BY DEF MakeInv, Unbuilt
<1>4. s \notin Unbuilt' /\ Unbuilt' = Unbuilt \ {s}
  BY <1>1 DEF Unbuilt
<1>5. /\ Unbuilt \in SUBSET Apis /\ Unbuilt' \in SUBSET Apis
      /\ Unbuilt = Unbuilt' \cup {s}
  BY <1>3, <1>4 DEF Unbuilt
<1>6. /\ Cardinality(Unbuilt') \in Nat
      /\ Cardinality(Unbuilt) = Cardinality(Unbuilt') + 1
  BY <1>4, <1>5, SessionsCount
<1>7. used' + Cardinality(Unbuilt') <= requests'
  BY <1>1, <1>6 DEF KeysInv
<1> QED
  BY <1>1, <1>2, <1>7 DEF KeysInv

(* No other step makes a key, and a session that ends forgets its request. *)
LEMMA OthersKeepKeys ==
    ASSUME TypeInv, KeysInv, used' = used, requests' = requests,
           job' = job \/ \E s \in Apis : job' = [job EXCEPT ![s] = NoJob]
    PROVE  KeysInv'
<1>1. NoJob.key = 0 /\ NoJob.kind \notin Exporting
  BY DEF NoJob
<1>2. \A x \in Apis : job'[x] = job[x] \/ job'[x] = NoJob
  BY DEF TypeInv
<1>3. /\ Unbuilt \in SUBSET Apis /\ Unbuilt' \in SUBSET Apis
      /\ Unbuilt' \subseteq Unbuilt
  BY <1>1, <1>2 DEF Unbuilt
<1>4. /\ Cardinality(Unbuilt) \in Nat /\ Cardinality(Unbuilt') \in Nat
      /\ Cardinality(Unbuilt') <= Cardinality(Unbuilt)
  BY <1>3, SessionsCount
<1>5. \A x \in Apis : job'[x].key \in 0..used'
  BY <1>1, <1>2 DEF KeysInv, TypeInv
<1>6. used' + Cardinality(Unbuilt') <= requests'
  BY <1>4 DEF KeysInv, TypeInv
<1> QED
  BY <1>5, <1>6 DEF KeysInv

LEMMA KeysStep ==
    ASSUME ExportInv, KeysInv, [Next]_vars
    PROVE  KeysInv'
<1> USE DEF ExportInv
<1>1. ASSUME NEW s \in Apis, Request(s) PROVE KeysInv'
  BY <1>1, RequestKeepsKeys
<1>2. ASSUME NEW s \in Apis, Build(s) PROVE KeysInv'
  BY <1>2, BuildKeepsKeys
<1>3. ASSUME NEW s \in Apis, Step(s) \/ Fail(s), ~Build(s) PROVE KeysInv'
  <2> USE DEF Refuse, End
  <2>1. used' = used /\ requests' = requests
    BY <1>3 DEF Step, Connect, PoolTimeout, Login, DuplicateUser, LoggedIn,
        Refresh, NoEvidence, HeadBucket, CreateBucket, PutObject, Record,
        RecordFails, List, Download, GetObject, Beat, CommitBeat, Fail
  <2>2. job' = job \/ job' = [job EXCEPT ![s] = NoJob]
    BY <1>3 DEF Step, Connect, PoolTimeout, Login, DuplicateUser, LoggedIn,
        Refresh, NoEvidence, HeadBucket, CreateBucket, PutObject, Record,
        RecordFails, List, Download, GetObject, Beat, CommitBeat, Fail
  <2> QED
    BY <2>1, <2>2, OthersKeepKeys
<1>4. CASE StoreRestarts \/ UNCHANGED vars
  BY <1>4, OthersKeepKeys DEF StoreRestarts, vars
<1> QED
  BY <1>1, <1>2, <1>3, <1>4 DEF Next

(* What a step does to the artifacts and the objects; keys are never taken *)
(* back.                                                                   *)
LEMMA StoreStep ==
    ASSUME ExportInv, StoreInv, [Next]_vars
    PROVE  StoreInv'
<1> USE DEF database, store, history, Refuse, End
<1>1. used \in Nat /\ used' \in {used, used + 1}
  BY DEF ExportInv, TypeInv, Next, Step, Request, Connect, PoolTimeout, Login,
     DuplicateUser, LoggedIn, Refresh, Build, NoEvidence, HeadBucket, CreateBucket,
     PutObject, Record, RecordFails, List, Download, GetObject, Beat, CommitBeat, Fail,
     StoreRestarts, vars
<1>2. faults' = faults \/ (faults < MaxFaults /\ faults' = faults + 1)
  BY DEF Fault, Sound, Next, Step, Request, Connect, PoolTimeout, Login,
     DuplicateUser, LoggedIn, Refresh, Build, NoEvidence, HeadBucket, CreateBucket,
     PutObject, Record, RecordFails, List, Download, GetObject, Beat, CommitBeat, Fail,
     StoreRestarts, vars
<1>3. \A s \in Apis : pc[s] \in {"put", "record"} =>
        job[s].key \in 1..used /\ Artifact(s) \in [key : 1..used, by : Analysts]
  BY DEF ExportInv, MakeInv, TypeInv, Artifact
<1>4. \/ artifacts' = artifacts
      \/ \E s \in Apis : /\ pc[s] = "record"
                         /\ artifacts' = artifacts \cup {Artifact(s)}
  BY DEF Next, Step, Request, Connect, PoolTimeout, Login,
     DuplicateUser, LoggedIn, Refresh, Build, NoEvidence, HeadBucket, CreateBucket,
     PutObject, Record, RecordFails, List, Download, GetObject, Beat, CommitBeat, Fail,
     StoreRestarts, vars
<1>5. \/ UNCHANGED <<bucket, objects, wiped>>
      \/ bucket' = TRUE /\ UNCHANGED <<objects, wiped>>
      \/ \E s \in Apis : /\ pc[s] = "put" /\ bucket
                         /\ objects' = objects \cup {job[s].key}
                         /\ UNCHANGED <<bucket, wiped>>
      \/ bucket' = FALSE /\ objects' = {} /\ wiped' = wiped \cup objects
  <2>1. ASSUME NEW s \in Apis, PutObject(s)
        PROVE  \/ UNCHANGED <<bucket, objects, wiped>>
               \/ /\ pc[s] = "put" /\ bucket
                  /\ objects' = objects \cup {job[s].key}
                  /\ UNCHANGED <<bucket, wiped>>
    BY <2>1 DEF PutObject
  <2>2. ASSUME NEW s \in Apis, CreateBucket(s)
        PROVE  bucket' = TRUE /\ UNCHANGED <<objects, wiped>>
    BY <2>2 DEF CreateBucket
  <2>3. CASE StoreRestarts
    BY <2>3 DEF StoreRestarts
  <2>4. ASSUME NEW s \in Apis, Request(s) \/ Step(s) \/ Fail(s),
               ~PutObject(s), ~CreateBucket(s)
        PROVE  UNCHANGED <<bucket, objects, wiped>>
    BY <2>4 DEF Step, Request, Connect, PoolTimeout, Login, DuplicateUser, LoggedIn,
       Refresh, Build, NoEvidence, HeadBucket, Record, RecordFails, List, Download,
       GetObject, Beat, CommitBeat, Fail
  <2> QED
    BY <2>1, <2>2, <2>3, <2>4 DEF Next, vars
<1>6. 1..used \subseteq 1..used'
  BY <1>1
<1>7. artifacts' \subseteq [key : 1..used', by : Analysts]
  <2>1. artifacts' \subseteq [key : 1..used, by : Analysts]
    BY <1>3, <1>4 DEF StoreInv
  <2>2. [key : 1..used, by : Analysts] \subseteq [key : 1..used', by : Analysts]
    BY <1>6
  <2> QED
    BY <2>1, <2>2
<1>8. bucket' \in BOOLEAN /\ (~bucket' => objects' = {})
  BY <1>5 DEF StoreInv
<1>9. objects' \subseteq 1..used' /\ wiped' \subseteq 1..used'
  <2>1. objects' \subseteq 1..used /\ wiped' \subseteq 1..used
    BY <1>3, <1>5 DEF StoreInv
  <2> QED
    BY <2>1, <1>6
<1>10. faults' \in 0..MaxFaults
  BY <1>2 DEF StoreInv
<1> QED
  BY <1>7, <1>8, <1>9, <1>10 DEF StoreInv

-----------------------------------------------------------------------------
(* Connections, keys, artifacts and objects stay within what is known of   *)
(* them (database.py:17, services.py:705, object_store.py).                *)
THEOREM TypesKept == Spec => []TypesInv
<1>1. TypesInv /\ [Next]_vars => TypesInv'
  BY LocksStep, ExportsStep, PoolStep, KeysStep, StoreStep DEF TypesInv, ExportInv
<1> QED
  BY InitTypes, <1>1, PTL DEF Spec

(* Every variable has its type: no more connections are in use than the    *)
(* pool has, a session that holds a row has one of them, and no more keys  *)
(* are made than exports were asked for (database.py:17, services.py:705). *)
THEOREM ExportTypes == Spec => []TypeOK
<1>1. TypesInv => TypeOK
  <2> SUFFICES ASSUME TypesInv PROVE TypeOK
    OBVIOUS
  <2> USE DEF TypesInv, ExportInv
  <2>1. /\ users \in [Analysts -> Nat]
        /\ pc \in [Apis -> Points]
        /\ known \in [Apis -> BOOLEAN]
    BY DEF TypeInv
  <2>2. /\ artifacts \subseteq [key : 1..used, by : Analysts]
        /\ acked \subseteq [key : 1..used, by : Analysts]
    BY DEF StoreInv, AccountInv
  <2>3. /\ bucket \in BOOLEAN
        /\ objects \subseteq 1..used /\ (~bucket => objects = {})
    BY DEF StoreInv
  <2>4. /\ pool \subseteq Apis /\ Cardinality(pool) <= PoolSize
        /\ \A s \in pool : pc[s] \notin {"idle", "connect", "work"}
    BY DEF PoolInv, Waiting
  <2>5. owner \in [Rows -> pool \cup {NoSession}]
    BY DEF TypeInv, PoolInv
  <2>6. job \in [Apis -> [kind : RequestKinds, analyst : Analysts, key : 0..used]]
    <3>1. ASSUME NEW s \in Apis
          PROVE  job[s] \in [kind : RequestKinds, analyst : Analysts, key : 0..used]
      <4>1. job[s] \in [kind : RequestKinds, analyst : Analysts, key : Nat]
        BY DEF TypeInv
      <4>2. job[s].key \in 0..used
        BY DEF KeysInv
      <4> QED
        BY <4>1, <4>2
    <3> QED
      BY <3>1 DEF TypeInv
  <2>7. used \in 0..requests /\ requests \in 0..MaxRequests
    <3>1. Cardinality(Unbuilt) \in Nat
      BY SessionsCount DEF Unbuilt
    <3> QED
      BY <3>1 DEF KeysInv, TypeInv
  <2>8. failed \subseteq 1..used /\ wiped \subseteq 1..used /\ broken \subseteq 1..used
    BY DEF AccountInv, StoreInv, RowsInv
  <2>9. faults \in 0..MaxFaults
    BY DEF StoreInv
  <2> QED
    BY <2>1, <2>2, <2>3, <2>4, <2>5, <2>6, <2>7, <2>8, <2>9 DEF TypeOK
<1> QED
  BY <1>1, TypesKept, PTL
-----------------------------------------------------------------------------
(* Who waits for a row waits for a session that waits for nobody: it is    *)
(* about to commit, or at work on an export, where it needs no other row.  *)
(* So no circle of waiting sessions comes about, although a summary keeps  *)
(* the rows of the fleet while it waits for the object store               *)
(* (security.py:86-93, services.py:823).                                   *)
NoCircles ==
    \A r \in Rows : owner[r] # NoSession =>
        /\ owner[r] \in pool
        /\ pc[owner[r]] \in IF r = Fleet THEN Making \cup {"commit"} ELSE {"logged"}

FleetRowInv ==
    owner[Fleet] # NoSession => pc[owner[Fleet]] \in Making \cup {"commit"}

LEMMA FleetRowStep ==
    ASSUME TypeInv, FleetRowInv, [Next]_vars
    PROVE  FleetRowInv'
<1> USE DEF Refuse
<1>1. ASSUME NEW s \in Apis, NEW point \in Points, Goes(s, point),
             \/ pc[s] \notin Making \cup {"commit"}
             \/ point \in Making \cup {"commit"},
             \/ owner'[Fleet] = owner[Fleet]
             \/ owner'[Fleet] = s /\ point \in Making \cup {"commit"}
      PROVE  FleetRowInv'
  <2>1. pc'[s] = point /\ \A x \in Apis : x # s => pc'[x] = pc[x]
    BY <1>1 DEF Goes, TypeInv
  <2>2. owner[Fleet] \in Apis \cup {NoSession}
    BY DEF TypeInv
  <2> QED
    BY <1>1, <2>1, <2>2 DEF FleetRowInv
<1>2. ASSUME NEW s \in Apis, NEW point \in Points, Goes(s, point), EndTransaction(s)
      PROVE  FleetRowInv'
  <2>1. \A x \in Apis : x # s => pc'[x] = pc[x]
    BY <1>2 DEF Goes, TypeInv
  <2>2. /\ owner[Fleet] \in Apis \cup {NoSession}
        /\ owner'[Fleet] = IF owner[Fleet] = s THEN NoSession ELSE owner[Fleet]
    BY <1>2 DEF EndTransaction, Released, TypeInv
  <2> QED
    BY <2>1, <2>2 DEF FleetRowInv
<1>3. ASSUME NEW s \in Apis, End(s) PROVE FleetRowInv'
  BY <1>2, <1>3 DEF End
<1>4. ASSUME NEW s \in Apis, Request(s) PROVE FleetRowInv'
  <2>1. PICK point \in {"work", "connect"} : Goes(s, point)
    BY <1>4 DEF Request
  <2> QED
    BY <1>1, <1>4, <2>1 DEF Request
<1>5. ASSUME NEW s \in Apis, Connect(s) PROVE FleetRowInv'
  <2>1. PICK point \in {"read", "login"} : Goes(s, point)
    BY <1>5 DEF Connect
  <2> QED
    BY <1>1, <1>5, <2>1 DEF Connect
<1>6. ASSUME NEW s \in Apis, Login(s) PROVE FleetRowInv'
  <2>1. owner'[Fleet] = owner[Fleet]
    BY <1>6 DEF Login, TypeInv
  <2> QED
    BY <1>1, <1>6, <2>1 DEF Login
<1>7. ASSUME NEW s \in Apis, LoggedIn(s) PROVE FleetRowInv'
  BY <1>2, <1>7 DEF LoggedIn
<1>8. ASSUME NEW s \in Apis, Build(s) PROVE FleetRowInv'
  <2>1. owner'[Fleet] = owner[Fleet] \/ owner'[Fleet] = s
    BY <1>8 DEF Build, TypeInv
  <2> QED
    BY <1>1, <1>8, <2>1 DEF Build
<1>9. ASSUME NEW s \in Apis, HeadBucket(s) PROVE FleetRowInv'
  <2>1. PICK point \in {"put", "create"} : Goes(s, point)
    BY <1>9 DEF HeadBucket
  <2> QED
    BY <1>1, <1>9, <2>1 DEF HeadBucket
<1>10. ASSUME NEW s \in Apis, CreateBucket(s) PROVE FleetRowInv'
  BY <1>10, <1>1, <1>3 DEF CreateBucket
<1>11. ASSUME NEW s \in Apis, PutObject(s) PROVE FleetRowInv'
  BY <1>11, <1>1, <1>3 DEF PutObject
<1>12. ASSUME NEW s \in Apis, Download(s) PROVE FleetRowInv'
  BY <1>12, <1>1, <1>3 DEF Download
<1>13. ASSUME NEW s \in Apis, Beat(s) PROVE FleetRowInv'
  <2>1. owner'[Fleet] = s
    BY <1>13 DEF Beat, TypeInv
  <2> QED
    BY <1>13, <2>1, <1>1 DEF Beat
<1>14. ASSUME NEW s \in Apis,
              \/ PoolTimeout(s) \/ DuplicateUser(s) \/ NoEvidence(s)
              \/ Record(s) \/ RecordFails(s) \/ List(s) \/ GetObject(s)
              \/ CommitBeat(s) \/ Fail(s)
       PROVE  End(s)
  BY <1>14 DEF PoolTimeout, DuplicateUser, NoEvidence, Record, RecordFails, List,
               GetObject, CommitBeat, Fail
<1>15. CASE StoreRestarts
  BY <1>15 DEF StoreRestarts, FleetRowInv
<1>16. CASE UNCHANGED vars
  BY <1>16 DEF vars, FleetRowInv
<1>17. ASSUME NEW s \in Apis, Refresh(s) PROVE FleetRowInv'
  BY <1>1, <1>17 DEF Refresh
<1> QED
  BY <1>3, <1>4, <1>5, <1>6, <1>7, <1>8, <1>9, <1>10, <1>11, <1>12, <1>13, <1>14,
     <1>15, <1>16, <1>17 DEF Next, Step

(* Sessions that wait for each other never wait in a circle                *)
(* (security.py:86-93, services.py:823).                                   *)
THEOREM NobodyWaitsInCircles == Spec => []NoCircles
<1>1. Init => FleetRowInv
  BY DEF Init, FleetRowInv
<1>2. TypesInv /\ FleetRowInv /\ [Next]_vars => FleetRowInv'
  BY FleetRowStep DEF TypesInv, ExportInv
<1>3. TypesInv /\ FleetRowInv => NoCircles
  <2> SUFFICES ASSUME TypesInv, FleetRowInv, NEW r \in Rows, owner[r] # NoSession
               PROVE  /\ owner[r] \in pool
                      /\ pc[owner[r]] \in IF r = Fleet THEN Making \cup {"commit"}
                                                       ELSE {"logged"}
    BY DEF NoCircles
  <2> USE DEF TypesInv, ExportInv
  <2>1. owner[r] \in pool /\ owner[r] \in Apis
    BY DEF PoolInv
  <2>2. CASE r = Fleet
    BY <2>1, <2>2 DEF FleetRowInv
  <2>3. CASE r \in Analysts
    BY <2>1, <2>3 DEF LockInv
  <2> QED
    BY <2>1, <2>2, <2>3
<1> QED
  BY <1>1, <1>2, <1>3, TypesKept, PTL DEF Spec
=============================================================================

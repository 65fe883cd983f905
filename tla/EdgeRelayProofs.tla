-------------------------- MODULE EdgeRelayProofs --------------------------
(***************************************************************************)
(* Proofs about EdgeRelay, for any payloads, handler threads, spool limit  *)
(* and bounds.                                                             *)
(***************************************************************************)
EXTENDS EdgeRelay, SequenceFacts

USE DEF Line, Kinds

(* KindOf and OtherKind yield kinds. *)
LEMMA KindsAreKinds ==
    /\ \A p : KindOf(p) \in Kinds
    /\ \A k : OtherKind(k) \in Kinds
BY DEF KindOf, OtherKind

(* LastLines keeps lines of the spool, at most MaxSpool of them, and the *)
(* newest one is among them.                                             *)
LEMMA LastLinesFacts ==
    ASSUME NEW s \in Seq(Line), NEW x \in Line
    PROVE  /\ LastLines(Append(s, x)) \in Seq(Line)
           /\ Range(LastLines(Append(s, x))) \subseteq Range(s) \cup {x}
           /\ x \in Range(LastLines(Append(s, x)))
           /\ Len(LastLines(Append(s, x))) <= MaxSpool
<1> DEFINE e == Append(s, x)
           n == Len(e)
<1>1. e \in Seq(Line) /\ n \in Nat /\ n = Len(s) + 1 /\ e[n] = x
  OBVIOUS
<1>2. Range(e) = Range(s) \cup {x}
  BY RangeAppend
<1>3. MaxSpool \in Nat /\ MaxSpool > 0
  BY MaxSpoolAssumption
<1>4. CASE n > MaxSpool
  <2> DEFINE m == n - MaxSpool + 1
             kept == SubSeq(e, m, n)
  <2>1. m \in 1..n /\ m \in 1..n + 1 /\ n \in 0..n
    BY <1>1, <1>3, <1>4
  <2>2. kept \in Seq(Line) /\ Range(kept) \subseteq Range(e) /\ Len(kept) = MaxSpool
    <3> HIDE DEF e, n, m
    <3>1. kept \in Seq(Line) /\ Range(kept) \subseteq Range(e)
            /\ Len(kept) = IF m <= n THEN n - m + 1 ELSE 0
      BY <1>1, <2>1, RangeSubSeq DEF n
    <3> QED
      BY <3>1, <1>1, <1>3, <2>1 DEF m
  <2>3. kept[MaxSpool] = x /\ MaxSpool \in DOMAIN kept
    <3> HIDE DEF e, n, m
    <3>1. MaxSpool \in 1..(n - m + 1) /\ m + MaxSpool - 1 = n
      BY <1>1, <1>3, <2>1 DEF m
    <3>2. kept[MaxSpool] = e[m + MaxSpool - 1]
      BY <3>1, <1>1, <1>3, <2>1 DEF kept
    <3>3. DOMAIN kept = 1..Len(kept)
      BY <2>2
    <3> QED
      BY <3>1, <3>2, <3>3, <2>2, <1>1, <1>3
  <2>4. LastLines(e) = kept
    BY <1>4 DEF LastLines
  <2>5. x \in Range(kept)
    BY <2>3 DEF Range
  <2> HIDE DEF kept
  <2> QED
    BY <1>2, <1>3, <2>2, <2>4, <2>5
<1>5. CASE ~(n > MaxSpool)
  <2>1. LastLines(e) = e
    BY <1>5 DEF LastLines
  <2> QED
    BY <1>1, <1>2, <1>3, <1>5, <2>1
<1> QED
  BY <1>4, <1>5

(* What a crash leaves of a file is a sequence of lines, no longer than   *)
(* the one being written, and no payload is made up.                      *)
LEMMA RemainsFacts ==
    ASSUME NEW s \in Seq(Line), NEW r \in Remains(s)
    PROVE  /\ r \in Seq(Line)
           /\ Len(r) <= Len(s)
           /\ Range(r) \subseteq Range(s) \cup {Torn}
<1>1. Len(s) \in Nat
  OBVIOUS
<1>2. CASE \E n \in 0..Len(s) : r = SubSeq(s, 1, n)
  <2>1. PICK n \in 0..Len(s) : r = SubSeq(s, 1, n)
    BY <1>2
  <2>2. 1 \in 1..Len(s) + 1
    BY <1>1
  <2>3. /\ r \in Seq(Line)
        /\ Len(r) = IF 1 <= n THEN n - 1 + 1 ELSE 0
        /\ Range(r) \subseteq Range(s)
    BY <2>1, <2>2, RangeSubSeq
  <2> QED
    BY <1>1, <2>3
<1>3. CASE \E n \in 0..Len(s) - 1 : r = Append(SubSeq(s, 1, n), Torn)
  <2>1. PICK n \in 0..Len(s) - 1 : r = Append(SubSeq(s, 1, n), Torn)
    BY <1>3
  <2> DEFINE q == SubSeq(s, 1, n)
  <2>2. 1 \in 1..Len(s) + 1 /\ n \in 0..Len(s)
    BY <1>1
  <2>3. q \in Seq(Line) /\ Range(q) \subseteq Range(s)
          /\ Len(q) = IF 1 <= n THEN n - 1 + 1 ELSE 0
    BY <2>2, RangeSubSeq
  <2>4. r = Append(q, Torn)
    BY <2>1
  <2> HIDE DEF q
  <2>5. r \in Seq(Line) /\ Len(r) = Len(q) + 1
    BY <2>3, <2>4
  <2>6. Range(r) = Range(q) \cup {Torn}
    BY <2>3, <2>4, RangeAppend
  <2> QED
    BY <1>1, <2>3, <2>5, <2>6
<1> QED
  BY <1>2, <1>3 DEF Remains

(* The files a crash leaves are sequences of lines, none of them longer  *)
(* than before the crash or than what was being written, with no payload *)
(* made up; a file nobody was writing is as it was.                      *)
LEMMA CrashFilesFacts ==
    ASSUME TypeOK, CrashFiles
    PROVE  /\ spool' \in [Kinds -> Seq(Line)]
           /\ \A k \in Kinds :
                \/ spool'[k] = spool[k]
                \/ /\ lock = Replayer /\ k = rkind
                   /\ spool'[k] \in Remains(rfailed)
                \/ /\ lock \in Threads /\ k = KindOf(hjob[lock])
                   /\ spool'[k] \in Remains(hbuf[lock])
<1>1. CASE UNCHANGED spool
  BY <1>1 DEF TypeOK
<1>2. CASE /\ lock = Replayer
           /\ \E r \in Remains(rfailed) : spool' = [spool EXCEPT ![rkind] = r]
  <2>1. PICK r \in Remains(rfailed) : spool' = [spool EXCEPT ![rkind] = r]
    BY <1>2
  <2>2. r \in Seq(Line)
    BY RemainsFacts DEF TypeOK
  <2> QED
    BY <1>2, <2>1, <2>2 DEF TypeOK
<1>3. CASE /\ lock \in Threads
           /\ \E r \in Remains(hbuf[lock]) :
                spool' = [spool EXCEPT ![KindOf(hjob[lock])] = r]
  <2>1. PICK r \in Remains(hbuf[lock]) :
          spool' = [spool EXCEPT ![KindOf(hjob[lock])] = r]
    BY <1>3
  <2>2. hbuf[lock] \in Seq(Line)
    BY <1>3 DEF TypeOK
  <2>3. r \in Seq(Line)
    BY <2>2, RemainsFacts
  <2>4. KindOf(hjob[lock]) \in Kinds
    BY KindsAreKinds
  <2> QED
    BY <1>3, <2>1, <2>3, <2>4 DEF TypeOK
<1> QED
  BY <1>1, <1>2, <1>3 DEF CrashFiles

-----------------------------------------------------------------------------
(* Type correctness, one lemma per thread. *)

LEMMA TypeInit == Init => TypeOK
BY BoundsAssumption, DistinctAssumption DEF Init, TypeOK

LEMMA TypeHandler ==
    ASSUME TypeOK, NEW t \in Threads, Handler(t)
    PROVE  TypeOK'
<1> USE DEF Finish, ForwardFails, replayVars, answerVars, lossVars
<1>1. hpc[t] # "idle" => hjob[t] \in Payload
  BY DEF TypeOK
<1>2. CASE HandlerForwards(t)
  BY <1>1, <1>2, DistinctAssumption DEF TypeOK, HandlerForwards
<1>3. CASE HandlerFailsOver(t)
  BY <1>1, <1>3, BoundsAssumption DEF TypeOK, HandlerFailsOver
<1>4. CASE HandlerErrs(t)
  BY <1>1, <1>4, BoundsAssumption, DistinctAssumption DEF TypeOK, HandlerErrs
<1>5. CASE QueueOpen(t)
  <2> DEFINE k == KindOf(hjob[t])
             existing == Append(spool[k], hjob[t])
             kept == LastLines(existing)
  <2>1. hjob[t] \in Payload /\ k \in Kinds /\ spool[k] \in Seq(Line)
    BY <1>1, <1>5, KindsAreKinds DEF TypeOK, QueueOpen
  <2>2. kept \in Seq(Line)
    BY <2>1, LastLinesFacts
  <2>3. hbuf' = [hbuf EXCEPT ![t] = kept] /\ spool' = [spool EXCEPT ![k] = <<>>]
    BY <1>5 DEF QueueOpen
  <2>4. hbuf' \in [Threads -> Seq(Line)] /\ spool' \in [Kinds -> Seq(Line)]
    BY <2>1, <2>2, <2>3 DEF TypeOK
  <2>5. overflowed' \subseteq Payload
    BY <1>5 DEF QueueOpen, TypeOK
  <2> QED
    BY <1>5, <2>1, <2>4, <2>5 DEF QueueOpen, TypeOK
<1>6. CASE QueueWrite(t)
  <2> DEFINE k == KindOf(hjob[t])
  <2>1. k \in Kinds /\ hjob[t] \in Payload /\ hbuf[t] \in Seq(Line)
    BY <1>1, <1>6, KindsAreKinds DEF TypeOK, QueueWrite
  <2>2. spool' = [spool EXCEPT ![k] = hbuf[t]]
    BY <1>6 DEF QueueWrite
  <2>3. spool' \in [Kinds -> Seq(Line)]
    BY <2>1, <2>2 DEF TypeOK
  <2> QED
    BY <1>6, <2>1, <2>3, DistinctAssumption DEF QueueWrite, TypeOK
<1> QED
  BY <1>2, <1>3, <1>4, <1>5, <1>6 DEF Handler

LEMMA TypePost ==
    ASSUME TypeOK, NEW t \in Threads, NEW p \in Payload, Post(t, p)
    PROVE  TypeOK'
BY BoundsAssumption, DistinctAssumption
DEF TypeOK, Post, replayVars, answerVars, lossVars

LEMMA TypeReplay ==
    ASSUME TypeOK, Replay
    PROVE  TypeOK'
<1> USE DEF NextKind, ForwardFails, handlerVars, answerVars, lossVars
<1>1. OtherKind(rkind) \in Kinds
  BY KindsAreKinds
<1>2. rlines # <<>> => Head(rlines) \in Line /\ Tail(rlines) \in Seq(Line)
  BY RangeHeadTail DEF TypeOK
<1>3. CASE DrainNothing
  BY <1>1, <1>3 DEF TypeOK, DrainNothing
<1>4. CASE DrainTake
  BY <1>4 DEF TypeOK, DrainTake
<1>5. CASE ReplayForwards
  BY <1>2, <1>5 DEF TypeOK, ReplayForwards
<1>6. CASE ReplayFails
  <2>1. rfailed' \in Seq(Line) /\ rlines' \in Seq(Line)
    BY <1>2, <1>6 DEF TypeOK, ReplayFails
  <2>2. stored' \subseteq Payload /\ faults' \in 0..MaxFaults
    BY <1>2, <1>6, BoundsAssumption DEF TypeOK, ReplayFails
  <2> QED
    BY <1>6, <2>1, <2>2 DEF TypeOK, ReplayFails
<1>7. CASE DrainDone
  BY <1>1, <1>7 DEF TypeOK, DrainDone
<1>8. CASE RewriteOpen
  BY <1>8 DEF TypeOK, RewriteOpen
<1>9. CASE RewriteClose
  BY <1>1, <1>9 DEF TypeOK, RewriteClose
<1> QED
  BY <1>3, <1>4, <1>5, <1>6, <1>7, <1>8, <1>9 DEF Replay

LEMMA TypeCrash ==
    ASSUME TypeOK, Crash
    PROVE  TypeOK'
<1>1. CrashFiles /\ crashLost' = crashLost \cup (Held \ OnDisk(spool'))
  BY DEF Crash
<1>2. spool' \in [Kinds -> Seq(Line)]
  BY <1>1, CrashFilesFacts
<1>3. crashLost' \subseteq Payload
  BY <1>1 DEF TypeOK, Held, OnDisk, InMemory
<1>4. crashes' \in 0..MaxCrashes
  BY BoundsAssumption DEF Crash, TypeOK
<1> QED
  BY <1>2, <1>3, <1>4, DistinctAssumption DEF Crash, TypeOK, answerVars

(* Every variable stays in its type (the state of edge_relay/app.py:25-30 *)
(* and of its threads).                                                   *)
THEOREM TypeCorrect == Spec => []TypeOK
<1>1. TypeOK /\ [Next]_vars => TypeOK'
  <2> SUFFICES ASSUME TypeOK, [Next]_vars
               PROVE  TypeOK'
    OBVIOUS
  <2>1. CASE \E t \in Threads : Handler(t)
    BY <2>1, TypeHandler
  <2>2. CASE \E t \in Threads : \E p \in Payload : Post(t, p)
    BY <2>2, TypePost
  <2>3. CASE Replay
    BY <2>3, TypeReplay
  <2>4. CASE Crash
    BY <2>4, TypeCrash
  <2>5. CASE UNCHANGED vars
    BY <2>5 DEF TypeOK, vars
  <2> QED
    BY <2>1, <2>2, <2>3, <2>4, <2>5 DEF Next
<1> QED
  BY TypeInit, <1>1, PTL DEF Spec

-----------------------------------------------------------------------------
(* The lock, and what it protects. *)

Locking == LockInv /\ NoLostUpdate

LEMMA LockingStep ==
    ASSUME TypeOK, Locking, [Next]_vars
    PROVE  Locking'
<1> USE DistinctAssumption DEF Locking, LockInv, NoLostUpdate
<1> USE DEF handlerVars, replayVars, Finish, NextKind
<1>1. ASSUME NEW t \in Threads, Handler(t)
      PROVE  Locking'
  <2>1. CASE HandlerForwards(t)
    BY <2>1 DEF TypeOK, HandlerForwards
  <2>2. CASE HandlerFailsOver(t)
    BY <2>2 DEF TypeOK, HandlerFailsOver
  <2>3. CASE HandlerErrs(t)
    BY <2>3 DEF TypeOK, HandlerErrs
  <2>4. CASE QueueOpen(t)
    <3>1. KindOf(hjob[t]) \in Kinds
      BY KindsAreKinds
    <3>2. LockInv'
      BY <2>4 DEF TypeOK, QueueOpen
    <3>3. NoLostUpdate'
      BY <2>4, <3>1 DEF TypeOK, QueueOpen
    <3> QED
      BY <3>2, <3>3
  <2>5. CASE QueueWrite(t)
    <3>1. lock = t
      BY <2>5 DEF QueueWrite
    <3>2. \A u \in Threads : hpc'[u] # "write"
      BY <2>5, <3>1 DEF TypeOK, QueueWrite
    <3>3. rpc' # "write"
      BY <2>5, <3>1 DEF TypeOK, QueueWrite
    <3> QED
      BY <2>5, <3>2, <3>3 DEF QueueWrite
  <2> QED
    BY <1>1, <2>1, <2>2, <2>3, <2>4, <2>5 DEF Handler
<1>2. ASSUME NEW t \in Threads, NEW p \in Payload, Post(t, p)
      PROVE  Locking'
  BY <1>2 DEF TypeOK, Post
<1>3. CASE Replay
  <2>1. CASE DrainNothing
    BY <2>1 DEF TypeOK, DrainNothing
  <2>2. CASE DrainTake
    BY <2>2 DEF TypeOK, DrainTake
  <2>3. CASE ReplayForwards
    BY <2>3 DEF TypeOK, ReplayForwards
  <2>4. CASE ReplayFails
    BY <2>4 DEF TypeOK, ReplayFails
  <2>5. CASE DrainDone
    BY <2>5 DEF TypeOK, DrainDone
  <2>6. CASE RewriteOpen
    BY <2>6 DEF TypeOK, RewriteOpen
  <2>7. CASE RewriteClose
    BY <2>7 DEF TypeOK, RewriteClose
  <2> QED
    BY <1>3, <2>1, <2>2, <2>3, <2>4, <2>5, <2>6, <2>7 DEF Replay
<1>4. CASE Crash
  BY <1>4 DEF Crash
<1>5. CASE UNCHANGED vars
  BY <1>5 DEF vars
<1> QED
  BY <1>1, <1>2, <1>3, <1>4, <1>5 DEF Next

(* The lock works (app.py:69, 83, 99): nobody writes a file back over     *)
(* lines he has not read, for any number of handler threads.              *)
THEOREM LockIsSound == Spec => [](LockInv /\ NoLostUpdate)
<1>1. Init => Locking
  BY DistinctAssumption DEF Init, Locking, LockInv, NoLostUpdate
<1>2. TypeOK /\ Locking /\ [Next]_vars => Locking'
  BY LockingStep
<1>3. Spec => []Locking
  BY <1>1, <1>2, TypeCorrect, PTL DEF Spec
<1> QED
  BY <1>3, PTL DEF Locking

-----------------------------------------------------------------------------
(* The bound on the spool. *)

Bounds == SpoolBounded /\ BufferInv /\ BatchInv

LEMMA BoundsHandler ==
    ASSUME TypeOK, Locking, Bounds, NEW t \in Threads, Handler(t)
    PROVE  Bounds'
<1> USE DEF Bounds, SpoolBounded, BufferInv, BatchInv
<1> USE DEF replayVars, Finish
<1>1. CASE HandlerForwards(t)
  BY <1>1 DEF TypeOK, HandlerForwards
<1>2. CASE HandlerFailsOver(t)
  BY <1>2 DEF TypeOK, HandlerFailsOver
<1>3. CASE HandlerErrs(t)
  BY <1>3 DEF TypeOK, HandlerErrs
<1>4. CASE QueueOpen(t)
  <2> DEFINE k == KindOf(hjob[t])
             kept == LastLines(Append(spool[k], hjob[t]))
  <2>1. k \in Kinds /\ hjob[t] \in Payload /\ spool[k] \in Seq(Line)
    BY <1>4, KindsAreKinds DEF TypeOK, QueueOpen
  <2>2. hjob[t] \in Range(kept) /\ Len(kept) <= MaxSpool
    BY <2>1, LastLinesFacts
  <2>3. /\ hbuf' = [hbuf EXCEPT ![t] = kept]
        /\ hpc' = [hpc EXCEPT ![t] = "write"]
        /\ spool' = [spool EXCEPT ![k] = <<>>]
        /\ UNCHANGED <<hjob, rpc, rkind, rlines, rfailed>>
    BY <1>4 DEF QueueOpen
  <2> HIDE DEF kept, k
  <2>4. SpoolBounded'
    BY <2>1, <2>3, MaxSpoolAssumption DEF TypeOK
  <2>5. BufferInv'
    BY <2>2, <2>3 DEF TypeOK
  <2> QED
    BY <2>3, <2>4, <2>5
<1>5. CASE QueueWrite(t)
  <2>1. KindOf(hjob[t]) \in Kinds
    BY KindsAreKinds
  <2>2. SpoolBounded'
    BY <1>5, <2>1 DEF TypeOK, QueueWrite
  <2>3. BufferInv' /\ BatchInv'
    BY <1>5 DEF TypeOK, QueueWrite
  <2> QED
    BY <2>2, <2>3
<1> QED
  BY <1>1, <1>2, <1>3, <1>4, <1>5 DEF Handler

LEMMA BoundsReplay ==
    ASSUME TypeOK, Locking, Bounds, Replay
    PROVE  Bounds'
<1> USE DEF Bounds, SpoolBounded, BufferInv, BatchInv
<1> USE DEF handlerVars, NextKind
<1>1. /\ Len(rlines) \in Nat /\ Len(rfailed) \in Nat
      /\ rlines # <<>> => Len(Tail(rlines)) = Len(rlines) - 1 /\ Head(rlines) \in Line
  BY RangeHeadTail DEF TypeOK
<1>2. CASE DrainNothing
  BY <1>2 DEF TypeOK, DrainNothing
<1>3. CASE DrainTake
  <2>1. Len(spool[rkind]) <= MaxSpool
    BY <1>3 DEF TypeOK
  <2> QED
    BY <1>3, <2>1, MaxSpoolAssumption DEF TypeOK, DrainTake
<1>4. CASE ReplayForwards
  BY <1>1, <1>4, MaxSpoolAssumption DEF TypeOK, ReplayForwards
<1>5. CASE ReplayFails
  <2>1. Len(rfailed') = Len(rfailed) + 1
    BY <1>1, <1>5 DEF TypeOK, ReplayFails
  <2>2. Len(rlines') + Len(rfailed') = Len(rlines) + Len(rfailed)
    BY <1>1, <1>5, <2>1 DEF ReplayFails
  <2> QED
    BY <1>5, <2>2 DEF TypeOK, ReplayFails
<1>6. CASE DrainDone
  BY <1>6 DEF TypeOK, DrainDone
<1>7. CASE RewriteOpen
  BY <1>7, MaxSpoolAssumption DEF TypeOK, RewriteOpen
<1>8. CASE RewriteClose
  <2>1. Len(rfailed) <= MaxSpool
    BY <1>1, <1>8, MaxSpoolAssumption
  <2> QED
    BY <1>8, <2>1, MaxSpoolAssumption DEF TypeOK, RewriteClose
<1> QED
  BY <1>2, <1>3, <1>4, <1>5, <1>6, <1>7, <1>8 DEF Replay

LEMMA BoundsCrash ==
    ASSUME TypeOK, Locking, Bounds, Crash
    PROVE  Bounds'
<1> USE DEF Bounds, SpoolBounded, BufferInv, BatchInv
<1>1. ASSUME NEW k \in Kinds
      PROVE  Len(spool'[k]) <= MaxSpool
  <2>1. \/ spool'[k] = spool[k]
        \/ spool'[k] \in Remains(rfailed)
        \/ (lock \in Threads /\ spool'[k] \in Remains(hbuf[lock]))
    BY CrashFilesFacts DEF Crash
  <2>2. CASE spool'[k] \in Remains(rfailed)
    <3>1. rfailed \in Seq(Line) /\ rlines \in Seq(Line)
      BY DEF TypeOK
    <3>2. Len(rfailed) <= MaxSpool /\ Len(rfailed) \in Nat
      BY <3>1, MaxSpoolAssumption
    <3>3. Len(spool'[k]) <= Len(rfailed) /\ Len(spool'[k]) \in Nat
      BY <2>2, <3>1, RemainsFacts
    <3> QED
      BY <3>2, <3>3, MaxSpoolAssumption
  <2>3. CASE lock \in Threads /\ spool'[k] \in Remains(hbuf[lock])
    <3>1. hbuf[lock] \in Seq(Line) /\ hpc[lock] = "write"
      BY <2>3 DEF TypeOK, Locking, LockInv
    <3>2. Len(hbuf[lock]) <= MaxSpool /\ Len(hbuf[lock]) \in Nat
      BY <2>3, <3>1
    <3>3. Len(spool'[k]) <= Len(hbuf[lock]) /\ Len(spool'[k]) \in Nat
      BY <2>3, <3>1, RemainsFacts
    <3> QED
      BY <3>2, <3>3, MaxSpoolAssumption
  <2> QED
    BY <2>1, <2>2, <2>3
<1> QED
  BY <1>1, MaxSpoolAssumption DEF Crash

LEMMA BoundsStep ==
    ASSUME TypeOK, Locking, Bounds, [Next]_vars
    PROVE  Bounds'
<1>1. ASSUME NEW t \in Threads, NEW p \in Payload, Post(t, p)
      PROVE  Bounds'
  BY <1>1 DEF TypeOK, Post, replayVars, Bounds, SpoolBounded, BufferInv, BatchInv
<1>2. CASE UNCHANGED vars
  BY <1>2 DEF vars, Bounds, SpoolBounded, BufferInv, BatchInv
<1> QED
  BY <1>1, <1>2, BoundsHandler, BoundsReplay, BoundsCrash DEF Next

LEMMA AlwaysBounds == Spec => []Bounds
<1>1. Init => Bounds
  BY MaxSpoolAssumption DEF Init, Bounds, SpoolBounded, BufferInv, BatchInv
<1>2. TypeOK /\ Locking /\ Bounds /\ [Next]_vars => Bounds'
  BY BoundsStep
<1>3. LockInv /\ NoLostUpdate => Locking
  BY DEF Locking
<1> QED
  BY <1>1, <1>2, <1>3, TypeCorrect, LockIsSound, PTL DEF Spec

(* The spool never outgrows MAX_SPOOL_LINES (app.py:72), although the     *)
(* write-back of a drain and a crash do not check it.                     *)
THEOREM SpoolStaysBounded == Spec => []SpoolBounded
<1>1. Bounds => SpoolBounded
  BY DEF Bounds
<1> QED
  BY <1>1, AlwaysBounds, PTL

-----------------------------------------------------------------------------
(* The two kinds. *)

LEMMA OfKindMono ==
    ASSUME NEW s, NEW r, NEW k, OfKind(s, k), Range(r) \subseteq Range(s) \cup {Torn}
    PROVE  OfKind(r, k)
BY DistinctAssumption DEF OfKind

LEMMA OfKindEmpty == \A k : OfKind(<<>>, k)
BY RangeEmpty DEF OfKind

LEMMA KindsHandler ==
    ASSUME TypeOK, Locking, Bounds, KindsApart, NEW t \in Threads, Handler(t)
    PROVE  KindsApart'
<1> USE DEF KindsApart
<1> USE DEF replayVars, Finish
<1>0. ASSUME NEW u \in Threads, hpc[u] # "write"
      PROVE  \A k : OfKind(hbuf[u], k)
  BY <1>0, OfKindEmpty DEF Bounds, BufferInv
<1>1. CASE HandlerForwards(t)
  BY <1>0, <1>1 DEF TypeOK, HandlerForwards, OfKind
<1>2. CASE HandlerFailsOver(t)
  BY <1>2 DEF TypeOK, HandlerFailsOver, OfKind
<1>3. CASE HandlerErrs(t)
  BY <1>0, <1>3 DEF TypeOK, HandlerErrs, OfKind
<1>4. CASE QueueOpen(t)
  <2> DEFINE k == KindOf(hjob[t])
             kept == LastLines(Append(spool[k], hjob[t]))
  <2>1. k \in Kinds /\ hjob[t] \in Payload /\ spool[k] \in Seq(Line)
    BY <1>4, KindsAreKinds DEF TypeOK, QueueOpen
  <2>2. Range(kept) \subseteq Range(spool[k]) \cup {hjob[t]}
    BY <2>1, LastLinesFacts
  <2>3. OfKind(kept, k)
    BY <2>1, <2>2 DEF OfKind
  <2>4. /\ hbuf' = [hbuf EXCEPT ![t] = kept]
        /\ spool' = [spool EXCEPT ![k] = <<>>]
        /\ UNCHANGED <<hjob, rkind, rlines, rfailed>>
    BY <1>4 DEF QueueOpen
  <2> HIDE DEF kept
  <2>5. \A u \in Threads : OfKind(hbuf'[u], KindOf(hjob'[u]))
    BY <2>3, <2>4 DEF TypeOK, OfKind
  <2>6. \A j \in Kinds : OfKind(spool'[j], j)
    BY <2>1, <2>4, OfKindEmpty DEF TypeOK, OfKind
  <2> QED
    BY <2>4, <2>5, <2>6 DEF OfKind
<1>5. CASE QueueWrite(t)
  <2> DEFINE k == KindOf(hjob[t])
  <2>1. /\ k \in Kinds
        /\ spool' = [spool EXCEPT ![k] = hbuf[t]]
        /\ hbuf' = [hbuf EXCEPT ![t] = <<>>]
        /\ hjob' = [hjob EXCEPT ![t] = None]
        /\ UNCHANGED <<rkind, rlines, rfailed>>
    BY <1>5, KindsAreKinds DEF QueueWrite
  <2>2. OfKind(hbuf[t], k)
    OBVIOUS
  <2>3. \A j \in Kinds : OfKind(spool'[j], j)
    BY <2>1, <2>2 DEF TypeOK
  <2>4. \A u \in Threads : OfKind(hbuf'[u], KindOf(hjob'[u]))
    BY <2>1, OfKindEmpty DEF TypeOK
  <2> QED
    BY <2>1, <2>3, <2>4 DEF OfKind
<1> QED
  BY <1>1, <1>2, <1>3, <1>4, <1>5 DEF Handler

LEMMA KindsReplay ==
    ASSUME TypeOK, Locking, Bounds, KindsApart, Replay
    PROVE  KindsApart'
<1> USE DEF KindsApart
<1> USE DEF handlerVars, NextKind
<1>1. /\ rlines \in Seq(Line) /\ rfailed \in Seq(Line)
      /\ rlines # <<>> => /\ Head(rlines) \in Line
                          /\ Range(rlines) = {Head(rlines)} \cup Range(Tail(rlines))
  BY RangeHeadTail DEF TypeOK
<1>2. CASE DrainNothing
  <2>1. rlines = <<>> /\ rfailed = <<>>
    BY <1>2 DEF DrainNothing, Bounds, BatchInv
  <2> QED
    BY <1>2, <2>1, OfKindEmpty DEF DrainNothing, OfKind
<1>3. CASE DrainTake
  <2>1. OfKind(rlines', rkind') /\ OfKind(rfailed', rkind')
    BY <1>3, OfKindEmpty DEF TypeOK, DrainTake, OfKind
  <2>2. \A k \in Kinds : OfKind(spool'[k], k)
    BY <1>3, OfKindEmpty DEF TypeOK, DrainTake
  <2> QED
    BY <1>3, <2>1, <2>2 DEF DrainTake, OfKind
<1>4. CASE ReplayForwards
  BY <1>1, <1>4 DEF ReplayForwards, OfKind
<1>5. CASE ReplayFails
  <2>1. Range(rfailed') = Range(rfailed) \cup {Head(rlines)}
    BY <1>1, <1>5, RangeAppend DEF ReplayFails
  <2>2. OfKind(rfailed', rkind') /\ OfKind(rlines', rkind')
    BY <1>1, <1>5, <2>1 DEF ReplayFails, OfKind
  <2> QED
    BY <1>5, <2>2 DEF ReplayFails, OfKind
<1>6. CASE DrainDone
  BY <1>6, OfKindEmpty DEF DrainDone, OfKind
<1>7. CASE RewriteOpen
  <2>1. \A k \in Kinds : OfKind(spool'[k], k)
    BY <1>7, OfKindEmpty DEF TypeOK, RewriteOpen
  <2> QED
    BY <1>7, <2>1 DEF RewriteOpen, OfKind
<1>8. CASE RewriteClose
  <2>1. \A k \in Kinds : OfKind(spool'[k], k)
    BY <1>8 DEF TypeOK, RewriteClose
  <2>2. rlines' = <<>> /\ rfailed' = <<>>
    BY <1>8 DEF RewriteClose, Bounds, BatchInv
  <2> QED
    BY <1>8, <2>1, <2>2, OfKindEmpty DEF RewriteClose, OfKind
<1> QED
  BY <1>2, <1>3, <1>4, <1>5, <1>6, <1>7, <1>8 DEF Replay

LEMMA KindsCrash ==
    ASSUME TypeOK, KindsApart, Crash
    PROVE  KindsApart'
<1>1. ASSUME NEW k \in Kinds
      PROVE  OfKind(spool'[k], k)
  <2>1. \/ spool'[k] = spool[k]
        \/ k = rkind /\ spool'[k] \in Remains(rfailed)
        \/ lock \in Threads /\ k = KindOf(hjob[lock]) /\ spool'[k] \in Remains(hbuf[lock])
    BY CrashFilesFacts DEF Crash
  <2>2. CASE spool'[k] = spool[k]
    BY <2>2 DEF KindsApart
  <2>3. CASE k = rkind /\ spool'[k] \in Remains(rfailed)
    <3>1. rfailed \in Seq(Line) /\ OfKind(rfailed, k)
      BY <2>3 DEF TypeOK, KindsApart
    <3>2. Range(spool'[k]) \subseteq Range(rfailed) \cup {Torn}
      BY <2>3, <3>1, RemainsFacts
    <3> QED
      BY <3>1, <3>2, OfKindMono
  <2>4. CASE lock \in Threads /\ k = KindOf(hjob[lock]) /\ spool'[k] \in Remains(hbuf[lock])
    <3>1. hbuf[lock] \in Seq(Line) /\ OfKind(hbuf[lock], k)
      BY <2>4 DEF TypeOK, KindsApart
    <3>2. Range(spool'[k]) \subseteq Range(hbuf[lock]) \cup {Torn}
      BY <2>4, <3>1, RemainsFacts
    <3> QED
      BY <3>1, <3>2, OfKindMono
  <2> QED
    BY <2>1, <2>2, <2>3, <2>4
<1> QED
  BY <1>1, OfKindEmpty DEF Crash, KindsApart, OfKind

(* Events and heartbeats never share a file or a batch (app.py:41-43,     *)
(* 103-110): nothing is replayed to the URL of the other kind.            *)
THEOREM KindsStayApart == Spec => []KindsApart
<1>1. Init => KindsApart
  BY OfKindEmpty DEF Init, KindsApart
<1>2. TypeOK /\ Locking /\ Bounds /\ KindsApart /\ [Next]_vars => KindsApart'
  <2> SUFFICES ASSUME TypeOK, Locking, Bounds, KindsApart, [Next]_vars
               PROVE  KindsApart'
    OBVIOUS
  <2>1. ASSUME NEW t \in Threads, NEW p \in Payload, Post(t, p)
        PROVE  KindsApart'
    <3>1. hpc[t] # "write" /\ hbuf[t] = <<>>
      BY <2>1 DEF Post, Bounds, BufferInv
    <3>2. /\ hbuf' = hbuf
          /\ \A u \in Threads \ {t} : hjob'[u] = hjob[u]
          /\ UNCHANGED <<spool, rkind, rlines, rfailed>>
      BY <2>1 DEF TypeOK, Post, replayVars
    <3>3. \A u \in Threads : OfKind(hbuf[u], KindOf(hjob'[u]))
      BY <3>1, <3>2, OfKindEmpty DEF KindsApart
    <3> QED
      BY <3>2, <3>3 DEF KindsApart, OfKind
  <2>2. CASE UNCHANGED vars
    BY <2>2 DEF vars, KindsApart, OfKind
  <2> QED
    BY <2>1, <2>2, KindsHandler, KindsReplay, KindsCrash DEF Next
<1>3. LockInv /\ NoLostUpdate => Locking
  BY DEF Locking
<1> QED
  BY <1>1, <1>2, <1>3, TypeCorrect, LockIsSound, AlwaysBounds, PTL DEF Spec

-----------------------------------------------------------------------------
(* The relay implements StoreAndForward: every step is a step of it, or   *)
(* leaves accepted, held, stored and lost as they are.                    *)

LEMMA HeldMember ==
    /\ \A x : x \in Held <=>
            /\ x \in Payload
            /\ \/ \E k \in Kinds : x \in Range(spool[k])
               \/ \E t \in Threads : x \in Range(hbuf[t])
               \/ x \in Range(rlines)
               \/ x \in Range(rfailed)
    /\ \A x : x \in Held' <=>
            /\ x \in Payload
            /\ \/ \E k \in Kinds : x \in Range(spool'[k])
               \/ \E t \in Threads : x \in Range(hbuf'[t])
               \/ x \in Range(rlines')
               \/ x \in Range(rfailed')
BY DEF Held, OnDisk, InMemory

(* Moving lines about inside the relay does not change what it holds. *)
LEMMA HeldSame ==
    ASSUME UNCHANGED <<spool, hbuf, rlines, rfailed>>
    PROVE  Held' = Held
BY DEF Held, OnDisk, InMemory

LEMMA HandlerImplements ==
    ASSUME TypeOK, Locking, Bounds, NEW t \in Threads, Handler(t)
    PROVE  Abstract!Next
<1> DEFINE p == hjob[t]
           k == KindOf(p)
<1>0. p \in Payload /\ k \in Kinds
  BY KindsAreKinds DEF TypeOK, Handler, HandlerForwards, HandlerFailsOver,
                       HandlerErrs, QueueOpen, QueueWrite
<1> USE DEF replayVars, answerVars, lossVars, Lost
<1>1. CASE HandlerForwards(t)
  <2>1. Held' = Held
    BY <1>1, HeldSame DEF HandlerForwards
  <2>2. Abstract!Store(p)
    BY <1>1, <2>1 DEF HandlerForwards, Abstract!Store
  <2> QED
    BY <1>0, <2>2 DEF Abstract!Next
<1>2. CASE HandlerFailsOver(t)
  <2>1. Held' = Held
    BY <1>2, HeldSame DEF HandlerFailsOver
  <2>2. CASE stored' = stored \cup {p}
    BY <1>0, <1>2, <2>1, <2>2 DEF HandlerFailsOver, Abstract!Store, Abstract!Next
  <2>3. CASE stored' = stored
    <3>1. Held' \in SUBSET Held /\ {} \in SUBSET Held /\ Held \ Held' = {}
      BY <2>1
    <3>2. Lost' = Lost \cup {} /\ UNCHANGED <<accepted, stored>>
      BY <1>2, <2>3 DEF HandlerFailsOver
    <3> QED
      BY <3>1, <3>2 DEF Abstract!Lose, Abstract!Drop, Abstract!Next
  <2> QED
    BY <1>2, <2>2, <2>3 DEF HandlerFailsOver, ForwardFails
<1>3. CASE HandlerErrs(t)
  <2>1. Held' = Held
    BY <1>3, HeldSame DEF HandlerErrs
  <2>2. CASE stored' = stored \cup {p}
    BY <1>0, <1>3, <2>1, <2>2 DEF HandlerErrs, Abstract!Store, Abstract!Next
  <2>3. CASE stored' = stored
    <3>1. Held' \in SUBSET Held /\ {} \in SUBSET Held /\ Held \ Held' = {}
      BY <2>1
    <3>2. Lost' = Lost \cup {} /\ UNCHANGED <<accepted, stored>>
      BY <1>3, <2>3 DEF HandlerErrs
    <3> QED
      BY <3>1, <3>2 DEF Abstract!Lose, Abstract!Drop, Abstract!Next
  <2> QED
    BY <1>3, <2>2, <2>3 DEF HandlerErrs, ForwardFails
<1>4. CASE QueueOpen(t)
  <2> DEFINE existing == Append(spool[k], p)
             kept == LastLines(existing)
             cut == (Range(existing) \ Range(kept)) \cap Payload
  <2>1. /\ hbuf' = [hbuf EXCEPT ![t] = kept]
        /\ spool' = [spool EXCEPT ![k] = <<>>]
        /\ overflowed' = overflowed \cup cut
        /\ UNCHANGED <<rlines, rfailed, accepted, stored, clobbered, crashLost>>
    BY <1>4 DEF QueueOpen
  <2>2. spool[k] \in Seq(Line) /\ hbuf[t] = <<>>
    BY <1>0, <1>4 DEF TypeOK, QueueOpen, Bounds, BufferInv
  <2>3. /\ Range(existing) = Range(spool[k]) \cup {p}
        /\ Range(kept) \subseteq Range(spool[k]) \cup {p}
        /\ p \in Range(kept)
    BY <1>0, <2>2, RangeAppend, LastLinesFacts
  <2> HIDE DEF existing, kept, k
  <2>4. /\ hbuf'[t] = kept
        /\ \A u \in Threads \ {t} : hbuf'[u] = hbuf[u]
        /\ spool'[k] = <<>>
        /\ \A j \in Kinds \ {k} : spool'[j] = spool[j]
    BY <1>0, <2>1 DEF TypeOK
  <2>5. p \in Held' /\ Held' \subseteq Held \cup {p}
    BY <1>0, <2>1, <2>3, <2>4, HeldMember, RangeEmpty
  <2>6. cut \subseteq Held
    BY <1>0, <2>3, HeldMember
  <2>7. Held \ Held' \subseteq cut
    <3> SUFFICES ASSUME NEW x \in Held, x \notin Held'
                 PROVE  x \in cut
      OBVIOUS
    <3>1. x \in Payload
      BY HeldMember
    <3>2. x \notin Range(rlines) /\ x \notin Range(rfailed)
      BY <2>1, <3>1, HeldMember
    <3>3. \A j \in Kinds \ {k} : x \notin Range(spool[j])
      BY <2>4, <3>1, HeldMember
    <3>4. \A u \in Threads : x \notin Range(hbuf[u])
      BY <2>2, <2>4, <3>1, HeldMember, RangeEmpty
    <3>5. x \in Range(spool[k])
      BY <3>2, <3>3, <3>4, HeldMember
    <3>6. x \notin Range(kept)
      BY <2>4, <3>1, HeldMember
    <3> QED
      BY <2>3, <3>1, <3>5, <3>6
  <2> HIDE DEF cut
  <2>8. Lost' = Lost \cup cut
    BY <2>1
  <2>9. Abstract!Keep(p)
    BY <2>1, <2>5, <2>6, <2>7, <2>8 DEF Abstract!Keep, Abstract!Drop
  <2> QED
    BY <1>0, <2>9 DEF Abstract!Next
<1>5. CASE QueueWrite(t)
  <2>1. /\ hbuf' = [hbuf EXCEPT ![t] = <<>>]
        /\ spool' = [spool EXCEPT ![k] = hbuf[t]]
        /\ accepted' = accepted \cup {p}
        /\ UNCHANGED <<rlines, rfailed, stored, overflowed, clobbered, crashLost>>
    BY <1>5 DEF QueueWrite
  <2>2. spool[k] = <<>> /\ p \in Range(hbuf[t])
    BY <1>5 DEF QueueWrite, Locking, NoLostUpdate, Bounds, BufferInv
  <2> HIDE DEF k
  <2>3. /\ hbuf'[t] = <<>>
        /\ \A u \in Threads \ {t} : hbuf'[u] = hbuf[u]
        /\ spool'[k] = hbuf[t]
        /\ \A j \in Kinds \ {k} : spool'[j] = spool[j]
    BY <1>0, <2>1 DEF TypeOK
  <2>4. ASSUME NEW x
        PROVE  /\ (\E j \in Kinds : x \in Range(spool'[j])) <=>
                      x \in Range(hbuf[t]) \/ \E j \in Kinds : x \in Range(spool[j])
               /\ (\E u \in Threads : x \in Range(hbuf[u])) <=>
                      x \in Range(hbuf[t]) \/ \E u \in Threads : x \in Range(hbuf'[u])
    BY <1>0, <2>2, <2>3, RangeEmpty
  <2>5. Held' \subseteq Held
    BY <2>1, <2>3, <2>4, HeldMember
  <2>6. Held \subseteq Held'
    BY <2>1, <2>3, <2>4, HeldMember
  <2>7. p \in Held
    BY <1>0, <2>2, HeldMember
  <2>8. Abstract!Accept(p)
    BY <2>1, <2>5, <2>6, <2>7 DEF Abstract!Accept
  <2> QED
    BY <1>0, <2>8 DEF Abstract!Next
<1> QED
  BY <1>1, <1>2, <1>3, <1>4, <1>5 DEF Handler

LEMMA ReplayImplements ==
    ASSUME TypeOK, Locking, Bounds, Replay
    PROVE  Abstract!Next \/ UNCHANGED Abstract!vars
<1> USE DEF handlerVars, answerVars, lossVars, Lost
<1>1. /\ rlines \in Seq(Line) /\ rfailed \in Seq(Line)
      /\ rlines # <<>> => /\ Head(rlines) \in Line
                          /\ Range(rlines) = {Head(rlines)} \cup Range(Tail(rlines))
  BY RangeHeadTail DEF TypeOK
<1>2. CASE DrainNothing
  BY <1>2, HeldSame DEF DrainNothing, Abstract!vars
<1>3. CASE DrainTake
  <2>1. rlines = <<>> /\ rfailed = <<>>
    BY <1>3 DEF DrainTake, Bounds, BatchInv
  <2>2. /\ rlines' = spool[rkind] /\ rfailed' = <<>>
        /\ spool'[rkind] = <<>> /\ rkind \in Kinds
        /\ \A j \in Kinds \ {rkind} : spool'[j] = spool[j]
        /\ hbuf' = hbuf
    BY <1>3 DEF TypeOK, DrainTake
  <2>3. Held' \subseteq Held
    BY <2>1, <2>2, HeldMember, RangeEmpty
  <2>4. Held \subseteq Held'
    BY <2>1, <2>2, HeldMember, RangeEmpty
  <2> QED
    BY <1>3, <2>3, <2>4 DEF DrainTake, Abstract!vars
<1>4. CASE ReplayForwards
  <2> DEFINE p == Head(rlines)
  <2>1. p \in Payload /\ Range(rlines) = {p} \cup Range(rlines')
    BY <1>1, <1>4 DEF ReplayForwards
  <2>2. UNCHANGED <<spool, hbuf, rfailed>>
    BY <1>4 DEF ReplayForwards
  <2> HIDE DEF p
  <2>3. Held' \subseteq Held /\ Held \ {p} \subseteq Held'
    BY <2>1, <2>2, HeldMember
  <2>4. Held' \in {Held, Held \ {p}}
    BY <2>3
  <2>5. stored' = stored \cup {p} /\ accepted' = accepted /\ Lost' = Lost
    BY <1>4 DEF ReplayForwards, p
  <2>6. Abstract!Store(p)
    BY <2>4, <2>5 DEF Abstract!Store
  <2> QED
    BY <2>1, <2>6 DEF Abstract!Next
<1>5. CASE ReplayFails
  <2> DEFINE p == Head(rlines)
  <2>1. /\ p \in Line
        /\ Range(rlines) = {p} \cup Range(rlines')
        /\ Range(rfailed') = Range(rfailed) \cup {p}
    BY <1>1, <1>5, RangeAppend DEF ReplayFails
  <2>2. UNCHANGED <<spool, hbuf, accepted, overflowed, clobbered, crashLost>>
    BY <1>5 DEF ReplayFails
  <2>3. (stored' = stored) \/ (p \in Payload /\ stored' = stored \cup {p})
    BY <1>5, <2>1 DEF ReplayFails, ForwardFails
  <2> HIDE DEF p
  <2>4. Held' \subseteq Held /\ Held \subseteq Held'
    BY <2>1, <2>2, HeldMember
  <2>5. Held' = Held
    BY <2>4
  <2>6. CASE stored' = stored
    BY <2>2, <2>5, <2>6 DEF Abstract!vars
  <2>7. CASE p \in Payload /\ stored' = stored \cup {p}
    BY <2>2, <2>5, <2>7 DEF Abstract!Store, Abstract!Next
  <2> QED
    BY <2>3, <2>6, <2>7
<1>6. CASE DrainDone
  BY <1>6, HeldSame DEF DrainDone, Abstract!vars
<1>7. CASE RewriteOpen
  <2> DEFINE gone == Range(spool[rkind]) \cap Payload
  <2>1. /\ clobbered' = clobbered \cup gone
        /\ spool'[rkind] = <<>> /\ rkind \in Kinds
        /\ \A j \in Kinds \ {rkind} : spool'[j] = spool[j]
        /\ UNCHANGED <<hbuf, rlines, rfailed, accepted, stored, overflowed, crashLost>>
    BY <1>7 DEF TypeOK, RewriteOpen
  <2>2. gone \subseteq Held
    BY <2>1, HeldMember
  <2>3. Held' \subseteq Held
    BY <2>1, HeldMember, RangeEmpty
  <2>4. Held \ Held' \subseteq gone
    BY <2>1, HeldMember
  <2> HIDE DEF gone
  <2>5. Lost' = Lost \cup gone
    BY <2>1
  <2>6. Abstract!Lose
    BY <2>1, <2>2, <2>3, <2>4, <2>5 DEF Abstract!Lose, Abstract!Drop
  <2> QED
    BY <2>6 DEF Abstract!Next
<1>8. CASE RewriteClose
  <2>1. spool[rkind] = <<>>
    BY <1>8 DEF RewriteClose, Locking, NoLostUpdate
  <2>2. /\ rfailed' = <<>> /\ rkind \in Kinds
        /\ spool'[rkind] = rfailed
        /\ \A j \in Kinds \ {rkind} : spool'[j] = spool[j]
        /\ UNCHANGED <<hbuf, rlines>>
    BY <1>8 DEF TypeOK, RewriteClose
  <2>3. Held' \subseteq Held
    BY <2>1, <2>2, HeldMember, RangeEmpty
  <2>4. Held \subseteq Held'
    BY <2>1, <2>2, HeldMember, RangeEmpty
  <2> QED
    BY <1>8, <2>3, <2>4 DEF RewriteClose, Abstract!vars
<1> QED
  BY <1>2, <1>3, <1>4, <1>5, <1>6, <1>7, <1>8 DEF Replay

LEMMA CrashImplements ==
    ASSUME TypeOK, Crash
    PROVE  Abstract!Next
<1> DEFINE gone == Held \ OnDisk(spool')
<1>1. crashLost' = crashLost \cup gone
  BY DEF Crash
<1>2. UNCHANGED <<accepted, stored, overflowed, clobbered>>
  BY DEF Crash, answerVars
<1>3. /\ hbuf' = [t \in Threads |-> <<>>]
      /\ rlines' = <<>> /\ rfailed' = <<>>
  BY DEF Crash
<1>4. Held' = OnDisk(spool')
  BY <1>3, RangeEmpty DEF Held, InMemory, OnDisk
<1>5. OnDisk(spool') \subseteq Held
  <2> SUFFICES ASSUME NEW x \in Payload, NEW k \in Kinds, x \in Range(spool'[k])
               PROVE  x \in Held
    BY DEF OnDisk
  <2>1. x # Torn
    BY DistinctAssumption
  <2>2. \/ spool'[k] = spool[k]
        \/ spool'[k] \in Remains(rfailed)
        \/ (lock \in Threads /\ spool'[k] \in Remains(hbuf[lock]))
    BY CrashFilesFacts DEF Crash
  <2>3. CASE spool'[k] \in Remains(rfailed)
    <3>1. rfailed \in Seq(Line)
      BY DEF TypeOK
    <3>2. x \in Range(rfailed)
      BY <2>1, <2>3, <3>1, RemainsFacts
    <3> QED
      BY <3>2, HeldMember
  <2>4. CASE lock \in Threads /\ spool'[k] \in Remains(hbuf[lock])
    <3>1. hbuf[lock] \in Seq(Line)
      BY <2>4 DEF TypeOK
    <3>2. x \in Range(hbuf[lock])
      BY <2>1, <2>4, <3>1, RemainsFacts
    <3> QED
      BY <2>4, <3>2, HeldMember
  <2> QED
    BY <2>2, <2>3, <2>4, HeldMember
<1>6. gone \subseteq Held /\ Held' \subseteq Held /\ Held \ Held' \subseteq gone
  BY <1>4, <1>5
<1> HIDE DEF gone
<1>7. Lost' = Lost \cup gone
  BY <1>1, <1>2 DEF Lost
<1>8. Abstract!Lose
  BY <1>2, <1>6, <1>7 DEF Abstract!Lose, Abstract!Drop
<1> QED
  BY <1>8 DEF Abstract!Next

LEMMA StepImplements ==
    ASSUME TypeOK, Locking, Bounds, [Next]_vars
    PROVE  [Abstract!Next]_(Abstract!vars)
<1>1. ASSUME NEW t \in Threads, NEW p \in Payload, Post(t, p)
      PROVE  UNCHANGED Abstract!vars
  BY <1>1, HeldSame DEF Post, replayVars, answerVars, lossVars, Lost, Abstract!vars
<1>2. CASE UNCHANGED vars
  BY <1>2, HeldSame DEF vars, Lost, Abstract!vars
<1> QED
  BY <1>1, <1>2, HandlerImplements, ReplayImplements, CrashImplements DEF Next

(* The relay implements StoreAndForward: no step of any number of handler *)
(* threads, of the replay thread or of a crash lets an acknowledged       *)
(* payload vanish, or acknowledges one that is not safe (app.py:67-110,   *)
(* 136-148).                                                              *)
THEOREM RelayImplementsPromise == Spec => Promise
<1>1. Init => Abstract!Init
  BY RangeEmpty DEF Init, Abstract!Init, Held, OnDisk, InMemory, Lost
<1>2. TypeOK /\ Locking /\ Bounds /\ [Next]_vars => [Abstract!Next]_(Abstract!vars)
  BY StepImplements
<1>3. LockInv /\ NoLostUpdate => Locking
  BY DEF Locking
<1> QED
  BY <1>1, <1>2, <1>3, TypeCorrect, LockIsSound, AlwaysBounds, PTL
  DEF Spec, Promise, Abstract!Spec

(* A payload answered with 200 never just vanishes (app.py:146-148).      *)
THEOREM PayloadsAccounted == Spec => []Accounted
<1> DEFINE Safe == accepted \subseteq stored \cup Held \cup Lost
<1>1. Init => Safe
  BY DEF Init
<1>2. ASSUME Safe, [Abstract!Next]_(Abstract!vars)
      PROVE  Safe'
  <2>1. ASSUME NEW p \in Payload, Abstract!Store(p)
        PROVE  Safe'
    BY <1>2, <2>1 DEF Abstract!Store
  <2>2. ASSUME NEW p \in Payload, Abstract!Keep(p)
        PROVE  Safe'
    BY <1>2, <2>2 DEF Abstract!Keep, Abstract!Drop
  <2>3. ASSUME NEW p \in Payload, Abstract!Accept(p)
        PROVE  Safe'
    BY <1>2, <2>3 DEF Abstract!Accept
  <2>4. CASE Abstract!Lose
    BY <1>2, <2>4 DEF Abstract!Lose, Abstract!Drop
  <2>5. CASE UNCHANGED Abstract!vars
    BY <1>2, <2>5 DEF Abstract!vars
  <2> QED
    BY <1>2, <2>1, <2>2, <2>3, <2>4, <2>5 DEF Abstract!Next
<1>3. TypeOK /\ Locking /\ Bounds /\ Safe /\ [Next]_vars => Safe'
  BY <1>2, StepImplements
<1>4. LockInv /\ NoLostUpdate => Locking
  BY DEF Locking
<1>5. Spec => []Safe
  BY <1>1, <1>3, <1>4, TypeCorrect, LockIsSound, AlwaysBounds, PTL DEF Spec
<1> QED
  BY <1>5 DEF Accounted

(* The conjunction the runs check as well. *)
THEOREM InductiveInvariant == Spec => []IInv
<1>1. /\ TypeOK /\ LockInv /\ NoLostUpdate /\ Bounds /\ KindsApart /\ Accounted
      => IInv
  BY DEF IInv, Bounds
<1> QED
  BY <1>1, TypeCorrect, LockIsSound, AlwaysBounds, KindsStayApart,
     PayloadsAccounted, PTL
=============================================================================

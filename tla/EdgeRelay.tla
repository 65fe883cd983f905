----------------------------- MODULE EdgeRelay -----------------------------
(***************************************************************************)
(* The edge relay (edge_relay/app.py): one process that accepts the events *)
(* and heartbeats of the decoys of its edge node, forwards each of them to *)
(* the control plane, spools to disk what it could not forward and replays *)
(* the spool from a background thread.                                     *)
(*                                                                         *)
(* Threads are the request handlers of FastAPI's thread pool; the replay   *)
(* thread is the daemon started by on_startup.  They share one lock and    *)
(* one spool file per kind.  A file is rewritten by Path.write_text, which *)
(* truncates it when it opens it and fills it later, so that a crash can   *)
(* fall between the two: opening and writing are two steps here.           *)
(***************************************************************************)
EXTENDS Integers, Sequences, Functions

CONSTANTS
    Events,       \* event payloads
    Heartbeats,   \* heartbeat payloads
    Threads,      \* request-handler threads
    MaxSpool,     \* EDGE_RELAY_MAX_SPOOL_LINES
    Torn,         \* a spool line cut short by a crash: not a JSON document
    Free,         \* the lock is not held
    Replayer,     \* the replay thread
    None,         \* a handler thread that serves no payload
    MaxPosts,     \* bound: POSTs of one payload
    MaxFaults,    \* bound: forwards that fail
    MaxCrashes    \* bound: crashes of the relay process

Payload == Events \cup Heartbeats
Line == Payload \cup {Torn}
Kinds == {"events", "heartbeats"}

ASSUME MaxSpoolAssumption == MaxSpool \in Nat \ {0}
ASSUME BoundsAssumption ==
    MaxPosts \in Nat /\ MaxFaults \in Nat /\ MaxCrashes \in Nat
ASSUME DistinctAssumption ==
    /\ Events \cap Heartbeats = {}
    /\ Torn \notin Payload /\ None \notin Payload
    /\ Free # Replayer
    /\ Free \notin Threads
    /\ Replayer \notin Threads

VARIABLES
    spool,        \* the spool file of each kind, as its lines
    lock,         \* _lock: who holds it
    hpc,          \* where each handler thread is
    hjob,         \* the payload each handler thread is serving
    hbuf,         \* "existing": the lines a handler is about to write
    rpc,          \* where the replay thread is
    rkind,        \* the kind it is draining
    rlines,       \* "lines": what it has still to forward
    rfailed,      \* "failed": what it could not forward
    stored,       \* payloads the control plane has stored
    accepted,     \* payloads answered with status 200
    errored,      \* payloads answered with status 500
    overflowed,   \* payloads of which a copy was cut off a full spool
    clobbered,    \* payloads of which a copy was overwritten in the file
    crashLost,    \* payloads of which a copy went with the process
    posts, faults, crashes    \* for the bounds: how often each happened

handlerVars == <<hpc, hjob, hbuf>>
replayVars == <<rpc, rkind, rlines, rfailed>>
answerVars == <<accepted, errored>>
lossVars == <<overflowed, clobbered, crashLost>>
vars == <<spool, lock, hpc, hjob, hbuf, rpc, rkind, rlines, rfailed, stored,
          accepted, errored, overflowed, clobbered, crashLost,
          posts, faults, crashes>>

-----------------------------------------------------------------------------
(* Helpers. *)

KindOf(p) == IF p \in Events THEN "events" ELSE "heartbeats"
OtherKind(k) == IF k = "events" THEN "heartbeats" ELSE "events"

(* Variant: the slice is one line too long. *)
LastLinesAndOne(s) ==
    IF Len(s) > MaxSpool
    THEN SubSeq(s, Len(s) - MaxSpool, Len(s))
    ELSE s

(* existing[-MAX_SPOOL_LINES:] when there are more lines than that. *)
LastLines(s) ==
    IF Len(s) > MaxSpool
    THEN SubSeq(s, Len(s) - MaxSpool + 1, Len(s))
    ELSE s

(* What a crash leaves of a file that was being filled with these lines: *)
(* some of the first ones, and perhaps the beginning of the next.        *)
Remains(s) ==
    {SubSeq(s, 1, n) : n \in 0..Len(s)}
        \cup {Append(SubSeq(s, 1, n), Torn) : n \in 0..Len(s) - 1}

OnDisk(files) == Payload \cap UNION {Range(files[k]) : k \in Kinds}
InMemory ==
    Payload \cap
        ((UNION {Range(hbuf[t]) : t \in Threads})
            \cup Range(rlines) \cup Range(rfailed))

(* The payloads the relay has, on disk or in memory. *)
Held == OnDisk(spool) \cup InMemory

(* The payloads of which it has dropped a copy. *)
Lost == overflowed \cup clobbered \cup crashLost

Init ==
    /\ spool = [k \in Kinds |-> <<>>]
    /\ lock = Free
    /\ hpc = [t \in Threads |-> "idle"]
    /\ hjob = [t \in Threads |-> None]
    /\ hbuf = [t \in Threads |-> <<>>]
    /\ rpc = "scan" /\ rkind = "events" /\ rlines = <<>> /\ rfailed = <<>>
    /\ stored = {} /\ accepted = {} /\ errored = {}
    /\ overflowed = {} /\ clobbered = {} /\ crashLost = {}
    /\ posts = [p \in Payload |-> 0] /\ faults = 0 /\ crashes = 0

-----------------------------------------------------------------------------
(* Request handlers: POST /event and POST /heartbeat. *)

(* A request reaches _handle_ingest; a decoy may repeat it. *)
Post(t, p) ==
    /\ hpc[t] = "idle"
    /\ posts[p] < MaxPosts
    /\ posts' = [posts EXCEPT ![p] = @ + 1]
    /\ hpc' = [hpc EXCEPT ![t] = "forward"]
    /\ hjob' = [hjob EXCEPT ![t] = p]
    /\ UNCHANGED <<spool, lock, hbuf, replayVars, stored, answerVars, lossVars,
                   faults, crashes>>

(* The handler is done with its payload. *)
Finish(t) ==
    /\ hpc' = [hpc EXCEPT ![t] = "idle"]
    /\ hjob' = [hjob EXCEPT ![t] = None]

(* forward_payload returns: the payload is stored and acknowledged. *)
HandlerForwards(t) ==
    /\ hpc[t] = "forward"
    /\ stored' = stored \cup {hjob[t]}
    /\ accepted' = accepted \cup {hjob[t]}
    /\ Finish(t)
    /\ UNCHANGED <<spool, lock, hbuf, replayVars, errored, lossVars,
                   posts, faults, crashes>>

(* A forward that fails.  The control plane may have stored the payload   *)
(* all the same: its answer was lost or late, or it answered 400 to a     *)
(* payload it had committed.                                              *)
ForwardFails(p) ==
    /\ faults < MaxFaults
    /\ faults' = faults + 1
    /\ stored' \in {stored, stored \cup {p}}

(* Variant: the request is answered "queued" before the payload is queued. *)
HandlerAnswersEarly(t) ==
    /\ hpc[t] = "forward"
    /\ ForwardFails(hjob[t])
    /\ hpc' = [hpc EXCEPT ![t] = "queue"]
    /\ accepted' = accepted \cup {hjob[t]}
    /\ UNCHANGED <<spool, lock, hjob, hbuf, replayVars, errored, lossVars,
                   posts, crashes>>

(* It fails with an exception the handler catches: URLError, of which the *)
(* HTTPError of a 4xx or 5xx answer is one, or TimeoutError.              *)
HandlerFailsOver(t) ==
    /\ hpc[t] = "forward"
    /\ ForwardFails(hjob[t])
    /\ hpc' = [hpc EXCEPT ![t] = "queue"]
    /\ UNCHANGED <<spool, lock, hjob, hbuf, replayVars, answerVars, lossVars,
                   posts, crashes>>

(* It fails with one it does not catch: the connection is reset, or       *)
(* closed, before an answer (RemoteDisconnected, ConnectionResetError).   *)
(* FastAPI answers 500.                                                   *)
HandlerErrs(t) ==
    /\ hpc[t] = "forward"
    /\ ForwardFails(hjob[t])
    /\ errored' = errored \cup {hjob[t]}
    /\ Finish(t)
    /\ UNCHANGED <<spool, lock, hbuf, replayVars, accepted, lossVars,
                   posts, crashes>>

(* Variant: the file is read and opened without taking the lock. *)
QueueOpenUnlocked(t) ==
    LET p == hjob[t]
        k == KindOf(p)
        existing == Append(spool[k], p)
        kept == LastLines(existing)
    IN  /\ hpc[t] = "queue"
        /\ hpc' = [hpc EXCEPT ![t] = "write"]
        /\ hbuf' = [hbuf EXCEPT ![t] = kept]
        /\ spool' = [spool EXCEPT ![k] = <<>>]
        /\ overflowed' = overflowed \cup
                ((Range(existing) \ Range(kept)) \cap Payload)
        /\ UNCHANGED <<lock, hjob, replayVars, stored, answerVars, clobbered,
                       crashLost, posts, faults, crashes>>

(* queue_payload, up to the opening of the file: with the lock, read the  *)
(* lines, append the payload, cut the oldest lines of a full spool, and   *)
(* open the file for writing, which empties it.                           *)
QueueOpen(t) ==
    LET p == hjob[t]
        k == KindOf(p)
        existing == Append(spool[k], p)
        kept == LastLines(existing)
    IN  /\ hpc[t] = "queue"
        /\ lock = Free
        /\ lock' = t
        /\ hpc' = [hpc EXCEPT ![t] = "write"]
        /\ hbuf' = [hbuf EXCEPT ![t] = kept]
        /\ spool' = [spool EXCEPT ![k] = <<>>]
        /\ overflowed' = overflowed \cup
                ((Range(existing) \ Range(kept)) \cap Payload)
        /\ UNCHANGED <<hjob, replayVars, stored, answerVars, clobbered,
                       crashLost, posts, faults, crashes>>

(* The rest of queue_payload: the lines reach the file, the lock is       *)
(* released and the request is answered "queued".                         *)
QueueWrite(t) ==
    /\ hpc[t] = "write"
    /\ spool' = [spool EXCEPT ![KindOf(hjob[t])] = hbuf[t]]
    /\ hbuf' = [hbuf EXCEPT ![t] = <<>>]
    /\ lock' = Free
    /\ accepted' = accepted \cup {hjob[t]}
    /\ Finish(t)
    /\ UNCHANGED <<replayVars, stored, errored, lossVars,
                   posts, faults, crashes>>

Handler(t) ==
    \/ HandlerForwards(t) \/ HandlerFailsOver(t) \/ HandlerErrs(t)
    \/ QueueOpen(t) \/ QueueWrite(t)

-----------------------------------------------------------------------------
(* The replay thread. *)

(* Variant: replay_loop never gets past the kind it started with. *)
SameKindAgain ==
    /\ rkind' = rkind
    /\ rpc' = "scan"

(* replay_loop goes to the next kind; the sleep between two rounds takes  *)
(* time and no state.                                                     *)
NextKind ==
    /\ rkind' = OtherKind(rkind)
    /\ rpc' = "scan"

(* drain_spool_once finds no lines. *)
DrainNothing ==
    /\ rpc = "scan"
    /\ lock = Free
    /\ spool[rkind] = <<>>
    /\ NextKind
    /\ UNCHANGED <<spool, lock, handlerVars, rlines, rfailed, stored,
                   answerVars, lossVars, posts, faults, crashes>>

(* It takes all lines and empties the file, under the lock. *)
DrainTake ==
    /\ rpc = "scan"
    /\ lock = Free
    /\ spool[rkind] # <<>>
    /\ rlines' = spool[rkind]
    /\ rfailed' = <<>>
    /\ spool' = [spool EXCEPT ![rkind] = <<>>]
    /\ rpc' = "forward"
    /\ UNCHANGED <<lock, handlerVars, rkind, stored, answerVars, lossVars,
                   posts, faults, crashes>>

(* Variant: the line is sent as it is, without json.loads. *)
ReplayForwardsRaw ==
    /\ rpc = "forward"
    /\ rlines # <<>>
    /\ stored' = stored \cup {Head(rlines)}
    /\ rlines' = Tail(rlines)
    /\ UNCHANGED <<spool, lock, handlerVars, rpc, rkind, rfailed, answerVars,
                   lossVars, posts, faults, crashes>>

(* It forwards the next line, without the lock. *)
ReplayForwards ==
    /\ rpc = "forward"
    /\ rlines # <<>>
    /\ Head(rlines) # Torn
    /\ stored' = stored \cup {Head(rlines)}
    /\ rlines' = Tail(rlines)
    /\ UNCHANGED <<spool, lock, handlerVars, rpc, rkind, rfailed, answerVars,
                   lossVars, posts, faults, crashes>>

(* Variant: the exception is swallowed and the line forgotten. *)
ReplayForgets ==
    /\ rpc = "forward"
    /\ rlines # <<>>
    /\ IF Head(rlines) = Torn
       THEN UNCHANGED <<stored, faults>>
       ELSE ForwardFails(Head(rlines))
    /\ rlines' = Tail(rlines)
    /\ UNCHANGED <<spool, lock, handlerVars, rpc, rkind, rfailed, answerVars,
                   lossVars, posts, crashes>>

(* The line goes to the failed ones, whatever the exception is. *)
ReplayFails ==
    /\ rpc = "forward"
    /\ rlines # <<>>
    /\ IF Head(rlines) = Torn
       THEN UNCHANGED <<stored, faults>>
       ELSE ForwardFails(Head(rlines))
    /\ rfailed' = Append(rfailed, Head(rlines))
    /\ rlines' = Tail(rlines)
    /\ UNCHANGED <<spool, lock, handlerVars, rpc, rkind, answerVars,
                   lossVars, posts, crashes>>

(* Every line was forwarded. *)
DrainDone ==
    /\ rpc = "forward"
    /\ rlines = <<>>
    /\ rfailed = <<>>
    /\ NextKind
    /\ UNCHANGED <<spool, lock, handlerVars, rlines, rfailed, stored,
                   answerVars, lossVars, posts, faults, crashes>>

(* Some were not: with the lock, open the file for writing.  What was     *)
(* queued into it since DrainTake goes.                                   *)
RewriteOpen ==
    /\ rpc = "forward"
    /\ rlines = <<>>
    /\ rfailed # <<>>
    /\ lock = Free
    /\ lock' = Replayer
    /\ rpc' = "write"
    /\ clobbered' = clobbered \cup (Range(spool[rkind]) \cap Payload)
    /\ spool' = [spool EXCEPT ![rkind] = <<>>]
    /\ UNCHANGED <<handlerVars, rkind, rlines, rfailed, stored, answerVars,
                   overflowed, crashLost, posts, faults, crashes>>

(* Variant: the failed lines go to the file of the other kind. *)
RewriteCloseOther ==
    /\ rpc = "write"
    /\ spool' = [spool EXCEPT ![OtherKind(rkind)] = rfailed]
    /\ rfailed' = <<>>
    /\ lock' = Free
    /\ NextKind
    /\ UNCHANGED <<handlerVars, rlines, stored, answerVars, lossVars,
                   posts, faults, crashes>>

(* Variant: the lock is not released. *)
RewriteKeepsLock ==
    /\ rpc = "write"
    /\ spool' = [spool EXCEPT ![rkind] = rfailed]
    /\ rfailed' = <<>>
    /\ NextKind
    /\ UNCHANGED <<lock, handlerVars, rlines, stored, answerVars, lossVars,
                   posts, faults, crashes>>

(* The failed lines reach the file and the lock is released. *)
RewriteClose ==
    /\ rpc = "write"
    /\ spool' = [spool EXCEPT ![rkind] = rfailed]
    /\ rfailed' = <<>>
    /\ lock' = Free
    /\ NextKind
    /\ UNCHANGED <<handlerVars, rlines, stored, answerVars, lossVars,
                   posts, faults, crashes>>

Replay ==
    \/ DrainNothing \/ DrainTake \/ ReplayForwards \/ ReplayFails
    \/ DrainDone \/ RewriteOpen \/ RewriteClose

-----------------------------------------------------------------------------
(* The process dies and the service manager starts it again: what was in  *)
(* memory is gone, and so is the part of a file that was not yet written. *)

(* The files a crash leaves. *)
CrashFiles ==
    \/ /\ lock = Free
       /\ UNCHANGED spool
    \/ /\ lock = Replayer
       /\ \E r \in Remains(rfailed) : spool' = [spool EXCEPT ![rkind] = r]
    \/ /\ lock \in Threads
       /\ \E r \in Remains(hbuf[lock]) :
            spool' = [spool EXCEPT ![KindOf(hjob[lock])] = r]

Crash ==
    /\ crashes < MaxCrashes
    /\ crashes' = crashes + 1
    /\ CrashFiles
    /\ crashLost' = crashLost \cup (Held \ OnDisk(spool'))
    /\ lock' = Free
    /\ hpc' = [t \in Threads |-> "idle"]
    /\ hjob' = [t \in Threads |-> None]
    /\ hbuf' = [t \in Threads |-> <<>>]
    /\ rpc' = "scan" /\ rkind' = "events" /\ rlines' = <<>> /\ rfailed' = <<>>
    /\ UNCHANGED <<stored, answerVars, overflowed, clobbered, posts, faults>>

Next ==
    \/ \E t \in Threads : Handler(t) \/ \E p \in Payload : Post(t, p)
    \/ Replay
    \/ Crash

(* The replay thread catches every exception and loops; a handler that is *)
(* in a forward or has the lock goes on, for a forward ends at the latest *)
(* with the timeout of urlopen.  A handler that waits for the lock gets   *)
(* it in the end, although the lock is taken again and again: the replay  *)
(* thread leaves it free while it sleeps between its rounds.              *)
Fairness ==
    /\ WF_vars(Replay)
    /\ \A t \in Threads : WF_vars(Handler(t)) /\ SF_vars(QueueOpen(t))

Spec == Init /\ [][Next]_vars
FairSpec == Spec /\ Fairness

-----------------------------------------------------------------------------
(* Properties. *)

(* Every variable stays in its type. *)
TypeOK ==
    /\ spool \in [Kinds -> Seq(Line)]
    /\ lock \in Threads \cup {Free, Replayer}
    /\ hpc \in [Threads -> {"idle", "forward", "queue", "write"}]
    /\ hjob \in [Threads -> Payload \cup {None}]
    /\ \A t \in Threads : hpc[t] = "idle" <=> hjob[t] = None
    /\ hbuf \in [Threads -> Seq(Line)]
    /\ rpc \in {"scan", "forward", "write"}
    /\ rkind \in Kinds
    /\ rlines \in Seq(Line) /\ rfailed \in Seq(Line)
    /\ stored \subseteq Payload /\ accepted \subseteq Payload
    /\ errored \subseteq Payload /\ overflowed \subseteq Payload
    /\ clobbered \subseteq Payload /\ crashLost \subseteq Payload
    /\ posts \in [Payload -> 0..MaxPosts]
    /\ faults \in 0..MaxFaults /\ crashes \in 0..MaxCrashes

(* Nobody writes a file back over lines he has not read: while a thread   *)
(* has a file open for writing (app.py:70-74, 99-100), the file is empty, *)
(* whatever the other threads do.                                         *)
NoLostUpdate ==
    /\ \A t \in Threads : hpc[t] = "write" => spool[KindOf(hjob[t])] = <<>>
    /\ rpc = "write" => spool[rkind] = <<>>

(* The spool never outgrows MAX_SPOOL_LINES (app.py:72), although only    *)
(* queue_payload checks the limit and the replay thread writes back what  *)
(* it took before.                                                        *)
SpoolBounded == \A k \in Kinds : Len(spool[k]) <= MaxSpool

(* Events and heartbeats never share a file or a replay batch, so that    *)
(* none is sent to the other's URL (app.py:41-43, 50).                    *)
OfKind(s, k) == \A p \in Range(s) \cap Payload : KindOf(p) = k
KindsApart ==
    /\ \A k \in Kinds : OfKind(spool[k], k)
    /\ \A t \in Threads : OfKind(hbuf[t], KindOf(hjob[t]))
    /\ OfKind(rlines, rkind) /\ OfKind(rfailed, rkind)

(* A payload answered with 200 never just vanishes: it is stored          *)
(* upstream, on disk or in memory, or a copy of it went in one of the     *)
(* three known ways: cut off a full spool (app.py:72-73), overwritten by  *)
(* the write-back of a drain (app.py:98-100), or gone with the process.   *)
Accounted == accepted \subseteq stored \cup Held \cup Lost

(* The relay implements StoreAndForward. *)
Abstract == INSTANCE StoreAndForward WITH held <- Held, lost <- Lost
Promise == Abstract!Spec

(* An acknowledged payload does not stay in the spool for ever: once the  *)
(* uplink stops failing, the replay thread delivers it (app.py:103-110),  *)
(* unless a copy was lost.                                                *)
Settles == \A p \in Payload : p \in accepted ~> p \in stored \cup Lost

(* Every request is answered: a decoy's single thread is blocked until    *)
(* it is, by the forward and then by the lock (app.py:143-148).           *)
RequestsAnswered == \A t \in Threads : hpc[t] # "idle" ~> hpc[t] = "idle"

(* What the documentation says: "relay handles store-and-forward during   *)
(* transient uplink issues" (docs/deployment-patterns.md:20).  Without a  *)
(* crash and below the spool limit an acknowledged payload is stored or   *)
(* held.                                                                  *)
StoresAndForwards ==
    crashes = 0 /\ overflowed = {} => accepted \subseteq stored \cup Held

-----------------------------------------------------------------------------
(* The inductive invariant behind the safety properties.                  *)

(* The lock is held exactly by the thread that has a file open. *)
LockInv ==
    /\ \A t \in Threads : hpc[t] = "write" <=> lock = t
    /\ rpc = "write" <=> lock = Replayer

(* A handler has lines to write only while it has the file open, and its  *)
(* own payload is one of them.                                            *)
BufferInv ==
    \A t \in Threads :
        IF hpc[t] = "write"
        THEN hjob[t] \in Range(hbuf[t]) /\ Len(hbuf[t]) <= MaxSpool
        ELSE hbuf[t] = <<>>

(* The batch and its failed lines together are never more than were taken. *)
BatchInv ==
    /\ Len(rlines) + Len(rfailed) <= MaxSpool
    /\ rpc = "scan" => rlines = <<>> /\ rfailed = <<>>
    /\ rpc = "write" => rlines = <<>>

IInv ==
    /\ TypeOK /\ NoLostUpdate /\ SpoolBounded /\ KindsApart /\ Accounted
    /\ LockInv /\ BufferInv /\ BatchInv

=============================================================================

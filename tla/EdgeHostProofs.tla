--------------------------- MODULE EdgeHostProofs ---------------------------
(***************************************************************************)
(* Theorems about EdgeHost, for any clients, thresholds and bounds: the    *)
(* runner and the service manager never leave an instance to itself, and   *)
(* never start one on a name that is in use.                               *)
(*                                                                         *)
(* NoOrphans says nothing of what the script may start next, so that both  *)
(* rest on Watched, which adds that before a start the instance is gone,   *)
(* and that a service that is not running has no script.  That every event *)
(* is accounted for rests on AccountInv: a client is in one place, which   *)
(* tells what became of its event.                                         *)
(***************************************************************************)
EXTENDS EdgeHost, TLAPS

(* A unit that waits to be started again, or is stopped, has no script;    *)
(* only a script that runs is signalled, by a unit that is stopping.       *)
UnitInv ==
    /\ unit \in {"active", "restarting", "stopping", "stopped"}
    /\ unit \in {"restarting", "stopped"} => rpc = "gone"
    /\ signal \in BOOLEAN
    /\ signal => unit = "stopping" /\ rpc # "gone"

(* Before a start, what was there has been stopped, or kraft has failed to *)
(* stop it.                                                                *)
FreeInv ==
    /\ stayed \in BOOLEAN /\ (stayed => inst # "none")
    /\ rpc \in StartPoints => inst = "none" \/ stayed

Watched == UnitInv /\ FreeInv /\ NoOrphans

USE DEF UnitInv, FreeInv, NoOrphans, Watched, StopPoints, StartPoints, WaitPoints,
        machine, Ends

(* A step of the decoy leaves the instance, the script and the unit, but   *)
(* for the boot of an instance that exists already.                        *)
LEMMA DecoyStepWatched ==
    ASSUME Watched, DecoySteps \/ IntervalOver \/ (\E c \in Clients : Arrive(c)) \/ ClientGoes
    PROVE  Watched'
<1>1. CASE Boot
  BY <1>1 DEF Boot, runnerVars
<1>2. CASE SendBeat
  BY <1>2 DEF SendBeat, runnerVars
<1>3. CASE Accept
  BY <1>3 DEF Accept, runnerVars
<1>4. CASE ReadAndAnswer
  BY <1>4 DEF ReadAndAnswer
<1>5. CASE ReadGarbled \/ ClientGoes
  BY <1>5 DEF ReadGarbled, ClientGoes, Dismiss, runnerVars
<1>6. CASE AttemptSucceeds
  BY <1>6 DEF AttemptSucceeds, runnerVars
<1>7. CASE AttemptFails
  BY <1>7 DEF AttemptFails, runnerVars
<1>8. CASE IntervalOver
  BY <1>8 DEF IntervalOver, runnerVars
<1>9. CASE \E c \in Clients : Arrive(c)
  BY <1>9 DEF Arrive, runnerVars
<1> QED
  BY <1>1, <1>2, <1>3, <1>4, <1>5, <1>6, <1>7, <1>8, <1>9 DEF DecoySteps

(* The end of the script takes its instance with it, unless the service    *)
(* manager is about to.                                                    *)
LEMMA ExitWatched ==
    ASSUME Watched, rpc # "gone", Exits
    PROVE  Watched'
<1>1. CASE unit = "active"
  BY <1>1 DEF Exits, Killed
<1>2. CASE unit = "stopping"
  BY <1>2 DEF Exits
<1> QED
  BY <1>1, <1>2

LEMMA RunnerStepWatched ==
    ASSUME Watched, RunnerSteps \/ CommandFails
    PROVE  Watched'
<1>1. CASE StopInstance
  <2>1. CASE rpc = "giveUp"
    <3>1. CASE unit = "active"
      BY <1>1, <2>1, <3>1 DEF StopInstance, Killed, Runs
    <3>2. CASE unit = "stopping"
      BY <1>1, <2>1, <3>2 DEF StopInstance, KraftStops, Killed, Runs
    <3> QED
      BY <2>1, <3>1, <3>2
  <2>2. CASE rpc # "giveUp"
    <3>1. /\ rpc \in {"clean", "stop"} /\ rpc' \in StartPoints /\ ~signal
          /\ signal' = signal /\ unit' = unit
      BY <1>1, <2>2 DEF StopInstance, Runs
    <3>2. UnitInv'
      BY <3>1
    <3>3. \/ stayed' = FALSE /\ inst' = "none"
          \/ stayed' = TRUE /\ inst' # "none"
      BY <1>1, <2>2 DEF StopInstance, KraftStops, Killed
    <3> QED
      BY <3>1, <3>2, <3>3
  <2> QED
    BY <2>1, <2>2
<1>2. CASE StartInstance
  <2>1. CASE inst # "none"
    BY <1>2, <2>1, ExitWatched DEF StartInstance, Runs
  <2>2. CASE inst = "none"
    BY <1>2, <2>2 DEF StartInstance, Runs
  <2> QED
    BY <2>1, <2>2
<1>3. CASE Curl
  BY <1>3 DEF Curl
<1>4. CASE Ready \/ Healthy
  BY <1>4 DEF Ready, Healthy, Runs
<1>5. CASE NotYet
  BY <1>5 DEF NotYet
<1>6. CASE NotReady
  BY <1>6 DEF NotReady, Runs
<1>7. CASE WakeUp
  <2>1. CASE stopping
    BY <1>7, <2>1, ExitWatched DEF WakeUp, Runs
  <2>2. CASE ~stopping
    BY <1>7, <2>2 DEF WakeUp, Runs
  <2> QED
    BY <2>1, <2>2
<1>8. CASE Unhealthy
  BY <1>8 DEF Unhealthy, Runs
<1>9. CASE Trap
  <2>1. signal
    BY <1>9 DEF Trap
  <2>2. CASE Exits
    BY <2>1, <2>2, ExitWatched
  <2>3. CASE ~Exits
    BY <1>9, <2>1, <2>3 DEF Trap, Killed
  <2> QED
    BY <2>2, <2>3
<1>10. CASE CommandFails
  BY <1>10, ExitWatched DEF CommandFails, Runs
<1> QED
  BY <1>1, <1>2, <1>3, <1>4, <1>5, <1>6, <1>7, <1>8, <1>9, <1>10 DEF RunnerSteps

(* The service manager. *)
LEMMA ServiceStepWatched ==
    ASSUME Watched,
           InstanceDies \/ OtherRunner \/ RunnerRestarts \/ StopService
               \/ Stopped \/ StartService
    PROVE  Watched'
<1>1. CASE InstanceDies
  BY <1>1 DEF InstanceDies, Killed, runnerVars
<1>2. CASE OtherRunner
  BY <1>2 DEF OtherRunner, runnerVars
<1>3. CASE RunnerRestarts
  BY <1>3 DEF RunnerRestarts
<1>4. CASE StopService
  BY <1>4 DEF StopService, Killed
<1>5. CASE Stopped
  BY <1>5 DEF Stopped, Killed
<1>6. CASE StartService
  BY <1>6 DEF StartService
<1> QED
  BY <1>1, <1>2, <1>3, <1>4, <1>5, <1>6

LEMMA WatchedIsInductive == Watched /\ [Next]_vars => Watched'
<1> SUFFICES ASSUME Watched, [Next]_vars PROVE Watched'
  OBVIOUS
<1>1. CASE UNCHANGED vars
  BY <1>1 DEF vars, runnerVars
<1>2. CASE Next
  BY <1>2, DecoyStepWatched, RunnerStepWatched, ServiceStepWatched DEF Next
<1> QED
  BY <1>1, <1>2

(* The inductive invariant: the script and the service manager keep track  *)
(* of the instance.                                                        *)
THEOREM InstanceIsWatched == Spec => []Watched
<1>1. Init => Watched
  BY DEF Init
<1>2. Watched /\ [Next]_vars => Watched'
  BY WatchedIsInductive
<1> QED
  BY <1>1, <1>2, PTL DEF Spec

(* While an instance exists, a script watches it or the service manager is *)
(* about to kill it, wherever the script was stopped or ended              *)
(* (decoy-runner.sh.j2:94-98 and 143-144).                                 *)
THEOREM NeverOrphaned == Spec => []NoOrphans
<1>1. Watched => NoOrphans
  OBVIOUS
<1> QED
  BY <1>1, InstanceIsWatched, PTL

(* kraft is told to start a decoy only when the one before it is gone, or  *)
(* it has failed to stop that one (decoy-runner.sh.j2:33, 110-114 and      *)
(* 143-144).                                                               *)
THEOREM StartsAlone == Spec => StartsOnFreeName
<1>1. Watched /\ [Next]_vars => [StartInstance => inst = "none" \/ stayed]_vars
  BY DEF StartInstance, Runs
<1> QED
  BY <1>1, InstanceIsWatched, PTL DEF Spec, StartsOnFreeName

-----------------------------------------------------------------------------
(* What becomes of clients and their events. *)

Waiters == Clients \cup {Probe, Stale}

(* A client waits in the queue once, before it is answered, and not while  *)
(* it is served.                                                           *)
QueueInv ==
    /\ queue \in Seq(Waiters)
    /\ \A i, j \in 1..Len(queue) :
          queue[i] = queue[j] /\ queue[i] \in Clients => i = j
    /\ \A i \in 1..Len(queue) :
          queue[i] \in Clients => /\ queue[i] \in arrived \ answered
                                 /\ queue[i] # client

(* Whom the thread serves it has not answered before; its event is not     *)
(* accounted for yet.                                                      *)
ServedInv ==
    /\ client \in Waiters \cup {None}
    /\ dpc \in {"select", "read", "dispatch"}
    /\ dpc = "select" => client = None
    /\ dpc = "read" /\ client \in Clients => client \in arrived \ answered
    /\ dpc = "dispatch" /\ client \in Clients
          => client \notin sent \cup abandoned \cup lost
    /\ answered \subseteq arrived

AccountInv == QueueInv /\ ServedInv /\ EventsAccounted

accountVars == <<dpc, client, queue, history>>

(* A curl that gives up stays where it is in the queue, and no client does *)
(* anything.                                                               *)
LEMMA AbandonFacts ==
    ASSUME NEW s \in Seq(Waiters)
    PROVE  /\ Abandon(s) \in Seq(Waiters)
           /\ Len(Abandon(s)) = Len(s)
           /\ \A i \in 1..Len(s) :
                 Abandon(s)[i] = IF s[i] = Probe THEN Stale ELSE s[i]
<1>1. Len(s) \in Nat /\ DOMAIN s = 1..Len(s) /\ \A i \in 1..Len(s) : s[i] \in Waiters
  OBVIOUS
<1>2. Abandon(s) = [n \in 1..Len(s) |-> IF s[n] = Probe THEN Stale ELSE s[n]]
  BY <1>1 DEF Abandon
<1>3. \A n \in 1..Len(s) : (IF s[n] = Probe THEN Stale ELSE s[n]) \in Waiters
  BY <1>1 DEF Waiters
<1> QED
  BY <1>1, <1>2, <1>3

(* The end of the instance loses the event that was being sent, and that   *)
(* one only.                                                               *)
LEMMA KilledAccounts ==
    ASSUME AccountInv, Killed
    PROVE  AccountInv'
<1> USE ClientsAssumption DEF AccountInv, Killed
<1>1. QueueInv'
  BY DEF QueueInv
<1>2. ServedInv'
  BY DEF ServedInv
<1>3. EventsAccounted'
  BY DEF ServedInv, EventsAccounted
<1> QED
  BY <1>1, <1>2, <1>3

LEMMA HangsAccounts ==
    ASSUME AccountInv, Hangs, UNCHANGED <<dpc, history>>
    PROVE  AccountInv'
<1> USE ClientsAssumption DEF AccountInv, history
<1>1. queue' = Abandon(queue) /\ client' = IF client = Probe THEN Stale ELSE client
  BY DEF Hangs
<1>2. /\ queue' \in Seq(Waiters) /\ Len(queue') = Len(queue)
      /\ \A i \in 1..Len(queue) :
            queue'[i] = IF queue[i] = Probe THEN Stale ELSE queue[i]
  BY <1>1, AbandonFacts DEF QueueInv
<1>3. QueueInv'
  BY <1>1, <1>2 DEF QueueInv
<1>4. ServedInv'
  BY <1>1 DEF ServedInv, Waiters
<1>5. EventsAccounted'
  BY <1>1 DEF EventsAccounted, ServedInv
<1> QED
  BY <1>3, <1>4, <1>5

LEMMA SameAccounts ==
    ASSUME AccountInv, UNCHANGED accountVars
    PROVE  AccountInv'
BY DEF AccountInv, QueueInv, ServedInv, EventsAccounted, accountVars, history

(* A connection joins the end of the queue. *)
LEMMA QueueGrows ==
    ASSUME NEW s \in Seq(Waiters), NEW w \in Waiters
    PROVE  /\ Append(s, w) \in Seq(Waiters)
           /\ Len(Append(s, w)) = Len(s) + 1
           /\ Append(s, w)[Len(s) + 1] = w
           /\ \A i \in 1..Len(s) : Append(s, w)[i] = s[i]
OBVIOUS

LEMMA ArriveAccounts ==
    ASSUME AccountInv, NEW c \in Clients, Arrive(c)
    PROVE  AccountInv'
<1> USE ClientsAssumption DEF AccountInv
<1>1. /\ c \notin arrived /\ arrived' = arrived \cup {c}
      /\ queue' = Append(queue, c)
      /\ UNCHANGED <<dpc, client, answered, sent, abandoned, lost>>
  BY DEF Arrive
<1>2. c \in Waiters /\ queue \in Seq(Waiters) /\ Len(queue) \in Nat
  BY DEF Waiters, QueueInv
<1>3. /\ queue' \in Seq(Waiters) /\ Len(queue') = Len(queue) + 1
      /\ queue'[Len(queue) + 1] = c
      /\ \A i \in 1..Len(queue) : queue'[i] = queue[i]
  BY <1>1, <1>2, QueueGrows
<1>4. c \notin answered /\ c # client
  BY <1>1 DEF ServedInv, EventsAccounted
<1>5. \A i \in 1..Len(queue) : queue[i] # c
  BY <1>1 DEF QueueInv
<1>6. \A i \in 1..Len(queue') : i \in 1..Len(queue) \/ i = Len(queue) + 1
  BY <1>2, <1>3
<1>7. QueueInv'
  <2>1. \A i, j \in 1..Len(queue') :
           queue'[i] = queue'[j] /\ queue'[i] \in Clients => i = j
    BY <1>3, <1>5, <1>6 DEF QueueInv
  <2>2. \A i \in 1..Len(queue') :
           queue'[i] \in Clients => /\ queue'[i] \in arrived' \ answered'
                                   /\ queue'[i] # client'
    BY <1>1, <1>3, <1>4, <1>6 DEF QueueInv
  <2> QED
    BY <2>1, <2>2, <1>3 DEF QueueInv
<1>8. ServedInv'
  BY <1>1 DEF ServedInv
<1>9. EventsAccounted'
  BY <1>1 DEF EventsAccounted
<1> QED
  BY <1>7, <1>8, <1>9

LEMMA CurlAccounts ==
    ASSUME AccountInv, Curl
    PROVE  AccountInv'
<1> USE ClientsAssumption DEF AccountInv
<1>1. queue' = Append(queue, Probe) /\ UNCHANGED <<dpc, client, history>>
  BY DEF Curl
<1>2. Probe \in Waiters /\ queue \in Seq(Waiters) /\ Len(queue) \in Nat
  BY DEF Waiters, QueueInv
<1>3. /\ queue' \in Seq(Waiters) /\ Len(queue') = Len(queue) + 1
      /\ queue'[Len(queue) + 1] = Probe
      /\ \A i \in 1..Len(queue) : queue'[i] = queue[i]
  BY <1>1, <1>2, QueueGrows
<1>4. \A i \in 1..Len(queue') : i \in 1..Len(queue) \/ i = Len(queue) + 1
  BY <1>2, <1>3
<1>5. QueueInv'
  BY <1>1, <1>3, <1>4 DEF QueueInv, history
<1>6. ServedInv' /\ EventsAccounted'
  BY <1>1 DEF ServedInv, EventsAccounted, history
<1> QED
  BY <1>5, <1>6

LEMMA AcceptAccounts ==
    ASSUME AccountInv, Accept
    PROVE  AccountInv'
<1> USE ClientsAssumption DEF AccountInv
<1>1. /\ dpc = "select" /\ queue # <<>> /\ dpc' = "read"
      /\ client' = Head(queue) /\ queue' = Tail(queue) /\ UNCHANGED history
  BY DEF Accept
<1>2. queue \in Seq(Waiters)
  BY DEF QueueInv
<1>3. /\ Len(queue) \in Nat \ {0} /\ Head(queue) = queue[1] /\ queue[1] \in Waiters
      /\ Tail(queue) \in Seq(Waiters) /\ Len(Tail(queue)) = Len(queue) - 1
      /\ \A i \in 1..Len(queue) - 1 : Tail(queue)[i] = queue[i + 1]
  BY <1>1, <1>2
<1>4. \A i \in 1..Len(queue') : i + 1 \in 1..Len(queue) /\ queue'[i] = queue[i + 1]
  BY <1>1, <1>3
<1>5. 1 \in 1..Len(queue)
  BY <1>3
<1>6. QueueInv'
  <2>1. \A i, j \in 1..Len(queue') :
           queue'[i] = queue'[j] /\ queue'[i] \in Clients => i = j
    <3> SUFFICES ASSUME NEW i \in 1..Len(queue'), NEW j \in 1..Len(queue'),
                        queue'[i] = queue'[j], queue'[i] \in Clients
                 PROVE  i = j
      OBVIOUS
    <3>1. i + 1 = j + 1
      BY <1>4 DEF QueueInv
    <3> QED
      BY <3>1
  <2>2. \A i \in 1..Len(queue') :
           queue'[i] \in Clients => /\ queue'[i] \in arrived' \ answered'
                                   /\ queue'[i] # client'
    <3> SUFFICES ASSUME NEW i \in 1..Len(queue'), queue'[i] \in Clients
                 PROVE  queue'[i] \in arrived' \ answered' /\ queue'[i] # client'
      OBVIOUS
    <3>1. queue[i + 1] \in arrived \ answered
      BY <1>4 DEF QueueInv
    <3>2. i + 1 # 1
      OBVIOUS
    <3>3. queue[i + 1] # queue[1]
      BY <1>4, <1>5, <3>2 DEF QueueInv
    <3> QED
      BY <1>1, <1>3, <1>4, <3>1, <3>3 DEF history
  <2> QED
    BY <2>1, <2>2, <1>1, <1>3 DEF QueueInv
<1>7. ServedInv'
  BY <1>1, <1>3, <1>5 DEF ServedInv, QueueInv, history, Waiters
<1>8. EventsAccounted'
  BY <1>1 DEF EventsAccounted, history
<1> QED
  BY <1>6, <1>7, <1>8

(* A step of the thread that ends with nobody, or goes on with the same    *)
(* client: the queue stays.                                                *)
LEMMA ThreadAccounts ==
    ASSUME AccountInv,
           SendBeat \/ ReadAndAnswer \/ ReadGarbled \/ ClientGoes
               \/ AttemptSucceeds \/ AttemptFails
    PROVE  AccountInv'
<1> USE ClientsAssumption DEF AccountInv
<1>1. CASE SendBeat
  BY <1>1 DEF SendBeat, QueueInv, ServedInv, EventsAccounted, history
<1>2. CASE ReadAndAnswer
  <2>1. QueueInv'
    BY <1>2 DEF ReadAndAnswer, QueueInv
  <2>2. ServedInv'
    BY <1>2 DEF ReadAndAnswer, ServedInv, EventsAccounted
  <2>3. EventsAccounted'
    BY <1>2 DEF ReadAndAnswer, ServedInv, EventsAccounted, Asks
  <2> QED
    BY <2>1, <2>2, <2>3
<1>3. CASE ReadGarbled \/ ClientGoes
  BY <1>3 DEF ReadGarbled, ClientGoes, Dismiss, QueueInv, ServedInv, EventsAccounted,
              history
<1>4. CASE AttemptSucceeds
  <2>1. QueueInv'
    BY <1>4 DEF AttemptSucceeds, Dispatched, QueueInv
  <2>2. ServedInv'
    BY <1>4 DEF AttemptSucceeds, Dispatched, ServedInv
  <2>3. EventsAccounted'
    BY <1>4 DEF AttemptSucceeds, Dispatched, ServedInv, EventsAccounted
  <2> QED
    BY <2>1, <2>2, <2>3
<1>5. CASE AttemptFails
  <2>1. CASE UNCHANGED <<dpc, client, abandoned>>
    BY <1>5, <2>1, SameAccounts DEF AttemptFails, accountVars, history
  <2>2. CASE Dispatched /\ abandoned' = abandoned \cup (Clients \cap {client})
    <3>1. QueueInv'
      BY <1>5, <2>2 DEF AttemptFails, Dispatched, QueueInv
    <3>2. ServedInv'
      BY <1>5, <2>2 DEF AttemptFails, Dispatched, ServedInv
    <3>3. EventsAccounted'
      BY <1>5, <2>2 DEF AttemptFails, Dispatched, ServedInv, EventsAccounted
    <3> QED
      BY <3>1, <3>2, <3>3
  <2> QED
    BY <1>5, <2>1, <2>2 DEF AttemptFails
<1> QED
  BY <1>1, <1>2, <1>3, <1>4, <1>5

(* The script and the service manager end the instance, hang up, or leave  *)
(* its clients alone.                                                      *)
LEMMA ExitAccounts ==
    ASSUME AccountInv, Exits
    PROVE  AccountInv'
<1>1. Killed \/ UNCHANGED accountVars
  BY DEF Exits, accountVars, decoyVars
<1> QED
  BY <1>1, KilledAccounts, SameAccounts

LEMMA OutsideAccounts ==
    ASSUME AccountInv,
           Boot \/ IntervalOver \/ RunnerSteps \/ CommandFails \/ InstanceDies \/ OtherRunner
               \/ RunnerRestarts \/ StopService \/ Stopped \/ StartService
    PROVE  AccountInv'
<1> USE DEF accountVars, decoyVars
<1>1. CASE Boot \/ IntervalOver \/ OtherRunner \/ RunnerRestarts \/ StartService
  BY <1>1, SameAccounts
     DEF Boot, IntervalOver, OtherRunner, RunnerRestarts, StartService
<1>2. CASE InstanceDies \/ StopService \/ Stopped
  BY <1>2, KilledAccounts DEF InstanceDies, StopService, Stopped
<1>3. CASE CommandFails
  BY <1>3, ExitAccounts DEF CommandFails
<1>4. CASE StopInstance
  <2>1. Killed \/ UNCHANGED accountVars
    BY <1>4 DEF StopInstance, KraftStops
  <2> QED
    BY <2>1, KilledAccounts, SameAccounts
<1>5. CASE StartInstance
  BY <1>5, ExitAccounts, SameAccounts DEF StartInstance
<1>6. CASE Curl
  BY <1>6, CurlAccounts
<1>7. CASE Ready \/ NotYet \/ NotReady \/ Healthy \/ Unhealthy
  BY <1>7, HangsAccounts DEF Ready, NotYet, NotReady, Healthy, Unhealthy, history
<1>8. CASE WakeUp
  BY <1>8, ExitAccounts, SameAccounts DEF WakeUp
<1>9. CASE Trap
  BY <1>9, ExitAccounts, KilledAccounts DEF Trap
<1> QED
  BY <1>1, <1>2, <1>3, <1>4, <1>5, <1>6, <1>7, <1>8, <1>9 DEF RunnerSteps

LEMMA AccountIsInductive == AccountInv /\ [Next]_vars => AccountInv'
<1> SUFFICES ASSUME AccountInv, [Next]_vars PROVE AccountInv'
  OBVIOUS
<1>1. CASE UNCHANGED vars
  BY <1>1, SameAccounts DEF vars, decoyVars, accountVars
<1>2. CASE Next
  BY <1>2, ArriveAccounts, AcceptAccounts, ThreadAccounts, OutsideAccounts
     DEF Next, DecoySteps
<1> QED
  BY <1>1, <1>2

(* The inductive invariant behind the accounts: a client is in the queue   *)
(* or served, and has no event yet.                                        *)
THEOREM AccountsKept == Spec => []AccountInv
<1>1. Init => AccountInv
  <2> SUFFICES ASSUME Init PROVE AccountInv
    OBVIOUS
  <2> USE ClientsAssumption DEF Init
  <2>1. QueueInv
    BY DEF QueueInv
  <2>2. ServedInv /\ EventsAccounted
    BY DEF ServedInv, EventsAccounted
  <2> QED
    BY <2>1, <2>2 DEF AccountInv
<1> QED
  BY <1>1, AccountIsInductive, PTL DEF Spec

(* The event of every request that was answered is sent, abandoned after   *)
(* the last attempt, lost with the instance, or being sent: one of these,  *)
(* whatever ends the instance and however curl gives up (main.c:389-414,   *)
(* event_logger.c:356-377).                                                *)
THEOREM EveryEventAccounted == Spec => []EventsAccounted
<1>1. AccountInv => EventsAccounted
  BY DEF AccountInv
<1> QED
  BY <1>1, AccountsKept, PTL

-----------------------------------------------------------------------------
(* Types. *)

(* The decoy's part of the types that the invariants above leave open: a   *)
(* machine that is not up serves and queues nobody.                        *)
DecoyTypes ==
    /\ inst \in {"none", "booting", "up"}
    /\ inst # "up" => dpc = "select" /\ queue = <<>>
    /\ dpc = "read" => client # None
    /\ Len(queue) <= Backlog
    /\ attempt \in 0..Attempts /\ (attempt > 0) = (dpc = "dispatch")
    /\ due \in BOOLEAN
    /\ arrived \subseteq Clients

(* The script's: it sleeps and probes only below the threshold, so that    *)
(* one more failure never goes past it.                                    *)
RunnerTypes ==
    /\ stopping \in BOOLEAN /\ cut \in BOOLEAN /\ held \in BOOLEAN
    /\ rpc \in RunnerPoints
    /\ failures \in 0..Threshold
    /\ rpc \in {"sleep", "probe"} => failures < Threshold
    /\ probe \in {"none", "sent", "answered"}
    /\ faults \in 0..MaxFaults

(* A sequence of at most m members is one of the type's sequences. *)
LEMMA BoundedSequences ==
    ASSUME NEW S, NEW m \in Nat, NEW s \in Seq(S), Len(s) <= m
    PROVE  s \in BoundedSeq(S, m)
<1>1. Len(s) \in 0..m /\ s \in [1..Len(s) -> S]
  OBVIOUS
<1> QED
  BY <1>1 DEF BoundedSeq, SeqOf

LEMMA PartsAreTypeOK == Watched /\ AccountInv /\ DecoyTypes /\ RunnerTypes => TypeOK
<1> SUFFICES ASSUME Watched, AccountInv, DecoyTypes, RunnerTypes PROVE TypeOK
  OBVIOUS
<1>1. queue \in BoundedSeq(Clients \cup {Probe, Stale}, Backlog)
  <2>1. queue \in Seq(Clients \cup {Probe, Stale}) /\ Len(queue) <= Backlog /\ Backlog \in Nat
    BY LimitsAssumption DEF AccountInv, QueueInv, Waiters, DecoyTypes
  <2> QED
    BY <2>1, BoundedSequences
<1>2. \A set \in {arrived, answered, sent, abandoned, lost} : set \subseteq Clients
  <2>1. answered \subseteq arrived /\ arrived \subseteq Clients
    BY DEF AccountInv, ServedInv, DecoyTypes
  <2>2. sent \subseteq answered /\ abandoned \subseteq answered /\ lost \subseteq answered
    BY DEF AccountInv, EventsAccounted
  <2> QED
    BY <2>1, <2>2
<1>3. client \in Clients \cup {Probe, Stale, None} /\ dpc \in {"select", "read", "dispatch"}
  BY DEF AccountInv, ServedInv, Waiters
<1> QED
  BY <1>1, <1>2, <1>3 DEF TypeOK, DecoyTypes, RunnerTypes

LEMMA KilledTypes ==
    ASSUME DecoyTypes, Killed
    PROVE  DecoyTypes'
<1>1. due' \in BOOLEAN
  BY DEF Killed
<1>2. attempt' \in 0..Attempts /\ ~(attempt' > 0) /\ dpc' = "select"
  BY LimitsAssumption DEF Killed
<1>3. (attempt' > 0) = (dpc' = "dispatch")
  BY <1>2
<1>4. inst' = "none" /\ queue' = <<>> /\ Len(queue') <= Backlog /\ arrived' \subseteq Clients
  BY LimitsAssumption DEF DecoyTypes, Killed
<1> QED
  BY <1>1, <1>2, <1>3, <1>4 DEF DecoyTypes

LEMMA SameDecoyTypes ==
    ASSUME DecoyTypes, UNCHANGED <<inst, decoyVars, arrived>>
    PROVE  DecoyTypes'
BY DEF DecoyTypes, decoyVars

LEMMA ExitTypes ==
    ASSUME DecoyTypes, Exits
    PROVE  DecoyTypes'
<1>1. Killed \/ UNCHANGED <<inst, decoyVars, arrived>>
  BY DEF Exits, history
<1> QED
  BY <1>1, KilledTypes, SameDecoyTypes

(* Who hangs up leaves the queue as long as it was. *)
LEMMA HangsTypes ==
    ASSUME AccountInv, DecoyTypes, Hangs, UNCHANGED <<inst, dpc, attempt, due, history>>
    PROVE  DecoyTypes'
<1>1. Len(queue') = Len(queue)
  BY AbandonFacts DEF AccountInv, QueueInv, Hangs
<1>2. queue = <<>> => queue' = <<>>
  BY DEF Hangs, Abandon
<1>3. client # None => client' # None
  BY ClientsAssumption DEF Hangs
<1> QED
  BY <1>1, <1>2, <1>3 DEF DecoyTypes, history

LEMMA DispatchedTypes ==
    ASSUME DecoyTypes, Dispatched, UNCHANGED <<inst, queue, arrived>>
    PROVE  DecoyTypes'
<1>1. due' \in BOOLEAN
  BY DEF Dispatched
<1>2. attempt' \in 0..Attempts /\ ~(attempt' > 0) /\ dpc' = "select"
  BY LimitsAssumption DEF Dispatched
<1>3. (attempt' > 0) = (dpc' = "dispatch")
  BY <1>2
<1> QED
  BY <1>1, <1>2, <1>3 DEF DecoyTypes

LEMMA DecoyStepTypes ==
    ASSUME AccountInv, DecoyTypes,
           DecoySteps \/ IntervalOver \/ (\E c \in Clients : Arrive(c)) \/ ClientGoes
    PROVE  DecoyTypes'
<1> USE ClientsAssumption, LimitsAssumption DEF DecoyTypes, history
<1>0. queue \in Seq(Waiters) /\ Len(queue) \in Nat
  BY DEF AccountInv, QueueInv
<1>1. CASE Boot
  BY <1>1 DEF Boot
<1>2. CASE SendBeat
  BY <1>2 DEF SendBeat
<1>3. CASE Accept
  <2>1. Head(queue) \in Waiters /\ Len(Tail(queue)) = Len(queue) - 1
    BY <1>0, <1>3 DEF Accept
  <2>2. Head(queue) # None
    BY <2>1 DEF Waiters
  <2> QED
    BY <1>0, <1>3, <2>1, <2>2 DEF Accept
<1>4. CASE ReadAndAnswer
  BY <1>4 DEF ReadAndAnswer
<1>5. CASE ReadGarbled \/ ClientGoes
  BY <1>5 DEF ReadGarbled, ClientGoes, Dismiss
<1>6. CASE AttemptSucceeds
  BY <1>6, DispatchedTypes DEF AttemptSucceeds
<1>7. CASE AttemptFails
  <2>1. dpc = "dispatch" /\ inst = "up" /\ UNCHANGED <<inst, queue, arrived>>
    BY <1>7 DEF AttemptFails
  <2>2. CASE Dispatched
    BY <2>1, <2>2, DispatchedTypes
  <2>3. CASE attempt < Attempts /\ attempt' = attempt + 1 /\ UNCHANGED <<dpc, client, due>>
    <3>1. attempt' \in 0..Attempts /\ attempt' > 0
      BY <2>3
    <3> QED
      BY <2>1, <2>3, <3>1
  <2> QED
    BY <1>7, <2>2, <2>3 DEF AttemptFails
<1>8. CASE IntervalOver
  BY <1>8 DEF IntervalOver
<1>9. ASSUME NEW c \in Clients, Arrive(c)
      PROVE  DecoyTypes'
  <2>1. Len(Append(queue, c)) = Len(queue) + 1
    BY <1>0, QueueGrows DEF Waiters
  <2> QED
    BY <1>0, <1>9, <2>1 DEF Arrive
<1> QED
  BY <1>1, <1>2, <1>3, <1>4, <1>5, <1>6, <1>7, <1>8, <1>9 DEF DecoySteps

(* Only what is gone is started, so that a machine that boots has no       *)
(* client.                                                                 *)
LEMMA OutsideTypes ==
    ASSUME Watched, AccountInv, DecoyTypes,
           RunnerSteps \/ CommandFails \/ InstanceDies \/ OtherRunner
               \/ RunnerRestarts \/ StopService \/ Stopped \/ StartService
    PROVE  DecoyTypes'
<1>1. CASE OtherRunner \/ RunnerRestarts \/ StartService
  BY <1>1, SameDecoyTypes DEF OtherRunner, RunnerRestarts, StartService, history
<1>2. CASE InstanceDies \/ StopService \/ Stopped
  BY <1>2, KilledTypes DEF InstanceDies, StopService, Stopped
<1>3. CASE CommandFails
  BY <1>3, ExitTypes DEF CommandFails
<1>4. CASE StopInstance
  <2>1. Killed \/ UNCHANGED <<inst, decoyVars, arrived>>
    BY <1>4 DEF StopInstance, KraftStops, history
  <2> QED
    BY <2>1, KilledTypes, SameDecoyTypes
<1>5. CASE StartInstance
  <2>1. CASE inst = "none"
    BY <1>5, <2>1 DEF StartInstance, DecoyTypes, decoyVars, history
  <2> QED
    BY <1>5, <2>1, ExitTypes DEF StartInstance
<1>6. CASE Curl
  <2>1. queue \in Seq(Waiters) /\ Len(queue) \in Nat /\ Probe \in Waiters
    BY DEF AccountInv, QueueInv, Waiters
  <2>2. Len(Append(queue, Probe)) = Len(queue) + 1
    BY <2>1, QueueGrows
  <2> QED
    BY <1>6, <2>1, <2>2, LimitsAssumption DEF Curl, DecoyTypes, history
<1>7. CASE Ready \/ NotYet \/ NotReady \/ Healthy \/ Unhealthy
  BY <1>7, HangsTypes DEF Ready, NotYet, NotReady, Healthy, Unhealthy
<1>8. CASE WakeUp
  BY <1>8, ExitTypes, SameDecoyTypes DEF WakeUp, history
<1>9. CASE Trap
  BY <1>9, ExitTypes, KilledTypes DEF Trap
<1> QED
  BY <1>1, <1>2, <1>3, <1>4, <1>5, <1>6, <1>7, <1>8, <1>9 DEF RunnerSteps

(* A script that ends forgets the failures. *)
LEMMA EndRunnerTypes ==
    ASSUME RunnerTypes, Ends, UNCHANGED held, faults' \in 0..MaxFaults
    PROVE  RunnerTypes'
<1>1. stopping' \in BOOLEAN /\ cut' \in BOOLEAN /\ held' \in BOOLEAN
  BY DEF RunnerTypes
<1>2. failures' \in 0..Threshold
  BY LimitsAssumption
<1> QED
  BY <1>1, <1>2 DEF RunnerTypes, RunnerPoints

LEMMA ExitRunnerTypes ==
    ASSUME RunnerTypes, Exits, UNCHANGED held, faults' \in 0..MaxFaults
    PROVE  RunnerTypes'
BY EndRunnerTypes DEF Exits

LEMMA FaultBounded == RunnerTypes /\ Fault => faults' \in 0..MaxFaults
BY LimitsAssumption DEF RunnerTypes, Fault

LEMMA ScriptStepTypes ==
    ASSUME Watched, RunnerTypes, RunnerSteps \/ CommandFails
    PROVE  RunnerTypes'
<1> USE LimitsAssumption DEF RunnerTypes, RunnerPoints, Runs
<1>0. faults \in 0..MaxFaults
  OBVIOUS
<1>1. CASE StopInstance
  <2>1. faults' \in 0..MaxFaults
    BY <1>0, <1>1, FaultBounded DEF StopInstance, KraftStops
  <2>2. CASE rpc = "giveUp"
    BY <1>1, <2>1, <2>2, EndRunnerTypes DEF StopInstance
  <2>3. CASE rpc # "giveUp"
    BY <1>1, <2>1, <2>3 DEF StopInstance
  <2> QED
    BY <2>2, <2>3
<1>2. CASE StartInstance
  <2>1. CASE inst = "none"
    BY <1>2, <2>1 DEF StartInstance
  <2> QED
    BY <1>0, <1>2, <2>1, ExitRunnerTypes DEF StartInstance
<1>3. CASE Curl
  BY <1>3 DEF Curl
<1>4. CASE Ready \/ Healthy
  BY <1>4 DEF Ready, Healthy, Hangs
<1>5. CASE NotYet
  BY <1>5 DEF NotYet, Hangs
<1>6. CASE NotReady
  <2>1. faults' \in 0..MaxFaults
    BY <1>6, FaultBounded DEF NotReady
  <2> QED
    BY <1>6, <2>1 DEF NotReady, Hangs
<1>7. CASE WakeUp
  <2>1. CASE stopping
    BY <1>0, <1>7, <2>1, ExitRunnerTypes DEF WakeUp
  <2>2. CASE ~stopping
    BY <1>7, <2>2 DEF WakeUp
  <2> QED
    BY <2>1, <2>2
<1>8. CASE Unhealthy
  BY <1>8 DEF Unhealthy, Hangs
<1>9. CASE Trap
  <2>1. CASE Exits
    BY <1>0, <1>9, <2>1, ExitRunnerTypes DEF Trap
  <2>2. CASE ~Exits
    BY <1>9, <2>2 DEF Trap
  <2> QED
    BY <2>1, <2>2
<1>10. CASE CommandFails
  BY <1>10, ExitRunnerTypes, FaultBounded DEF CommandFails
<1> QED
  BY <1>1, <1>2, <1>3, <1>4, <1>5, <1>6, <1>7, <1>8, <1>9, <1>10 DEF RunnerSteps

LEMMA OtherStepTypes ==
    ASSUME RunnerTypes,
           DecoySteps \/ IntervalOver \/ (\E c \in Clients : Arrive(c)) \/ ClientGoes
               \/ InstanceDies \/ OtherRunner
               \/ RunnerRestarts \/ StopService \/ Stopped \/ StartService
    PROVE  RunnerTypes'
<1> USE LimitsAssumption DEF RunnerTypes, RunnerPoints, runnerVars
<1>1. CASE Boot \/ SendBeat \/ Accept
  BY <1>1 DEF Boot, SendBeat, Accept
<1>2. CASE ReadAndAnswer
  BY <1>2 DEF ReadAndAnswer
<1>3. CASE ReadGarbled \/ ClientGoes
  BY <1>3 DEF ReadGarbled, ClientGoes, Dismiss
<1>4. CASE AttemptSucceeds \/ AttemptFails
  BY <1>4 DEF AttemptSucceeds, AttemptFails
<1>5. CASE IntervalOver \/ \E c \in Clients : Arrive(c)
  BY <1>5 DEF IntervalOver, Arrive
<1>6. CASE InstanceDies
  BY <1>6, FaultBounded DEF InstanceDies
<1>7. CASE OtherRunner
  BY <1>7 DEF OtherRunner, OtherLocks, OtherUnlocks
<1>8. CASE RunnerRestarts
  BY <1>8 DEF RunnerRestarts
<1>9. CASE StopService
  BY <1>9 DEF StopService
<1>10. CASE Stopped
  <2>1. stopping' \in BOOLEAN /\ cut' \in BOOLEAN /\ held' \in BOOLEAN
    BY <1>10 DEF Stopped
  <2>2. failures' \in 0..Threshold
    BY <1>10 DEF Stopped
  <2> QED
    BY <1>10, <2>1, <2>2 DEF Stopped
<1>11. CASE StartService
  BY <1>11, FaultBounded DEF StartService
<1> QED
  BY <1>1, <1>2, <1>3, <1>4, <1>5, <1>6, <1>7, <1>8, <1>9, <1>10, <1>11 DEF DecoySteps

(* Every variable keeps its type: the queue its limit, the attempts and    *)
(* the failures theirs, and a machine that is not up serves nobody.        *)
THEOREM HostTypes == Spec => []TypeOK
<1> DEFINE Types == DecoyTypes /\ RunnerTypes
<1>1. Init => Types
  <2> SUFFICES ASSUME Init PROVE Types
    OBVIOUS
  <2>1. due \in BOOLEAN /\ stopping \in BOOLEAN /\ cut \in BOOLEAN /\ held \in BOOLEAN
    BY DEF Init
  <2>2. attempt \in 0..Attempts /\ ~(attempt > 0) /\ dpc = "select"
    BY LimitsAssumption DEF Init
  <2>3. (attempt > 0) = (dpc = "dispatch")
    BY <2>2
  <2>4. DecoyTypes
    BY <2>1, <2>2, <2>3, LimitsAssumption DEF Init, DecoyTypes
  <2>5. failures \in 0..Threshold /\ faults \in 0..MaxFaults
    BY LimitsAssumption DEF Init
  <2> QED
    BY <2>1, <2>4, <2>5 DEF Init, RunnerTypes, RunnerPoints
<1>2. Watched /\ AccountInv /\ Types /\ [Next]_vars => Types'
  <2> SUFFICES ASSUME Watched, AccountInv, Types, [Next]_vars PROVE Types'
    OBVIOUS
  <2>1. CASE UNCHANGED vars
    BY <2>1, SameDecoyTypes DEF vars, history, RunnerTypes, runnerVars
  <2>2. CASE Next
    BY <2>2, DecoyStepTypes, OutsideTypes, ScriptStepTypes, OtherStepTypes DEF Next
  <2> QED
    BY <2>1, <2>2
<1>3. Watched /\ AccountInv /\ Types => TypeOK
  BY PartsAreTypeOK
<1> QED
  BY <1>1, <1>2, <1>3, InstanceIsWatched, AccountsKept, PTL DEF Spec

=============================================================================

------------------------------ MODULE EdgeHost ------------------------------
(***************************************************************************)
(* A decoy on its host: the decoy's one thread                             *)
(* (unikernel-decoy/src/main.c, event_logger.c), the shell script that     *)
(* starts it, probes it and restarts it (decoy-runner.sh.j2), and the      *)
(* service manager that runs the script (decoy-instance.service.j2).       *)
(*                                                                         *)
(* The thread serves one client after the other and sends heartbeats in    *)
(* between.  It waits for a client without a timeout, and for the relay    *)
(* with one, up to three times for a payload.  The script is a sequence of *)
(* commands; a signal kills the command it waits for, and its trap runs    *)
(* before the next.  kraft, QEMU and systemd are external: what they do,   *)
(* or fail to do, when they are told to start, stop and kill is what the   *)
(* script and the unit rely on.                                            *)
(***************************************************************************)
EXTENDS Integers, Sequences, SequencesExt

CONSTANTS
    Clients,        \* clients, each of which connects once
    Manner,         \* what each does: "asks", "garbles" or "waits"
    Probe,          \* the runner's curl
    Stale,          \* a curl that has given up and whose request is queued
    None,           \* nobody is served
    Threshold,      \* FAILURE_THRESHOLD
    Attempts,       \* the attempts to send a payload
    Backlog,        \* connections that wait to be accepted
    MaxFaults       \* bound: commands that fail, instances that die, starts by hand

ASSUME ClientsAssumption ==
    /\ Manner \in [Clients -> {"asks", "garbles", "waits"}]
    /\ Probe \notin Clients /\ Stale \notin Clients /\ None \notin Clients
    /\ Probe # Stale /\ None \notin {Probe, Stale}
ASSUME LimitsAssumption ==
    /\ Threshold \in Nat \ {0} /\ Attempts \in Nat \ {0}
    /\ Backlog \in Nat \ {0} /\ MaxFaults \in Nat

VARIABLES
    inst,       \* the instance of the machine's name
    stayed,     \* kraft has failed to stop it
    dpc,        \* where the decoy's thread is
    client,     \* whom it serves; None during a heartbeat
    queue,      \* connections that wait
    attempt,    \* the attempt it is at
    due,        \* the heartbeat interval is over
    rpc,        \* where the runner is
    failures,   \* consecutive_failures
    probe,      \* its curl: "none", "sent" or "answered"
    stopping,   \* it has been told to stop
    signal,     \* a SIGTERM it has not seen yet
    cut,        \* the command it was in was killed by it
    held,       \* another instance's runner holds the kraft lock
    unit,       \* the service
    arrived, answered,          \* clients that connected, that got a response
    sent, abandoned, lost,      \* what became of the event of each
    faults      \* counted for the bound

machine == <<inst, stayed>>
decoyVars == <<dpc, client, queue, attempt, due>>
runnerVars == <<rpc, failures, probe, stopping, signal, cut>>
history == <<arrived, answered, sent, abandoned, lost>>
vars == <<machine, decoyVars, runnerVars, held, unit, history, faults>>

(* The runner is about to: stop what an earlier one has left, start, wait  *)
(* until the decoy is ready; sleep, probe; stop and start again; stop      *)
(* after a start in vain; exit.                                            *)
StopPoints == {"clean", "stop", "giveUp"}
StartPoints == {"start", "restart"}
WaitPoints == {"await", "awaitAgain"}
RunnerPoints ==
    StopPoints \cup StartPoints \cup WaitPoints \cup {"sleep", "probe", "gone"}

Init ==
    /\ inst = "none" /\ stayed = FALSE
    /\ dpc = "select" /\ client = None /\ queue = <<>>
    /\ attempt = 0 /\ due = FALSE
    /\ rpc = "clean" /\ failures = 0 /\ probe = "none"
    /\ stopping = FALSE /\ signal = FALSE /\ cut = FALSE
    /\ held = FALSE
    /\ unit = "active"
    /\ arrived = {} /\ answered = {}
    /\ sent = {} /\ abandoned = {} /\ lost = {}
    /\ faults = 0

Fault == faults < MaxFaults /\ faults' = faults + 1

-----------------------------------------------------------------------------
(* The decoy. *)

(* The instance ends: its connections are closed, an event it was sending  *)
(* is lost.                                                                *)
Killed ==
    /\ inst' = "none" /\ stayed' = FALSE
    /\ dpc' = "select" /\ client' = None /\ queue' = <<>>
    /\ attempt' = 0 /\ due' = FALSE
    /\ lost' = lost \cup {c \in Clients : c = client /\ dpc = "dispatch"}
    /\ UNCHANGED <<arrived, answered, sent, abandoned>>

(* It boots and listens; the first heartbeat is due at once. *)
Boot ==
    /\ inst = "booting"
    /\ inst' = "up"
    /\ due' = TRUE
    /\ UNCHANGED <<stayed, dpc, client, queue, attempt, runnerVars, held, unit,
                   history, faults>>

IntervalOver ==
    /\ inst = "up"
    /\ ~due
    /\ due' = TRUE
    /\ UNCHANGED <<machine, dpc, client, queue, attempt, runnerVars, held, unit,
                   history, faults>>

Arrive(c) ==
    /\ inst = "up"
    /\ c \notin arrived
    /\ Len(queue) < Backlog
    /\ arrived' = arrived \cup {c}
    /\ queue' = Append(queue, c)
    /\ UNCHANGED <<machine, dpc, client, attempt, due, runnerVars, held, unit,
                   answered, sent, abandoned, lost, faults>>

(* After select, a heartbeat that is due goes first. *)
SendBeat ==
    /\ inst = "up"
    /\ dpc = "select"
    /\ due
    /\ dpc' = "dispatch"
    /\ attempt' = 1
    /\ UNCHANGED <<machine, client, queue, due, runnerVars, held, unit, history,
                   faults>>

(* Otherwise the next client is served. *)
Accept ==
    /\ inst = "up"
    /\ dpc = "select"
    /\ ~due
    /\ queue # <<>>
    /\ dpc' = "read"
    /\ client' = Head(queue)
    /\ queue' = Tail(queue)
    /\ UNCHANGED <<machine, attempt, due, runnerVars, held, unit, history, faults>>

Asks(c) == c \in {Probe, Stale} \/ (c \in Clients /\ Manner[c] = "asks")

(* Variant: the event is sent before the response. *)
ReadReportsFirst ==
    /\ dpc = "read"
    /\ Asks(client)
    /\ dpc' = "dispatch"
    /\ attempt' = 1
    /\ UNCHANGED <<machine, client, queue, due, runnerVars, held, unit, history,
                   faults>>

(* A request is read and answered; its event is next, whether the response *)
(* could be sent or not.                                                   *)
ReadAndAnswer ==
    /\ dpc = "read"
    /\ Asks(client)
    /\ dpc' = "dispatch"
    /\ attempt' = 1
    /\ answered' = answered \cup (Clients \cap {client})
    /\ probe' = IF client = Probe THEN "answered" ELSE probe
    /\ UNCHANGED <<machine, client, queue, due, rpc, failures, stopping, signal,
                   cut, held, unit, arrived, sent, abandoned, lost, faults>>

(* What is no request is answered 400, or not at all when the client has   *)
(* gone: no event.  A client that waits may go, or stay as long as it      *)
(* likes.                                                                  *)
Dismiss(manner) ==
    /\ dpc = "read"
    /\ client \in Clients
    /\ Manner[client] = manner
    /\ dpc' = "select"
    /\ client' = None
    /\ UNCHANGED <<machine, queue, attempt, due, runnerVars, held, unit, history,
                   faults>>
ReadGarbled == Dismiss("garbles")
ClientGoes == Dismiss("waits")

(* The payload is sent, or was the third time in vain. *)
Dispatched ==
    /\ dpc' = "select"
    /\ client' = None
    /\ attempt' = 0
    /\ due' = (due /\ client # None)

(* It is sent; what the relay answers is read and ignored. *)
AttemptSucceeds ==
    /\ dpc = "dispatch"
    /\ Dispatched
    /\ sent' = sent \cup (Clients \cap {client})
    /\ UNCHANGED <<machine, queue, runnerVars, held, unit, arrived, answered,
                   abandoned, lost, faults>>

(* Variant: one attempt more. *)
AttemptFailsOnceMore ==
    /\ dpc = "dispatch"
    /\ \/ /\ attempt <= Attempts
          /\ attempt' = attempt + 1
          /\ UNCHANGED <<dpc, client, due, abandoned>>
       \/ /\ attempt > Attempts
          /\ Dispatched
          /\ abandoned' = abandoned \cup (Clients \cap {client})
    /\ UNCHANGED <<machine, queue, runnerVars, held, unit, arrived, answered,
                   sent, lost, faults>>

(* The connection fails or breaks. *)
AttemptFails ==
    /\ dpc = "dispatch"
    /\ \/ /\ attempt < Attempts
          /\ attempt' = attempt + 1
          /\ UNCHANGED <<dpc, client, due, abandoned>>
       \/ /\ attempt = Attempts
          /\ Dispatched
          /\ abandoned' = abandoned \cup (Clients \cap {client})
    /\ UNCHANGED <<machine, queue, runnerVars, held, unit, arrived, answered,
                   sent, lost, faults>>

(* select or accept fails, or the machine does. *)
InstanceDies ==
    /\ inst # "none"
    /\ Fault
    /\ Killed
    /\ UNCHANGED <<runnerVars, held, unit>>

-----------------------------------------------------------------------------
(* The runner. *)

(* It executes the next line, unless its trap comes first. *)
Runs(points) == rpc \in points /\ ~signal

(* The runner exits, and is started again unless it was to stop. *)
Ends ==
    /\ rpc' = "gone"
    /\ failures' = 0 /\ probe' = "none"
    /\ stopping' = FALSE /\ signal' = FALSE /\ cut' = FALSE
    /\ unit' = IF unit = "active" THEN "restarting" ELSE unit

(* The service manager kills what it has left. *)
Exits ==
    /\ Ends
    /\ IF unit = "active" THEN Killed
       ELSE UNCHANGED <<machine, decoyVars, history>>

(* What stop_instance does: kraft's errors are ignored, and an instance    *)
(* that it fails to stop stays.                                            *)
KraftStops ==
    \/ Killed /\ UNCHANGED faults
    \/ /\ inst # "none"
       /\ Fault
       /\ stayed' = TRUE
       /\ UNCHANGED <<inst, decoyVars, history>>

StopInstance ==
    /\ Runs(StopPoints)
    /\ ~held
    /\ \/ /\ rpc # "giveUp"
          /\ KraftStops
          /\ rpc' = IF rpc = "clean" THEN "start" ELSE "restart"
          /\ UNCHANGED <<failures, probe, stopping, signal, cut, unit>>
       \/ /\ rpc = "giveUp"
          /\ Ends
          /\ IF unit = "active" THEN Killed /\ UNCHANGED faults
             ELSE KraftStops
    /\ UNCHANGED held

(* start_instance: kraft refuses a name that is in use, and the script     *)
(* ends.                                                                   *)
StartInstance ==
    /\ Runs(StartPoints)
    /\ ~held
    /\ IF inst # "none" THEN Exits
       ELSE /\ inst' = "booting"
            /\ rpc' = IF rpc = "start" THEN "await" ELSE "awaitAgain"
            /\ UNCHANGED <<stayed, decoyVars, failures, probe, stopping,
                           signal, cut, unit, history>>
    /\ UNCHANGED <<held, faults>>

(* kraft fails to start it, or the lock is held for 180 seconds: the       *)
(* script ends, for it is run with set -e.                                 *)
CommandFails ==
    /\ Runs(StopPoints \cup StartPoints)
    /\ rpc \in StartPoints \/ held
    /\ Fault
    /\ Exits
    /\ UNCHANGED held

(* curl connects, to a decoy that accepts it some time. *)
Curl ==
    /\ Runs(WaitPoints \cup {"probe"})
    /\ probe = "none"
    /\ inst = "up" /\ Len(queue) < Backlog
    /\ probe' = "sent"
    /\ queue' = Append(queue, Probe)
    /\ UNCHANGED <<machine, dpc, client, attempt, due, rpc, failures, stopping,
                   signal, cut, held, unit, history, faults>>

(* It gives up after 5 seconds.  The thread answers earlier unless it      *)
(* waits for a client or for the relay.                                    *)
Busy == dpc = "dispatch" \/ (dpc = "read" /\ ~Asks(client))
CurlFails ==
    \/ probe = "none" /\ (inst # "up" \/ Len(queue) >= Backlog)
    \/ probe = "sent" /\ (inst # "up" \/ Busy)

Abandon(seq) ==
    [n \in DOMAIN seq |-> IF seq[n] = Probe THEN Stale ELSE seq[n]]

(* curl has ended: its request may be served later all the same. *)
Hangs ==
    /\ probe' = "none"
    /\ queue' = Abandon(queue)
    /\ client' = IF client = Probe THEN Stale ELSE client

(* wait_for_instance_ready succeeds. *)
Ready ==
    /\ Runs(WaitPoints)
    /\ probe = "answered"
    /\ rpc' = "sleep"
    /\ failures' = 0
    /\ Hangs
    /\ UNCHANGED <<machine, dpc, attempt, due, stopping, signal, cut, held, unit,
                   history, faults>>

(* A probe of its loop fails; the next follows in 2 seconds. *)
NotYet ==
    /\ Runs(WaitPoints)
    /\ probe = "sent"
    /\ CurlFails
    /\ Hangs
    /\ UNCHANGED <<machine, dpc, attempt, due, rpc, failures, stopping, signal,
                   cut, held, unit, history, faults>>

(* 90 seconds are over: clients or the relay keep the decoy busy, or the   *)
(* instance has died, or boots too slowly.                                 *)
NotReady ==
    /\ Runs(WaitPoints)
    /\ CurlFails
    /\ \/ inst # "booting" /\ UNCHANGED faults
       \/ inst = "booting" /\ Fault
    /\ rpc' = "giveUp"
    /\ Hangs
    /\ UNCHANGED <<machine, dpc, attempt, due, failures, stopping, signal, cut,
                   held, unit, history>>

(* The loop: asleep, then a probe unless it is to stop. *)
WakeUp ==
    /\ Runs({"sleep"})
    /\ IF stopping THEN Exits
       ELSE /\ rpc' = "probe"
            /\ UNCHANGED <<machine, decoyVars, failures, probe, stopping, signal,
                           cut, unit, history>>
    /\ UNCHANGED <<held, faults>>

Healthy ==
    /\ Runs({"probe"})
    /\ probe = "answered"
    /\ rpc' = "sleep"
    /\ failures' = 0
    /\ Hangs
    /\ UNCHANGED <<machine, dpc, attempt, due, stopping, signal, cut, held, unit,
                   history, faults>>

(* Variant: an instance that still runs is not restarted. *)
UnhealthyIfDead ==
    /\ Runs({"probe"})
    /\ CurlFails
    /\ rpc' = IF failures + 1 >= Threshold /\ inst = "none" THEN "stop"
              ELSE "sleep"
    /\ failures' = IF failures < Threshold THEN failures + 1 ELSE failures
    /\ Hangs
    /\ UNCHANGED <<machine, dpc, attempt, due, stopping, signal, cut, held, unit,
                   history, faults>>

(* Variant: the restart is a start only. *)
UnhealthyStarts ==
    /\ Runs({"probe"})
    /\ CurlFails
    /\ failures' = failures + 1
    /\ rpc' = IF failures + 1 < Threshold THEN "sleep" ELSE "restart"
    /\ Hangs
    /\ UNCHANGED <<machine, dpc, attempt, due, stopping, signal, cut, held, unit,
                   history, faults>>

(* The failures in a row lead to a restart. *)
Unhealthy ==
    /\ Runs({"probe"})
    /\ CurlFails
    /\ failures' = failures + 1
    /\ rpc' = IF failures + 1 < Threshold THEN "sleep" ELSE "stop"
    /\ Hangs
    /\ UNCHANGED <<machine, dpc, attempt, due, stopping, signal, cut, held, unit,
                   history, faults>>

(* The trap.  The command that was killed makes set -e end the script      *)
(* after it; otherwise the script goes on where it was.  Before the trap   *)
(* is set, the signal ends the script.                                     *)
Trap ==
    /\ signal
    /\ \/ /\ rpc = "clean" \/ cut
          /\ rpc = "clean" \/ ~held
          /\ Exits
       \/ /\ rpc # "clean" /\ ~cut
          /\ ~held
          /\ Killed
          /\ signal' = FALSE /\ stopping' = TRUE
          /\ UNCHANGED <<rpc, failures, probe, cut, unit>>
    /\ UNCHANGED <<held, faults>>

-----------------------------------------------------------------------------
(* The runner of another instance, and the service manager. *)

OtherLocks == ~held /\ held' = TRUE
OtherUnlocks == held /\ held' = FALSE
OtherRunner ==
    /\ OtherLocks \/ OtherUnlocks
    /\ UNCHANGED <<machine, decoyVars, runnerVars, unit, history, faults>>

(* Restart=always, 10 seconds later. *)
RunnerRestarts ==
    /\ unit = "restarting"
    /\ unit' = "active"
    /\ rpc' = "clean"
    /\ UNCHANGED <<machine, decoyVars, failures, probe, stopping, signal, cut,
                   held, history, faults>>

(* The service is stopped: SIGTERM goes to all of its processes, QEMU and  *)
(* the command the runner waits for among them.                            *)
StopService ==
    /\ unit \in {"active", "restarting"}
    /\ Killed
    /\ IF rpc = "gone" THEN unit' = "stopped" /\ UNCHANGED <<signal, cut>>
       ELSE /\ unit' = "stopping"
            /\ signal' = TRUE
            /\ cut' \in IF rpc \in StopPoints \cup StartPoints THEN BOOLEAN
                        ELSE {FALSE}
    /\ UNCHANGED <<rpc, failures, probe, stopping, held, faults>>

(* Variant: only the runner is killed (KillMode=process). *)
StoppedWithoutTheRest ==
    /\ unit = "stopping"
    /\ unit' = "stopped"
    /\ rpc' = "gone"
    /\ failures' = 0 /\ probe' = "none"
    /\ stopping' = FALSE /\ signal' = FALSE /\ cut' = FALSE
    /\ UNCHANGED <<machine, decoyVars, history, held, faults>>

(* Its processes have ended, or are killed after TimeoutStopSec. *)
Stopped ==
    /\ unit = "stopping"
    /\ unit' = "stopped"
    /\ rpc' = "gone"
    /\ failures' = 0 /\ probe' = "none"
    /\ stopping' = FALSE /\ signal' = FALSE /\ cut' = FALSE
    /\ Killed
    /\ UNCHANGED <<held, faults>>

(* It is started again. *)
StartService ==
    /\ unit = "stopped"
    /\ Fault
    /\ unit' = "active"
    /\ rpc' = "clean"
    /\ UNCHANGED <<machine, decoyVars, failures, probe, stopping, signal, cut,
                   held, history>>

-----------------------------------------------------------------------------
DecoySteps ==
    \/ Boot \/ SendBeat \/ Accept
    \/ ReadAndAnswer \/ ReadGarbled
    \/ AttemptSucceeds \/ AttemptFails

RunnerSteps ==
    \/ StopInstance \/ StartInstance
    \/ Curl \/ Ready \/ NotYet \/ NotReady
    \/ WakeUp \/ Healthy \/ Unhealthy \/ Trap

Next ==
    \/ DecoySteps
    \/ RunnerSteps \/ CommandFails
    \/ \E c \in Clients : Arrive(c)
    \/ IntervalOver \/ ClientGoes \/ InstanceDies \/ OtherRunner
    \/ RunnerRestarts \/ StopService \/ Stopped \/ StartService

(* The decoy's thread goes on, but nothing makes a client go; heartbeats   *)
(* leave time for clients, as their interval is longer than the attempts   *)
(* take.  The runner goes on; flock gives the lock to a runner that waits  *)
(* for it once it is free, and other runners free it.  Time passes.        *)
Fairness ==
    /\ WF_vars(DecoySteps) /\ SF_vars(Accept) /\ WF_vars(IntervalOver)
    /\ SF_vars(RunnerSteps) /\ WF_vars(held /\ OtherRunner)
    /\ WF_vars(RunnerRestarts) /\ WF_vars(Stopped)

Spec == Init /\ [][Next]_vars
FairSpec == Spec /\ Fairness

-----------------------------------------------------------------------------
(* Properties. *)

(* The type of every variable, and what the points imply. *)
TypeOK ==
    /\ inst \in {"none", "booting", "up"}
    /\ stayed \in BOOLEAN /\ (stayed => inst # "none")
    /\ dpc \in {"select", "read", "dispatch"}
    /\ inst # "up" => dpc = "select" /\ queue = <<>>
    /\ client \in Clients \cup {Probe, Stale, None}
    /\ dpc = "read" => client # None
    /\ queue \in BoundedSeq(Clients \cup {Probe, Stale}, Backlog)
    /\ attempt \in 0..Attempts /\ (attempt > 0) = (dpc = "dispatch")
    /\ due \in BOOLEAN /\ stopping \in BOOLEAN
    /\ signal \in BOOLEAN /\ cut \in BOOLEAN /\ held \in BOOLEAN
    /\ rpc \in RunnerPoints
    /\ failures \in 0..Threshold
    /\ probe \in {"none", "sent", "answered"}
    /\ unit \in {"active", "restarting", "stopping", "stopped"}
    /\ unit \in {"restarting", "stopped"} => rpc = "gone"
    /\ \A set \in {arrived, answered, sent, abandoned, lost} : set \subseteq Clients
    /\ faults \in 0..MaxFaults

(* No instance is left to itself: while one exists, a runner watches it or *)
(* the service manager is about to kill it, although a restart goes on     *)
(* when it is told to stop (decoy-runner.sh.j2:94-98 and 143-144) and the  *)
(* script may end at any command.                                          *)
NoOrphans == inst # "none" => rpc # "gone" \/ unit = "stopping"

(* kraft refuses a name that is in use: a decoy is started only after the  *)
(* one before it is gone, whatever ended the script or the instance in     *)
(* between, unless kraft has just failed to stop that one                  *)
(* (decoy-runner.sh.j2:33, 110-114 and 143-144).                           *)
StartsOnFreeName == [][StartInstance => inst = "none" \/ stayed]_vars

(* Every request that was answered has its event sent once, abandoned      *)
(* after the last attempt, or lost with the instance, unless it is being   *)
(* sent; and nothing else makes an event (main.c:389-414,                  *)
(* event_logger.c:356-377).                                                *)
EventsAccounted ==
    /\ answered = sent \cup abandoned \cup lost
                    \cup {c \in Clients : c = client /\ dpc = "dispatch"}
    /\ \A c \in answered : Manner[c] = "asks"
    /\ sent \cap (abandoned \cup lost) = {} /\ abandoned \cap lost = {}

(* A decoy that runs goes on to send heartbeats, though its only thread    *)
(* waits for a client as long as that likes: the runner, whose probes are  *)
(* not answered, starts it again (main.c:331, decoy-runner.sh.j2:130-147). *)
HeartbeatsGoOn ==
    []<>(dpc = "dispatch" /\ client = None) \/ <>[](unit = "stopped")

=============================================================================

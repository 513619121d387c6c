-------------------------------- MODULE Watch --------------------------------
(***************************************************************************)
(* `tmctl watch': each watcher is a process that puts a container           *)
(* "<broker>-wiretap" and a trigger "wiretap" for it beside the broker,     *)
(* prints the logs of both containers until it is told to stop, and removes *)
(* the two again.  The main goroutine, the two log readers and the          *)
(* connectivity check share one channel for "stop", which holds one value.   *)
(* Several watchers may run on one broker, each in a terminal of its own.    *)
(***************************************************************************)
EXTENDS Naturals

CONSTANTS
    Watchers,   \* processes running `tmctl watch' on the broker
    Observed,   \* those whose liveness is checked: one, for all are alike
    None,
    Commands,   \* commands given in other terminals: "stop", "start", "delete broker"
    MaxMishaps  \* bound on Docker failures, watchers killed and wiretap containers that die

ASSUME WatchersAssumption == None \notin Watchers /\ Observed \subseteq Watchers
ASSUME CountAssumption == MaxMishaps \in Nat

Readers == {"events", "broker"}

VARIABLES
    there,   \* the broker's directory with broker.conf exists
    broker,  \* the broker's container exists
    trigger, \* the `wiretap' trigger of broker.conf: whose container it is for
    tap,     \* the wiretap container: the watcher that created it
    up,      \* whether that container runs
    pc,      \* main goroutine
    chan,    \* the channel `c'
    reader,  \* goroutines listenEvents, listenBroker
    checker, \* goroutine checkConnectivity
    found,   \* the wiretap container that main has looked up, to remove it by its id
    missed,  \* whether a Cleanup failed to remove the container, or never ran
    mishaps

shared == <<there, broker, trigger, tap, up>>
local  == <<chan, reader, checker>>
vars   == <<shared, pc, local, found, missed, mishaps>>

(* Where main may be: in the calls of Container.Start, then in those of watch   *)
(* and Cleanup.                                                              *)
Places == {"off", "pull", "replace", "create", "start", "connect",
           "trigger", "logs", "wait", "cleanup", "stop", "remove", "close", "exit"}
Gone == {"exited", "panicked", "killed"}

TypeOK ==
    /\ there \in BOOLEAN /\ broker \in BOOLEAN
    /\ trigger \in Watchers \cup {None} /\ tap \in Watchers \cup {None} /\ up \in BOOLEAN
    /\ pc \in [Watchers -> Places \cup Gone]
    /\ found \in [Watchers -> Watchers \cup {None}] /\ missed \in BOOLEAN
    /\ chan \in [Watchers -> {"empty", "full", "closed"}]
    /\ reader \in [Watchers -> [Readers -> {"off", "scan", "eof", "stole"}]]
    /\ checker \in [Watchers -> {"off", "tick", "send", "sent", "stole"}]
    /\ mishaps \in Nat

(* The broker may not exist at all - its name is an argument - or be stopped. *)
Init ==
    /\ there \in BOOLEAN /\ broker \in BOOLEAN
    /\ trigger = None /\ tap = None /\ up = FALSE
    /\ pc = [w \in Watchers |-> "off"]
    /\ chan = [w \in Watchers |-> "empty"]
    /\ reader = [w \in Watchers |-> [g \in Readers |-> "off"]]
    /\ checker = [w \in Watchers |-> "off"]
    /\ found = [w \in Watchers |-> None] /\ missed = FALSE
    /\ mishaps = 0
-----------------------------------------------------------------------------
At(w, place) == pc[w] = place
Go(w, place) == pc' = [pc EXCEPT ![w] = place]
Mishap     == mishaps < MaxMishaps /\ mishaps' = mishaps + 1
Running(w) == pc[w] \notin {"off"} \cup Gone

(* The goroutines and the channel end with the process.                      *)
Dies(w, how) ==
    /\ Go(w, how)
    /\ chan' = [chan EXCEPT ![w] = "empty"] /\ checker' = [checker EXCEPT ![w] = "off"]
    /\ reader' = [reader EXCEPT ![w] = [g \in Readers |-> "off"]]
    /\ found' = [found EXCEPT ![w] = None]

(* The channel is registered for the signals before anything else.           *)
Run(w) ==
    /\ At(w, "off") /\ Go(w, "pull")
    /\ UNCHANGED <<shared, local, found, missed, mishaps>>

(* CreateAdapter: Container.Start with a restart, call by call, for another  *)
(* watcher, or `stop', may come between any two of them.  Each error makes   *)
(* watch return, which calls the deferred Cleanup.                           *)
Fails(w) == Mishap /\ Go(w, "cleanup")

(* The image is pulled, and the container that has the name is looked up.    *)
Pull(w) ==
    /\ At(w, "pull")
    /\ \/ found' = [found EXCEPT ![w] = tap] /\ Go(w, "replace") /\ UNCHANGED mishaps
       \/ Fails(w) /\ UNCHANGED found
    /\ UNCHANGED <<shared, local, missed>>

(* The container that was looked up is removed if it is still the one there. *)
RemoveFound(w) ==
    IF tap = found[w] THEN tap' = None /\ up' = FALSE ELSE UNCHANGED <<tap, up>>

(* An error of the removal is ignored.                                       *)
Replace(w) ==
    /\ At(w, "replace") /\ Go(w, "create")
    /\ \/ RemoveFound(w) /\ UNCHANGED mishaps
       \/ Mishap /\ UNCHANGED <<tap, up>>
    /\ found' = [found EXCEPT ![w] = None]
    /\ UNCHANGED <<there, broker, trigger, local, missed>>

(* The name may be taken: by a container that could not be removed, or by    *)
(* that of a watcher which was faster.                                       *)
ContainerCreate(w) ==
    /\ At(w, "create")
    /\ \/ tap # None /\ Go(w, "cleanup") /\ UNCHANGED <<tap, up, mishaps>>
       \/ tap = None /\ tap' = w /\ up' = FALSE /\ Go(w, "start") /\ UNCHANGED mishaps
       \/ Fails(w) /\ (UNCHANGED <<tap, up>> \/ (tap = None /\ tap' = w /\ up' = FALSE))
    /\ UNCHANGED <<there, broker, trigger, local, found, missed>>

(* The container may have been removed meanwhile, or replaced.               *)
ContainerStart(w) ==
    /\ At(w, "start")
    /\ \/ tap = w /\ up' = TRUE /\ Go(w, "connect") /\ UNCHANGED mishaps
       \/ tap # w /\ Go(w, "cleanup") /\ UNCHANGED <<up, mishaps>>
       \/ Fails(w) /\ (UNCHANGED up \/ (tap = w /\ up' = TRUE))
    /\ UNCHANGED <<there, broker, trigger, tap, local, found, missed>>

Connected(w) == tap = w /\ up

(* isRunning and the container's logs, both of which ask for it by its id.   *)
Connect(w) ==
    /\ At(w, "connect")
    /\ \/ Connected(w) /\ Go(w, "trigger") /\ UNCHANGED mishaps
       \/ ~Connected(w) /\ Go(w, "cleanup") /\ UNCHANGED mishaps
       \/ Fails(w)
    /\ UNCHANGED <<shared, local, found, missed>>

CreateTrigger(w) ==
    /\ At(w, "trigger")
    /\ IF there THEN trigger' = w /\ Go(w, "logs") ELSE Go(w, "cleanup") /\ UNCHANGED trigger
    /\ UNCHANGED <<there, broker, tap, up, local, found, missed, mishaps>>

Listen(w, readers) ==
    /\ Go(w, "wait") /\ UNCHANGED mishaps
    /\ reader' = [reader EXCEPT ![w] = [g \in readers |-> "scan"]]
    /\ checker' = [checker EXCEPT ![w] = "tick"]

(* Mutants: only the broker's log gets a reader; an error of this last call   *)
(* is returned without the clean-up.                                         *)
BrokerLogsOnce(w) ==
    /\ At(w, "logs") /\ Listen(w, {"broker"})
    /\ UNCHANGED <<shared, chan, found, missed>>
BrokerLogsReturns(w) ==
    /\ At(w, "logs")
    /\ IF broker THEN Listen(w, Readers) ELSE Go(w, "close") /\ UNCHANGED <<reader, checker, mishaps>>
    /\ UNCHANGED <<shared, chan, found, missed>>

(* The broker's container is looked up, which `stop' may have removed.       *)
BrokerLogs(w) ==
    /\ At(w, "logs")
    /\ \/ broker /\ Listen(w, Readers)
       \/ ~broker /\ Go(w, "cleanup") /\ UNCHANGED <<reader, checker, mishaps>>
       \/ Fails(w) /\ UNCHANGED <<reader, checker>>
    /\ UNCHANGED <<shared, chan, found, missed>>

(* Mutant: the channel is closed as soon as main has its value.              *)
ReceiveCloses(w) ==
    /\ At(w, "wait") /\ chan[w] = "full"
    /\ chan' = [chan EXCEPT ![w] = "closed"] /\ Go(w, "cleanup")
    /\ UNCHANGED <<shared, reader, checker, found, missed, mishaps>>

(* "<-c" in main.                                                            *)
Receive(w) ==
    /\ At(w, "wait") /\ chan[w] = "full"
    /\ chan' = [chan EXCEPT ![w] = "empty"] /\ Go(w, "cleanup")
    /\ UNCHANGED <<shared, reader, checker, found, missed, mishaps>>

(* The deferred calls, in reverse order: Cleanup, then close(c).  Without    *)
(* broker.conf Cleanup returns before it comes to the container.             *)
CleanTrigger(w) ==
    /\ At(w, "cleanup")
    /\ IF there THEN trigger' = None /\ Go(w, "stop") ELSE Go(w, "close") /\ UNCHANGED trigger
    /\ UNCHANGED <<there, broker, tap, up, local, found, missed, mishaps>>

(* Mutant: only an own container is stopped.                                 *)
LookUpTapOwn(w) ==
    /\ At(w, "stop") /\ Go(w, "remove")
    /\ found' = [found EXCEPT ![w] = IF tap = w THEN w ELSE None]
    /\ UNCHANGED <<shared, local, missed, mishaps>>

(* ForceStop: the container that has the name is looked up and removed by    *)
(* its id.  If it is gone by then, that is an error, and only logged.        *)
LookUpTap(w) ==
    /\ At(w, "stop")
    /\ \/ found' = [found EXCEPT ![w] = tap] /\ Go(w, "remove") /\ UNCHANGED <<missed, mishaps>>
       \/ Mishap /\ missed' = TRUE /\ Go(w, "close") /\ UNCHANGED found
    /\ UNCHANGED <<shared, local>>

RemoveTap(w) ==
    /\ At(w, "remove") /\ Go(w, "close")
    /\ \/ RemoveFound(w) /\ UNCHANGED <<missed, mishaps>>
       \/ Mishap /\ missed' = TRUE /\ UNCHANGED <<tap, up>>
    /\ found' = [found EXCEPT ![w] = None]
    /\ UNCHANGED <<there, broker, trigger, local>>

Close(w) ==
    /\ At(w, "close") /\ Go(w, "exit")
    /\ chan' = [chan EXCEPT ![w] = "closed"]
    /\ UNCHANGED <<shared, reader, checker, found, missed, mishaps>>

Exit(w) ==
    /\ At(w, "exit") /\ Dies(w, "exited")
    /\ UNCHANGED <<shared, missed, mishaps>>
-----------------------------------------------------------------------------
(* SIGINT or SIGTERM: put into the channel if there is room, else dropped;   *)
(* the runtime's send to a closed channel panics.                            *)
Signal(w) ==
    /\ Running(w)
    /\ \/ chan[w] = "empty" /\ chan' = [chan EXCEPT ![w] = "full"]
          /\ UNCHANGED <<pc, reader, checker, found>>
       \/ chan[w] = "closed" /\ Dies(w, "panicked")
    /\ UNCHANGED <<shared, missed, mishaps>>

(* Mutant: the reader goes on after it has taken a value.                    *)
ReadLineGoesOn(w, g) ==
    /\ Running(w) /\ reader[w][g] = "scan"
    /\ chan[w] = "full"
    /\ chan' = [chan EXCEPT ![w] = "empty"]
    /\ UNCHANGED <<shared, pc, reader, checker, found, missed, mishaps>>

(* A reader looks at the channel after each line of the log, and takes the   *)
(* value that is there; its scanner stops with the stream.                   *)
ReadLine(w, g) ==
    /\ Running(w) /\ reader[w][g] = "scan"
    /\ chan[w] # "empty"
    /\ reader' = [reader EXCEPT ![w][g] = "stole"]
    /\ chan' = [chan EXCEPT ![w] = IF @ = "full" THEN "empty" ELSE @]
    /\ UNCHANGED <<shared, pc, checker, found, missed, mishaps>>

(* The stream of a container ends with it; the broker's may do so any time.  *)
EndOfLog(w, g) ==
    /\ Running(w) /\ reader[w][g] = "scan"
    /\ g = "events" => ~Connected(w)
    /\ reader' = [reader EXCEPT ![w][g] = "eof"]
    /\ UNCHANGED <<shared, pc, chan, checker, found, missed, mishaps>>

(* Mutant: the check returns without a word when the container is gone.      *)
CheckTickSilent(w) ==
    /\ Running(w) /\ checker[w] = "tick" /\ ~Connected(w)
    /\ checker' = [checker EXCEPT ![w] = "sent"]
    /\ UNCHANGED <<shared, pc, chan, reader, found, missed, mishaps>>

(* checkConnectivity: stop when told so, or, on a tick, when the wiretap     *)
(* container cannot be reached.                                              *)
CheckDone(w) ==
    /\ Running(w) /\ checker[w] = "tick" /\ chan[w] # "empty"
    /\ checker' = [checker EXCEPT ![w] = "stole"]
    /\ chan' = [chan EXCEPT ![w] = IF @ = "full" THEN "empty" ELSE @]
    /\ UNCHANGED <<shared, pc, reader, found, missed, mishaps>>

CheckTick(w) ==
    /\ Running(w) /\ checker[w] = "tick" /\ ~Connected(w)
    /\ checker' = [checker EXCEPT ![w] = "send"]
    /\ UNCHANGED <<shared, pc, chan, reader, found, missed, mishaps>>

CheckSend(w) ==
    /\ Running(w) /\ checker[w] = "send"
    /\ \/ /\ chan[w] = "empty" /\ chan' = [chan EXCEPT ![w] = "full"]
          /\ checker' = [checker EXCEPT ![w] = "sent"] /\ UNCHANGED <<pc, reader, found>>
       \/ chan[w] = "closed" /\ Dies(w, "panicked")
    /\ UNCHANGED <<shared, missed, mishaps>>
-----------------------------------------------------------------------------
(* What happens around the watchers.                                         *)
Kill(w) ==
    /\ Running(w) /\ Mishap /\ Dies(w, "killed")
    /\ missed' = (missed \/ pc[w] \notin {"close", "exit"})
    /\ UNCHANGED shared

Elsewhere == UNCHANGED <<pc, local, found, missed>>

TapDies ==
    /\ up /\ up' = FALSE /\ Mishap
    /\ UNCHANGED <<there, broker, trigger, tap>> /\ Elsewhere

(* `stop' from another terminal takes the wiretap container along, leaves    *)
(* the trigger, and then removes the broker's container; it only logs the     *)
(* errors of Docker, so that each may come without the other.                *)
StopTap ==
    /\ "stop" \in Commands /\ there
    /\ tap' = None /\ up' = FALSE
    /\ UNCHANGED <<there, broker, trigger, mishaps>> /\ Elsewhere

StopBroker ==
    /\ "stop" \in Commands /\ there
    /\ broker' = FALSE
    /\ UNCHANGED <<there, trigger, tap, up, mishaps>> /\ Elsewhere

(* `start' brings the broker's container back.                               *)
StartBroker ==
    /\ "start" \in Commands /\ there
    /\ broker' = TRUE
    /\ UNCHANGED <<there, trigger, tap, up, mishaps>> /\ Elsewhere

(* `delete broker' removes the broker's container, or fails to, and then the   *)
(* directory; it leaves the wiretap container.                               *)
DeleteBroker ==
    /\ "delete broker" \in Commands /\ there
    /\ there' = FALSE /\ trigger' = None
    /\ broker' \in {broker, FALSE}
    /\ UNCHANGED <<tap, up, mishaps>> /\ Elsewhere

Outside == TapDies \/ StopTap \/ StopBroker \/ StartBroker \/ DeleteBroker

Main(w) ==
    \/ Pull(w) \/ Replace(w) \/ ContainerCreate(w) \/ ContainerStart(w) \/ Connect(w)
    \/ CreateTrigger(w) \/ BrokerLogs(w) \/ Receive(w)
    \/ CleanTrigger(w) \/ LookUpTap(w) \/ RemoveTap(w) \/ Close(w) \/ Exit(w)

Goroutines(w) ==
    \/ \E g \in Readers : ReadLine(w, g) \/ EndOfLog(w, g)
    \/ CheckDone(w) \/ CheckTick(w) \/ CheckSend(w)

Next ==
    \/ \E w \in Watchers : Run(w) \/ Main(w) \/ Goroutines(w) \/ Signal(w) \/ Kill(w)
    \/ Outside

Spec == Init /\ [][Next]_vars

(* The main goroutine goes on when it can; the ticker fires and the check    *)
(* sends.  Log lines and signals may never come, and other watchers may hang. *)
Fairness == \A w \in Observed : WF_vars(Main(w)) /\ WF_vars(CheckTick(w)) /\ WF_vars(CheckSend(w))
FairSpec == Spec /\ Fairness

-----------------------------------------------------------------------------
(* Properties.                                                               *)

(* As long as the broker is not deleted, no watcher is killed and no removal  *)
(* in a Cleanup fails, nothing is left once all watchers have ended, however *)
(* they ended: told to, by a panic of the channel, or by an early return -    *)
(* the other watcher has taken the name or removed the container, the        *)
(* broker is stopped, any other call has failed (watch, Cleanup).            *)
CleansUp ==
    /\ ~missed /\ there
    /\ \A w \in Watchers : pc[w] \in {"off"} \cup Gone
    => trigger = None /\ tap = None

(* A watcher whose container runs is given the events: the trigger is for    *)
(* its container, unless another watcher still runs that has lost its own     *)
(* (and will remove both when it notices).  CreateAdapter comes before        *)
(* CreateTrigger, and Cleanup removes the trigger before the container.       *)
TapIsFed ==
    ~missed /\ there =>
        \A w \in Watchers : At(w, "wait") /\ Connected(w) =>
            trigger = w \/ \E v \in Watchers : Running(v) /\ ~Connected(v)

(* A send to the closed channel ends the process before main returns; it     *)
(* then has done its cleanup.                                                *)
PanicsLate == [][\A w \in Watchers :
                   pc[w] # "panicked" /\ pc'[w] = "panicked" => pc[w] = "exit"]_vars

(* A watcher whose container was stopped or replaced ends by itself, unless  *)
(* a log reader or the check has taken a value of the channel from main.     *)
EndsWithTap ==
    \A w \in Observed :
        (pc[w] = "wait" /\ ~Connected(w)) ~>
            (pc[w] \in Gone \/ checker[w] = "stole" \/ \E g \in Readers : reader[w][g] = "stole")

(* A user who presses Ctrl-C again when nothing happens ends a watch, though  *)
(* a log reader or the check may take some of the signals: each does so once. *)
Interruptible ==
    (\A w \in Observed : WF_vars(Signal(w))) =>
        \A w \in Observed : (pc[w] = "wait") ~> (pc[w] \in Gone)
=============================================================================

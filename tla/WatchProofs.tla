----------------------------- MODULE WatchProofs -----------------------------
(***************************************************************************)
(* Theorems about Watch, for any number of watchers and of mishaps.           *)
(***************************************************************************)
EXTENDS Watch, TLAPS

(* The steps, one by one.                                                     *)
Step(w) ==
    \/ Run(w)
    \/ Pull(w) \/ Replace(w) \/ ContainerCreate(w) \/ ContainerStart(w) \/ Connect(w)
    \/ CreateTrigger(w) \/ BrokerLogs(w) \/ Receive(w)
    \/ CleanTrigger(w) \/ LookUpTap(w) \/ RemoveTap(w) \/ Close(w) \/ Exit(w)
    \/ (\E g \in Readers : ReadLine(w, g)) \/ (\E g \in Readers : EndOfLog(w, g))
    \/ CheckDone(w) \/ CheckTick(w) \/ CheckSend(w)
    \/ Signal(w) \/ Kill(w)

LEMMA NextSteps == Next => (\E w \in Watchers : Step(w)) \/ Outside
BY DEF Next, Main, Goroutines, Step
-----------------------------------------------------------------------------
LEMMA InitType == Init => TypeOK
<1> SUFFICES ASSUME Init PROVE TypeOK
  OBVIOUS
<1>1. there \in BOOLEAN /\ broker \in BOOLEAN /\ up \in BOOLEAN /\ missed \in BOOLEAN
  BY DEF Init
<1>2. trigger \in Watchers \cup {None} /\ tap \in Watchers \cup {None}
  BY DEF Init
<1>3. pc \in [Watchers -> Places \cup Gone]
  BY DEF Init, Places
<1>4. chan \in [Watchers -> {"empty", "full", "closed"}]
  BY DEF Init
<1>5. reader \in [Watchers -> [Readers -> {"off", "scan", "eof", "stole"}]]
  BY DEF Init
<1>6. checker \in [Watchers -> {"off", "tick", "send", "sent", "stole"}] /\ mishaps \in Nat
  BY DEF Init
<1>7. found \in [Watchers -> Watchers \cup {None}]
  BY DEF Init
<1> QED BY <1>1, <1>2, <1>3, <1>4, <1>5, <1>6, <1>7 DEF TypeOK

LEMMA AllReaders ==
    ASSUME NEW s \in {"off", "scan"}
    PROVE  [g \in Readers |-> s] \in [Readers -> {"off", "scan", "eof", "stole"}]
OBVIOUS

(* The end of a process.                                                       *)
LEMMA DiesType ==
    ASSUME TypeOK, NEW w \in Watchers, NEW how \in Gone, Dies(w, how)
    PROVE  /\ pc' \in [Watchers -> Places \cup Gone]
           /\ found' \in [Watchers -> Watchers \cup {None}]
           /\ chan' \in [Watchers -> {"empty", "full", "closed"}]
           /\ reader' \in [Watchers -> [Readers -> {"off", "scan", "eof", "stole"}]]
           /\ checker' \in [Watchers -> {"off", "tick", "send", "sent", "stole"}]
BY AllReaders DEF TypeOK, Dies, Go

LEMMA StepType == ASSUME TypeOK, NEW w \in Watchers, Step(w) PROVE TypeOK'
<1> USE DEF TypeOK, Go, At, shared, local, Mishap, Fails
<1>1. CASE Run(w)
  BY <1>1 DEF Run, Places
<1>2. CASE Pull(w)
  <2>1. up' \in BOOLEAN /\ there' \in BOOLEAN /\ broker' \in BOOLEAN /\ missed' \in BOOLEAN
    BY <1>2, Zenon DEF Pull
  <2>2. tap' \in Watchers \cup {None} /\ trigger' \in Watchers \cup {None}
    BY <1>2 DEF Pull
  <2>3. pc' \in [Watchers -> Places \cup Gone] /\ found' \in [Watchers -> Watchers \cup {None}]
    BY <1>2 DEF Pull, Places
  <2>4. mishaps' \in Nat
    BY <1>2 DEF Pull
  <2> QED BY <1>2, <2>1, <2>2, <2>3, <2>4 DEF Pull
<1>3. CASE Replace(w)
  <2>1. up' \in BOOLEAN /\ there' \in BOOLEAN /\ broker' \in BOOLEAN /\ missed' \in BOOLEAN
    BY <1>3, Zenon DEF Replace, RemoveFound
  <2>2. tap' \in Watchers \cup {None} /\ trigger' \in Watchers \cup {None}
    BY <1>3 DEF Replace, RemoveFound
  <2>3. pc' \in [Watchers -> Places \cup Gone] /\ found' \in [Watchers -> Watchers \cup {None}]
    BY <1>3 DEF Replace, RemoveFound, Places
  <2>4. mishaps' \in Nat
    BY <1>3 DEF Replace, RemoveFound
  <2> QED BY <1>3, <2>1, <2>2, <2>3, <2>4 DEF Replace
<1>4. CASE ContainerCreate(w)
  <2>1. up' \in BOOLEAN /\ there' \in BOOLEAN /\ broker' \in BOOLEAN /\ missed' \in BOOLEAN
    BY <1>4, Zenon DEF ContainerCreate
  <2>2. tap' \in Watchers \cup {None} /\ trigger' \in Watchers \cup {None}
    BY <1>4 DEF ContainerCreate
  <2>3. pc' \in [Watchers -> Places \cup Gone] /\ found' \in [Watchers -> Watchers \cup {None}]
    BY <1>4 DEF ContainerCreate, Places
  <2>4. mishaps' \in Nat
    BY <1>4 DEF ContainerCreate
  <2> QED BY <1>4, <2>1, <2>2, <2>3, <2>4 DEF ContainerCreate
<1>5. CASE ContainerStart(w)
  <2>1. up' \in BOOLEAN /\ there' \in BOOLEAN /\ broker' \in BOOLEAN /\ missed' \in BOOLEAN
    BY <1>5, Zenon DEF ContainerStart
  <2>2. tap' \in Watchers \cup {None} /\ trigger' \in Watchers \cup {None}
    BY <1>5 DEF ContainerStart
  <2>3. pc' \in [Watchers -> Places \cup Gone] /\ found' \in [Watchers -> Watchers \cup {None}]
    BY <1>5 DEF ContainerStart, Places
  <2>4. mishaps' \in Nat
    BY <1>5 DEF ContainerStart
  <2> QED BY <1>5, <2>1, <2>2, <2>3, <2>4 DEF ContainerStart
<1>6. CASE Connect(w)
  BY <1>6 DEF Connect, Places
<1>7. CASE CreateTrigger(w)
  BY <1>7 DEF CreateTrigger, Places
<1>8. CASE BrokerLogs(w)
  <2>1. reader' \in [Watchers -> [Readers -> {"off", "scan", "eof", "stole"}]]
    BY <1>8, AllReaders DEF BrokerLogs, Listen
  <2>2. pc' \in [Watchers -> Places \cup Gone]
    BY <1>8 DEF BrokerLogs, Listen, Places
  <2>3. checker' \in [Watchers -> {"off", "tick", "send", "sent", "stole"}] /\ mishaps' \in Nat
    BY <1>8 DEF BrokerLogs, Listen
  <2> QED BY <1>8, <2>1, <2>2, <2>3 DEF BrokerLogs
<1>9. CASE Receive(w)
  BY <1>9 DEF Receive, Places
<1>10. CASE CleanTrigger(w)
  BY <1>10 DEF CleanTrigger, Places
<1>11. CASE LookUpTap(w)
  <2>1. up' \in BOOLEAN /\ there' \in BOOLEAN /\ broker' \in BOOLEAN /\ missed' \in BOOLEAN
    BY <1>11, Zenon DEF LookUpTap
  <2>2. tap' \in Watchers \cup {None} /\ trigger' \in Watchers \cup {None}
    BY <1>11 DEF LookUpTap
  <2>3. pc' \in [Watchers -> Places \cup Gone] /\ found' \in [Watchers -> Watchers \cup {None}]
    BY <1>11 DEF LookUpTap, Places
  <2>4. mishaps' \in Nat
    BY <1>11 DEF LookUpTap
  <2> QED BY <1>11, <2>1, <2>2, <2>3, <2>4 DEF LookUpTap
<1>12. CASE RemoveTap(w)
  <2>1. up' \in BOOLEAN /\ there' \in BOOLEAN /\ broker' \in BOOLEAN /\ missed' \in BOOLEAN
    BY <1>12, Zenon DEF RemoveTap, RemoveFound
  <2>2. tap' \in Watchers \cup {None} /\ trigger' \in Watchers \cup {None}
    BY <1>12 DEF RemoveTap, RemoveFound
  <2>3. pc' \in [Watchers -> Places \cup Gone] /\ found' \in [Watchers -> Watchers \cup {None}]
    BY <1>12 DEF RemoveTap, RemoveFound, Places
  <2>4. mishaps' \in Nat
    BY <1>12 DEF RemoveTap, RemoveFound
  <2> QED BY <1>12, <2>1, <2>2, <2>3, <2>4 DEF RemoveTap
<1>13. CASE Close(w)
  BY <1>13 DEF Close, Places
<1>14. CASE Exit(w)
  BY <1>14, DiesType DEF Exit, Gone
<1>15. ASSUME NEW g \in Readers, ReadLine(w, g) PROVE TypeOK'
  BY <1>15 DEF ReadLine
<1>16. ASSUME NEW g \in Readers, EndOfLog(w, g) PROVE TypeOK'
  BY <1>16 DEF EndOfLog
<1>17. CASE CheckDone(w)
  BY <1>17 DEF CheckDone
<1>18. CASE CheckTick(w)
  BY <1>18 DEF CheckTick
<1>19. CASE CheckSend(w)
  <2>1. CASE Dies(w, "panicked") /\ UNCHANGED <<shared, missed, mishaps>>
    BY <2>1, DiesType DEF Gone
  <2>2. CASE /\ chan' = [chan EXCEPT ![w] = "full"] /\ checker' = [checker EXCEPT ![w] = "sent"]
             /\ UNCHANGED <<shared, pc, reader, found, missed, mishaps>>
    BY <2>2
  <2> QED BY <1>19, <2>1, <2>2 DEF CheckSend
<1>20. CASE Signal(w)
  <2>1. CASE Dies(w, "panicked") /\ UNCHANGED <<shared, missed, mishaps>>
    BY <2>1, DiesType DEF Gone
  <2>2. CASE /\ chan' = [chan EXCEPT ![w] = "full"]
             /\ UNCHANGED <<shared, pc, reader, checker, found, missed, mishaps>>
    BY <2>2
  <2> QED BY <1>20, <2>1, <2>2 DEF Signal
<1>21. CASE Kill(w)
  <2>1. missed' \in BOOLEAN /\ up' \in BOOLEAN /\ there' \in BOOLEAN /\ broker' \in BOOLEAN
    BY <1>21, Zenon DEF Kill
  <2>2. Dies(w, "killed") /\ mishaps' \in Nat /\ UNCHANGED <<trigger, tap>>
    BY <1>21 DEF Kill
  <2>3. /\ pc' \in [Watchers -> Places \cup Gone]
        /\ found' \in [Watchers -> Watchers \cup {None}]
        /\ chan' \in [Watchers -> {"empty", "full", "closed"}]
        /\ reader' \in [Watchers -> [Readers -> {"off", "scan", "eof", "stole"}]]
        /\ checker' \in [Watchers -> {"off", "tick", "send", "sent", "stole"}]
    BY <2>2, DiesType DEF Gone
  <2> QED BY <2>1, <2>2, <2>3
<1> QED
  BY <1>1, <1>2, <1>3, <1>4, <1>5, <1>6, <1>7, <1>8, <1>9, <1>10, <1>11, <1>12, <1>13,
     <1>14, <1>15, <1>16, <1>17, <1>18, <1>19, <1>20, <1>21 DEF Step

LEMMA OutsideType == ASSUME TypeOK, Outside PROVE TypeOK'
<1> USE DEF TypeOK, Elsewhere, local
<1>1. up' \in BOOLEAN /\ there' \in BOOLEAN /\ broker' \in BOOLEAN /\ missed' \in BOOLEAN
  BY Zenon DEF Outside, TapDies, StopTap, StopBroker, StartBroker, DeleteBroker
<1>2. trigger' \in Watchers \cup {None} /\ tap' \in Watchers \cup {None}
  BY DEF Outside, TapDies, StopTap, StopBroker, StartBroker, DeleteBroker
<1>3. UNCHANGED <<pc, found>> /\ UNCHANGED <<chan, reader, checker>>
  BY DEF Outside, TapDies, StopTap, StopBroker, StartBroker, DeleteBroker
<1>4. mishaps' \in {mishaps, mishaps + 1}
  <2>1. TapDies => mishaps' = mishaps + 1
    BY DEF TapDies, Mishap
  <2>2. Outside => TapDies \/ UNCHANGED mishaps
    BY DEF Outside, StopTap, StopBroker, StartBroker, DeleteBroker
  <2> QED BY <2>1, <2>2
<1> QED BY <1>1, <1>2, <1>3, <1>4

(* The variables of Watch keep their types.                                   *)
THEOREM TypeCorrect == Spec => []TypeOK
<1>1. TypeOK /\ UNCHANGED vars => TypeOK'
  BY DEF TypeOK, vars, shared, local
<1>2. TypeOK /\ [Next]_vars => TypeOK'
  BY <1>1, NextSteps, StepType, OutsideType
<1> QED BY <1>2, InitType, PTL DEF Spec
-----------------------------------------------------------------------------
(* The channel is closed only when main is at its end, so that a send to it      *)
(* panics only there.                                                        *)
ClosedLate == \A w \in Watchers : chan[w] = "closed" => pc[w] = "exit"

LEMMA StepClosedLate == ASSUME TypeOK, ClosedLate, NEW w \in Watchers, Step(w) PROVE ClosedLate'
<1> USE DEF TypeOK, ClosedLate, Go, At, shared, local, Fails, Dies
<1>1. CASE Run(w)
  BY <1>1 DEF Run
<1>2. CASE Pull(w)
  BY <1>2 DEF Pull
<1>3. CASE Replace(w)
  BY <1>3 DEF Replace
<1>4. CASE ContainerCreate(w)
  BY <1>4 DEF ContainerCreate
<1>5. CASE ContainerStart(w)
  BY <1>5 DEF ContainerStart
<1>6. CASE Connect(w)
  BY <1>6 DEF Connect
<1>7. CASE CreateTrigger(w)
  BY <1>7 DEF CreateTrigger
<1>8. CASE BrokerLogs(w)
  BY <1>8 DEF BrokerLogs, Listen
<1>9. CASE Receive(w)
  BY <1>9 DEF Receive
<1>10. CASE CleanTrigger(w)
  BY <1>10 DEF CleanTrigger
<1>11. CASE LookUpTap(w)
  BY <1>11 DEF LookUpTap
<1>12. CASE RemoveTap(w)
  BY <1>12 DEF RemoveTap
<1>13. CASE Close(w)
  BY <1>13 DEF Close
<1>14. CASE Exit(w)
  BY <1>14 DEF Exit
<1>15. ASSUME NEW g \in Readers, ReadLine(w, g) PROVE ClosedLate'
  BY <1>15 DEF ReadLine
<1>16. ASSUME NEW g \in Readers, EndOfLog(w, g) PROVE ClosedLate'
  BY <1>16 DEF EndOfLog
<1>17. CASE CheckDone(w)
  BY <1>17 DEF CheckDone
<1>18. CASE CheckTick(w)
  BY <1>18 DEF CheckTick
<1>19. CASE CheckSend(w)
  BY <1>19 DEF CheckSend
<1>20. CASE Signal(w)
  BY <1>20 DEF Signal
<1>21. CASE Kill(w)
  BY <1>21 DEF Kill
<1> QED
  BY <1>1, <1>2, <1>3, <1>4, <1>5, <1>6, <1>7, <1>8, <1>9, <1>10, <1>11, <1>12, <1>13,
     <1>14, <1>15, <1>16, <1>17, <1>18, <1>19, <1>20, <1>21 DEF Step

(* What is left of the wiretap has a watcher that will remove it.  As long as    *)
(* the broker exists and no Cleanup was missed, that is the one which made it:   *)
(* it cannot end before it has seen to it that the thing is gone.              *)
Undisturbed == ~missed /\ there

HoldsTrigger(w) == pc[w] \in {"logs", "wait", "cleanup"}
HoldsTap(w) ==
    \/ pc[w] \in {"start", "connect", "trigger", "logs", "wait", "cleanup", "stop"}
    \/ pc[w] = "remove" /\ found[w] = w

Tended ==
    Undisturbed =>
        \A w \in Watchers :
            /\ trigger = w => HoldsTrigger(w)
            /\ tap = w => HoldsTap(w)

(* And for a watcher whose trigger is not there, another one will take its        *)
(* container away.                                                           *)
WillTake(v, u) ==
    \/ pc[v] \in {"logs", "wait", "cleanup", "stop"}
    \/ pc[v] = "remove" /\ found[v] = u

Fed ==
    Undisturbed =>
        \A w \in Watchers : pc[w] \in {"logs", "wait"} /\ tap = w =>
            trigger = w \/ \E v \in Watchers \ {w} : WillTake(v, w)

IInv == TypeOK /\ ClosedLate /\ Tended /\ Fed

LEMMA StillUndisturbed ==
    ASSUME TypeOK, NEW w \in Watchers, Step(w), Undisturbed'
    PROVE  Undisturbed /\ UNCHANGED missed
<1> USE DEF TypeOK, Undisturbed, shared
<1>1. CASE LookUpTap(w) \/ RemoveTap(w)
  BY <1>1 DEF LookUpTap, RemoveTap
<1>2. CASE Kill(w)
  BY <1>2 DEF Kill
<1>3. CASE Run(w) \/ Pull(w) \/ Replace(w) \/ ContainerCreate(w) \/ ContainerStart(w) \/ Connect(w)
  BY <1>3 DEF Run, Pull, Replace, ContainerCreate, ContainerStart, Connect
<1>4. CASE CreateTrigger(w) \/ BrokerLogs(w) \/ Receive(w) \/ CleanTrigger(w) \/ Close(w) \/ Exit(w)
  BY <1>4 DEF CreateTrigger, BrokerLogs, Receive, CleanTrigger, Close, Exit
<1>5. CASE (\E g \in Readers : ReadLine(w, g)) \/ (\E g \in Readers : EndOfLog(w, g))
           \/ CheckDone(w) \/ CheckTick(w) \/ CheckSend(w) \/ Signal(w)
  BY <1>5 DEF ReadLine, EndOfLog, CheckDone, CheckTick, CheckSend, Signal
<1> QED BY <1>1, <1>2, <1>3, <1>4, <1>5 DEF Step

(* A watcher that dies holds nothing: it is at its end, or was killed there.       *)
LEMMA DeadHolds ==
    ASSUME IInv, NEW w \in Watchers, Undisturbed', Signal(w) \/ CheckSend(w) \/ Kill(w) \/ Exit(w), pc' # pc
    PROVE  pc[w] \in {"close", "exit"} /\ \E how \in Gone : Dies(w, how)
BY DEF IInv, TypeOK, ClosedLate, Undisturbed, Signal, CheckSend, Kill, Exit, At, Gone

LEMMA StepTended == ASSUME IInv, NEW w \in Watchers, Step(w) PROVE Tended'
<1> SUFFICES ASSUME Undisturbed' PROVE Tended'
  BY DEF Tended
<1>0. Undisturbed /\ UNCHANGED missed /\ there
  BY StillUndisturbed DEF IInv, Undisturbed
<1> USE DEF IInv, TypeOK, Tended, HoldsTrigger, HoldsTap, Go, At, shared, local, Gone, Fails
<1>1. CASE Run(w)
  BY <1>0, <1>1 DEF Run
<1>2. CASE Pull(w)
  BY <1>0, <1>2 DEF Pull
<1>3. CASE Replace(w)
  <2>1. /\ pc' = [pc EXCEPT ![w] = "create"] /\ found' = [found EXCEPT ![w] = None]
        /\ UNCHANGED trigger /\ pc[w] = "replace" /\ tap' \in {tap, None}
    BY <1>3 DEF Replace, RemoveFound
  <2> QED BY <1>0, <2>1, WatchersAssumption
<1>4. CASE ContainerCreate(w)
  <2>1. /\ UNCHANGED <<trigger, found>> /\ pc[w] = "create"
        /\ \/ tap' = tap /\ pc' = [pc EXCEPT ![w] = "cleanup"]
           \/ tap' = w /\ pc' = [pc EXCEPT ![w] = "start"]
           \/ tap' = w /\ pc' = [pc EXCEPT ![w] = "cleanup"]
    BY <1>4 DEF ContainerCreate
  <2> QED BY <1>0, <2>1
<1>5. CASE ContainerStart(w)
  BY <1>0, <1>5 DEF ContainerStart
<1>6. CASE Connect(w)
  BY <1>0, <1>6 DEF Connect
<1>7. CASE CreateTrigger(w)
  <2>1. pc' = [pc EXCEPT ![w] = "logs"] /\ trigger' = w /\ UNCHANGED <<tap, found>> /\ pc[w] = "trigger"
    BY <1>0, <1>7 DEF CreateTrigger
  <2> QED BY <1>0, <2>1
<1>8. CASE BrokerLogs(w)
  <2>1. pc' = [pc EXCEPT ![w] = "wait"] \/ pc' = [pc EXCEPT ![w] = "cleanup"]
    BY <1>8 DEF BrokerLogs, Listen
  <2>2. UNCHANGED <<trigger, tap, found>> /\ pc[w] = "logs"
    BY <1>8 DEF BrokerLogs
  <2> QED BY <1>0, <2>1, <2>2
<1>9. CASE Receive(w)
  BY <1>0, <1>9 DEF Receive
<1>10. CASE CleanTrigger(w)
  <2>1. pc' = [pc EXCEPT ![w] = "stop"] /\ trigger' = None /\ UNCHANGED <<tap, found>> /\ pc[w] = "cleanup"
    BY <1>0, <1>10 DEF CleanTrigger
  <2> QED BY <1>0, <2>1, WatchersAssumption
<1>11. CASE LookUpTap(w)
  <2>1. /\ pc' = [pc EXCEPT ![w] = "remove"] /\ found' = [found EXCEPT ![w] = tap]
        /\ UNCHANGED <<tap, trigger>> /\ pc[w] = "stop"
    BY <1>0, <1>11 DEF LookUpTap, Undisturbed
  <2> QED BY <1>0, <2>1
<1>12. CASE RemoveTap(w)
  <2>1. /\ pc' = [pc EXCEPT ![w] = "close"] /\ found' = [found EXCEPT ![w] = None]
        /\ UNCHANGED trigger /\ pc[w] = "remove"
        /\ IF tap = found[w] THEN tap' = None ELSE UNCHANGED tap
    BY <1>0, <1>12 DEF RemoveTap, RemoveFound, Undisturbed
  <2> QED BY <1>0, <2>1, WatchersAssumption
<1>13. CASE Close(w)
  BY <1>0, <1>13 DEF Close
<1>14. CASE Exit(w)
  <2>1. UNCHANGED <<trigger, tap>> /\ pc' # pc
    BY <1>14 DEF Exit, At, Dies, Gone, Running
  <2>2. PICK how \in Gone : Dies(w, how) /\ pc[w] \in {"close", "exit"}
    BY <1>14, <2>1, DeadHolds
  <2> QED BY <1>0, <2>1, <2>2 DEF Dies
<1>15. ASSUME NEW g \in Readers, ReadLine(w, g) PROVE Tended'
  BY <1>0, <1>15 DEF ReadLine
<1>16. ASSUME NEW g \in Readers, EndOfLog(w, g) PROVE Tended'
  BY <1>0, <1>16 DEF EndOfLog
<1>17. CASE CheckDone(w)
  BY <1>0, <1>17 DEF CheckDone
<1>18. CASE CheckTick(w)
  BY <1>0, <1>18 DEF CheckTick
<1>19. CASE CheckSend(w)
  <2>1. UNCHANGED <<trigger, tap>>
    BY <1>19 DEF CheckSend
  <2>2. CASE UNCHANGED <<pc, found>>
    BY <1>0, <2>1, <2>2
  <2>3. CASE ~UNCHANGED <<pc, found>>
    <3>1. pc' # pc
      BY <1>19, <2>3 DEF CheckSend, Dies, Running
    <3>2. PICK how \in Gone : Dies(w, how) /\ pc[w] \in {"close", "exit"}
      BY <1>19, <3>1, DeadHolds
    <3> QED BY <1>0, <2>1, <3>2 DEF Dies
  <2> QED BY <2>2, <2>3
<1>20. CASE Signal(w)
  <2>1. UNCHANGED <<trigger, tap>>
    BY <1>20 DEF Signal
  <2>2. CASE UNCHANGED <<pc, found>>
    BY <1>0, <2>1, <2>2
  <2>3. CASE ~UNCHANGED <<pc, found>>
    <3>1. pc' # pc
      BY <1>20, <2>3 DEF Signal, Dies, Running
    <3>2. PICK how \in Gone : Dies(w, how) /\ pc[w] \in {"close", "exit"}
      BY <1>20, <3>1, DeadHolds
    <3> QED BY <1>0, <2>1, <3>2 DEF Dies
  <2> QED BY <2>2, <2>3
<1>21. CASE Kill(w)
  <2>1. UNCHANGED <<trigger, tap>> /\ pc' # pc
    BY <1>21 DEF Kill, At, Dies, Gone, Running
  <2>2. PICK how \in Gone : Dies(w, how) /\ pc[w] \in {"close", "exit"}
    BY <1>21, <2>1, DeadHolds
  <2> QED BY <1>0, <2>1, <2>2 DEF Dies
<1> QED
  BY <1>1, <1>2, <1>3, <1>4, <1>5, <1>6, <1>7, <1>8, <1>9, <1>10, <1>11, <1>12, <1>13,
     <1>14, <1>15, <1>16, <1>17, <1>18, <1>19, <1>20, <1>21 DEF Step

LEMMA StepFed == ASSUME IInv, NEW w \in Watchers, Step(w) PROVE Fed'
<1> SUFFICES ASSUME Undisturbed', NEW u \in Watchers, pc'[u] \in {"logs", "wait"}, tap' = u, trigger' # u
             PROVE  \E v \in Watchers \ {u} : WillTake(v, u)'
  BY DEF Fed
<1>0. Undisturbed /\ UNCHANGED missed /\ there
  BY StillUndisturbed DEF IInv, Undisturbed
<1> USE DEF IInv, TypeOK, Fed, WillTake, Go, At, shared, local, Gone, Fails
<1>1. CASE Run(w)
  BY <1>0, <1>1 DEF Run
<1>2. CASE Pull(w)
  BY <1>0, <1>2 DEF Pull
<1>3. CASE Replace(w)
  <2>1. /\ pc' = [pc EXCEPT ![w] = "create"] /\ found' = [found EXCEPT ![w] = None]
        /\ UNCHANGED trigger /\ pc[w] = "replace" /\ tap' \in {tap, None}
    BY <1>3 DEF Replace, RemoveFound
  <2> QED BY <1>0, <2>1, WatchersAssumption
<1>4. CASE ContainerCreate(w)
  <2>1. /\ UNCHANGED <<trigger, found>> /\ pc[w] = "create"
        /\ \/ tap' = tap /\ pc' = [pc EXCEPT ![w] = "cleanup"]
           \/ tap' = w /\ pc' = [pc EXCEPT ![w] = "start"]
           \/ tap' = w /\ pc' = [pc EXCEPT ![w] = "cleanup"]
    BY <1>4 DEF ContainerCreate
  <2> QED BY <1>0, <2>1
<1>5. CASE ContainerStart(w)
  BY <1>0, <1>5 DEF ContainerStart
<1>6. CASE Connect(w)
  BY <1>0, <1>6 DEF Connect
<1>7. CASE CreateTrigger(w)
  <2>1. pc' = [pc EXCEPT ![w] = "logs"] /\ trigger' = w /\ UNCHANGED <<tap, found>> /\ pc[w] = "trigger"
    BY <1>0, <1>7 DEF CreateTrigger
  <2> QED BY <1>0, <2>1
<1>8. CASE BrokerLogs(w)
  <2>1. pc' = [pc EXCEPT ![w] = "wait"] \/ pc' = [pc EXCEPT ![w] = "cleanup"]
    BY <1>8 DEF BrokerLogs, Listen
  <2>2. UNCHANGED <<trigger, tap, found>> /\ pc[w] = "logs"
    BY <1>8 DEF BrokerLogs
  <2> QED BY <1>0, <2>1, <2>2
<1>9. CASE Receive(w)
  BY <1>0, <1>9 DEF Receive
<1>10. CASE CleanTrigger(w)
  <2>1. pc' = [pc EXCEPT ![w] = "stop"] /\ trigger' = None /\ UNCHANGED <<tap, found>> /\ pc[w] = "cleanup"
    BY <1>0, <1>10 DEF CleanTrigger
  <2> QED BY <1>0, <2>1, WatchersAssumption
<1>11. CASE LookUpTap(w)
  <2>1. /\ pc' = [pc EXCEPT ![w] = "remove"] /\ found' = [found EXCEPT ![w] = tap]
        /\ UNCHANGED <<tap, trigger>> /\ pc[w] = "stop"
    BY <1>0, <1>11 DEF LookUpTap, Undisturbed
  <2> QED BY <1>0, <2>1
<1>12. CASE RemoveTap(w)
  <2>1. /\ pc' = [pc EXCEPT ![w] = "close"] /\ found' = [found EXCEPT ![w] = None]
        /\ UNCHANGED trigger /\ pc[w] = "remove"
        /\ IF tap = found[w] THEN tap' = None ELSE UNCHANGED tap
    BY <1>0, <1>12 DEF RemoveTap, RemoveFound, Undisturbed
  <2> QED BY <1>0, <2>1, WatchersAssumption
<1>13. CASE Close(w)
  BY <1>0, <1>13 DEF Close
<1>14. CASE Exit(w)
  <2>1. UNCHANGED <<trigger, tap>> /\ pc' # pc
    BY <1>14 DEF Exit, At, Dies, Gone, Running
  <2>2. PICK how \in Gone : Dies(w, how) /\ pc[w] \in {"close", "exit"}
    BY <1>14, <2>1, DeadHolds
  <2> QED BY <1>0, <2>1, <2>2 DEF Dies
<1>15. ASSUME NEW g \in Readers, ReadLine(w, g) PROVE \E v \in Watchers \ {u} : WillTake(v, u)'
  BY <1>0, <1>15 DEF ReadLine
<1>16. ASSUME NEW g \in Readers, EndOfLog(w, g) PROVE \E v \in Watchers \ {u} : WillTake(v, u)'
  BY <1>0, <1>16 DEF EndOfLog
<1>17. CASE CheckDone(w)
  BY <1>0, <1>17 DEF CheckDone
<1>18. CASE CheckTick(w)
  BY <1>0, <1>18 DEF CheckTick
<1>19. CASE CheckSend(w)
  <2>1. UNCHANGED <<trigger, tap>>
    BY <1>19 DEF CheckSend
  <2>2. CASE UNCHANGED <<pc, found>>
    BY <1>0, <2>1, <2>2
  <2>3. CASE ~UNCHANGED <<pc, found>>
    <3>1. pc' # pc
      BY <1>19, <2>3 DEF CheckSend, Dies, Running
    <3>2. PICK how \in Gone : Dies(w, how) /\ pc[w] \in {"close", "exit"}
      BY <1>19, <3>1, DeadHolds
    <3> QED BY <1>0, <2>1, <3>2 DEF Dies
  <2> QED BY <2>2, <2>3
<1>20. CASE Signal(w)
  <2>1. UNCHANGED <<trigger, tap>>
    BY <1>20 DEF Signal
  <2>2. CASE UNCHANGED <<pc, found>>
    BY <1>0, <2>1, <2>2
  <2>3. CASE ~UNCHANGED <<pc, found>>
    <3>1. pc' # pc
      BY <1>20, <2>3 DEF Signal, Dies, Running
    <3>2. PICK how \in Gone : Dies(w, how) /\ pc[w] \in {"close", "exit"}
      BY <1>20, <3>1, DeadHolds
    <3> QED BY <1>0, <2>1, <3>2 DEF Dies
  <2> QED BY <2>2, <2>3
<1>21. CASE Kill(w)
  <2>1. UNCHANGED <<trigger, tap>> /\ pc' # pc
    BY <1>21 DEF Kill, At, Dies, Gone, Running
  <2>2. PICK how \in Gone : Dies(w, how) /\ pc[w] \in {"close", "exit"}
    BY <1>21, <2>1, DeadHolds
  <2> QED BY <1>0, <2>1, <2>2 DEF Dies
<1> QED
  BY <1>1, <1>2, <1>3, <1>4, <1>5, <1>6, <1>7, <1>8, <1>9, <1>10, <1>11, <1>12, <1>13,
     <1>14, <1>15, <1>16, <1>17, <1>18, <1>19, <1>20, <1>21 DEF Step

LEMMA OutsideInv == ASSUME IInv, Outside PROVE ClosedLate' /\ Tended' /\ Fed'
<1> USE DEF IInv, ClosedLate, Tended, Fed, Undisturbed, HoldsTrigger, HoldsTap, WillTake, Elsewhere, local
<1>1. CASE TapDies
  BY <1>1 DEF TapDies
<1>2. CASE DeleteBroker
  BY <1>2 DEF DeleteBroker
<1>3. CASE StopTap
  BY <1>3, WatchersAssumption DEF StopTap
<1>4. CASE StopBroker \/ StartBroker
  BY <1>4 DEF StopBroker, StartBroker
<1> QED BY <1>1, <1>2, <1>3, <1>4 DEF Outside

LEMMA Invariant == Spec => []IInv
<1>1. Init => IInv
  BY InitType, WatchersAssumption DEF Init, IInv, ClosedLate, Tended, Fed
<1>2. IInv /\ [Next]_vars => IInv'
  <2> SUFFICES ASSUME IInv, [Next]_vars PROVE IInv'
    OBVIOUS
  <2>1. CASE UNCHANGED vars
    BY <2>1 DEF vars, shared, local, IInv, TypeOK, ClosedLate, Tended, Fed, Undisturbed,
                HoldsTrigger, HoldsTap, WillTake
  <2>2. ASSUME NEW w \in Watchers, Step(w) PROVE IInv'
    BY <2>2, StepType, StepClosedLate, StepTended, StepFed DEF IInv
  <2>3. CASE Outside
    BY <2>3, OutsideType, OutsideInv DEF IInv
  <2> QED BY <2>1, <2>2, <2>3, NextSteps
<1> QED BY <1>1, <1>2, PTL DEF Spec
-----------------------------------------------------------------------------
(* Once all watchers have ended, whatever their number, however they replaced   *)
(* each other's container and wherever they returned early, nothing of the       *)
(* wiretap is left: the trigger and the container had a watcher that was still   *)
(* to remove them.                                                           *)
THEOREM LeavesNothing == Spec => []CleansUp
<1>1. IInv => CleansUp
  <2> SUFFICES ASSUME IInv, Undisturbed, \A w \in Watchers : pc[w] \in {"off"} \cup Gone
               PROVE  trigger = None /\ tap = None
    BY DEF CleansUp, Undisturbed
  <2>1. \A w \in Watchers : ~HoldsTrigger(w) /\ ~HoldsTap(w)
    BY DEF HoldsTrigger, HoldsTap, Gone
  <2> QED BY <2>1 DEF IInv, TypeOK, Tended
<1> QED BY <1>1, Invariant, PTL

(* A watcher that waits beside its running container has the trigger, or is        *)
(* about to lose the container to the clean-up of another one.                 *)
THEOREM Feeding == Spec => []TapIsFed
<1>1. IInv => TapIsFed
  <2> SUFFICES ASSUME IInv, Undisturbed, NEW w \in Watchers, pc[w] = "wait", Connected(w), trigger # w
               PROVE  \E v \in Watchers : Running(v) /\ ~Connected(v)
    BY DEF TapIsFed, Undisturbed, At
  <2>1. PICK v \in Watchers \ {w} : WillTake(v, w)
    BY DEF IInv, Fed, Connected
  <2>2. ~Connected(v) /\ Running(v)
    BY <2>1 DEF Connected, Running, Gone, WillTake
  <2> QED BY <2>1, <2>2
<1> QED BY <1>1, Invariant, PTL

(* No watcher panics before it has cleaned up.                                  *)
THEOREM PanicsAtEnd == Spec => PanicsLate
<1>1. IInv /\ [Next]_vars => [\A w \in Watchers : pc[w] # "panicked" /\ pc'[w] = "panicked" => pc[w] = "exit"]_vars
  <2> SUFFICES ASSUME IInv, Next, NEW w \in Watchers, pc[w] # "panicked", pc'[w] = "panicked"
               PROVE  pc[w] = "exit"
    BY DEF vars
  <2>1. PICK v \in Watchers : Step(v)
    BY NextSteps DEF Outside, TapDies, StopTap, StopBroker, StartBroker, DeleteBroker, Elsewhere
  <2>2. v = w /\ chan[w] = "closed"
    BY <2>1 DEF IInv, TypeOK, Step, Go, Dies, Fails, Listen, Run, Pull, Replace, ContainerCreate, ContainerStart,
         Connect, CreateTrigger, BrokerLogs, Receive, CleanTrigger, LookUpTap, RemoveTap, Close, Exit,
         ReadLine, EndOfLog, CheckDone, CheckTick, CheckSend, Signal, Kill
  <2> QED BY <2>2 DEF IInv, ClosedLate
<1> QED BY <1>1, Invariant, PTL DEF Spec, PanicsLate
=============================================================================

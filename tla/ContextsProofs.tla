---------------------------- MODULE ContextsProofs ----------------------------
(* Type correctness, the ownership of containers and the current broker, for  *)
(* every set of brokers and components and every bound.                       *)
EXTENDS Contexts, WellFoundedInduction, TLAPS

-----------------------------------------------------------------------------
(* The names of brokers.                                                      *)

(* No broker is named "...-broker": the name stop and delete look for is then *)
(* the container's.                                                           *)
PlainNames == \A b \in Brokers : b[2] = 0

LEMMA StopNamePlain ==
    ASSUME PlainNames, NEW b \in Brokers
    PROVE  StopName(b) = ContainerName(b)
BY DEF PlainNames, ContainerName, StopName

LEMMA NamesType ==
    ASSUME NEW b \in Brokers
    PROVE  /\ ContainerName(b) \in Containers \ Components
           /\ StopName(b) \in Containers \ Components
BY NamesAssumption DEF Containers, BrokerContainers

(* The broker listed first is one of them: ranks are numbers, so one is least. *)
LEMMA FirstType ==
    ASSUME NEW S \in SUBSET Brokers, S # {}
    PROVE  First(S) \in S
<1>. DEFINE R == {Rank[b] : b \in S}
<1>1. R \subseteq Nat /\ R # {}
  BY RankAssumption
<1>2. PICK m \in R : \A k \in R : ~(<<k, m>> \in OpToRel(<, Nat))
  BY <1>1, NatLessThanWellFounded, WFMin
<1>3. \A k \in R : m <= k
  <2>. SUFFICES ASSUME NEW k \in R PROVE m <= k
    OBVIOUS
  <2>1. k \in Nat /\ m \in Nat
    BY <1>1
  <2>2. ~(k < m)
    BY <1>2, <2>1 DEF OpToRel
  <2>. QED BY <2>1, <2>2
<1>4. \E b \in S : \A d \in S : Rank[b] <= Rank[d]
  BY <1>3
<1>. QED BY <1>4 DEF First
-----------------------------------------------------------------------------
(* Type correctness is inductive together with CommandOK.                     *)

LEMMA NoneApart == None \notin Brokers /\ None \notin Dirs /\ None \notin Entries
BY NamesAssumption DEF Entries

LEMMA NoCommandType == NoCommand \in Commands
BY DEF NoCommand, Commands

LEMMA InitInv == Init => IndInv
<1>. SUFFICES ASSUME Init PROVE IndInv
  OBVIOUS
<1>1. TypeOK
  BY NoCommandType DEF Init, TypeOK, Phases
<1>2. CommandOK
  BY DEF Init, CommandOK, NoCommand
<1>3. OwnersOK
  BY DEF Init, OwnersOK
<1>4. CurrentOK
  BY DEF Init, CurrentOK
<1>. QED BY <1>1, <1>2, <1>3, <1>4 DEF IndInv

(* What Container.Start leaves, whether it returns or breaks off.             *)
LEMMA StartedType ==
    ASSUME TypeOK, ctx \in Brokers, NEW n \in Containers, NEW again,
           docker' = Started(n, again) \/ StartBroken(n, again)
    PROVE  docker' \in [Containers -> Brokers \cup {None}]
BY DEF TypeOK, Started, StartBroken, Removed

LEMMA StartFailsKeeps ==
    ASSUME TypeOK, NEW n, NEW again, StartFails(n, again)
    PROVE  /\ phase' \in {"done", "idle"} /\ outcome' \in {"ok", "error"}
           /\ cmd' \in Commands /\ ctx' \in Brokers \cup {None} /\ left' \subseteq Entries
           /\ faults' \in Nat /\ kills' \in Nat /\ mistakes' = mistakes
           /\ (faults' = 0 => faults = 0) /\ (kills' = 0 => kills = 0)
           /\ phase' = "done" => cmd' = cmd
           /\ phase' = "idle" => cmd' = NoCommand
           /\ StartBroken(n, again)
<1>1. CASE Finish("error")
  <2>1. /\ StartBroken(n, again) /\ mistakes' = mistakes /\ faults' \in Nat /\ kills' \in Nat
        /\ (faults' = 0 => faults = 0) /\ (kills' = 0 => kills = 0)
    BY <1>1 DEF StartFails, TypeOK, Forget, Finish
  <2>. QED BY <1>1, <2>1 DEF TypeOK, Finish, locals
<1>2. CASE Forget
  <2>1. /\ StartBroken(n, again) /\ mistakes' = mistakes /\ faults' \in Nat /\ kills' \in Nat
        /\ (faults' = 0 => faults = 0) /\ (kills' = 0 => kills = 0)
    BY <1>2 DEF StartFails, TypeOK, Forget, Finish
  <2>. QED BY <1>2, <2>1, NoCommandType DEF TypeOK, Forget
<1>. QED BY <1>1, <1>2 DEF StartFails

(* The end of a command, by itself or killed.                                 *)
LEMMA FinishCommand ==
    ASSUME CommandOK, phase # "idle", phase' = "done", cmd' = cmd
    PROVE  CommandOK'
BY DEF CommandOK

LEMMA ForgetCommand ==
    ASSUME phase' = "idle", cmd' = NoCommand
    PROVE  CommandOK'
<1>1. cmd'.op = "none"
  BY DEF NoCommand
<1>. QED BY <1>1 DEF CommandOK

LEMMA ForgetType ==
    ASSUME TypeOK, Forget
    PROVE  /\ phase' \in Phases /\ cmd' \in Commands /\ ctx' \in Brokers \cup {None}
           /\ left' \subseteq Entries /\ outcome' \in {"ok", "error"}
BY NoCommandType DEF Forget, Phases

LEMMA StartFailsCommand ==
    ASSUME TypeOK, CommandOK, phase # "idle", NEW n, NEW again, StartFails(n, again)
    PROVE  CommandOK'
BY StartFailsKeeps, FinishCommand, ForgetCommand

LEMMA InvocationType ==
    ASSUME TypeOK, CommandOK, Invocations
    PROVE  TypeOK' /\ CommandOK'
<1>1. ASSUME NEW op \in {"create broker", "delete broker", "start", "stop", "create", "delete"},
             NEW b \in Brokers \cup {None}, NEW k \in Components \cup {None}, NEW again \in BOOLEAN,
             NEW at \in Brokers \cup {None}, Begin(op, b, k, again, at),
             op = "create broker" => b \in Brokers, op = "create" => k \in Components,
             op = "delete broker" => at = b
      PROVE  TypeOK' /\ CommandOK'
  <2>1. cmd' \in Commands /\ phase' = "open" /\ cmd'.op = op /\ cmd'.broker = b /\ cmd'.comp = k
    BY <1>1 DEF Begin, Commands
  <2>2. TypeOK'
    BY <1>1, <2>1 DEF Begin, TypeOK, files, limits, Phases
  <2>3. CommandOK'
    BY <1>1, <2>1 DEF Begin, CommandOK
  <2>. QED BY <2>2, <2>3
<1>2. context \in Brokers \cup {None}
  BY DEF TypeOK
<1>3. ASSUME NEW b \in Brokers, SetBroker(b)
      PROVE  TypeOK' /\ CommandOK'
  <2>1. cmd' \in Commands /\ cmd'.op = "set"
    BY <1>3, NoCommandType DEF SetBroker, Commands, NoCommand
  <2>2. TypeOK'
    BY <1>3, <2>1 DEF SetBroker, TypeOK, Phases
  <2>3. CommandOK'
    BY <1>3, <2>1 DEF SetBroker, CommandOK
  <2>. QED BY <2>2, <2>3
<1>4. ASSUME NEW b \in Brokers \cup {None}
      PROVE  Argument(b) \in Brokers \cup {None}
  BY <1>2 DEF Argument
<1>. QED BY <1>1, <1>2, <1>3, <1>4
         DEF Invocations, CreateBroker, DeleteBroker, Start, Stop, Create, Delete
(* A change of one directory that keeps its manifest a set of entries.         *)
LEMMA DirType ==
    ASSUME TypeOK, NEW b \in Brokers, dirs[b] # None, NEW E \in SUBSET Entries,
           dirs' = [dirs EXCEPT ![b].entries = E] \/ dirs' = [dirs EXCEPT ![b].conf = TRUE]
    PROVE  /\ dirs' \in [Brokers -> Dirs \cup {None}] /\ dirs'[b] # None
           /\ \A d \in Brokers \ {b} : dirs'[d] = dirs[d]
           /\ dirs'[b].entries = E \/ dirs'[b].entries = dirs[b].entries
           /\ dirs' = [dirs EXCEPT ![b].entries = E] => dirs'[b].entries = E
<1>1. dirs[b] \in Dirs
  BY DEF TypeOK
<1>2. ASSUME dirs' = [dirs EXCEPT ![b].entries = E]
      PROVE  dirs'[b] \in Dirs /\ dirs'[b].entries = E
  BY <1>1, <1>2 DEF TypeOK, Dirs
<1>3. ASSUME dirs' = [dirs EXCEPT ![b].conf = TRUE]
      PROVE  dirs'[b] \in Dirs /\ dirs'[b].entries = dirs[b].entries
  BY <1>1, <1>3 DEF TypeOK, Dirs
<1>. QED BY <1>2, <1>3, NamesAssumption DEF TypeOK

LEMMA StepType ==
    ASSUME TypeOK, CommandOK, Steps
    PROVE  TypeOK' /\ CommandOK'
<1>. USE DEF TypeOK
<1>1. CASE MakeManifest
  <2>1. cmd.broker \in Brokers
    BY <1>1 DEF MakeManifest, CommandOK
  <2>2. CASE Exists(cmd.broker)
    <3>1. Finish("error") /\ UNCHANGED <<dirs, context, docker, limits>>
      BY <1>1, <2>2 DEF MakeManifest
    <3>2. TypeOK'
      BY <3>1 DEF Finish, locals, limits, Phases
    <3>3. CommandOK'
      BY <1>1, <3>1, FinishCommand DEF MakeManifest, Finish, locals
    <3>. QED BY <3>2, <3>3
  <2>3. CASE ~Exists(cmd.broker)
    <3>. DEFINE d == [conf |-> FALSE, entries |-> {}]
    <3>1. d \in Dirs /\ d # None
      <4>1. d \in Dirs
        BY DEF Dirs
      <4>. QED BY <4>1, NoneApart
    <3>2. dirs' = [dirs EXCEPT ![cmd.broker] = d] /\ Go("conf")
          /\ UNCHANGED <<context, docker, limits>>
      BY <1>1, <2>3 DEF MakeManifest
    <3>. HIDE DEF d
    <3>3. TypeOK'
      BY <2>1, <3>1, <3>2 DEF Go, limits, Phases
    <3>4. cmd' = cmd /\ phase' = "conf" /\ cmd.op = "create broker" /\ dirs'[cmd.broker] # None
      BY <1>1, <2>1, <3>1, <3>2 DEF MakeManifest, Go
    <3>5. CommandOK'
      BY <2>1, <3>4, NoneApart DEF CommandOK, Exists
    <3>. QED BY <3>3, <3>5
  <2>. QED BY <2>2, <2>3
<1>2. CASE MakeConf
  <2>1. cmd.broker \in Brokers /\ dirs[cmd.broker] # None
    BY <1>2 DEF MakeConf, CommandOK, Exists
  <2>2. dirs' \in [Brokers -> Dirs \cup {None}] /\ dirs'[cmd.broker] # None
    BY <1>2, <2>1, DirType DEF MakeConf
  <2>3. TypeOK'
    BY <1>2, <2>2 DEF MakeConf, Go, limits, Phases
  <2>4. CommandOK'
    BY <1>2, <2>1, <2>2 DEF MakeConf, Go, CommandOK, Exists
  <2>. QED BY <2>3, <2>4
<1>3. CASE AddBroker
  <2>1. cmd.broker \in Brokers /\ dirs[cmd.broker] # None
    BY <1>3 DEF AddBroker, CommandOK, Exists
  <2>2. /\ dirs' \in [Brokers -> Dirs \cup {None}] /\ dirs'[cmd.broker] # None
        /\ Self \in dirs'[cmd.broker].entries
    <3>. DEFINE E == dirs[cmd.broker].entries \cup {Self}
    <3>1. E \in SUBSET Entries
      BY <2>1 DEF Entries, Dirs
    <3>2. dirs' = [dirs EXCEPT ![cmd.broker].entries = E]
      BY <1>3 DEF AddBroker
    <3>3. Self \in E
      OBVIOUS
    <3>. HIDE DEF E
    <3>. QED BY <2>1, <3>1, <3>2, <3>3, DirType
  <2>3. TypeOK'
    BY <1>3, <2>2 DEF AddBroker, Go, limits, Phases
  <2>4. CommandOK'
    BY <1>3, <2>1, <2>2 DEF AddBroker, Go, CommandOK, Exists
  <2>. QED BY <2>3, <2>4
<1>4. CASE SaveContext
  <2>1. cmd.broker \in Brokers /\ dirs[cmd.broker] # None
    BY <1>4 DEF SaveContext, CommandOK, Exists
  <2>2. TypeOK'
    BY <1>4, <2>1 DEF SaveContext, limits, Phases
  <2>3. CommandOK'
    BY <1>4, <2>1 DEF SaveContext, CommandOK, Exists
  <2>. QED BY <2>2, <2>3
<1>5. CASE OpenManifest
  <2>1. Exists(ctx) => ctx \in Brokers /\ dirs[ctx] \in Dirs
    BY DEF Exists
  <2>2. Exists(ctx) => dirs[ctx].entries \subseteq Entries
    BY <2>1 DEF Dirs
  <2>3. TypeOK'
    BY <1>5, <2>2 DEF OpenManifest, Finish, files, locals, limits, Phases
  <2>4. CommandOK'
    BY <1>5, <2>2 DEF OpenManifest, Finish, files, locals, CommandOK, Exists
  <2>. QED BY <2>3, <2>4
<1>6. CASE AddComponent
  <2>1. ctx \in Brokers /\ dirs[ctx] # None /\ cmd.comp \in Components
    BY <1>6 DEF AddComponent, CommandOK, Exists
  <2>2. /\ dirs' \in [Brokers -> Dirs \cup {None}] /\ dirs'[ctx] # None
        /\ cmd.comp \in dirs'[ctx].entries
    <3>. DEFINE E == dirs[ctx].entries \cup {cmd.comp}
    <3>1. E \in SUBSET Entries
      BY <2>1 DEF Entries, Dirs
    <3>2. dirs' = [dirs EXCEPT ![ctx].entries = E]
      BY <1>6 DEF AddComponent
    <3>3. cmd.comp \in E
      OBVIOUS
    <3>. HIDE DEF E
    <3>. QED BY <2>1, <3>1, <3>2, <3>3, DirType
  <2>3. /\ cmd' \in Commands /\ cmd'.op = cmd.op /\ cmd'.comp = cmd.comp /\ cmd'.broker = cmd.broker
    BY <1>6, <2>1 DEF AddComponent, Commands
  <2>4. TypeOK'
    BY <1>6, <2>2, <2>3 DEF AddComponent, limits, Phases
  <2>5. CommandOK'
    BY <1>6, <2>1, <2>2, <2>3 DEF AddComponent, CommandOK, Exists
  <2>. QED BY <2>4, <2>5
<1>7. CASE RunContainer
  <2>1. ctx \in Brokers /\ NewContainer \in Containers
    BY <1>7, NamesType DEF RunContainer, CommandOK, Exists, NewContainer, Containers
  <2>2. CASE docker' = Started(NewContainer, cmd.restart) /\ Finish("ok") /\ UNCHANGED limits
    <3>1. TypeOK'
      BY <1>7, <2>1, <2>2, StartedType DEF RunContainer, Finish, files, locals, limits, Phases
    <3>2. CommandOK'
      BY <1>7, <2>2 DEF RunContainer, Finish, files, locals, CommandOK, Exists
    <3>. QED BY <3>1, <3>2
  <2>3. CASE StartFails(NewContainer, cmd.restart)
    <3>0. StartBroken(NewContainer, cmd.restart)
      BY <2>3, StartFailsKeeps
    <3>1. docker' \in [Containers -> Brokers \cup {None}]
      BY <2>1, <3>0, StartedType
    <3>2. TypeOK'
      BY <1>7, <2>3, <3>1, StartFailsKeeps DEF RunContainer, files, Phases
    <3>3. CommandOK'
      BY <1>7, <2>3, StartFailsCommand DEF RunContainer
    <3>. QED BY <3>2, <3>3
  <2>. QED BY <1>7, <2>2, <2>3 DEF RunContainer
<1>8. CASE RemoveObject
  <2>1. ctx \in Brokers /\ dirs[ctx] # None /\ dirs[ctx].entries \subseteq Entries
    BY <1>8 DEF RemoveObject, CommandOK, Exists, Dirs
  <2>2. /\ dirs' \in [Brokers -> Dirs \cup {None}] /\ dirs'[ctx] # None
        /\ dirs'[ctx].entries = dirs[ctx].entries \ {cmd.comp}
    <3>. DEFINE E == dirs[ctx].entries \ {cmd.comp}
    <3>1. E \in SUBSET Entries
      BY <2>1
    <3>2. dirs' = [dirs EXCEPT ![ctx].entries = E]
      BY <1>8 DEF RemoveObject
    <3>. HIDE DEF E
    <3>3. dirs' \in [Brokers -> Dirs \cup {None}] /\ dirs'[ctx] # None /\ dirs'[ctx].entries = E
      BY <2>1, <3>1, <3>2, DirType
    <3>. QED BY <3>3 DEF E
  <2>3. TypeOK'
    BY <1>8, <2>2 DEF RemoveObject, Go, limits, Phases
  <2>4. CommandOK'
    BY <1>8, <2>1, <2>2 DEF RemoveObject, Go, CommandOK, Exists
  <2>. QED BY <2>3, <2>4
<1>9. CASE LoopDone
  <2>1. TypeOK'
    BY <1>9 DEF LoopDone, Go, Finish, files, locals, limits, Phases
  <2>0. phase = "loop" /\ UNCHANGED dirs
    BY <1>9 DEF LoopDone, files
  <2>2. CASE Go("remove dir") /\ cmd.op = "delete broker"
    <3>1. phase' = "remove dir" /\ UNCHANGED <<cmd, ctx, left>>
      BY <2>2 DEF Go
    <3>2. CommandOK'
      BY <2>0, <2>2, <3>1 DEF CommandOK, Exists
    <3>. QED BY <2>1, <3>2
  <2>3. CASE Finish("ok")
    <3>1. phase' = "done" /\ cmd' = cmd
      BY <2>3 DEF Finish, locals
    <3>. QED BY <2>0, <2>1, <3>1, FinishCommand
  <2>. QED BY <1>9, <2>1, <2>2, <2>3 DEF LoopDone
<1>10. CASE RemoveDir
  <2>1. TypeOK'
    BY <1>10 DEF RemoveDir, Go, Finish, locals, limits, Phases
  <2>2. CommandOK'
    BY <1>10 DEF RemoveDir, Go, Finish, locals, CommandOK
  <2>. QED BY <2>1, <2>2
<1>11. CASE SwitchContext
  <2>1. First({b \in Brokers : dirs[b] # None}) \in Brokers \cup {None}
    BY FirstType DEF First
  <2>2. TypeOK'
    BY <1>11, <2>1 DEF SwitchContext, limits, Phases
  <2>3. CommandOK'
    BY <1>11 DEF SwitchContext, CommandOK
  <2>. QED BY <2>2, <2>3
<1>12. CASE Exit
  <2>1. TypeOK'
    BY <1>12, NoCommandType DEF Exit, Forget, files, limits, Phases
  <2>2. CommandOK'
    BY <1>12 DEF Exit, Forget, CommandOK, NoCommand
  <2>. QED BY <2>1, <2>2
<1>13. ASSUME NEW e \in left, StartEntry(e)
       PROVE  TypeOK' /\ CommandOK'
  <2>. DEFINE n == IF e = Self THEN ContainerName(ctx) ELSE e
  <2>1. ctx \in Brokers /\ n \in Containers
    BY <1>13, NamesType DEF StartEntry, CommandOK, Exists, Containers, Entries
  <2>. HIDE DEF n
  <2>2. CASE /\ docker' = Started(n, cmd.restart) /\ left' = left \ {e}
             /\ UNCHANGED <<phase, cmd, ctx, outcome, limits>>
    <3>1. TypeOK'
      BY <1>13, <2>1, <2>2, StartedType DEF StartEntry, files, limits, Phases
    <3>2. CommandOK'
      BY <1>13, <2>2 DEF StartEntry, files, CommandOK, Exists
    <3>. QED BY <3>1, <3>2
  <2>3. CASE StartFails(n, cmd.restart)
    <3>0. StartBroken(n, cmd.restart)
      BY <2>3, StartFailsKeeps
    <3>1. docker' \in [Containers -> Brokers \cup {None}]
      BY <2>1, <3>0, StartedType
    <3>2. TypeOK'
      BY <1>13, <2>3, <3>1, StartFailsKeeps DEF StartEntry, files, Phases
    <3>3. CommandOK'
      BY <1>13, <2>3, StartFailsCommand DEF StartEntry
    <3>. QED BY <3>2, <3>3
  <2>. QED BY <1>13, <2>2, <2>3 DEF StartEntry, n
<1>14. ASSUME NEW e \in left, StopEntry(e)
       PROVE  TypeOK' /\ CommandOK'
  <2>1. TypeOK'
    BY <1>14 DEF StopEntry, Call, Removed, files, limits, Phases
  <2>2. CommandOK'
    BY <1>14 DEF StopEntry, files, CommandOK, Exists
  <2>. QED BY <2>1, <2>2
<1>15. ASSUME NEW e \in left, DeleteContainer(e)
       PROVE  TypeOK' /\ CommandOK'
  <2>1. /\ cmd' \in Commands /\ cmd'.op = cmd.op /\ cmd'.broker = cmd.broker
        /\ cmd'.comp = IF e = Self THEN None ELSE e
    BY <1>15 DEF DeleteContainer, Commands, Entries
  <2>2. docker' \in [Containers -> Brokers \cup {None}] /\ faults' \in Nat
        /\ UNCHANGED <<files, ctx, outcome, kills, mistakes>> /\ left' = left \ {e}
        /\ phase' = "object" /\ phase = "loop" /\ cmd.op \in {"delete", "delete broker"}
    <3>1. docker' \in [Containers -> Brokers \cup {None}] /\ faults' \in Nat
          /\ UNCHANGED <<kills, mistakes>>
      <4>1. \A n : Removed(n) \in [Containers -> Brokers \cup {None}]
        BY DEF Removed
      <4>2. Call(Removed(IF e = Self THEN StopName(ctx) ELSE e))
        BY <1>15 DEF DeleteContainer
      <4>. QED BY <4>1, <4>2 DEF Call, limits
    <3>. QED BY <1>15, <3>1 DEF DeleteContainer
  <2>3. TypeOK'
    BY <2>1, <2>2 DEF files, Phases
  <2>4. cmd'.comp \notin left'
    BY <2>1, <2>2, NoneApart
  <2>5. CommandOK'
    BY <2>1, <2>2, <2>4 DEF files, CommandOK, Exists
  <2>. QED BY <2>3, <2>5
<1>. QED BY <1>1, <1>2, <1>3, <1>4, <1>5, <1>6, <1>7, <1>8, <1>9, <1>10, <1>11, <1>12, <1>13,
            <1>14, <1>15 DEF Steps

LEMMA NextType == TypeOK /\ CommandOK /\ [Next]_vars => TypeOK' /\ CommandOK'
<1>. SUFFICES ASSUME TypeOK, CommandOK, [Next]_vars PROVE TypeOK' /\ CommandOK'
  OBVIOUS
<1>1. CASE UNCHANGED vars
  BY <1>1 DEF vars, files, locals, limits, TypeOK, CommandOK, Exists
<1>2. CASE Kill
  <2>1. TypeOK'
    BY <1>2, ForgetType DEF Kill, files, TypeOK
  <2>2. CommandOK'
    BY <1>2, ForgetCommand DEF Kill, Forget
  <2>. QED BY <2>1, <2>2
<1>. QED BY <1>1, <1>2, InvocationType, StepType DEF Next

(* The type invariant, for every set of brokers and components.               *)
THEOREM TypeCorrect == Spec => []TypeOK
<1>1. Init => TypeOK /\ CommandOK
  BY InitInv DEF IndInv
<1>. QED BY <1>1, NextType, PTL DEF Spec
-----------------------------------------------------------------------------
(* The current broker.                                                        *)

(* A step that neither removes a broker nor selects one.                       *)
LEMMA CurrentKept ==
    ASSUME TypeOK, CurrentOK, phase # "switch",
           context' = context,
           \A b \in Brokers : (dirs'[b] = None) <=> (dirs[b] = None),
           kills' = 0 => kills = 0, mistakes' = 0 => mistakes = 0,
           cmd.op = "create broker" /\ phase \in {"conf", "add", "save"} =>
             cmd'.op = "create broker" /\ phase' \in {"conf", "add", "save"}
    PROVE  CurrentOK'
<1>1. Exists(context)' <=> Exists(context)
  BY NoneApart DEF Exists, TypeOK
<1>2. (\A b \in Brokers : dirs[b] = None) => (\A b \in Brokers : dirs'[b] = None)
  OBVIOUS
<1>. QED BY <1>1, <1>2 DEF CurrentOK

LEMMA InvocationCurrent ==
    ASSUME TypeOK, CommandOK, CurrentOK, Invocations
    PROVE  CurrentOK'
<1>1. ASSUME NEW op, NEW b, NEW k, NEW again, NEW at, Begin(op, b, k, again, at)
      PROVE  CurrentOK'
  <2>1. phase = "idle" /\ UNCHANGED <<context, dirs, kills, mistakes>>
    BY <1>1 DEF Begin, files, limits
  <2>. QED BY <2>1, CurrentKept
<1>2. ASSUME NEW b \in Brokers, SetBroker(b)
      PROVE  CurrentOK'
  <2>1. context' = b /\ dirs' = dirs /\ kills' = kills /\ b # None
    BY <1>2, NoneApart DEF SetBroker
  <2>2. mistakes' = 0 => Exists(b)
    BY <1>2 DEF SetBroker, TypeOK
  <2>. QED BY <2>1, <2>2 DEF CurrentOK, Exists
<1>. QED BY <1>1, <1>2
         DEF Invocations, CreateBroker, DeleteBroker, Start, Stop, Create, Delete

LEMMA StepCurrent ==
    ASSUME TypeOK, CommandOK, CurrentOK, Steps
    PROVE  CurrentOK'
<1>1. CASE MakeManifest
  <2>1. CASE Finish("error") /\ UNCHANGED dirs
    BY <1>1, <2>1, CurrentKept DEF MakeManifest, Finish, limits
  <2>2. CASE ~Exists(cmd.broker)
    <3>. DEFINE d == [conf |-> FALSE, entries |-> {}]
    <3>0. d # None
      <4>1. d \in Dirs
        BY DEF Dirs
      <4>. QED BY <4>1, NoneApart
    <3>1. /\ dirs' = [dirs EXCEPT ![cmd.broker] = d] /\ Go("conf") /\ context' = context
          /\ cmd.op = "create broker" /\ phase = "open" /\ UNCHANGED <<kills, mistakes>>
      BY <1>1, <2>2 DEF MakeManifest, limits
    <3>. HIDE DEF d
    <3>2. \A b \in Brokers : dirs[b] # None => dirs'[b] # None
      BY <3>0, <3>1 DEF TypeOK
    <3>3. Exists(context) => Exists(context)'
      BY <3>1, <3>2, NoneApart DEF Exists, TypeOK
    <3>. QED BY <3>1, <3>3 DEF CurrentOK, Go
  <2>. QED BY <1>1, <2>1, <2>2 DEF MakeManifest
<1>2. CASE MakeConf
  <2>1. cmd.broker \in Brokers /\ dirs[cmd.broker] # None /\ cmd.op = "create broker"
    BY <1>2 DEF MakeConf, CommandOK, Exists
  <2>2. \A b \in Brokers : (dirs'[b] = None) <=> (dirs[b] = None)
    <3>1. dirs' = [dirs EXCEPT ![cmd.broker].conf = TRUE]
      BY <1>2 DEF MakeConf
    <3>. QED BY <2>1, <3>1, DirType
  <2>. QED BY <1>2, <2>1, <2>2, CurrentKept DEF MakeConf, Go, limits
<1>3. CASE AddBroker
  <2>1. cmd.broker \in Brokers /\ dirs[cmd.broker] # None /\ cmd.op = "create broker"
    BY <1>3 DEF AddBroker, CommandOK, Exists
  <2>2. \A b \in Brokers : (dirs'[b] = None) <=> (dirs[b] = None)
    <3>. DEFINE E == dirs[cmd.broker].entries \cup {Self}
    <3>1. E \in SUBSET Entries
      BY <2>1 DEF TypeOK, Entries, Dirs
    <3>2. dirs' = [dirs EXCEPT ![cmd.broker].entries = E]
      BY <1>3 DEF AddBroker
    <3>. HIDE DEF E
    <3>. QED BY <2>1, <3>1, <3>2, DirType
  <2>. QED BY <1>3, <2>1, <2>2, CurrentKept DEF AddBroker, Go, limits
<1>4. CASE SaveContext
  BY <1>4, NoneApart DEF SaveContext, CommandOK, CurrentOK, Exists
<1>5. CASE AddComponent
  <2>1. ctx \in Brokers /\ dirs[ctx] # None /\ cmd.comp \in Components
    BY <1>5 DEF AddComponent, CommandOK, Exists, TypeOK
  <2>2. \A b \in Brokers : (dirs'[b] = None) <=> (dirs[b] = None)
    <3>. DEFINE E == dirs[ctx].entries \cup {cmd.comp}
    <3>1. E \in SUBSET Entries
      BY <2>1 DEF TypeOK, Entries, Dirs
    <3>2. dirs' = [dirs EXCEPT ![ctx].entries = E]
      BY <1>5 DEF AddComponent
    <3>. HIDE DEF E
    <3>. QED BY <2>1, <3>1, <3>2, DirType
  <2>3. cmd.op = "create" /\ phase = "add" /\ UNCHANGED <<context, kills, mistakes>>
    BY <1>5 DEF AddComponent, limits
  <2>. QED BY <2>2, <2>3, CurrentKept
<1>6. CASE RemoveObject
  <2>1. ctx \in Brokers /\ dirs[ctx] # None
    BY <1>6 DEF RemoveObject, CommandOK, Exists, TypeOK
  <2>2. \A b \in Brokers : (dirs'[b] = None) <=> (dirs[b] = None)
    <3>. DEFINE E == dirs[ctx].entries \ {cmd.comp}
    <3>1. E \in SUBSET Entries
      BY <2>1 DEF TypeOK, Dirs
    <3>2. dirs' = [dirs EXCEPT ![ctx].entries = E]
      BY <1>6 DEF RemoveObject
    <3>. HIDE DEF E
    <3>. QED BY <2>1, <3>1, <3>2, DirType
  <2>. QED BY <1>6, <2>2, CurrentKept DEF RemoveObject, limits
<1>7. CASE RemoveDir
  <2>1. phase' = "switch"
    BY <1>7 DEF RemoveDir, CommandOK, Go
  <2>. QED BY <2>1 DEF CurrentOK
<1>8. CASE SwitchContext
  <2>. DEFINE S == {b \in Brokers : dirs[b] # None}
  <2>1. context' = First(S) /\ dirs' = dirs /\ phase' = "done"
    BY <1>8 DEF SwitchContext
  <2>2. CASE S = {}
    <3>1. context' = None /\ \A b \in Brokers : dirs'[b] = None
      BY <2>1, <2>2 DEF First
    <3>. QED BY <3>1 DEF CurrentOK
  <2>3. CASE S # {}
    <3>1. context' \in S
      BY <2>1, <2>3, FirstType
    <3>2. Exists(context)' /\ context' # None
      BY <2>1, <3>1, NoneApart DEF Exists
    <3>. QED BY <3>2 DEF CurrentOK
  <2>. QED BY <2>2, <2>3
<1>9. CASE OpenManifest \/ LoopDone \/ Exit
  <2>1. /\ UNCHANGED <<context, dirs, kills, mistakes>>
        /\ phase \in {"loop", "done"} \/ phase = "open"
    BY <1>9 DEF OpenManifest, LoopDone, Exit, files, limits
  <2>. QED BY <2>1, CurrentKept
<1>10. CASE RunContainer
  <2>1. UNCHANGED <<context, dirs>> /\ phase = "run"
    BY <1>10 DEF RunContainer, files
  <2>2. (kills' = 0 => kills = 0) /\ (mistakes' = 0 => mistakes = 0)
    BY <1>10, StartFailsKeeps DEF RunContainer, limits
  <2>. QED BY <2>1, <2>2, CurrentKept
<1>11. ASSUME NEW e \in left, StartEntry(e)
       PROVE  CurrentOK'
  <2>1. UNCHANGED <<context, dirs>> /\ phase = "loop"
    BY <1>11 DEF StartEntry, files
  <2>2. (kills' = 0 => kills = 0) /\ (mistakes' = 0 => mistakes = 0)
    BY <1>11, StartFailsKeeps DEF StartEntry, limits
  <2>. QED BY <2>1, <2>2, CurrentKept
<1>12. ASSUME NEW e \in left, StopEntry(e) \/ DeleteContainer(e)
       PROVE  CurrentOK'
  <2>1. UNCHANGED <<context, dirs, kills, mistakes>> /\ phase = "loop"
    BY <1>12 DEF StopEntry, DeleteContainer, Call, files, limits
  <2>. QED BY <2>1, CurrentKept
<1>. QED BY <1>1, <1>2, <1>3, <1>4, <1>5, <1>6, <1>7, <1>8, <1>9, <1>10, <1>11, <1>12 DEF Steps

LEMMA NextCurrent == TypeOK /\ CommandOK /\ CurrentOK /\ [Next]_vars => CurrentOK'
<1>. SUFFICES ASSUME TypeOK, CommandOK, CurrentOK, [Next]_vars PROVE CurrentOK'
  OBVIOUS
<1>1. CASE UNCHANGED vars
  BY <1>1 DEF vars, files, locals, limits, CurrentOK, Exists
<1>2. CASE Kill
  <2>1. kills' # 0
    BY <1>2 DEF Kill, TypeOK
  <2>. QED BY <2>1 DEF CurrentOK
<1>. QED BY <1>1, <1>2, InvocationCurrent, StepCurrent DEF Next

(* Unless a command was killed or `brokers --set' named a missing broker, the *)
(* current broker exists between two commands, and there is one when there    *)
(* are brokers.                                                               *)
THEOREM Selected == Spec => []CurrentBrokerExists
<1>1. Init => TypeOK /\ CommandOK /\ CurrentOK
  BY InitInv DEF IndInv
<1>2. TypeOK /\ CommandOK /\ CurrentOK => CurrentBrokerExists
  BY DEF CurrentOK, CurrentBrokerExists
<1>. QED BY <1>1, <1>2, NextType, NextCurrent, PTL DEF Spec
-----------------------------------------------------------------------------
(* The owners of containers.                                                   *)

AllOwned == \A n \in Containers : docker[n] # None => Owned(n)

(* Brokers and manifests only grow.                                            *)
Grow == \A b \in Brokers : dirs[b] # None =>
            dirs'[b] # None /\ dirs[b].entries \subseteq dirs'[b].entries

LEMMA OwnedKept ==
    ASSUME TypeOK, Grow, NEW n \in Containers, docker[n] # None, docker'[n] = docker[n], Owned(n)
    PROVE  Owned(n)'
<1>. DEFINE b == docker[n]
<1>1. b \in Brokers /\ b # None /\ dirs[b] # None /\ docker'[n] = b
  BY DEF TypeOK, Owned, Exists
<1>2. dirs'[b] # None /\ dirs[b].entries \subseteq dirs'[b].entries
  BY <1>1 DEF Grow
<1>3. IF n \in Components THEN n \in dirs[b].entries
      ELSE n = ContainerName(b) /\ Self \in dirs[b].entries
  BY DEF Owned
<1>. HIDE DEF b
<1>. QED BY <1>1, <1>2, <1>3 DEF Owned, Exists

(* A step that changes no container and takes nothing from a manifest.          *)
LEMMA OwnersKept ==
    ASSUME TypeOK, OwnersOK, Grow, docker' = docker, faults' = 0 => faults = 0,
           phase' \notin {"loop", "object", "remove dir"}
    PROVE  OwnersOK'
BY OwnedKept DEF OwnersOK

LEMMA GrowSame == dirs' = dirs => Grow
BY DEF Grow

(* What the broker `ctx' may start: its own container and its components.       *)
Listed(n) == IF n \in Components THEN n \in dirs[ctx].entries
             ELSE n = ContainerName(ctx) /\ Self \in dirs[ctx].entries

LEMMA StartOwned ==
    ASSUME TypeOK, AllOwned, Exists(ctx), NEW n \in Containers, Listed(n), NEW again,
           docker' = Started(n, again) \/ StartBroken(n, again), dirs' = dirs
    PROVE  AllOwned'
<1>1. ctx \in Brokers /\ ctx # None /\ dirs[ctx] # None
  BY DEF TypeOK, Exists
<1>2. \/ docker' = docker
      \/ docker' = [docker EXCEPT ![n] = ctx]
      \/ docker' = [docker EXCEPT ![n] = None]
  BY DEF Started, StartBroken, Removed
<1>3. \A m \in Containers : m # n \/ docker'[n] = docker[n] => docker'[m] = docker[m]
  BY <1>2 DEF TypeOK
<1>4. docker'[n] \in {docker[n], ctx, None}
  BY <1>2 DEF TypeOK
<1>5. docker'[n] = ctx => Owned(n)'
  BY <1>1 DEF Owned, Listed, Exists
<1>6. ASSUME NEW m \in Containers, docker'[m] # None
      PROVE  Owned(m)'
  <2>1. CASE docker'[m] = docker[m]
    BY <1>6, <2>1, GrowSame, OwnedKept DEF AllOwned
  <2>2. CASE docker'[m] # docker[m]
    <3>1. m = n /\ docker'[n] = ctx
      BY <1>3, <1>4, <1>6, <2>2
    <3>. QED BY <3>1, <1>5
  <2>. QED BY <2>1, <2>2
<1>. QED BY <1>6 DEF AllOwned

LEMMA RemovedOwned ==
    ASSUME TypeOK, AllOwned, NEW n, docker' = Removed(n) \/ docker' = docker, dirs' = dirs
    PROVE  AllOwned'
<1>1. \A m \in Containers : docker'[m] # None => docker'[m] = docker[m]
  BY DEF Removed, TypeOK
<1>. QED BY <1>1, GrowSame, OwnedKept DEF AllOwned

LEMMA InvocationOwners ==
    ASSUME TypeOK, OwnersOK, Invocations
    PROVE  OwnersOK'
<1>1. ASSUME NEW op, NEW b, NEW k, NEW again, NEW at, Begin(op, b, k, again, at)
      PROVE  OwnersOK'
  BY <1>1, GrowSame, OwnersKept DEF Begin, files, limits
<1>2. ASSUME NEW b \in Brokers, SetBroker(b)
      PROVE  OwnersOK'
  BY <1>2, GrowSame, OwnersKept DEF SetBroker
<1>. QED BY <1>1, <1>2
         DEF Invocations, CreateBroker, DeleteBroker, Start, Stop, Create, Delete
(* The steps that write files of the current or the new broker.                *)
LEMMA GrowSteps ==
    ASSUME TypeOK, CommandOK, MakeManifest \/ MakeConf \/ AddBroker \/ AddComponent
    PROVE  Grow
<1>1. CASE MakeManifest
  <2>1. CASE UNCHANGED dirs
    BY <2>1, GrowSame
  <2>2. CASE ~UNCHANGED dirs
    <3>1. /\ cmd.broker \in Brokers /\ ~Exists(cmd.broker)
          /\ dirs' = [dirs EXCEPT ![cmd.broker] = [conf |-> FALSE, entries |-> {}]]
      BY <1>1, <2>2 DEF MakeManifest, CommandOK
    <3>2. dirs[cmd.broker] = None /\ \A b \in Brokers \ {cmd.broker} : dirs'[b] = dirs[b]
      BY <3>1, NoneApart DEF Exists, TypeOK
    <3>. QED BY <3>2 DEF Grow
  <2>. QED BY <2>1, <2>2
<1>2. CASE MakeConf
  <2>1. cmd.broker \in Brokers /\ dirs[cmd.broker] # None
    BY <1>2 DEF MakeConf, CommandOK, Exists
  <2>2. dirs' = [dirs EXCEPT ![cmd.broker].conf = TRUE]
    BY <1>2 DEF MakeConf
  <2>3. \A b \in Brokers : dirs[b] # None =>
            dirs'[b] # None /\ dirs'[b].entries = dirs[b].entries
    <3>1. dirs[cmd.broker].entries \in SUBSET Entries
      BY <2>1 DEF TypeOK, Dirs
    <3>. QED BY <2>1, <2>2, <3>1, DirType
  <2>. QED BY <2>3 DEF Grow
<1>3. CASE AddBroker
  <2>. DEFINE E == dirs[cmd.broker].entries \cup {Self}
  <2>1. cmd.broker \in Brokers /\ dirs[cmd.broker] # None
    BY <1>3 DEF AddBroker, CommandOK, Exists
  <2>2. E \in SUBSET Entries /\ dirs[cmd.broker].entries \subseteq E
    BY <2>1 DEF TypeOK, Dirs, Entries
  <2>3. dirs' = [dirs EXCEPT ![cmd.broker].entries = E]
    BY <1>3 DEF AddBroker
  <2>. HIDE DEF E
  <2>4. /\ dirs'[cmd.broker] # None /\ dirs'[cmd.broker].entries = E
        /\ \A d \in Brokers \ {cmd.broker} : dirs'[d] = dirs[d]
    BY <2>1, <2>2, <2>3, DirType
  <2>. QED BY <2>1, <2>2, <2>4 DEF Grow
<1>4. CASE AddComponent
  <2>. DEFINE E == dirs[ctx].entries \cup {cmd.comp}
  <2>1. ctx \in Brokers /\ dirs[ctx] # None /\ cmd.comp \in Components
    BY <1>4 DEF AddComponent, CommandOK, Exists, TypeOK
  <2>2. E \in SUBSET Entries /\ dirs[ctx].entries \subseteq E
    BY <2>1 DEF TypeOK, Dirs, Entries
  <2>3. dirs' = [dirs EXCEPT ![ctx].entries = E]
    BY <1>4 DEF AddComponent
  <2>. HIDE DEF E
  <2>. QED BY <2>1, <2>2, <2>3, DirType DEF Grow
<1>. QED BY <1>1, <1>2, <1>3, <1>4

LEMMA StepOwners ==
    ASSUME PlainNames, TypeOK, CommandOK, OwnersOK, Steps
    PROVE  OwnersOK'
<1>1. CASE MakeManifest \/ MakeConf \/ AddBroker \/ AddComponent
  <2>1. UNCHANGED <<docker, faults>> /\ phase' \in {"done", "conf", "add", "save", "run"}
    BY <1>1 DEF MakeManifest, MakeConf, AddBroker, AddComponent, Finish, Go, limits
  <2>. QED BY <1>1, <2>1, GrowSteps, OwnersKept
<1>2. CASE SaveContext \/ SwitchContext \/ Exit
  <2>1. UNCHANGED <<dirs, docker, faults>> /\ phase' \in {"run", "done", "idle"}
    BY <1>2 DEF SaveContext, SwitchContext, Exit, Forget, files, limits
  <2>. QED BY <2>1, GrowSame, OwnersKept
<1>3. CASE OpenManifest
  <2>0. UNCHANGED <<dirs, docker, faults>>
    BY <1>3 DEF OpenManifest, files, limits
  <2>1. CASE phase' \in {"done", "add"}
    BY <2>0, <2>1, GrowSame, OwnersKept
  <2>2. CASE phase' = "loop"
    <3>1. /\ Exists(ctx) /\ UNCHANGED <<cmd, ctx>>
          /\ cmd.op = "delete broker" => left' = dirs[ctx].entries
      BY <1>3, <2>2 DEF OpenManifest, Finish
    <3>2. faults = 0 => AllOwned'
      BY <2>0, GrowSame, OwnedKept DEF OwnersOK, AllOwned
    <3>3. ASSUME faults = 0, cmd.op = "delete broker", NEW n \in Containers, docker[n] = ctx
          PROVE  (IF n \in Components THEN n ELSE Self) \in dirs[ctx].entries
      <4>1. ctx # None
        BY <3>1 DEF Exists
      <4>2. Owned(n)
        BY <3>3, <4>1 DEF OwnersOK
      <4>. QED BY <3>3, <4>2 DEF Owned
    <3>. QED BY <2>0, <2>2, <3>1, <3>2, <3>3 DEF OwnersOK, AllOwned
  <2>. QED BY <1>3, <2>1, <2>2 DEF OpenManifest, Finish
<1>4. CASE RunContainer
  <2>1. /\ Exists(ctx) /\ NewContainer \in Containers /\ Listed(NewContainer) /\ phase = "run"
    <3>1. phase = "run" /\ Exists(ctx) /\ ctx \in Brokers
      BY <1>4 DEF RunContainer, CommandOK, TypeOK, Exists
    <3>2. CASE cmd.op = "create broker"
      <4>1. NewContainer = ContainerName(ctx) /\ Self \in dirs[ctx].entries
        BY <3>1, <3>2 DEF NewContainer, CommandOK
      <4>. QED BY <3>1, <4>1, NamesType DEF Listed
    <3>3. CASE cmd.op = "create"
      <4>1. NewContainer = cmd.comp /\ cmd.comp \in Components /\ cmd.comp \in dirs[ctx].entries
        BY <3>1, <3>3 DEF NewContainer, CommandOK
      <4>. QED BY <3>1, <4>1 DEF Listed, Containers
    <3>. QED BY <3>1, <3>2, <3>3 DEF CommandOK
  <2>2. /\ docker' = Started(NewContainer, cmd.restart) \/ StartBroken(NewContainer, cmd.restart)
        /\ phase' \in {"done", "idle"} /\ (faults' = 0 => faults = 0) /\ dirs' = dirs
    BY <1>4, StartFailsKeeps DEF RunContainer, Finish, files, limits
  <2>3. faults' = 0 => AllOwned'
    BY <2>1, <2>2, StartOwned DEF OwnersOK, AllOwned
  <2>. QED BY <2>2, <2>3 DEF OwnersOK, AllOwned
<1>5. ASSUME NEW e \in left, StartEntry(e)
      PROVE  OwnersOK'
  <2>. DEFINE n == IF e = Self THEN ContainerName(ctx) ELSE e
  <2>0. phase = "loop" /\ cmd.op = "start" /\ dirs' = dirs
    BY <1>5 DEF StartEntry, files
  <2>1. Exists(ctx) /\ n \in Containers /\ Listed(n)
    <3>1. Exists(ctx) /\ ctx \in Brokers /\ e \in dirs[ctx].entries /\ e \in Entries
      BY <2>0 DEF CommandOK, TypeOK, Exists
    <3>2. CASE e = Self
      BY <3>1, <3>2, NamesType DEF Listed
    <3>3. CASE e # Self
      BY <3>1, <3>3 DEF Listed, Entries, Containers
    <3>. QED BY <3>2, <3>3
  <2>. HIDE DEF n
  <2>2. /\ docker' = Started(n, cmd.restart) \/ StartBroken(n, cmd.restart)
        /\ (faults' = 0 => faults = 0)
        /\ phase' \in {"done", "idle"} \/ (phase' = "loop" /\ cmd' = cmd)
    <3>1. CASE StartFails(n, cmd.restart)
      <4>1. /\ StartBroken(n, cmd.restart) /\ (faults' = 0 => faults = 0)
            /\ phase' \in {"done", "idle"}
        BY <3>1, StartFailsKeeps
      <4>. QED BY <4>1
    <3>2. CASE docker' = Started(n, cmd.restart) /\ UNCHANGED <<phase, cmd, ctx, outcome, limits>>
      BY <2>0, <3>2 DEF limits
    <3>. QED BY <1>5, <3>1, <3>2 DEF StartEntry, n
  <2>3. faults' = 0 => AllOwned'
    BY <2>0, <2>1, <2>2, StartOwned DEF OwnersOK, AllOwned
  <2>. QED BY <2>0, <2>2, <2>3 DEF OwnersOK, AllOwned
<1>6. ASSUME NEW e \in left, StopEntry(e)
      PROVE  OwnersOK'
  <2>1. /\ phase' = "loop" /\ cmd' = cmd /\ cmd.op = "stop" /\ dirs' = dirs
        /\ Call(Removed(IF e = Self THEN StopName(ctx) ELSE e))
    BY <1>6 DEF StopEntry, files
  <2>2. faults' = 0 => faults = 0
    BY <2>1 DEF Call, limits, TypeOK
  <2>3. faults' = 0 => AllOwned'
    BY <2>1, <2>2, RemovedOwned DEF Call, OwnersOK, AllOwned
  <2>. QED BY <2>1, <2>3 DEF OwnersOK, AllOwned
<1>7. ASSUME NEW e \in left, DeleteContainer(e)
      PROVE  OwnersOK'
  <2>. DEFINE n == IF e = Self THEN StopName(ctx) ELSE e
  <2>1. /\ phase = "loop" /\ phase' = "object" /\ dirs' = dirs /\ ctx' = ctx
        /\ cmd'.op = cmd.op /\ cmd'.comp = (IF e = Self THEN None ELSE e)
        /\ left' = left \ {e} /\ Call(Removed(n)) /\ Exists(ctx) /\ ctx \in Brokers
    BY <1>7 DEF DeleteContainer, files, CommandOK, TypeOK, Exists, Commands
  <2>2. n \in Containers /\ (e # Self => n = e /\ n \in Components)
    BY <2>1, NamesType DEF TypeOK, Entries, Containers
  <2>. HIDE DEF n
  <2>3. SUFFICES ASSUME faults' = 0
                 PROVE  OwnersOK'
    BY DEF OwnersOK
  <2>4. faults = 0 /\ docker' = [docker EXCEPT ![n] = None]
    BY <2>1, <2>3 DEF Call, limits, TypeOK, Removed
  <2>5. docker'[n] = None /\ \A m \in Containers : m # n => docker'[m] = docker[m]
    BY <2>2, <2>4 DEF TypeOK
  <2>6. AllOwned'
    BY <2>1, <2>4, RemovedOwned DEF OwnersOK, AllOwned, Removed
  <2>7. cmd'.comp # None => docker'[cmd'.comp] = None
    BY <2>1, <2>2, <2>5
  <2>8. ASSUME cmd.op = "delete broker", NEW m \in Containers, docker'[m] = ctx
        PROVE  (IF m \in Components THEN m ELSE Self) \in left \ {e}
    <3>1. ctx # None /\ m # n /\ docker[m] = ctx
      BY <2>1, <2>5, <2>8 DEF Exists
    <3>2. (IF m \in Components THEN m ELSE Self) \in left
      BY <2>1, <2>4, <2>8, <3>1 DEF OwnersOK
    <3>3. Owned(m)
      BY <2>4, <3>1 DEF OwnersOK
    <3>4. CASE m \in Components
      BY <2>2, <3>1, <3>2, <3>4, NamesAssumption
    <3>5. CASE m \notin Components
      <4>1. m = ContainerName(ctx)
        BY <3>1, <3>3, <3>5 DEF Owned
      <4>2. e # Self
        BY <2>1, <3>1, <4>1, StopNamePlain DEF n
      <4>. QED BY <3>2, <3>5, <4>2
    <3>. QED BY <3>4, <3>5
  <2>. QED BY <2>1, <2>6, <2>7, <2>8 DEF OwnersOK, AllOwned
<1>8. CASE RemoveObject
  <2>1. /\ phase = "object" /\ phase' = "loop" /\ UNCHANGED <<docker, cmd, ctx, left, faults>>
        /\ Exists(ctx) /\ ctx \in Brokers /\ dirs[ctx] # None
    BY <1>8 DEF RemoveObject, Go, limits, CommandOK, TypeOK, Exists
  <2>2. /\ \A b \in Brokers \ {ctx} : dirs'[b] = dirs[b]
        /\ dirs'[ctx] # None /\ dirs'[ctx].entries = dirs[ctx].entries \ {cmd.comp}
    <3>. DEFINE E == dirs[ctx].entries \ {cmd.comp}
    <3>1. E \in SUBSET Entries
      BY <2>1 DEF TypeOK, Dirs
    <3>2. dirs' = [dirs EXCEPT ![ctx].entries = E]
      BY <1>8 DEF RemoveObject
    <3>. HIDE DEF E
    <3>3. /\ \A b \in Brokers \ {ctx} : dirs'[b] = dirs[b]
          /\ dirs'[ctx] # None /\ dirs'[ctx].entries = E
      BY <2>1, <3>1, <3>2, DirType
    <3>. QED BY <3>3 DEF E
  <2>3. cmd.comp # Self
    BY NamesAssumption DEF TypeOK, Commands
  <2>4. ASSUME faults = 0, NEW n \in Containers, docker[n] # None
        PROVE  Owned(n)'
    <3>1. Owned(n) /\ docker'[n] = docker[n] /\ docker[n] \in Brokers
      BY <2>1, <2>4 DEF OwnersOK, TypeOK
    <3>2. CASE docker[n] # ctx
      BY <2>2, <3>1, <3>2 DEF Owned, Exists
    <3>3. CASE docker[n] = ctx
      <4>1. n \in Components => n # cmd.comp
        BY <2>1, <2>4, NoneApart DEF OwnersOK, Entries
      <4>2. IF n \in Components THEN n \in dirs'[ctx].entries
            ELSE n = ContainerName(ctx) /\ Self \in dirs'[ctx].entries
        BY <2>2, <2>3, <3>1, <3>3, <4>1 DEF Owned
      <4>. QED BY <2>1, <2>2, <3>1, <3>3, <4>2 DEF Owned, Exists
    <3>. QED BY <3>2, <3>3
  <2>. QED BY <2>1, <2>4 DEF OwnersOK
<1>9. CASE LoopDone
  <2>0. UNCHANGED <<dirs, docker, faults>> /\ phase = "loop" /\ left = {}
    BY <1>9 DEF LoopDone, files, limits
  <2>1. CASE Finish("ok")
    BY <2>0, <2>1, GrowSame, OwnersKept DEF Finish
  <2>2. CASE cmd.op = "delete broker" /\ Go("remove dir")
    <3>1. faults = 0 => \A n \in Containers : docker[n] # ctx
      BY <2>0, <2>2 DEF OwnersOK
    <3>2. faults = 0 => AllOwned'
      BY <2>0, GrowSame, OwnedKept DEF OwnersOK, AllOwned
    <3>. QED BY <2>0, <2>2, <3>1, <3>2 DEF Go, OwnersOK, AllOwned
  <2>. QED BY <1>9, <2>1, <2>2 DEF LoopDone
<1>10. CASE RemoveDir
  <2>1. /\ phase = "remove dir" /\ phase' \in {"switch", "done"} /\ UNCHANGED <<docker, faults>>
        /\ dirs' = [dirs EXCEPT ![ctx] = None]
    BY <1>10 DEF RemoveDir, Go, Finish, limits
  <2>2. ASSUME faults = 0, NEW n \in Containers, docker[n] # None
        PROVE  Owned(n)'
    <3>1. Owned(n) /\ docker[n] \in Brokers /\ docker[n] # ctx /\ docker'[n] = docker[n]
      BY <2>1, <2>2 DEF OwnersOK, TypeOK
    <3>2. dirs'[docker[n]] = dirs[docker[n]]
      BY <2>1, <3>1 DEF TypeOK
    <3>. QED BY <3>1, <3>2 DEF Owned, Exists
  <2>. QED BY <2>1, <2>2 DEF OwnersOK
<1>. QED BY <1>1, <1>2, <1>3, <1>4, <1>5, <1>6, <1>7, <1>8, <1>9, <1>10 DEF Steps

LEMMA NextOwners ==
    ASSUME PlainNames
    PROVE  TypeOK /\ CommandOK /\ OwnersOK /\ [Next]_vars => OwnersOK'
<1>. SUFFICES ASSUME TypeOK, CommandOK, OwnersOK, [Next]_vars PROVE OwnersOK'
  OBVIOUS
<1>1. CASE UNCHANGED vars
  BY <1>1 DEF vars, files, locals, limits, OwnersOK, Owned, Exists
<1>2. CASE Kill
  BY <1>2, GrowSame, OwnersKept DEF Kill, Forget, files
<1>. QED BY <1>1, <1>2, InvocationOwners, StepOwners DEF Next

(* Without Docker failures, and whatever is killed, every container is listed  *)
(* in the manifest of the broker it was started for, for brokers whose name     *)
(* does not end in "-broker".                                                   *)
THEOREM Listing == ASSUME PlainNames PROVE Spec => []NoOrphans
<1>1. Init => TypeOK /\ CommandOK /\ OwnersOK
  BY InitInv DEF IndInv
<1>2. TypeOK /\ CommandOK /\ OwnersOK => NoOrphans
  BY DEF OwnersOK, NoOrphans
<1>3. TypeOK /\ CommandOK /\ OwnersOK /\ [Next]_vars => (TypeOK /\ CommandOK /\ OwnersOK)'
  BY NextType, NextOwners
<1>. QED BY <1>1, <1>2, <1>3, PTL DEF Spec
-----------------------------------------------------------------------------
(* What create broker has made so far: it asks for a restart, so whatever     *)
(* container has the name is replaced, and each file is there from the step   *)
(* that wrote it.                                                             *)
CreateOK ==
    cmd.op = "create broker" =>
        /\ cmd.restart /\ phase # "loop"
        /\ phase \in {"add", "save", "run"} => dirs[cmd.broker].conf
        /\ phase = "run" => ctx = cmd.broker /\ context = cmd.broker

LEMMA StepCreate ==
    ASSUME TypeOK, CommandOK, CreateOK, CreateCompletes, Steps
    PROVE  CreateOK' /\ CreateCompletes'
<1>1. CASE MakeManifest
  <2>1. phase' \in {"conf", "done"} /\ UNCHANGED cmd /\ (phase' = "done" => outcome' = "error")
    BY <1>1 DEF MakeManifest, Finish, Go, locals
  <2>. QED BY <2>1 DEF CreateOK, CreateCompletes, Ended
<1>2. CASE MakeConf
  <2>1. dirs'[cmd.broker].conf /\ phase' = "add" /\ UNCHANGED cmd
    BY <1>2 DEF MakeConf, Go, CommandOK, Exists, TypeOK, Commands, Dirs
  <2>. QED BY <2>1 DEF CreateOK, CreateCompletes, Ended
<1>3. CASE AddBroker
  <2>1. dirs'[cmd.broker].conf = dirs[cmd.broker].conf /\ phase' = "save" /\ UNCHANGED cmd
        /\ phase = "add"
    BY <1>3 DEF AddBroker, Go, CommandOK, Exists, TypeOK, Commands, Dirs
  <2>. QED BY <2>1 DEF CreateOK, CreateCompletes, Ended
<1>4. CASE SaveContext
  BY <1>4 DEF SaveContext, CreateOK, CreateCompletes, Ended
<1>5. CASE OpenManifest
  <2>1. cmd.op # "create broker" /\ UNCHANGED cmd
    BY <1>5 DEF OpenManifest, Finish, locals
  <2>. QED BY <2>1 DEF CreateOK, CreateCompletes, Ended
<1>6. CASE AddComponent
  <2>1. cmd'.op = "create"
    BY <1>6 DEF AddComponent, TypeOK, Commands
  <2>. QED BY <2>1 DEF CreateOK, CreateCompletes, Ended
<1>7. CASE RunContainer
  <2>1. CASE cmd.op = "create broker" /\ docker' = Started(NewContainer, cmd.restart) /\ Finish("ok")
    <3>1. UNCHANGED <<cmd, ctx, files>> /\ phase = "run" /\ phase' = "done"
      BY <1>7, <2>1 DEF RunContainer, Finish, locals
    <3>2. ctx \in Brokers /\ ctx = cmd.broker /\ context = ctx /\ Exists(ctx)
          /\ dirs[ctx].conf /\ Self \in dirs[ctx].entries
      BY <2>1, <3>1 DEF CreateOK, CommandOK, Exists, TypeOK
    <3>3. docker'[ContainerName(ctx)] = ctx
      BY <2>1, <3>2, NamesType DEF CreateOK, Started, NewContainer, TypeOK
    <3>. QED BY <3>1, <3>2, <3>3 DEF CreateOK, CreateCompletes, Ended, Exists, files
  <2>2. CASE cmd.op # "create broker" /\ Finish("ok")
    BY <2>2 DEF Finish, locals, CreateOK, CreateCompletes, Ended
  <2>3. CASE StartFails(NewContainer, cmd.restart)
    <3>1. CASE Finish("error")
      BY <3>1 DEF Finish, locals, CreateOK, CreateCompletes, Ended
    <3>2. CASE Forget
      BY <3>2 DEF Forget, NoCommand, CreateOK, CreateCompletes, Ended
    <3>. QED BY <2>3, <3>1, <3>2 DEF StartFails
  <2>. QED BY <1>7, <2>1, <2>2, <2>3 DEF RunContainer
<1>8. CASE Exit
  BY <1>8 DEF Exit, Forget, NoCommand, CreateOK, CreateCompletes, Ended
<1>9. CASE \/ RemoveObject \/ LoopDone \/ RemoveDir \/ SwitchContext
           \/ \E e \in left : StartEntry(e) \/ StopEntry(e) \/ DeleteContainer(e)
  <2>1. cmd.op # "create broker"
    <3>1. phase \in {"object", "loop", "remove dir", "switch"}
      BY <1>9 DEF RemoveObject, LoopDone, RemoveDir, SwitchContext, StartEntry, StopEntry,
                  DeleteContainer
    <3>. QED BY <3>1 DEF CommandOK, CreateOK
  <2>2. cmd'.op = cmd.op \/ cmd'.op = "none"
    <3>1. CASE RemoveObject \/ LoopDone \/ RemoveDir \/ SwitchContext
      BY <3>1 DEF RemoveObject, LoopDone, RemoveDir, SwitchContext, Go, Finish, locals
    <3>2. ASSUME NEW e \in left, StartEntry(e)
          PROVE  cmd'.op = cmd.op \/ cmd'.op = "none"
      BY <3>2 DEF StartEntry, StartFails, Finish, Forget, NoCommand, locals
    <3>3. ASSUME NEW e \in left, StopEntry(e) \/ DeleteContainer(e)
          PROVE  cmd'.op = cmd.op
      BY <3>3 DEF StopEntry, DeleteContainer, TypeOK, Commands
    <3>. QED BY <1>9, <3>1, <3>2, <3>3
  <2>. QED BY <2>1, <2>2 DEF CreateOK, CreateCompletes, Ended
<1>. QED BY <1>1, <1>2, <1>3, <1>4, <1>5, <1>6, <1>7, <1>8, <1>9 DEF Steps

LEMMA InvocationCreate ==
    ASSUME Invocations
    PROVE  CreateOK' /\ CreateCompletes'
<1>1. ASSUME NEW b \in Brokers, SetBroker(b)
      PROVE  CreateOK' /\ CreateCompletes'
  <2>1. cmd'.op = "set"
    BY <1>1 DEF SetBroker, NoCommand
  <2>. QED BY <2>1 DEF CreateOK, CreateCompletes, Ended
<1>2. ASSUME NEW b \in Brokers, CreateBroker(b)
      PROVE  CreateOK' /\ CreateCompletes'
  <2>1. phase' = "open" /\ cmd'.restart = TRUE
    BY <1>2 DEF CreateBroker, Begin
  <2>2. cmd'.restart
    BY <2>1
  <2>. QED BY <2>1, <2>2 DEF CreateOK, CreateCompletes, Ended
<1>3. ASSUME phase' = "open", cmd'.op # "create broker"
      PROVE  CreateOK' /\ CreateCompletes'
  BY <1>3 DEF CreateOK, CreateCompletes, Ended
<1>4. ASSUME NEW b \in Brokers, DeleteBroker(b)
      PROVE  CreateOK' /\ CreateCompletes'
  BY <1>3, <1>4 DEF DeleteBroker, Begin
<1>5. ASSUME NEW b \in Brokers \cup {None}, NEW again \in BOOLEAN, Start(b, again) \/ Stop(b)
      PROVE  CreateOK' /\ CreateCompletes'
  <2>1. phase' = "open" /\ cmd'.op \in {"start", "stop"}
    <3>1. CASE Start(b, again)
      BY <3>1 DEF Start, Begin
    <3>2. CASE Stop(b)
      BY <3>2 DEF Stop, Begin
    <3>. QED BY <1>5, <3>1, <3>2
  <2>. QED BY <1>3, <2>1
<1>6. ASSUME NEW c \in Components, NEW changed \in BOOLEAN, Create(c, changed) \/ Delete(c)
      PROVE  CreateOK' /\ CreateCompletes'
  <2>1. phase' = "open" /\ cmd'.op \in {"create", "delete"}
    <3>1. CASE Create(c, changed)
      BY <3>1 DEF Create, Begin
    <3>2. CASE Delete(c)
      BY <3>2 DEF Delete, Begin
    <3>. QED BY <1>6, <3>1, <3>2
  <2>. QED BY <1>3, <2>1
<1>. QED BY <1>1, <1>2, <1>4, <1>5, <1>6 DEF Invocations

(* A create broker that returns no error has made both files, the entry, the   *)
(* selection and the container, whatever earlier commands of that name left:   *)
(* with and without the suffix, with failures and kills.                        *)
THEOREM CreatesAll == Spec => []CreateCompletes
<1>. DEFINE Inv == TypeOK /\ CommandOK /\ CreateOK /\ CreateCompletes
<1>1. Init => Inv
  BY InitInv DEF IndInv, Init, NoCommand, CreateOK, CreateCompletes, Ended
<1>2. Inv /\ [Next]_vars => Inv'
  <2>. SUFFICES ASSUME Inv, [Next]_vars PROVE CreateOK' /\ CreateCompletes'
    BY NextType
  <2>1. CASE UNCHANGED vars
    BY <2>1 DEF vars, files, locals, CreateOK, CreateCompletes, Ended
  <2>2. CASE Kill
    BY <2>2 DEF Kill, Forget, NoCommand, CreateOK, CreateCompletes, Ended
  <2>. QED BY <2>1, <2>2, InvocationCreate, StepCreate DEF Next
<1>. QED BY <1>1, <1>2, PTL DEF Spec
=============================================================================

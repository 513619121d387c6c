----------------------------- MODULE KeyedStore -----------------------------
(***************************************************************************)
(* What a command may take a file of the broker's directory for: a store     *)
(* that changes one entry at a time and never says it did not when it did, as *)
(* long as no other process is at work (`calm'), and that is empty at worst   *)
(* after a process was killed.                                               *)
(***************************************************************************)
EXTENDS Naturals

CONSTANTS Keys, Values, Absent, NoAnswer

VARIABLES
    store,    \* the entry of each key, or Absent
    answer,   \* what the last change said: whether it changed anything, or nothing
    calm,     \* no two processes have been at work at once since all were done
    crashes   \* how many processes were killed

vars == <<store, answer, calm, crashes>>

Stores  == [Keys -> Values \cup {Absent}]
Nothing == [k \in Keys |-> Absent]
Answers == BOOLEAN \cup {NoAnswer}

Init == store \in Stores /\ answer \in Answers /\ calm = TRUE /\ crashes = 0

Change(k, v) ==
    /\ calm /\ calm' = calm
    /\ store' = [store EXCEPT ![k] = v]
    /\ \/ answer' \in {TRUE, NoAnswer}
       \/ answer' = FALSE /\ v # Absent /\ store[k] = v
    /\ UNCHANGED crashes

Crash ==
    /\ crashes' = crashes + 1
    /\ calm => store' \in {store, Nothing}
    /\ answer' \in Answers /\ calm' \in BOOLEAN

(* Another process comes, or the last one of several goes.                    *)
Company == calm' # calm /\ UNCHANGED <<store, answer, crashes>>

(* Several at once may lose each other's changes.                             *)
Interfere == ~calm /\ UNCHANGED crashes

Next == (\E k \in Keys, v \in Values \cup {Absent} : Change(k, v)) \/ Crash \/ Company \/ Interfere

Spec == Init /\ [][Next]_vars
=============================================================================

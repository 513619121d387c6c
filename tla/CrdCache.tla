------------------------------ MODULE CrdCache ------------------------------
(***************************************************************************)
(* crd.Fetch: the release file crd.yaml, downloaded once into the directory *)
(* of its version and parsed by every tmctl process from then on.  The       *)
(* processes share the file and nothing else; a download may break off.      *)
(***************************************************************************)
EXTENDS FilesParameters

VARIABLES
    file,   \* crd.yaml: the documents in it; a missing one before a present one
            \* is a hole of zero bytes
    pc,     \* what the process is about to do
    pos,    \* how much of the response it has copied
    crds,   \* what Fetch returned: CRDs, or None with an error
    failures, breaks, kills

counts == <<failures, breaks, kills>>
vars   == <<file, pc, pos, crds, counts>>

Release == 1 .. Docs

TypeOK ==
    /\ file \in {None} \cup SUBSET Release
    /\ pc \in [Procs -> {"stat", "create", "get", "copy", "parse", "done"}]
    /\ pos \in [Procs -> 0 .. Docs]
    /\ crds \in [Procs -> {None} \cup SUBSET Release]
    /\ failures \in Nat /\ breaks \in Nat /\ kills \in Nat

Init ==
    /\ file = None
    /\ pc = [p \in Procs |-> "stat"]
    /\ pos = [p \in Procs |-> 0]
    /\ crds = [p \in Procs |-> None]
    /\ failures = 0 /\ breaks = 0 /\ kills = 0
-----------------------------------------------------------------------------
Go(p, at) == pc' = [pc EXCEPT ![p] = at]
Return(p, result) == Go(p, "done") /\ crds' = [crds EXCEPT ![p] = result]

Stat(p) ==
    /\ pc[p] = "stat"
    /\ Go(p, IF file \notin {None, {}} THEN "parse" ELSE "create")
    /\ UNCHANGED <<file, pos, crds, counts>>

(* os.Create truncates the file.                                             *)
Create(p) ==
    /\ pc[p] = "create" /\ Go(p, "get")
    /\ file' = {} /\ pos' = [pos EXCEPT ![p] = 0]
    /\ UNCHANGED <<crds, counts>>

Get(p) ==
    /\ pc[p] = "get"
    /\ \/ Go(p, "copy") /\ UNCHANGED <<crds, counts>>
       \/ /\ failures < MaxFailures /\ failures' = failures + 1 /\ UNCHANGED <<breaks, kills>>
          /\ Return(p, None)
    /\ UNCHANGED <<file, pos>>

(* Mutant: the copy does not stop at the end of the response.                *)
CopyPast(p) ==
    /\ pc[p] = "copy"
    /\ file' = file \cup {pos[p] + 1}
    /\ pos' = [pos EXCEPT ![p] = @ + 1]
    /\ UNCHANGED <<pc, crds, counts>>

(* io.Copy writes at the position of the process's own file descriptor.      *)
Copy(p) ==
    /\ pc[p] = "copy" /\ pos[p] < Docs
    /\ file' = file \cup {pos[p] + 1}
    /\ pos' = [pos EXCEPT ![p] = @ + 1]
    /\ UNCHANGED <<pc, crds, counts>>

(* Mutant: the end of the response is seen one document early.               *)
CopyEndsEarly(p) ==
    /\ pc[p] = "copy" /\ pos[p] = Docs - 1
    /\ Go(p, "parse") /\ UNCHANGED <<file, pos, crds, counts>>

CopyEnds(p) ==
    /\ pc[p] = "copy"
    /\ \/ pos[p] = Docs /\ Go(p, "parse") /\ UNCHANGED <<crds, counts>>
       \/ /\ breaks < MaxBreaks /\ breaks' = breaks + 1 /\ UNCHANGED <<failures, kills>>
          /\ Return(p, None)
    /\ UNCHANGED <<file, pos>>

(* Parse takes the documents up to the end of the file; zero bytes are an     *)
(* error, and so may be a document cut short.                                *)
Parse(p) ==
    /\ pc[p] = "parse"
    /\ \/ (\E n \in 0 .. Docs : file = 1 .. n) /\ Return(p, file)
       \/ file # Release /\ Return(p, None)
    /\ UNCHANGED <<file, pos, counts>>

(* The process goes on with its command and ends; a later one starts anew.    *)
Again(p) ==
    /\ pc[p] = "done" /\ Go(p, "stat")
    /\ crds' = [crds EXCEPT ![p] = None] /\ pos' = [pos EXCEPT ![p] = 0]
    /\ UNCHANGED <<file, counts>>

Kill(p) ==
    /\ pc[p] \in {"get", "copy"} /\ kills < MaxKills /\ kills' = kills + 1
    /\ Return(p, None)
    /\ UNCHANGED <<file, pos, failures, breaks>>

Next == \E p \in Procs :
    \/ Stat(p) \/ Create(p) \/ Get(p) \/ Copy(p) \/ CopyEnds(p) \/ Parse(p) \/ Again(p) \/ Kill(p)

Spec == Init /\ [][Next]_vars
-----------------------------------------------------------------------------
(* While no request fails, no download breaks off and nothing is killed, the  *)
(* file is missing or whole whenever no process is writing it: processes that  *)
(* download at the same time truncate what the others have written and fill     *)
(* each other's holes.  (A process whose request fails after it truncated the   *)
(* file another one is writing leaves such a hole for good.)                  *)
CacheWhole ==
    counts = <<0, 0, 0>> /\ (\A p \in Procs : pc[p] \notin {"get", "copy"})
    => file \in {None, Release}
=============================================================================

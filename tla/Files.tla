-------------------------------- MODULE Files --------------------------------
(***************************************************************************)
(* tmctl processes and all the files they share: each fetches the CRDs, reads *)
(* the manifest and then makes its command's changes.                        *)
(***************************************************************************)
EXTENDS LocalFiles

VARIABLES file, step, pos, crds, failures, breaks, crdKills

Crd == INSTANCE CrdCache
    WITH pc <- step, kills <- crdKills

crdVars == <<file, step, pos, crds, failures, breaks, crdKills>>
allVars == <<vars, crdVars>>

FilesInit == Init /\ Crd!Init

(* NewRootCommand: an error of Fetch ends the process, and so does one of Read.  *)
Fetch(p) ==
    /\ pc[p] = "off"
    /\ \/ Crd!Stat(p) \/ Crd!Create(p) \/ Crd!Get(p) \/ Crd!Copy(p) \/ Crd!CopyEnds(p)
       \/ Crd!Parse(p) \/ Crd!Kill(p) \/ ((crds[p] = None \/ manifest = Garbage) /\ Crd!Again(p))
    /\ UNCHANGED vars

Command(p) ==
    \/ crds[p] # None /\ Read(p)
    \/ \E k \in Keys : Remove(p, k) \/ \E v \in Values : Add(p, k, v)
    \/ Write(p)
    \/ \E t \in Triggers, s \in Specs \cup {None} : ReadConfig(p, t, s)
    \/ TruncateConfig(p) \/ WriteConfig(p)

FilesNext ==
    /\ \E p \in Procs :
         \/ Fetch(p)
         \/ Command(p) /\ UNCHANGED crdVars
         \/ (Exit(p) \/ Kill(p)) /\ Crd!Again(p)
    /\ failures' + breaks' + crdKills' + kills' <= MaxFaults

FilesSpec == FilesInit /\ [][FilesNext]_allVars
-----------------------------------------------------------------------------
FilesTypeOK == TypeOK /\ Crd!TypeOK
CacheWhole  == Crd!CacheWhole
=============================================================================

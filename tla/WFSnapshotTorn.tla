--------------------------- MODULE WFSnapshotTorn ----------------------------
(***************************************************************************)
(* WFSnapshot with a history variable that tells the scans all of whose    *)
(* copies are whole, which is what wfsnapshot.h takes for granted, from    *)
(* those that copied a component while its owner was storing it.           *)
(***************************************************************************)
EXTENDS WFSnapshot

VARIABLE torn    \* history: the running scan of t has copied half a store

Collecting(t) == pc[t] \in {"collectOld", "collectNew"}

\* Owner i is between two fields of its store; t is between two of its copy of i.
MidStore(i) == pc[i] = "store" /\ todo[i] # Fields
MidCopy(t, i) == Collecting(t) /\ next[t] = i /\ todo[t] # Fields

\* The step copies a field of a half stored component, or stores a field of one that
\* is half copied.
Tears(t) ==
  \/ Collecting(t) /\ MidStore(next[t]) /\ todo'[t] # todo[t]
  \/ \E i \in Threads : MidCopy(t, i) /\ pc[i] = "store" /\ todo'[i] # todo[i]

TornInit == Init /\ torn = [t \in Threads |-> FALSE]

TornNext ==
  /\ Next
  /\ torn' = [t \in Threads |-> Scanning(t) /\ (torn[t] \/ Tears(t))]

TornSpec == TornInit /\ [][TornNext]_<<vars, torn>>

\* wfsnapshot.h:73 "if flag is false, it means that there isn't any update":
\* when scan() is about to return its direct snapshot, nothing was updated
\* between the two collects, if at least every copy they made is a whole one.
NoFlagNoUpdate ==
  \A t \in Threads : pc[t] = "compare" /\ Differing(t) = {} /\ ~torn[t] =>
    \A i \in Threads : oldCopy[t][i].value = newCopy[t][i].value
=============================================================================

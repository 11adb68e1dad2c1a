-------------------------------- MODULE RWLock --------------------------------
(***************************************************************************)
(* What a namespace lock promises (interface RWLocker of                   *)
(* cmd/namespace-lock.go): per resource either any number of readers or a  *)
(* single writer.  Attempts that time out leave no trace here.             *)
(***************************************************************************)
CONSTANTS Instances,  \* lock instances, one per NewNSLock call
          Resources   \* (volume, path) pairs

VARIABLES readers,    \* readers[r]: the instances that hold r for reading
          writers     \* writers[r]: the instances that hold r for writing

vars == <<readers, writers>>

Init ==
  /\ readers = [r \in Resources |-> {}]
  /\ writers = [r \in Resources |-> {}]

GetRLock(t, r) ==
  /\ t \notin readers[r]
  /\ writers[r] = {}
  /\ readers' = [readers EXCEPT ![r] = @ \cup {t}]
  /\ UNCHANGED writers

GetLock(t, r) ==
  /\ readers[r] = {}
  /\ writers[r] = {}
  /\ writers' = [writers EXCEPT ![r] = {t}]
  /\ UNCHANGED readers

RUnlock(t, r) ==
  /\ t \in readers[r]
  /\ readers' = [readers EXCEPT ![r] = @ \ {t}]
  /\ UNCHANGED writers

Unlock(t, r) ==
  /\ t \in writers[r]
  /\ writers' = [writers EXCEPT ![r] = @ \ {t}]
  /\ UNCHANGED readers

Next == \E t \in Instances, r \in Resources :
          GetRLock(t, r) \/ GetLock(t, r) \/ RUnlock(t, r) \/ Unlock(t, r)

Spec == Init /\ [][Next]_vars
-----------------------------------------------------------------------------
\* A writer excludes every other holder of the resource.
Exclusion ==
  \A r \in Resources :
    /\ \A t, u \in writers[r] : t = u
    /\ writers[r] # {} => readers[r] = {}
=============================================================================

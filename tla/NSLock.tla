-------------------------------- MODULE NSLock --------------------------------
(***************************************************************************)
(* The namespace lock map of a single radio process                        *)
(* (cmd/namespace-lock.go, isDistributed = FALSE).                         *)
(*                                                                         *)
(* Lock instances (localLockInstance) run concurrently.  The map from      *)
(* (volume, path) to *nsLock is guarded by lockMapMutex; the LRWMutex      *)
(* inside an entry is locked outside of that mutex, so the steps of lock   *)
(* and unlock on either side of it interleave with those of other          *)
(* instances.  An entry is a heap address: it is allocated by lock,        *)
(* shared by reference count and collected once nothing points to it.      *)
(*                                                                         *)
(* github.com/minio/lsync is external.  Its LRWMutex keeps a reader count  *)
(* and a writer flag without owners, retries until the timeout, and gives  *)
(* up as soon as the context it was CREATED with is done.                  *)
(***************************************************************************)
EXTENDS Integers, FiniteSets

CONSTANTS Instances,  \* localLockInstance values in use
          Params,     \* nsParam: (volume, path) pairs
          Entries,    \* addresses of nsLock structs
          NoEntry     \* the nil pointer

ASSUME InstancesAssumption == IsFiniteSet(Instances)
ASSUME EntriesAssumption == NoEntry \notin Entries

VARIABLES lockMap,   \* n.lockMap; NoEntry where the key is missing
          ref,       \* nsLock.ref
          rcount,    \* readers inside the LRWMutex of the entry
          wlocked,   \* a writer is inside the LRWMutex of the entry
          ctxDone,   \* the context the LRWMutex was created with is done
          pc,        \* where the instance is in lock or unlock
          param,     \* its (volume, path)
          readLock,  \* its readLock argument
          nsLk,      \* its local variable nsLk
          creator,   \* it created nsLk, so the LRWMutex has its context
          misuse     \* "Namespace reference count cannot be 0" was logged, or
                     \* lsync panicked because the lock was not held

entryVars == <<ref, rcount, wlocked, ctxDone>>
vars == <<lockMap, ref, rcount, wlocked, ctxDone,
          pc, param, readLock, nsLk, creator, misuse>>

\* "wait" is inside lsync, "timedOut" and "cancelled" are its two refusals.
PCs == {"idle", "wait", "timedOut", "cancelled", "held", "release", "unref"}

\* Nothing points to the entry: a new nsLock may live at this address.
Unreachable(e) ==
  /\ \A p \in Params : lockMap[p] # e
  /\ \A t \in Instances : nsLk[t] # e

Init ==
  /\ lockMap = [p \in Params |-> NoEntry]
  /\ ref = [e \in Entries |-> 0]
  /\ rcount = [e \in Entries |-> 0]
  /\ wlocked = [e \in Entries |-> FALSE]
  /\ ctxDone = [e \in Entries |-> FALSE]
  /\ pc = [t \in Instances |-> "idle"]
  /\ param \in [Instances -> Params]
  /\ readLock = [t \in Instances |-> FALSE]
  /\ nsLk = [t \in Instances |-> NoEntry]
  /\ creator = [t \in Instances |-> FALSE]
  /\ misuse = FALSE

-----------------------------------------------------------------------------
(* lock                                                                    *)

\* Mutant: a lock that replaces the entry of the map without looking for one.
MutLockNewUnchecked(t, p, rd, e) ==
  /\ pc[t] = "idle"
  /\ Unreachable(e)
  /\ lockMap' = [lockMap EXCEPT ![p] = e]
  /\ ref' = [ref EXCEPT ![e] = 1]
  /\ rcount' = [rcount EXCEPT ![e] = 0]
  /\ wlocked' = [wlocked EXCEPT ![e] = FALSE]
  /\ ctxDone' = [ctxDone EXCEPT ![e] = FALSE]
  /\ pc' = [pc EXCEPT ![t] = "wait"]
  /\ param' = [param EXCEPT ![t] = p]
  /\ readLock' = [readLock EXCEPT ![t] = rd]
  /\ nsLk' = [nsLk EXCEPT ![t] = e]
  /\ creator' = [creator EXCEPT ![t] = TRUE]
  /\ UNCHANGED misuse

\* Lines 67-80 under lockMapMutex, the key is missing: a new entry whose
\* LRWMutex gets the context of this instance.
LockNew(t, p, rd, e) ==
  /\ pc[t] = "idle"
  /\ lockMap[p] = NoEntry
  /\ Unreachable(e)
  /\ lockMap' = [lockMap EXCEPT ![p] = e]
  /\ ref' = [ref EXCEPT ![e] = 1]
  /\ rcount' = [rcount EXCEPT ![e] = 0]
  /\ wlocked' = [wlocked EXCEPT ![e] = FALSE]
  /\ ctxDone' = [ctxDone EXCEPT ![e] = FALSE]
  /\ pc' = [pc EXCEPT ![t] = "wait"]
  /\ param' = [param EXCEPT ![t] = p]
  /\ readLock' = [readLock EXCEPT ![t] = rd]
  /\ nsLk' = [nsLk EXCEPT ![t] = e]
  /\ creator' = [creator EXCEPT ![t] = TRUE]
  /\ UNCHANGED misuse

\* Lines 67-80, the key is there: nsLk.ref++.
LockFound(t, p, rd) ==
  /\ pc[t] = "idle"
  /\ lockMap[p] # NoEntry
  /\ ref' = [ref EXCEPT ![lockMap[p]] = @ + 1]
  /\ pc' = [pc EXCEPT ![t] = "wait"]
  /\ param' = [param EXCEPT ![t] = p]
  /\ readLock' = [readLock EXCEPT ![t] = rd]
  /\ nsLk' = [nsLk EXCEPT ![t] = lockMap[p]]
  /\ creator' = [creator EXCEPT ![t] = FALSE]
  /\ UNCHANGED <<lockMap, rcount, wlocked, ctxDone, misuse>>

\* Lines 83-87: nsLk.GetRLock or nsLk.GetLock returns true.
Acquire(t) ==
  LET e == nsLk[t] IN
  /\ pc[t] = "wait"
  /\ ~wlocked[e]
  /\ \/ readLock[t] /\ rcount' = [rcount EXCEPT ![e] = @ + 1] /\ UNCHANGED wlocked
     \/ /\ ~readLock[t] /\ rcount[e] = 0
        /\ wlocked' = [wlocked EXCEPT ![e] = TRUE] /\ UNCHANGED rcount
  /\ pc' = [pc EXCEPT ![t] = "held"]
  /\ UNCHANGED <<lockMap, ref, ctxDone, param, readLock, nsLk, creator, misuse>>

\* Lines 83-87: it returns false, because the timeout elapsed or because the
\* context of the LRWMutex is done.
Refuse(t) ==
  /\ pc[t] = "wait"
  /\ \/ pc' = [pc EXCEPT ![t] = "timedOut"]
     \/ ctxDone[nsLk[t]] /\ pc' = [pc EXCEPT ![t] = "cancelled"]
  /\ UNCHANGED <<lockMap, entryVars, param, readLock, nsLk, creator, misuse>>

\* Mutant: the entry is deleted whatever its reference count is.
MutDropRefAlwaysDeletes(t) ==
  /\ ref' = [ref EXCEPT ![nsLk[t]] = @ - 1]
  /\ lockMap' = [lockMap EXCEPT ![param[t]] = NoEntry]

\* Mutant: the entry stays in the map when its last reference is dropped.
MutDropRefNeverDeletes(t) ==
  /\ ref' = [ref EXCEPT ![nsLk[t]] = @ - 1]
  /\ UNCHANGED lockMap

\* nsLk.ref-- and delete(n.lockMap, param) when it reached 0.
DropRef(t) ==
  LET e == nsLk[t] IN
  /\ ref' = [ref EXCEPT ![e] = @ - 1]
  /\ lockMap' = IF ref[e] = 1 THEN [lockMap EXCEPT ![param[t]] = NoEntry]
                ELSE lockMap

\* The call returns; its local variables are gone.
Return(t) ==
  /\ pc' = [pc EXCEPT ![t] = "idle"]
  /\ nsLk' = [nsLk EXCEPT ![t] = NoEntry]
  /\ creator' = [creator EXCEPT ![t] = FALSE]
  /\ UNCHANGED <<param, readLock>>

\* Lines 89-99 under lockMapMutex.
Undo(t) ==
  /\ pc[t] \in {"timedOut", "cancelled"}
  /\ DropRef(t)
  /\ Return(t)
  /\ UNCHANGED <<rcount, wlocked, ctxDone, misuse>>

-----------------------------------------------------------------------------
(* unlock                                                                  *)

\* Lines 105-111: look the entry up under the read side of lockMapMutex; a
\* missing key returns with the lock still taken.
Lookup(t) ==
  /\ pc[t] = "held"
  /\ IF lockMap[param[t]] = NoEntry
     THEN Return(t)
     ELSE /\ nsLk' = [nsLk EXCEPT ![t] = lockMap[param[t]]]
          /\ pc' = [pc EXCEPT ![t] = "release"]
          /\ UNCHANGED <<param, readLock, creator>>
  /\ UNCHANGED <<lockMap, entryVars, misuse>>

\* Lines 112-116: nsLk.RUnlock() or nsLk.Unlock(), which panic unless the
\* LRWMutex is locked that way.
Release(t) ==
  LET e == nsLk[t] IN
  /\ pc[t] = "release"
  /\ IF readLock[t]
     THEN /\ rcount' = IF rcount[e] > 0 THEN [rcount EXCEPT ![e] = @ - 1] ELSE rcount
          /\ misuse' = (misuse \/ rcount[e] = 0)
          /\ UNCHANGED wlocked
     ELSE /\ wlocked' = [wlocked EXCEPT ![e] = FALSE]
          /\ misuse' = (misuse \/ ~wlocked[e])
          /\ UNCHANGED rcount
  /\ pc' = [pc EXCEPT ![t] = "unref"]
  /\ UNCHANGED <<lockMap, ref, ctxDone, param, readLock, nsLk, creator>>

\* Lines 117-127 under lockMapMutex.
Unref(t) ==
  /\ pc[t] = "unref"
  /\ IF ref[nsLk[t]] = 0
     THEN misuse' = TRUE /\ UNCHANGED <<lockMap, ref>>
     ELSE DropRef(t) /\ UNCHANGED misuse
  /\ Return(t)
  /\ UNCHANGED <<rcount, wlocked, ctxDone>>

-----------------------------------------------------------------------------
\* The request whose context an LRWMutex was created with returns or its client
\* disconnects.  The handlers pass on r.Context() (newContext, utils.go:254).
CtxDone(e) ==
  /\ ~ctxDone[e] /\ ref[e] > 0
  /\ ctxDone' = [ctxDone EXCEPT ![e] = TRUE]
  /\ UNCHANGED <<lockMap, ref, rcount, wlocked, pc, param, readLock, nsLk,
                 creator, misuse>>

Lock(t) ==
  \E p \in Params, rd \in BOOLEAN :
    LockFound(t, p, rd) \/ \E e \in Entries : LockNew(t, p, rd, e)

Unlock(t) == Lookup(t) \/ Release(t) \/ Unref(t)

Next ==
  \/ \E t \in Instances : Lock(t) \/ Acquire(t) \/ Refuse(t) \/ Undo(t) \/ Unlock(t)
  \/ \E e \in Entries : CtxDone(e)

Spec == Init /\ [][Next]_vars

-----------------------------------------------------------------------------
TypeOK ==
  /\ lockMap \in [Params -> Entries \cup {NoEntry}]
  /\ ref \in [Entries -> Nat]
  /\ rcount \in [Entries -> Nat]
  /\ wlocked \in [Entries -> BOOLEAN]
  /\ ctxDone \in [Entries -> BOOLEAN]
  /\ pc \in [Instances -> PCs]
  /\ param \in [Instances -> Params]
  /\ readLock \in [Instances -> BOOLEAN]
  /\ nsLk \in [Instances -> Entries \cup {NoEntry}]
  /\ creator \in [Instances -> BOOLEAN]
  /\ misuse \in BOOLEAN

\* The instances that hold (volume, path) p for reading and for writing: from
\* the moment lock returned true until unlock has released the LRWMutex.
Holding == {t \in Instances : pc[t] \in {"held", "release"}}
Readers(p) == {t \in Holding : param[t] = p /\ readLock[t]}
Writers(p) == {t \in Holding : param[t] = p /\ ~readLock[t]}

\* A writer of a (volume, path) excludes every other holder, although holders
\* may have come to the lock through different nsLock structs over time.
MutualExclusion ==
  \A p \in Params :
    /\ \A t, u \in Writers(p) : t = u
    /\ Writers(p) # {} => Readers(p) = {}

\* unlock never meets "Namespace reference count cannot be 0" (line 119), nor
\* does it release an LRWMutex that is not locked that way, which panics.
NoMisuse == ~misuse

\* The instances between nsLk.ref++ and nsLk.ref-- of entry e.
Users(e) == {t \in Instances : nsLk[t] = e}

\* An entry is in the map exactly as long as an instance waits for it or holds
\* it: it is neither deleted under a holder nor left behind by the last one.
MapMatchesUse ==
  \A p \in Params :
    lockMap[p] # NoEntry <=> \E t \in Instances : pc[t] # "idle" /\ param[t] = p

\* The readers-writer lock this module implements.
RW == INSTANCE RWLock WITH
        Resources <- Params,
        readers <- [p \in Params |-> Readers(p)],
        writers <- [p \in Params |-> Writers(p)]

\* The lock map implements the promise of RWLocker: every step takes or
\* releases the lock of one resource for one instance, or changes nothing there.
ImplementsRWLock == RW!Spec

\* "Lock - block until write lock is taken or timeout has occurred"
\* (namespace-lock.go:220): lock gives up before the timeout only when the
\* context of the request that called it is done.
BlocksUntilTimeout ==
  \A t \in Instances : pc[t] = "cancelled" => creator[t]
-----------------------------------------------------------------------------
(* The inductive invariant behind the properties above.                    *)

\* The holders that went through entry e.
HoldR(e) == {t \in Holding : nsLk[t] = e /\ readLock[t]}
HoldW(e) == {t \in Holding : nsLk[t] = e /\ ~readLock[t]}

\* An instance inside lock or unlock points to the entry the map has for its
\* (volume, path); in between it points to nothing.
PointerInv ==
  \A t \in Instances :
    IF pc[t] = "idle" THEN nsLk[t] = NoEntry
    ELSE nsLk[t] \in Entries /\ lockMap[param[t]] = nsLk[t]

\* The map shares no entry between keys and keeps none without users.
MapInv ==
  /\ \A p, q \in Params :
       lockMap[p] # NoEntry /\ lockMap[p] = lockMap[q] => p = q
  /\ \A p \in Params : lockMap[p] # NoEntry => ref[lockMap[p]] > 0

\* nsLock.ref counts the users of the entry.
RefInv == \A e \in Entries : ref[e] = Cardinality(Users(e))

\* The owner-less LRWMutex agrees with who holds the entry.
MutexAgrees(e) ==
  /\ rcount[e] = Cardinality(HoldR(e))
  /\ wlocked[e] <=> HoldW(e) # {}
  /\ wlocked[e] => HoldR(e) = {}
  /\ \A t, u \in HoldW(e) : t = u

MutexInv == \A e \in Entries : MutexAgrees(e)

IInv == TypeOK /\ PointerInv /\ MapInv /\ RefInv /\ MutexInv /\ NoMisuse
=============================================================================

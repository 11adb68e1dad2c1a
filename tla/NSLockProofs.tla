----------------------------- MODULE NSLockProofs -----------------------------
(***************************************************************************)
(* Proofs about the namespace lock map for any finite set of lock          *)
(* instances, any resources and any supply of nsLock structs.              *)
(***************************************************************************)
EXTENDS NSLock, TLAPS, FiniteSetTheorems

(***************************************************************************)
(* Facts about sets of instances.                                          *)
(***************************************************************************)
LEMMA InstanceSets ==
  ASSUME NEW S \in SUBSET Instances
  PROVE  /\ IsFiniteSet(S) /\ Cardinality(S) \in Nat
         /\ Cardinality(S) = 0 <=> S = {}
         /\ \A t \in Instances \ S : Cardinality(S \cup {t}) = Cardinality(S) + 1
         /\ \A t \in S : Cardinality(S \ {t}) = Cardinality(S) - 1
<1>1. IsFiniteSet(S)
  BY InstancesAssumption, FS_Subset
<1> QED
  BY <1>1, FS_CardinalityType, FS_EmptySet, FS_AddElement, FS_RemoveElement

LEMMA SetsOfInstances ==
  ASSUME NEW e
  PROVE  Users(e) \in SUBSET Instances /\ HoldR(e) \in SUBSET Instances
BY DEF Users, HoldR, Holding

(***************************************************************************)
(* MutexInv is about the holders and the LRWMutex only.                    *)
(***************************************************************************)
LEMMA SameHolders ==
  ASSUME MutexInv, UNCHANGED <<rcount, wlocked>>,
         \A e \in Entries : HoldR(e)' = HoldR(e) /\ HoldW(e)' = HoldW(e)
  PROVE  MutexInv'
BY DEF MutexInv, MutexAgrees

(***************************************************************************)
(* The inductive invariant holds initially.                                *)
(***************************************************************************)
LEMMA InitIInv == Init => IInv
<1> SUFFICES ASSUME Init PROVE IInv
  OBVIOUS
<1>1. TypeOK
  BY DEF Init, TypeOK, PCs
<1>2. PointerInv /\ MapInv /\ NoMisuse
  BY DEF Init, PointerInv, MapInv, NoMisuse
<1>3. ASSUME NEW e \in Entries PROVE Users(e) = {} /\ HoldR(e) = {} /\ HoldW(e) = {}
  BY EntriesAssumption DEF Init, Users, HoldR, HoldW, Holding
<1>4. RefInv /\ MutexInv
  BY <1>3, FS_EmptySet DEF Init, RefInv, MutexInv, MutexAgrees
<1> QED
  BY <1>1, <1>2, <1>4 DEF IInv

(***************************************************************************)
(* Every action of lock preserves it.                                      *)
(***************************************************************************)
LEMMA LockNewIInv ==
  ASSUME IInv, NEW t \in Instances, NEW p \in Params, NEW rd \in BOOLEAN,
         NEW e \in Entries, LockNew(t, p, rd, e)
  PROVE  IInv'
<1> USE DEF IInv
<1>1. TypeOK'
  BY DEF TypeOK, PCs, LockNew
<1>2. nsLk[t] = NoEntry /\ e # NoEntry /\ pc[t] = "idle"
  BY EntriesAssumption DEF PointerInv, LockNew
<1>3. PointerInv'
  <2> SUFFICES ASSUME NEW u \in Instances
               PROVE  IF pc'[u] = "idle" THEN nsLk'[u] = NoEntry
                      ELSE nsLk'[u] \in Entries /\ lockMap'[param'[u]] = nsLk'[u]
    BY DEF PointerInv
  <2>1. CASE u = t
    BY <2>1 DEF TypeOK, LockNew
  <2>2. CASE u # t
    <3>1. pc'[u] = pc[u] /\ nsLk'[u] = nsLk[u] /\ param'[u] = param[u]
      BY <2>2 DEF TypeOK, LockNew
    <3>2. pc[u] # "idle" => param[u] # p
      BY EntriesAssumption DEF PointerInv, LockNew
    <3> QED
      BY <3>1, <3>2 DEF PointerInv, TypeOK, LockNew
  <2> QED
    BY <2>1, <2>2
<1>4. MapInv'
  BY <1>2 DEF MapInv, TypeOK, LockNew, Unreachable
<1>5. RefInv'
  <2> SUFFICES ASSUME NEW f \in Entries PROVE ref'[f] = Cardinality(Users(f)')
    BY DEF RefInv
  <2>1. CASE f = e
    <3>1. Users(f)' = {} \cup {t}
      BY <2>1 DEF Users, Unreachable, TypeOK, LockNew
    <3>2. Cardinality({} \cup {t}) = 1
      BY FS_EmptySet, InstanceSets, {} \in SUBSET Instances
    <3> QED
      BY <2>1, <3>1, <3>2 DEF TypeOK, LockNew
  <2>2. CASE f # e
    <3>1. Users(f)' = Users(f)
      BY <1>2, <2>2, EntriesAssumption DEF Users, TypeOK, LockNew
    <3> QED
      BY <2>2, <3>1 DEF RefInv, TypeOK, LockNew
  <2> QED
    BY <2>1, <2>2
<1>6. MutexInv'
  <2>1. ASSUME NEW f \in Entries
        PROVE  HoldR(f)' = HoldR(f) /\ HoldW(f)' = HoldW(f)
    BY DEF HoldR, HoldW, Holding, TypeOK, LockNew
  <2>2. HoldR(e) = {} /\ HoldW(e) = {}
    BY DEF HoldR, HoldW, Holding, Unreachable, LockNew
  <2>3. rcount[e] = 0 /\ ~wlocked[e]
    BY <2>2, FS_EmptySet DEF MutexInv, MutexAgrees
  <2>4. rcount' = rcount /\ wlocked' = wlocked
    BY <2>3 DEF TypeOK, LockNew
  <2> QED
    BY <2>1, <2>4, SameHolders
<1>7. NoMisuse'
  BY DEF NoMisuse, LockNew
<1> QED
  BY <1>1, <1>3, <1>4, <1>5, <1>6, <1>7

LEMMA LockFoundIInv ==
  ASSUME IInv, NEW t \in Instances, NEW p \in Params, NEW rd \in BOOLEAN,
         LockFound(t, p, rd)
  PROVE  IInv'
<1> USE DEF IInv
<1>1. lockMap[p] \in Entries /\ nsLk[t] = NoEntry /\ pc[t] = "idle"
  BY DEF TypeOK, PointerInv, LockFound
<1>2. TypeOK'
  BY <1>1 DEF TypeOK, PCs, LockFound
<1>3. PointerInv'
  BY <1>1 DEF PointerInv, TypeOK, LockFound
<1>4. MapInv'
  BY <1>1 DEF MapInv, TypeOK, LockFound
<1>5. RefInv'
  <2> SUFFICES ASSUME NEW f \in Entries PROVE ref'[f] = Cardinality(Users(f)')
    BY DEF RefInv
  <2>1. CASE f = lockMap[p]
    <3>1. Users(f)' = Users(f) \cup {t} /\ t \notin Users(f)
      BY <1>1, <2>1, EntriesAssumption DEF Users, TypeOK, LockFound
    <3>2. Cardinality(Users(f) \cup {t}) = Cardinality(Users(f)) + 1
      BY <3>1, InstanceSets, SetsOfInstances
    <3> QED
      BY <2>1, <3>1, <3>2 DEF RefInv, TypeOK, LockFound
  <2>2. CASE f # lockMap[p]
    <3>1. Users(f)' = Users(f)
      BY <1>1, <2>2, EntriesAssumption DEF Users, TypeOK, LockFound
    <3> QED
      BY <2>2, <3>1 DEF RefInv, TypeOK, LockFound
  <2> QED
    BY <2>1, <2>2
<1>6. MutexInv'
  <2>1. ASSUME NEW f \in Entries
        PROVE  HoldR(f)' = HoldR(f) /\ HoldW(f)' = HoldW(f)
    BY DEF HoldR, HoldW, Holding, TypeOK, LockFound
  <2> QED
    BY <2>1, SameHolders DEF LockFound
<1>7. NoMisuse'
  BY DEF NoMisuse, LockFound
<1> QED
  BY <1>2, <1>3, <1>4, <1>5, <1>6, <1>7

LEMMA AcquireIInv ==
  ASSUME IInv, NEW t \in Instances, Acquire(t)
  PROVE  IInv'
<1> USE DEF IInv
<1>0. PICK e : e = nsLk[t]
  OBVIOUS
<1>1. e \in Entries /\ pc[t] = "wait" /\ ~wlocked[e]
  BY <1>0 DEF PointerInv, Acquire
<1>2. TypeOK'
  <2>1. \A n \in Nat : n + 1 \in Nat
    OBVIOUS
  <2>2. rcount' \in [Entries -> Nat] /\ wlocked' \in [Entries -> BOOLEAN]
    <3>1. \/ rcount' = [rcount EXCEPT ![e] = rcount[e] + 1] /\ wlocked' = wlocked
          \/ wlocked' = [wlocked EXCEPT ![e] = TRUE] /\ rcount' = rcount
      BY <1>0 DEF Acquire
    <3>2. rcount[e] + 1 \in Nat
      BY <1>1, <2>1 DEF TypeOK
    <3> QED
      BY <1>1, <3>1, <3>2 DEF TypeOK
  <2> QED
    BY <2>2 DEF TypeOK, PCs, Acquire
<1>3. PointerInv' /\ MapInv' /\ RefInv' /\ NoMisuse'
  BY <1>0, <1>1 DEF PointerInv, MapInv, RefInv, Users, NoMisuse, TypeOK, Acquire
<1>4. ASSUME NEW f \in Entries, f # e
      PROVE  HoldR(f)' = HoldR(f) /\ HoldW(f)' = HoldW(f)
  BY <1>0, <1>4, <1>1 DEF HoldR, HoldW, Holding, TypeOK, Acquire
<1>5. HoldW(e) = {}
  BY <1>1 DEF MutexInv, MutexAgrees
<1>6. CASE readLock[t]
  <2>1. HoldR(e)' = HoldR(e) \cup {t} /\ t \notin HoldR(e) /\ HoldW(e)' = HoldW(e)
    BY <1>0, <1>1, <1>6 DEF HoldR, HoldW, Holding, TypeOK, Acquire
  <2>2. Cardinality(HoldR(e) \cup {t}) = Cardinality(HoldR(e)) + 1
    BY <2>1, InstanceSets, SetsOfInstances
  <2>3. rcount' = [rcount EXCEPT ![e] = @ + 1] /\ wlocked' = wlocked
    BY <1>0, <1>6 DEF Acquire
  <2>4. MutexAgrees(e)'
    BY <1>1, <1>5, <2>1, <2>2, <2>3 DEF MutexInv, MutexAgrees, TypeOK
  <2>5. ASSUME NEW f \in Entries, f # e PROVE MutexAgrees(f)'
    BY <1>4, <2>3, <2>5 DEF MutexInv, MutexAgrees, TypeOK
  <2>6. MutexInv'
    BY <2>4, <2>5 DEF MutexInv
  <2> QED
    BY <1>2, <1>3, <2>6
<1>7. CASE ~readLock[t]
  <2>1. HoldW(e)' = HoldW(e) \cup {t} /\ HoldR(e)' = HoldR(e)
    BY <1>0, <1>1, <1>7 DEF HoldR, HoldW, Holding, TypeOK, Acquire
  <2>2. rcount' = rcount /\ wlocked' = [wlocked EXCEPT ![e] = TRUE] /\ rcount[e] = 0
    BY <1>0, <1>7 DEF Acquire
  <2>3. HoldR(e) = {}
    BY <1>1, <2>2, InstanceSets, SetsOfInstances DEF MutexInv, MutexAgrees
  <2>4. MutexAgrees(e)'
    BY <1>1, <1>5, <2>1, <2>2, <2>3 DEF MutexInv, MutexAgrees, TypeOK
  <2>5. ASSUME NEW f \in Entries, f # e PROVE MutexAgrees(f)'
    BY <1>4, <2>2, <2>5 DEF MutexInv, MutexAgrees, TypeOK
  <2>6. MutexInv'
    BY <2>4, <2>5 DEF MutexInv
  <2> QED
    BY <1>2, <1>3, <2>6
<1> QED
  BY <1>6, <1>7

LEMMA RefuseIInv ==
  ASSUME IInv, NEW t \in Instances, Refuse(t)
  PROVE  IInv'
<1> USE DEF IInv
<1>1. TypeOK'
  BY DEF TypeOK, PCs, Refuse, entryVars
<1>2. PointerInv' /\ MapInv' /\ RefInv' /\ NoMisuse'
  BY DEF PointerInv, MapInv, RefInv, Users, NoMisuse, TypeOK, Refuse, entryVars
<1>3. ASSUME NEW f \in Entries
      PROVE  HoldR(f)' = HoldR(f) /\ HoldW(f)' = HoldW(f)
  BY DEF HoldR, HoldW, Holding, TypeOK, Refuse
<1>4. MutexInv'
  BY <1>3, SameHolders DEF Refuse, entryVars
<1> QED
  BY <1>1, <1>2, <1>4

(***************************************************************************)
(* Giving a reference back, on failure in lock and at the end of unlock:   *)
(* the entry leaves the map together with its last user.                   *)
(***************************************************************************)
LEMMA DropRefIInv ==
  ASSUME IInv, NEW t \in Instances, pc[t] \in {"timedOut", "cancelled", "unref"},
         DropRef(t), Return(t), UNCHANGED <<rcount, wlocked, ctxDone, misuse>>
  PROVE  IInv'
<1> USE DEF IInv
<1>0. PICK e : e = nsLk[t]
  OBVIOUS
<1>1. e \in Entries /\ lockMap[param[t]] = e /\ t \in Users(e) /\ param[t] \in Params
  BY <1>0 DEF PointerInv, Users, TypeOK
<1>2. Cardinality(Users(e) \ {t}) = Cardinality(Users(e)) - 1
      /\ Cardinality(Users(e)) \in Nat /\ Cardinality(Users(e)) # 0
  BY <1>1, InstanceSets, SetsOfInstances
<1>3. ref[e] \in Nat \ {0}
  BY <1>1, <1>2 DEF RefInv
<1>4. TypeOK'
  BY <1>0, <1>1, <1>3 DEF TypeOK, PCs, DropRef, Return
<1>5. Users(e)' = Users(e) \ {t}
  BY <1>0, <1>1, EntriesAssumption DEF Users, TypeOK, Return
<1>6. ASSUME NEW f \in Entries, f # e PROVE Users(f)' = Users(f)
  BY <1>0, <1>6, EntriesAssumption DEF Users, TypeOK, Return
<1>7. RefInv'
  BY <1>0, <1>1, <1>2, <1>5, <1>6 DEF RefInv, TypeOK, DropRef
<1>8. ref[e] = 1 => Users(e) = {t}
  <2> SUFFICES ASSUME ref[e] = 1 PROVE Users(e) \ {t} = {}
    BY <1>1
  <2>1. Cardinality(Users(e) \ {t}) = 0 /\ Users(e) \ {t} \in SUBSET Instances
    BY <1>1, <1>2, SetsOfInstances DEF RefInv
  <2> QED
    BY <2>1, InstanceSets
<1>9. PointerInv'
  <2> SUFFICES ASSUME NEW u \in Instances
               PROVE  IF pc'[u] = "idle" THEN nsLk'[u] = NoEntry
                      ELSE nsLk'[u] \in Entries /\ lockMap'[param'[u]] = nsLk'[u]
    BY DEF PointerInv
  <2>1. CASE u = t
    BY <2>1 DEF TypeOK, Return
  <2>2. CASE u # t
    <3>1. pc'[u] = pc[u] /\ nsLk'[u] = nsLk[u] /\ param'[u] = param[u]
      BY <2>2 DEF TypeOK, Return
    <3>2. ASSUME ref[e] = 1, pc[u] # "idle" PROVE param[u] # param[t]
      BY <1>1, <1>8, <2>2, <3>2 DEF PointerInv, Users
    <3>3. pc[u] # "idle" => lockMap'[param[u]] = lockMap[param[u]]
      BY <1>0, <3>2 DEF DropRef, TypeOK
    <3> QED
      BY <3>1, <3>3 DEF PointerInv
  <2> QED
    BY <2>1, <2>2
<1>10. MapInv'
  <2>1. ASSUME NEW q \in Params, lockMap'[q] # NoEntry
        PROVE  lockMap'[q] = lockMap[q] /\ lockMap[q] \in Entries
    BY <2>1 DEF DropRef, TypeOK
  <2>2. ASSUME NEW q \in Params, lockMap'[q] # NoEntry PROVE ref'[lockMap'[q]] > 0
    <3>1. CASE lockMap[q] = e
      <4>1. q = param[t]
        BY <1>1, <3>1, EntriesAssumption DEF MapInv
      <4>2. ref[e] # 1
        BY <1>0, <2>2, <4>1 DEF DropRef, TypeOK
      <4> QED
        BY <1>0, <1>1, <1>3, <2>1, <2>2, <3>1, <4>2 DEF DropRef, TypeOK
    <3>2. CASE lockMap[q] # e
      BY <1>0, <2>1, <2>2, <3>2 DEF DropRef, TypeOK, MapInv
    <3> QED
      BY <3>1, <3>2
  <2>3. ASSUME NEW q \in Params, NEW r \in Params,
               lockMap'[q] # NoEntry, lockMap'[q] = lockMap'[r]
        PROVE  q = r
    BY <2>1, <2>3 DEF MapInv
  <2> QED
    BY <2>2, <2>3 DEF MapInv
<1>11. ASSUME NEW f \in Entries
       PROVE  HoldR(f)' = HoldR(f) /\ HoldW(f)' = HoldW(f)
  BY DEF HoldR, HoldW, Holding, TypeOK, Return
<1>12. MutexInv' /\ NoMisuse'
  BY <1>11, SameHolders DEF NoMisuse
<1> QED
  BY <1>4, <1>7, <1>9, <1>10, <1>12

LEMMA UndoIInv ==
  ASSUME IInv, NEW t \in Instances, Undo(t)
  PROVE  IInv'
BY DropRefIInv DEF Undo

(***************************************************************************)
(* Every action of unlock preserves it.                                    *)
(***************************************************************************)
LEMMA LookupIInv ==
  ASSUME IInv, NEW t \in Instances, Lookup(t)
  PROVE  IInv'
<1> USE DEF IInv
<1>1. lockMap[param[t]] = nsLk[t] /\ nsLk[t] \in Entries
  BY DEF PointerInv, Lookup
<1>2. /\ nsLk' = nsLk /\ pc' = [pc EXCEPT ![t] = "release"] /\ pc[t] = "held"
      /\ UNCHANGED <<lockMap, entryVars, param, readLock, creator, misuse>>
  BY <1>1, EntriesAssumption DEF Lookup, TypeOK
<1>3. TypeOK'
  BY <1>2 DEF TypeOK, PCs, entryVars
<1>4. PointerInv' /\ MapInv' /\ RefInv' /\ NoMisuse'
  BY <1>2 DEF PointerInv, MapInv, RefInv, Users, NoMisuse, TypeOK, entryVars
<1>5. ASSUME NEW f \in Entries
      PROVE  HoldR(f)' = HoldR(f) /\ HoldW(f)' = HoldW(f)
  BY <1>2 DEF HoldR, HoldW, Holding, TypeOK
<1>6. MutexInv'
  BY <1>2, <1>5, SameHolders DEF entryVars
<1> QED
  BY <1>3, <1>4, <1>6

LEMMA ReleaseIInv ==
  ASSUME IInv, NEW t \in Instances, Release(t)
  PROVE  IInv'
<1> USE DEF IInv
<1>0. PICK e : e = nsLk[t]
  OBVIOUS
<1>1. e \in Entries /\ pc[t] = "release"
  BY <1>0 DEF PointerInv, Release
<1>2. ASSUME NEW f \in Entries, f # e
      PROVE  HoldR(f)' = HoldR(f) /\ HoldW(f)' = HoldW(f)
  BY <1>0, <1>1, <1>2 DEF HoldR, HoldW, Holding, TypeOK, Release
<1>3. PointerInv' /\ MapInv' /\ RefInv'
  BY <1>1 DEF PointerInv, MapInv, RefInv, Users, TypeOK, Release
<1>4. /\ pc' \in [Instances -> PCs]
      /\ UNCHANGED <<lockMap, ref, ctxDone, param, readLock, nsLk, creator>>
  BY DEF TypeOK, PCs, Release
<1>5. CASE readLock[t]
  <2>1. t \in HoldR(e) /\ HoldR(e)' = HoldR(e) \ {t} /\ HoldW(e)' = HoldW(e)
    BY <1>0, <1>1, <1>5 DEF HoldR, HoldW, Holding, TypeOK, Release
  <2>2. /\ Cardinality(HoldR(e) \ {t}) = Cardinality(HoldR(e)) - 1
        /\ Cardinality(HoldR(e)) \in Nat \ {0}
    BY <2>1, InstanceSets, SetsOfInstances
  <2>3. rcount[e] \in Nat \ {0} /\ rcount[e] - 1 \in Nat
    BY <1>1, <2>2 DEF MutexInv, MutexAgrees
  <2>4. rcount' = [rcount EXCEPT ![e] = rcount[e] - 1] /\ wlocked' = wlocked
    BY <1>0, <1>5, <2>3 DEF Release
  <2>5. misuse' = misuse
    BY <1>0, <1>5, <2>3 DEF Release, TypeOK
  <2>6. MutexAgrees(e)'
    BY <1>1, <2>1, <2>2, <2>4 DEF MutexInv, MutexAgrees, TypeOK
  <2>7. ASSUME NEW f \in Entries, f # e PROVE MutexAgrees(f)'
    BY <1>2, <2>4, <2>7 DEF MutexInv, MutexAgrees, TypeOK
  <2>8. MutexInv' /\ NoMisuse'
    BY <2>5, <2>6, <2>7 DEF MutexInv, NoMisuse
  <2>9. TypeOK'
    BY <1>1, <1>4, <2>3, <2>4, <2>5 DEF TypeOK
  <2> QED
    BY <1>3, <2>8, <2>9
<1>6. CASE ~readLock[t]
  <2>1. t \in HoldW(e) /\ HoldW(e)' = HoldW(e) \ {t} /\ HoldR(e)' = HoldR(e)
    BY <1>0, <1>1, <1>6 DEF HoldR, HoldW, Holding, TypeOK, Release
  <2>2. wlocked[e] /\ HoldW(e)' = {} /\ HoldR(e) = {}
    BY <1>1, <2>1 DEF MutexInv, MutexAgrees
  <2>3. wlocked' = [wlocked EXCEPT ![e] = FALSE] /\ rcount' = rcount
    BY <1>0, <1>6 DEF Release
  <2>4. misuse' = misuse
    BY <1>0, <1>6, <2>2 DEF Release, TypeOK
  <2>5. MutexAgrees(e)'
    BY <1>1, <2>1, <2>2, <2>3 DEF MutexInv, MutexAgrees, TypeOK
  <2>6. ASSUME NEW f \in Entries, f # e PROVE MutexAgrees(f)'
    BY <1>2, <2>3, <2>6 DEF MutexInv, MutexAgrees, TypeOK
  <2>7. MutexInv' /\ NoMisuse'
    BY <2>4, <2>5, <2>6 DEF MutexInv, NoMisuse
  <2>8. TypeOK'
    BY <1>1, <1>4, <2>3, <2>4 DEF TypeOK
  <2> QED
    BY <1>3, <2>7, <2>8
<1> QED
  BY <1>5, <1>6

LEMMA UnrefIInv ==
  ASSUME IInv, NEW t \in Instances, Unref(t)
  PROVE  IInv'
<1>1. t \in Users(nsLk[t]) /\ nsLk[t] \in Entries
  BY DEF IInv, PointerInv, Users, Unref
<1>2. ref[nsLk[t]] # 0
  BY <1>1, InstanceSets, SetsOfInstances DEF IInv, RefInv
<1> QED
  BY <1>2, DropRefIInv DEF Unref

LEMMA CtxDoneIInv ==
  ASSUME IInv, NEW e \in Entries, CtxDone(e)
  PROVE  IInv'
<1> USE DEF IInv
<1>1. TypeOK'
  BY DEF TypeOK, CtxDone
<1>2. PointerInv' /\ MapInv' /\ RefInv' /\ NoMisuse'
  BY DEF PointerInv, MapInv, RefInv, Users, NoMisuse, CtxDone
<1>3. MutexInv'
  BY SameHolders DEF CtxDone, HoldR, HoldW, Holding
<1> QED
  BY <1>1, <1>2, <1>3

LEMMA StepIInv == IInv /\ [Next]_vars => IInv'
<1> SUFFICES ASSUME IInv, [Next]_vars PROVE IInv'
  OBVIOUS
<1>1. CASE UNCHANGED vars
  <2>1. TypeOK' /\ PointerInv' /\ MapInv' /\ RefInv' /\ NoMisuse'
    BY <1>1 DEF vars, IInv, TypeOK, PointerInv, MapInv, RefInv, Users, NoMisuse
  <2>2. MutexInv'
    BY <1>1, SameHolders DEF vars, IInv, HoldR, HoldW, Holding
  <2> QED
    BY <2>1, <2>2 DEF IInv
<1>2. ASSUME NEW t \in Instances,
             Lock(t) \/ Acquire(t) \/ Refuse(t) \/ Undo(t) \/ Unlock(t)
      PROVE  IInv'
  <2>1. CASE Lock(t)
    BY <2>1, LockNewIInv, LockFoundIInv DEF Lock
  <2>2. CASE Unlock(t)
    BY <2>2, LookupIInv, ReleaseIInv, UnrefIInv DEF Unlock
  <2> QED
    BY <1>2, <2>1, <2>2, AcquireIInv, RefuseIInv, UndoIInv
<1>3. ASSUME NEW e \in Entries, CtxDone(e) PROVE IInv'
  BY <1>3, CtxDoneIInv
<1> QED
  BY <1>1, <1>2, <1>3 DEF Next

(***************************************************************************)
(* The three conjuncts below follow from the invariant in every state.     *)
(***************************************************************************)
LEMMA HoldersThroughMap ==
  ASSUME IInv, NEW p \in Params
  PROVE  /\ lockMap[p] = NoEntry => Readers(p) = {} /\ Writers(p) = {}
         /\ lockMap[p] # NoEntry =>
              /\ lockMap[p] \in Entries
              /\ Readers(p) = HoldR(lockMap[p])
              /\ Writers(p) = HoldW(lockMap[p])
<1>1. ASSUME NEW t \in Holding
      PROVE  nsLk[t] \in Entries /\ lockMap[param[t]] = nsLk[t] /\ param[t] \in Params
  BY DEF IInv, TypeOK, PointerInv, Holding
<1>2. ASSUME NEW t \in Holding, lockMap[p] # NoEntry
      PROVE  param[t] = p <=> nsLk[t] = lockMap[p]
  BY <1>1, <1>2 DEF IInv, MapInv
<1>3. CASE lockMap[p] = NoEntry
  BY <1>1, <1>3, EntriesAssumption DEF Readers, Writers
<1>4. CASE lockMap[p] # NoEntry
  BY <1>2, <1>4 DEF Readers, Writers, HoldR, HoldW, IInv, TypeOK
<1> QED
  BY <1>3, <1>4

LEMMA IInvExcludes == IInv => MutualExclusion
<1> SUFFICES ASSUME IInv, NEW p \in Params
             PROVE  /\ \A t, u \in Writers(p) : t = u
                    /\ Writers(p) # {} => Readers(p) = {}
  BY DEF MutualExclusion
<1> QED
  BY HoldersThroughMap DEF IInv, MutexInv, MutexAgrees

LEMMA IInvMapMatches == IInv => MapMatchesUse
<1> SUFFICES ASSUME IInv, NEW p \in Params
             PROVE  lockMap[p] # NoEntry <=>
                      \E t \in Instances : pc[t] # "idle" /\ param[t] = p
  BY DEF MapMatchesUse
<1>1. ASSUME NEW t \in Instances, pc[t] # "idle", param[t] = p
      PROVE  lockMap[p] # NoEntry
  BY <1>1, EntriesAssumption DEF IInv, PointerInv
<1>2. ASSUME lockMap[p] # NoEntry
      PROVE  \E t \in Instances : pc[t] # "idle" /\ param[t] = p
  <2>1. lockMap[p] \in Entries /\ ref[lockMap[p]] > 0
    BY <1>2 DEF IInv, TypeOK, MapInv
  <2>2. Users(lockMap[p]) # {}
    BY <2>1, InstanceSets, SetsOfInstances DEF IInv, RefInv
  <2>3. PICK t \in Instances : nsLk[t] = lockMap[p]
    BY <2>2 DEF Users
  <2>4. pc[t] # "idle" /\ lockMap[param[t]] = lockMap[p] /\ param[t] \in Params
    BY <1>2, <2>3 DEF IInv, PointerInv, TypeOK
  <2> QED
    BY <1>2, <2>4 DEF IInv, MapInv
<1> QED
  BY <1>1, <1>2

(***************************************************************************)
(* Safety of the lock map for any number of instances and resources: the   *)
(* types, mutual exclusion, no release of a lock that is not held and no   *)
(* reference count below 0, and a map without lost or leaked entries.      *)
(***************************************************************************)
THEOREM Safety ==
  Spec => [](TypeOK /\ MutualExclusion /\ NoMisuse /\ MapMatchesUse)
<1>1. Init => IInv
  BY InitIInv
<1>2. IInv /\ [Next]_vars => IInv'
  BY StepIInv
<1>3. IInv => TypeOK /\ MutualExclusion /\ NoMisuse /\ MapMatchesUse
  BY IInvExcludes, IInvMapMatches DEF IInv
<1> QED
  BY <1>1, <1>2, <1>3, PTL DEF Spec

(***************************************************************************)
(* The lock map implements the abstract readers-writer lock.               *)
(***************************************************************************)
LEMMA AcquireRefines ==
  ASSUME IInv, NEW t \in Instances, Acquire(t)
  PROVE  RW!Next
<1>0. PICK p : p = param[t]
  OBVIOUS
<1>1. p \in Params /\ nsLk[t] = lockMap[p] /\ lockMap[p] # NoEntry /\ pc[t] = "wait"
  BY <1>0, EntriesAssumption DEF IInv, TypeOK, PointerInv, Acquire
<1>2. ~wlocked[lockMap[p]] /\ (~readLock[t] => rcount[lockMap[p]] = 0)
  BY <1>1 DEF Acquire
<1>3. Writers(p) = {}
  BY <1>1, <1>2, HoldersThroughMap DEF IInv, MutexInv, MutexAgrees
<1>4. ~readLock[t] => Readers(p) = {}
  BY <1>1, <1>2, HoldersThroughMap, InstanceSets, SetsOfInstances
     DEF IInv, MutexInv, MutexAgrees
<1>5. t \notin Readers(p)
  BY <1>1 DEF Readers, Holding
<1>6. ASSUME NEW q \in Params, q # p
      PROVE  Readers(q)' = Readers(q) /\ Writers(q)' = Writers(q)
  BY <1>0, <1>6 DEF Readers, Writers, Holding, IInv, TypeOK, Acquire
<1>7. CASE readLock[t]
  <2>1. Readers(p)' = Readers(p) \cup {t} /\ Writers(p)' = Writers(p)
    BY <1>0, <1>7 DEF Readers, Writers, Holding, IInv, TypeOK, Acquire
  <2>2. RW!GetRLock(t, p)
    BY <1>1, <1>3, <1>5, <1>6, <2>1 DEF RW!GetRLock
  <2> QED
    BY <1>1, <2>2 DEF RW!Next
<1>8. CASE ~readLock[t]
  <2>1. Writers(p)' = Writers(p) \cup {t} /\ Readers(p)' = Readers(p)
    BY <1>0, <1>8 DEF Readers, Writers, Holding, IInv, TypeOK, Acquire
  <2>2. RW!GetLock(t, p)
    BY <1>1, <1>3, <1>4, <1>6, <1>8, <2>1 DEF RW!GetLock
  <2> QED
    BY <1>1, <2>2 DEF RW!Next
<1> QED
  BY <1>7, <1>8

LEMMA ReleaseRefines ==
  ASSUME IInv, NEW t \in Instances, Release(t)
  PROVE  RW!Next
<1>0. PICK p : p = param[t]
  OBVIOUS
<1>1. p \in Params /\ pc[t] = "release"
  BY <1>0 DEF IInv, TypeOK, Release
<1>2. ASSUME NEW q \in Params, q # p
      PROVE  Readers(q)' = Readers(q) /\ Writers(q)' = Writers(q)
  BY <1>0, <1>2 DEF Readers, Writers, Holding, IInv, TypeOK, Release
<1>3. CASE readLock[t]
  <2>1. /\ Readers(p)' = Readers(p) \ {t} /\ Writers(p)' = Writers(p)
        /\ t \in Readers(p)
    BY <1>0, <1>1, <1>3 DEF Readers, Writers, Holding, IInv, TypeOK, Release
  <2>2. RW!RUnlock(t, p)
    BY <1>1, <1>2, <2>1 DEF RW!RUnlock
  <2> QED
    BY <1>1, <2>2 DEF RW!Next
<1>4. CASE ~readLock[t]
  <2>1. /\ Writers(p)' = Writers(p) \ {t} /\ Readers(p)' = Readers(p)
        /\ t \in Writers(p)
    BY <1>0, <1>1, <1>4 DEF Readers, Writers, Holding, IInv, TypeOK, Release
  <2>2. RW!Unlock(t, p)
    BY <1>1, <1>2, <2>1 DEF RW!Unlock
  <2> QED
    BY <1>1, <2>2 DEF RW!Next
<1> QED
  BY <1>3, <1>4

(***************************************************************************)
(* The other steps do not change who holds which resource.                 *)
(***************************************************************************)
LEMMA OtherStepsStutter ==
  ASSUME IInv, NEW t \in Instances,
         Lock(t) \/ Refuse(t) \/ Undo(t) \/ Lookup(t) \/ Unref(t)
  PROVE  UNCHANGED RW!vars
<1>1. ASSUME Lock(t) \/ Refuse(t) \/ Undo(t) \/ Unref(t)
      PROVE  /\ t \notin Holding /\ Holding' = Holding
             /\ \A u \in Instances \ {t} : param'[u] = param[u]
                                           /\ readLock'[u] = readLock[u]
  BY <1>1 DEF Lock, LockNew, LockFound, Refuse, Undo, Unref, Return, Holding,
              IInv, TypeOK
<1>2. ASSUME Lookup(t)
      PROVE  Holding' = Holding /\ param' = param /\ readLock' = readLock
  <2>1. lockMap[param[t]] # NoEntry
    BY <1>2, EntriesAssumption DEF IInv, PointerInv, Lookup
  <2> QED
    BY <1>2, <2>1 DEF Lookup, Holding, IInv, TypeOK
<1>3. ASSUME NEW p \in Params
      PROVE  Readers(p)' = Readers(p) /\ Writers(p)' = Writers(p)
  BY <1>1, <1>2 DEF Readers, Writers, Holding
<1> QED
  BY <1>3 DEF RW!vars

(***************************************************************************)
(* lock and unlock of namespace-lock.go implement RWLocker: seen through   *)
(* the instances that hold a (volume, path), every step is a step of the   *)
(* abstract readers-writer lock or changes nothing there.                  *)
(***************************************************************************)
THEOREM Refinement == Spec => ImplementsRWLock
<1>1. Init => IInv
  BY InitIInv
<1>2. IInv /\ [Next]_vars => IInv'
  BY StepIInv
<1>3. Init => RW!Init
  BY DEF Init, RW!Init, Readers, Writers, Holding
<1>4. IInv /\ [Next]_vars => [RW!Next]_(RW!vars)
  <2> SUFFICES ASSUME IInv, [Next]_vars PROVE [RW!Next]_(RW!vars)
    OBVIOUS
  <2>1. ASSUME UNCHANGED vars \/ \E e \in Entries : CtxDone(e)
        PROVE  UNCHANGED RW!vars
    BY <2>1 DEF vars, CtxDone, RW!vars, Readers, Writers, Holding
  <2>2. ASSUME NEW t \in Instances,
               Lock(t) \/ Acquire(t) \/ Refuse(t) \/ Undo(t) \/ Unlock(t)
        PROVE  RW!Next \/ UNCHANGED RW!vars
    BY <2>2, AcquireRefines, ReleaseRefines, OtherStepsStutter DEF Unlock
  <2> QED
    BY <2>1, <2>2 DEF Next
<1> QED
  BY <1>1, <1>2, <1>3, <1>4, PTL DEF Spec, ImplementsRWLock, RW!Spec
=============================================================================

--------------------------- MODULE ReduceErrsProofs ---------------------------
(***************************************************************************)
(* Proofs about reduceErrs and reduceQuorumErrs for any number of replicas,*)
(* any error values and any quorum of at least a simple majority.          *)
(***************************************************************************)
EXTENDS ReduceErrs, TLAPS, FiniteSetTheorems

(***************************************************************************)
(* The positions of a value in errs form a finite set of at most N indexes.*)
(***************************************************************************)
LEMMA PositionsFinite ==
  ASSUME NEW S \in SUBSET (1..N)
  PROVE  IsFiniteSet(S) /\ Cardinality(S) \in 0..N
<1>1. IsFiniteSet(1..N) /\ Cardinality(1..N) = N
  BY FS_Interval, NAssumption
<1>2. IsFiniteSet(S) /\ Cardinality(S) <= N
  BY <1>1, FS_Subset
<1> QED
  BY <1>2, FS_CardinalityType, NAssumption

(***************************************************************************)
(* Two different values cannot both be answered by a quorum: their         *)
(* positions are disjoint and a quorum is more than half.                  *)
(***************************************************************************)
LEMMA OneQuorumValue ==
  ASSUME NEW f \in [1..N -> Values], NEW a, NEW b,
         Count(f, a) >= Quorum, Count(f, b) >= Quorum
  PROVE  a = b
<1> DEFINE A == {j \in 1..N : f[j] = a}
           B == {j \in 1..N : f[j] = b}
<1>1. Count(f, a) = Cardinality(A) /\ Count(f, b) = Cardinality(B)
  BY DEF Count
<1>2. IsFiniteSet(1..N) /\ Cardinality(1..N) = N
  BY FS_Interval, NAssumption
<1>3. Cardinality(A) \in Nat /\ Cardinality(B) \in Nat
  BY PositionsFinite
<1>4. Cardinality(A) + Cardinality(B) > Cardinality(1..N)
  BY <1>1, <1>2, <1>3, QuorumAssumption, NAssumption
<1>5. A \cap B # {}
  BY <1>2, <1>4, FS_MajoritiesIntersect
<1> QED
  BY <1>5

(***************************************************************************)
(* IInv is inductive.                                                      *)
(***************************************************************************)
LEMMA InitIInv == Init => IInv
<1> SUFFICES ASSUME Init PROVE IInv
  OBVIOUS
<1>1. TypeOK
  BY NAssumption DEF Init, TypeOK, Values
<1>2. CountInv
  <2>1. ASSUME NEW e \in Values PROVE Seen(e) = {}
    BY NAssumption DEF Init, Seen
  <2> QED
    BY <2>1, FS_EmptySet DEF Init, CountInv
<1>3. VisitInv /\ DoneInv
  BY DEF Init, VisitInv, DoneInv
<1> QED
  BY <1>1, <1>2, <1>3 DEF IInv

LEMMA CountErrIInv == IInv /\ CountErr => IInv'
<1> SUFFICES ASSUME IInv, CountErr PROVE IInv'
  OBVIOUS
<1> USE NAssumption
<1>0. TypeOK /\ i \in 1..N /\ errs[i] \in Values /\ errs' = errs /\ i' = i + 1
  BY DEF IInv, TypeOK, CountErr
<1>1. \A e \in Values : Seen(e) \in SUBSET (1..N) /\ Seen(e)' \in SUBSET (1..N)
  BY <1>0 DEF Seen
<1>2. \A e \in Values : Seen(e)' = IF errs[i] = e THEN Seen(e) \cup {i} ELSE Seen(e)
  BY <1>0 DEF Seen
<1>3. \A e \in Values : i \notin Seen(e)
  BY <1>0 DEF Seen
<1>4. ASSUME NEW e \in Values
      PROVE  errorCounts'[e] = IF e \in Ignored THEN 0 ELSE Cardinality(Seen(e)')
  <2>1. errorCounts[e] = IF e \in Ignored THEN 0 ELSE Cardinality(Seen(e))
    BY DEF IInv, CountInv
  <2>2. CASE errs[i] = e /\ e \notin Ignored
    <3>1. IsFiniteSet(Seen(e))
      BY <1>1, PositionsFinite
    <3>2. Cardinality(Seen(e) \cup {i}) = Cardinality(Seen(e)) + 1
      BY <1>3, <3>1, FS_AddElement
    <3> QED
      BY <1>0, <1>2, <2>1, <2>2, <3>2 DEF CountErr, TypeOK
  <2>3. CASE errs[i] # e
    BY <1>0, <1>2, <2>1, <2>3 DEF CountErr, TypeOK
  <2>4. CASE e \in Ignored
    BY <1>0, <2>1, <2>4 DEF CountErr, TypeOK
  <2> QED
    BY <2>2, <2>3, <2>4
<1>5. \A e \in Values : errorCounts'[e] \in 0..N
  BY <1>1, <1>4, PositionsFinite
<1>6. TypeOK'
  <2>1. errorCounts' \in [Values -> 0..N]
    BY <1>0, <1>5 DEF CountErr, TypeOK
  <2> QED
    BY <1>0, <2>1 DEF CountErr, TypeOK
<1>7. CountInv'
  BY <1>4, <1>0 DEF IInv, CountInv, CountErr
<1>8. VisitInv' /\ DoneInv'
  BY DEF IInv, VisitInv, DoneInv, CountErr
<1> QED
  BY <1>6, <1>7, <1>8 DEF IInv

LEMMA StartVisitIInv == IInv /\ StartVisit => IInv'
<1> SUFFICES ASSUME IInv, StartVisit PROVE IInv'
  OBVIOUS
<1> USE NAssumption
<1>0. TypeOK /\ i = N + 1 /\ max = 0
  BY DEF IInv, TypeOK, VisitInv, StartVisit
<1>1. TypeOK'
  BY <1>0 DEF TypeOK, StartVisit
<1>2. CountInv'
  <2>1. \A e \in Values : Seen(e)' = Seen(e)
    BY DEF Seen, StartVisit
  <2> QED
    BY <1>0, <2>1 DEF IInv, CountInv, StartVisit
<1>3. VisitInv'
  BY <1>0 DEF VisitInv, StartVisit, TypeOK
<1> QED
  BY <1>1, <1>2, <1>3 DEF IInv, DoneInv, StartVisit

LEMMA VisitIInv == ASSUME NEW err \in Values PROVE IInv /\ Visit(err) => IInv'
<1> SUFFICES ASSUME IInv, Visit(err) PROVE IInv'
  OBVIOUS
<1> USE NAssumption
<1>0. TypeOK /\ errorCounts[err] \in 0..N /\ max \in 0..N
  BY DEF IInv, TypeOK
<1>1. TypeOK'
  BY <1>0 DEF TypeOK, Visit
<1>2. CountInv'
  <2>1. \A e \in Values : Seen(e)' = Seen(e)
    BY DEF Seen, Visit
  <2> QED
    BY <2>1 DEF IInv, CountInv, Visit
<1>3. VisitInv'
  <2>1. /\ \A e \in Values \ unvisited : errorCounts[e] <= max
        /\ max > 0 => errorCounts[maxErr] = max
        /\ (max > 0 /\ Nil \notin unvisited /\ errorCounts[Nil] = max) => maxErr = Nil
    BY DEF IInv, VisitInv, Visit
  <2>2. pc' = "visit" /\ errorCounts' = errorCounts /\ unvisited' = unvisited \ {err}
    BY DEF Visit
  <2>3. CASE max < errorCounts[err] /\ max' = errorCounts[err] /\ maxErr' = err
    <3>1. \A e \in Values \ unvisited' : errorCounts[e] <= max'
      BY <1>0, <2>1, <2>2, <2>3 DEF TypeOK
    <3>2. errorCounts[maxErr'] = max'
      BY <2>3
    <3>3. Nil \notin unvisited' /\ errorCounts[Nil] = max' => maxErr' = Nil
      BY <1>0, <2>1, <2>2, <2>3 DEF TypeOK, Values
    <3> QED
      BY <2>2, <3>1, <3>2, <3>3 DEF VisitInv
  <2>4. CASE max = errorCounts[err] /\ err = Nil /\ maxErr' = err /\ max' = max
    BY <1>0, <2>1, <2>2, <2>4 DEF VisitInv, TypeOK
  <2>5. CASE /\ max >= errorCounts[err] /\ ~(max = errorCounts[err] /\ err = Nil)
             /\ max' = max /\ maxErr' = maxErr
    BY <1>0, <2>1, <2>2, <2>5 DEF VisitInv, TypeOK
  <2> QED
    BY <2>3, <2>4, <2>5 DEF Visit
<1> QED
  BY <1>1, <1>2, <1>3 DEF IInv, DoneInv, Visit

LEMMA ReturnIInv == IInv /\ Return => IInv'
<1> SUFFICES ASSUME IInv, Return PROVE IInv'
  OBVIOUS
<1>1. \A e \in Values : Seen(e)' = Seen(e)
  BY DEF Seen, Return
<1>2. TypeOK'
  BY DEF IInv, TypeOK, Return
<1>3. CountInv' /\ VisitInv' /\ DoneInv'
  BY <1>1 DEF IInv, CountInv, VisitInv, DoneInv, Return
<1> QED
  BY <1>2, <1>3 DEF IInv

(***************************************************************************)
(* The loops of reduceErrs maintain IInv in every behaviour.               *)
(***************************************************************************)
THEOREM Invariance == Spec => []IInv
<1>1. IInv /\ UNCHANGED vars => IInv'
  BY DEF IInv, TypeOK, CountInv, VisitInv, DoneInv, Seen, vars
<1>2. IInv /\ [Next]_vars => IInv'
  BY <1>1, CountErrIInv, StartVisitIInv, VisitIInv, ReturnIInv DEF Next
<1> QED
  BY <1>2, InitIInv, PTL DEF Spec

(***************************************************************************)
(* When the counting loop is over the map holds the number of occurrences. *)
(***************************************************************************)
LEMMA CountsExact ==
  ASSUME IInv, pc # "count", NEW e \in Values
  PROVE  errorCounts[e] = CountOf(e) /\ CountOf(e) \in 0..N
<1>1. i = N + 1 /\ errs \in [1..N -> Values]
  BY DEF IInv, CountInv, TypeOK
<1>2. Seen(e) = {j \in DOMAIN errs : errs[j] = e}
  BY <1>1, NAssumption DEF Seen
<1>3. Count(errs, e) = Cardinality(Seen(e))
  BY <1>2 DEF Count
<1>4. errorCounts[e] = CountOf(e)
  BY <1>3 DEF IInv, CountInv, CountOf
<1> QED
  BY <1>4 DEF IInv, TypeOK

(***************************************************************************)
(* The type invariant of the loops.                                        *)
(***************************************************************************)
THEOREM TypeCorrect == Spec => []TypeOK
<1>1. IInv => TypeOK
  BY DEF IInv
<1> QED
  BY <1>1, Invariance, PTL

(***************************************************************************)
(* The claim of radio-utils.go:5-10 for every number of replicas: with a   *)
(* quorum of at least a simple majority the order of Go's map iteration    *)
(* does not affect what reduceQuorumErrs returns.                          *)
(***************************************************************************)
THEOREM OrderDoesNotMatter == Spec => []OrderIndependent
<1>1. ASSUME IInv, pc = "done" PROVE OrderIndependent
  <2>1. unvisited = {} /\ result = IF max >= Quorum THEN maxErr ELSE QuorumErr
    BY <1>1 DEF IInv, DoneInv
  <2>2. \A e \in Values : CountOf(e) <= max
    BY <1>1, <2>1, CountsExact DEF IInv, VisitInv
  <2>3. max > 0 => CountOf(maxErr) = max
    BY <1>1, CountsExact DEF IInv, VisitInv, TypeOK
  <2>4. max \in Nat /\ maxErr \in Values /\ errs \in [1..N -> Values]
    BY <1>1, NAssumption DEF IInv, TypeOK
  <2>5. Quorum > 0
    BY QuorumAssumption, NAssumption
  <2>6. ASSUME NEW e \in Values, CountOf(e) >= Quorum PROVE result = e
    <3>0. CountOf(e) \in Nat
      BY <1>1, CountsExact
    <3>1. max >= Quorum /\ max > 0
      BY <2>2, <2>4, <2>5, <2>6, <3>0, QuorumAssumption
    <3>2. Count(errs, e) >= Quorum /\ Count(errs, maxErr) >= Quorum
      BY <2>3, <2>5, <2>6, <3>1, QuorumAssumption DEF CountOf
    <3>3. e = maxErr
      BY <2>4, <3>2, OneQuorumValue
    <3> QED
      BY <2>1, <3>1, <3>3
  <2>7. ASSUME \A e \in Values : CountOf(e) < Quorum PROVE result = QuorumErr
    BY <2>1, <2>3, <2>4, <2>5, <2>7, QuorumAssumption
  <2> QED
    BY <2>6, <2>7 DEF OrderIndependent
<1>2. IInv => OrderIndependent
  BY <1>1 DEF OrderIndependent
<1> QED
  BY <1>2, Invariance, PTL

(***************************************************************************)
(* "Prefer nil over other error values with the same number of             *)
(* occurrences", whatever the order of the map (radio-utils.go:27).        *)
(***************************************************************************)
THEOREM NilIsPreferred == Spec => []NilPreferred
<1>1. ASSUME IInv, pc = "visit", unvisited = {}, CountOf(Nil) > 0,
             \A e \in Values : CountOf(e) <= CountOf(Nil)
      PROVE  maxErr = Nil
  <2>1. Nil \in Values /\ maxErr \in Values /\ max \in Nat
    BY <1>1, NAssumption DEF IInv, TypeOK, Values
  <2>2. errorCounts[Nil] = CountOf(Nil) /\ errorCounts[maxErr] = CountOf(maxErr)
        /\ CountOf(Nil) \in Nat /\ CountOf(maxErr) \in Nat
    BY <1>1, <2>1, CountsExact
  <2>3. errorCounts[Nil] <= max /\ (max > 0 => errorCounts[maxErr] = max)
    BY <1>1, <2>1 DEF IInv, VisitInv
  <2>4. errorCounts[maxErr] <= errorCounts[Nil]
    BY <1>1, <2>1, <2>2
  <2>5. max > 0 /\ errorCounts[Nil] = max
    BY <1>1, <2>1, <2>2, <2>3, <2>4
  <2> QED
    BY <1>1, <2>5 DEF IInv, VisitInv
<1>2. IInv => NilPreferred
  BY <1>1 DEF NilPreferred
<1> QED
  BY <1>2, Invariance, PTL
=============================================================================

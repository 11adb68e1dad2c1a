------------------------------ MODULE ReduceErrs ------------------------------
(***************************************************************************)
(* reduceErrs and reduceQuorumErrs of cmd/radio-utils.go as the loops they *)
(* are.  The second loop ranges over a Go map, whose order is not          *)
(* specified: each iteration visits any key that was not visited yet.      *)
(***************************************************************************)
EXTENDS QuorumReduce

CONSTANTS N,          \* len(errs), the number of replicas
          Errors,     \* error values other than nil
          Ignored,    \* ignoredErrs
          Quorum,     \* the quorum argument
          QuorumErr   \* the quorumErr argument

\* N counts the replicas of a bucket.
ASSUME NAssumption == N \in Nat
\* nil is not an error value, and QuorumErr is an error the replicas do not
\* return (InsufficientReadQuorum{} and InsufficientWriteQuorum{} are made here).
ASSUME ErrorsAssumption == Nil \notin Errors /\ QuorumErr \notin Errors \cup {Nil}
\* What the comment of reduceErrs asks for: "quorum value is greater than or
\* equal to simple majority".
ASSUME QuorumAssumption == Quorum \in Nat /\ 2 * Quorum > N

VARIABLES errs,         \* the argument
          i,            \* next index of the counting loop
          errorCounts,  \* map[error]int; a missing key counts 0
          unvisited,    \* keys the second loop has still to visit
          max, maxErr,  \* locals of reduceErrs
          result,       \* what reduceQuorumErrs returns
          pc

vars == <<errs, i, errorCounts, unvisited, max, maxErr, result, pc>>

Values == Errors \cup {Nil}

Init ==
  /\ errs \in [1..N -> Values]
  /\ i = 1
  /\ errorCounts = [e \in Values |-> 0]
  /\ unvisited = {}
  /\ max = 0
  /\ maxErr = Nil
  /\ result = Nil
  /\ pc = "count"

\* for _, err := range errs { if IsErrIgnored { continue }; errorCounts[err]++ }
CountErr ==
  /\ pc = "count" /\ i <= N
  /\ errorCounts' = IF errs[i] \in Ignored THEN errorCounts
                    ELSE [errorCounts EXCEPT ![errs[i]] = @ + 1]
  /\ i' = i + 1
  /\ UNCHANGED <<errs, unvisited, max, maxErr, result, pc>>

StartVisit ==
  /\ pc = "count" /\ i > N
  /\ unvisited' = {e \in Values : errorCounts[e] > 0}
  /\ pc' = "visit"
  /\ UNCHANGED <<errs, i, errorCounts, max, maxErr, result>>

\* Mutant: the second loop without the preference for nil.
MutVisitNoTie(err) ==
  /\ pc = "visit" /\ err \in unvisited
  /\ unvisited' = unvisited \ {err}
  /\ IF max < errorCounts[err]
     THEN max' = errorCounts[err] /\ maxErr' = err
     ELSE UNCHANGED <<max, maxErr>>
  /\ UNCHANGED <<errs, i, errorCounts, result, pc>>

\* One iteration of: for err, count := range errorCounts { switch ... }
Visit(err) ==
  /\ pc = "visit" /\ err \in unvisited
  /\ unvisited' = unvisited \ {err}
  /\ LET count == errorCounts[err] IN
       \/ max < count /\ max' = count /\ maxErr' = err
       \/ max = count /\ err = Nil /\ maxErr' = err /\ UNCHANGED max
       \/ max >= count /\ ~(max = count /\ err = Nil) /\ UNCHANGED <<max, maxErr>>
  /\ UNCHANGED <<errs, i, errorCounts, result, pc>>

\* Mutant: a quorum that must be exceeded.
MutReturnAbove ==
  /\ pc = "visit" /\ unvisited = {}
  /\ result' = IF max > Quorum THEN maxErr ELSE QuorumErr
  /\ pc' = "done"
  /\ UNCHANGED <<errs, i, errorCounts, unvisited, max, maxErr>>

\* reduceQuorumErrs: if maxCount >= quorum { return maxErr }; return quorumErr
Return ==
  /\ pc = "visit" /\ unvisited = {}
  /\ result' = IF max >= Quorum THEN maxErr ELSE QuorumErr
  /\ pc' = "done"
  /\ UNCHANGED <<errs, i, errorCounts, unvisited, max, maxErr>>

Next ==
  \/ CountErr
  \/ StartVisit
  \/ \E err \in Values : Visit(err)
  \/ Return

Spec == Init /\ [][Next]_vars
-----------------------------------------------------------------------------
TypeOK ==
  /\ errs \in [1..N -> Values]
  /\ i \in 1..(N + 1)
  /\ errorCounts \in [Values -> 0..N]
  /\ unvisited \subseteq Values
  /\ max \in 0..N
  /\ maxErr \in Values
  /\ result \in Values \cup {QuorumErr}
  /\ pc \in {"count", "visit", "done"}

\* The answers reduceErrs counts: those that are not ignored.
CountOf(e) == IF e \in Ignored THEN 0 ELSE Count(errs, e)

\* The comment of reduceErrs (radio-utils.go:5-10): the order in which Go
\* iterates over the map does not affect what reduceQuorumErrs returns.  A
\* value that a quorum of the replicas answered is returned whatever the order,
\* and without such a value quorumErr is.
OrderIndependent ==
  pc = "done" =>
    /\ \A e \in Values : CountOf(e) >= Quorum => result = e
    /\ (\A e \in Values : CountOf(e) < Quorum) => result = QuorumErr

\* "Prefer `nil` over other error values with the same number of occurrences"
\* (radio-utils.go:27): whatever the order, reduceErrs returns nil when nil is
\* among the most frequent answers.
NilPreferred ==
  /\ pc = "visit" /\ unvisited = {}
  /\ CountOf(Nil) > 0
  /\ \A e \in Values : CountOf(e) <= CountOf(Nil)
  => maxErr = Nil
-----------------------------------------------------------------------------
(* The inductive invariant from which the properties above are proved.     *)

\* How often e was met by the counting loop so far.
Seen(e) == {j \in 1..(i - 1) : errs[j] = e}

\* The counting loop: the map counts what was met, ignored errors excepted.
CountInv ==
  /\ \A e \in Values :
       errorCounts[e] = IF e \in Ignored THEN 0 ELSE Cardinality(Seen(e))
  /\ pc # "count" => i = N + 1

\* The map loop: max bounds the counts already visited and maxErr reaches it.
VisitInv ==
  /\ pc = "count" => max = 0 /\ unvisited = {}
  /\ pc # "count" =>
       /\ \A e \in Values \ unvisited : errorCounts[e] <= max
       /\ max > 0 => errorCounts[maxErr] = max
       /\ (max > 0 /\ Nil \notin unvisited /\ errorCounts[Nil] = max) => maxErr = Nil

DoneInv ==
  pc = "done" =>
    unvisited = {} /\ result = IF max >= Quorum THEN maxErr ELSE QuorumErr

IInv == TypeOK /\ CountInv /\ VisitInv /\ DoneInv
=============================================================================

------------------------- MODULE DynamicTimeoutProofs -------------------------
(***************************************************************************)
(* Proof for DynamicTimeout that a full log always has exactly one         *)
(* adjuster, for any number of concurrent requests, any log size and any   *)
(* number of calls.                                                        *)
(***************************************************************************)
EXTENDS DynamicTimeout, TLAPS

PCs == {"idle", "store", "copy", "adjust", "set"}

\* OneAdjuster with what it depends on: an index is drawn only for a store that
\* is still to come.
AdjusterInv ==
  /\ entries \in Nat
  /\ pc \in [Threads -> PCs]
  /\ index \in [Threads -> 0..LogSize]
  /\ \A t \in Threads : pc[t] = "store" <=> index[t] # 0
  /\ OneAdjuster

\* A call of logEntry draws the last index at most once before the next reset.
LEMMA LogEntryInv ==
  ASSUME LogSize \in Nat \ {0}, AdjusterInv, NEW t \in Threads, LogEntry(t)
  PROVE  AdjusterInv'
<1>1. CASE entries < LogSize
  <2>1. /\ pc[t] = "idle" /\ entries' = entries + 1
        /\ index' = [index EXCEPT ![t] = entries + 1]
        /\ pc' = [pc EXCEPT ![t] = "store"]
    BY <1>1 DEF LogEntry
  <2>2. Adjusters = {}
    BY <1>1 DEF AdjusterInv, OneAdjuster
  <2>3. Adjusters' = IF entries + 1 = LogSize THEN {t} ELSE {}
    BY <2>1, <2>2 DEF Adjusters, AdjusterInv, PCs
  <2> QED
    BY <1>1, <2>1, <2>3 DEF AdjusterInv, OneAdjuster, PCs
<1>2. CASE ~(entries < LogSize)
  <2>1. entries' = entries + 1 /\ UNCHANGED <<index, pc>>
    BY <1>2 DEF LogEntry
  <2>2. Adjusters' = Adjusters
    BY <2>1 DEF Adjusters
  <2> QED
    BY <1>2, <2>1, <2>2 DEF AdjusterInv, OneAdjuster
<1> QED
  BY <1>1, <1>2

\* The request that stores the last entry goes on to copy the log.
LEMMA StoreInv ==
  ASSUME LogSize \in Nat \ {0}, AdjusterInv, NEW t \in Threads, Store(t)
  PROVE  AdjusterInv'
<1>1. /\ pc[t] = "store" /\ UNCHANGED entries
      /\ pc' = [pc EXCEPT ![t] = IF index[t] = LogSize THEN "copy" ELSE "idle"]
      /\ index' = [index EXCEPT ![t] = 0]
  BY DEF Store
<1>2. Adjusters' = Adjusters
  BY <1>1 DEF Adjusters, AdjusterInv, PCs
<1> QED
  BY <1>1, <1>2 DEF AdjusterInv, OneAdjuster, PCs

\* The copy resets the log, and the adjuster is no longer one.
LEMMA CopyLogInv ==
  ASSUME LogSize \in Nat \ {0}, AdjusterInv, NEW t \in Threads, CopyLog(t)
  PROVE  AdjusterInv'
<1>1. /\ pc[t] = "copy" /\ entries' = 0 /\ UNCHANGED index
      /\ pc' = [pc EXCEPT ![t] = "adjust"]
  BY DEF CopyLog
<1>2. Adjusters = {t}
  BY <1>1 DEF AdjusterInv, OneAdjuster, Adjusters
<1>3. index[t] = 0
  BY <1>1 DEF AdjusterInv
<1>4. Adjusters' = {}
  BY <1>1, <1>2, <1>3 DEF Adjusters, AdjusterInv, PCs
<1> QED
  BY <1>1, <1>4 DEF AdjusterInv, OneAdjuster, PCs

\* adjust touches neither the counter nor the indexes.
LEMMA AdjustInv ==
  ASSUME LogSize \in Nat \ {0}, AdjusterInv, NEW t \in Threads, Load(t) \/ SetTimeout(t)
  PROVE  AdjusterInv'
<1>1. /\ pc[t] \in {"adjust", "set"} /\ UNCHANGED <<entries, index>>
      /\ \E next \in {"set", "idle"} : pc' = [pc EXCEPT ![t] = next]
  BY DEF Load, SetTimeout
<1>2. Adjusters' = Adjusters
  BY <1>1 DEF Adjusters, AdjusterInv, PCs
<1> QED
  BY <1>1, <1>2 DEF AdjusterInv, OneAdjuster, PCs

\* However calls of logEntry (dynamic-timeouts.go:47-69) interleave, a full log has
\* exactly one request that will copy and reset it, and a log that is not full
\* has none.
THEOREM SingleAdjuster == ASSUME LogSize \in Nat \ {0} PROVE Spec => []OneAdjuster
<1>1. Init => AdjusterInv
  BY DEF Init, AdjusterInv, OneAdjuster, Adjusters, PCs
<1>2. AdjusterInv /\ [Next]_vars => AdjusterInv'
  <2> SUFFICES ASSUME AdjusterInv, [Next]_vars PROVE AdjusterInv'
    OBVIOUS
  <2>1. CASE Next
    BY <2>1, LogEntryInv, StoreInv, CopyLogInv, AdjustInv DEF Next, Step
  <2>2. CASE UNCHANGED vars
    BY <2>2 DEF vars, AdjusterInv, OneAdjuster, Adjusters
  <2> QED
    BY <2>1, <2>2
<1>3. AdjusterInv => OneAdjuster
  BY DEF AdjusterInv
<1> QED
  BY <1>1, <1>2, <1>3, PTL DEF Spec
=============================================================================

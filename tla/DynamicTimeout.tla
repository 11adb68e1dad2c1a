---------------------------- MODULE DynamicTimeout ----------------------------
(***************************************************************************)
(* cmd/dynamic-timeouts.go: the lock timeouts (globalObjectTimeout,        *)
(* globalOperationTimeout) adapt to the durations that the requests log.   *)
(* The entry counter is atomic, the log is written under a mutex, and one  *)
(* critical section of the mutex is one step.  A request that drew its     *)
(* index may write its entry after the log was copied and reset.           *)
(***************************************************************************)
EXTENDS Integers, FiniteSets, FiniteSetsExt

CONSTANTS Threads,    \* the requests that log concurrently
          LogSize,    \* dynamicTimeoutLogSize
          Durations,  \* durations of successes, in units of time
          Failure,    \* maxDuration
          InitialTimeout, Minimum,
          MaxCalls    \* bound on calls of LogSuccess and LogFailure

VARIABLES timeout, entries, log,   \* the fields of dynamicTimeout
          pc, duration, index,     \* of a call of logEntry
          logCopy, loaded,         \* of a call of adjust
          calls

vars == <<timeout, entries, log, pc, duration, index, logCopy, loaded, calls>>

Slots == 1..LogSize
NoLog == [s \in Slots |-> 0]

Init ==
  /\ timeout = InitialTimeout
  /\ entries = 0
  /\ log = NoLog
  /\ pc = [t \in Threads |-> "idle"]
  /\ duration = [t \in Threads |-> 0]
  /\ index = [t \in Threads |-> 0]
  /\ logCopy = [t \in Threads |-> NoLog]
  /\ loaded = [t \in Threads |-> 0]
  /\ calls = 0

\* LogSuccess or LogFailure: entries := AddInt64(&dt.entries, 1); an entry that
\* does not fit is dropped.
LogEntry(t) ==
  /\ pc[t] = "idle" /\ calls < MaxCalls
  /\ calls' = calls + 1
  /\ entries' = entries + 1
  /\ IF entries < LogSize
     THEN /\ index' = [index EXCEPT ![t] = entries + 1]
          /\ \E d \in Durations \cup {Failure} : duration' = [duration EXCEPT ![t] = d]
          /\ pc' = [pc EXCEPT ![t] = "store"]
     ELSE UNCHANGED <<index, duration, pc>>
  /\ UNCHANGED <<timeout, log, logCopy, loaded>>

\* dt.log[index] = duration
Store(t) ==
  /\ pc[t] = "store"
  /\ log' = [log EXCEPT ![index[t]] = duration[t]]
  /\ pc' = [pc EXCEPT ![t] = IF index[t] = LogSize THEN "copy" ELSE "idle"]
  /\ index' = [index EXCEPT ![t] = 0]
  /\ duration' = [duration EXCEPT ![t] = 0]
  /\ UNCHANGED <<timeout, entries, logCopy, loaded, calls>>

\* Mutant: the counter is not reset.
MutCopyLogNoReset(t) ==
  /\ pc[t] = "copy"
  /\ logCopy' = [logCopy EXCEPT ![t] = log]
  /\ pc' = [pc EXCEPT ![t] = "adjust"]
  /\ UNCHANGED <<timeout, entries, log, duration, index, loaded, calls>>

\* logCopy := dt.log; StoreInt64(&dt.entries, 0)
CopyLog(t) ==
  /\ pc[t] = "copy"
  /\ logCopy' = [logCopy EXCEPT ![t] = log]
  /\ entries' = 0
  /\ pc' = [pc EXCEPT ![t] = "adjust"]
  /\ UNCHANGED <<timeout, log, duration, index, loaded, calls>>

Failures(entriesLog) == Cardinality({s \in Slots : entriesLog[s] = Failure})

Average(entriesLog) ==
  LET successes == {s \in Slots : entriesLog[s] # Failure} IN
  IF successes = {} THEN 0
  ELSE MapThenSumSet(LAMBDA s : entriesLog[s], successes) \div Cardinality(successes)

\* timeOutHitPct > 0.33 and timeOutHitPct < 0.10
HitTooOften(entriesLog) == 100 * Failures(entriesLog) > 33 * LogSize
HitSeldom(entriesLog) == 100 * Failures(entriesLog) < 10 * LogSize

\* The timeout that adjust computes from the old one.
Adjusted(old, entriesLog) ==
  IF HitTooOften(entriesLog) THEN (old * 125) \div 100
  ELSE LET middle == (old + (Average(entriesLog) * 125) \div 100) \div 2 IN
       IF middle < Minimum THEN Minimum ELSE middle

\* adjust: atomic.LoadInt64(&dt.timeout), or nothing to do.
Load(t) ==
  /\ pc[t] = "adjust"
  /\ IF HitTooOften(logCopy[t]) \/ HitSeldom(logCopy[t])
     THEN /\ loaded' = [loaded EXCEPT ![t] = timeout]
          /\ pc' = [pc EXCEPT ![t] = "set"]
          /\ UNCHANGED logCopy
     ELSE /\ pc' = [pc EXCEPT ![t] = "idle"]
          /\ logCopy' = [logCopy EXCEPT ![t] = NoLog]
          /\ UNCHANGED loaded
  /\ UNCHANGED <<timeout, entries, log, duration, index, calls>>

\* adjust: atomic.StoreInt64(&dt.timeout, timeout)
SetTimeout(t) ==
  /\ pc[t] = "set"
  /\ timeout' = Adjusted(loaded[t], logCopy[t])
  /\ pc' = [pc EXCEPT ![t] = "idle"]
  /\ logCopy' = [logCopy EXCEPT ![t] = NoLog]
  /\ loaded' = [loaded EXCEPT ![t] = 0]
  /\ UNCHANGED <<entries, log, duration, index, calls>>

Step(t) == Store(t) \/ CopyLog(t) \/ Load(t) \/ SetTimeout(t)

Next == \E t \in Threads : LogEntry(t) \/ Step(t)

\* A call that was started runs to its end.
Spec == Init /\ [][Next]_vars /\ \A t \in Threads : WF_vars(Step(t))
-----------------------------------------------------------------------------
\* The requests that filled the log and have not yet copied it.
Adjusters == {t \in Threads : pc[t] = "copy" \/ index[t] = LogSize}

\* When the log is full, exactly one request is on its way to copy and reset it
\* (dynamic-timeouts.go:55): two would adjust twice for one log, and with none
\* the timeout would be frozen.
OneAdjuster ==
  IF entries >= LogSize THEN \E t \in Threads : Adjusters = {t} ELSE Adjusters = {}

\* A full log is always reset, so the timeout keeps adapting.
LogIsReset == entries >= LogSize ~> entries < LogSize
=============================================================================

-------------------------- MODULE HTTPServerProofs --------------------------
(***************************************************************************)
(* No request is cut off by an exit with status 0, for any finite set of   *)
(* connections.  The invariant needs the exact meaning of requestCount:    *)
(* it is the number of connections inside the wrapped handler, so that a   *)
(* poll that reads zero sees an empty handler, and inShutdown keeps it     *)
(* empty until the exit.                                                   *)
(***************************************************************************)
EXTENDS HTTPServer, FiniteSetTheorems, TLAPS

InFlight == {c \in Conns : conn[c] \in Counted}

Quiet == \A c \in Conns : conn[c] # "handling"

IInv ==
    /\ TypeOK
    /\ requestCount = Cardinality(InFlight)
    /\ main \in {"close", "drain", "drainErr"} => inShutdown
    /\ main = "stopped" /\ then = "exit" => inShutdown /\ Quiet
    /\ main = "exited" \/ status = -1
    /\ NoRequestCutOff

LEMMA InitIInv == Init => IInv
<1> SUFFICES ASSUME Init PROVE IInv
  OBVIOUS
<1>1. InFlight = {}
  BY DEF Init, InFlight, Counted
<1>2. Cardinality(InFlight) = 0
  BY <1>1, FS_EmptySet
<1>3. TypeOK
  BY DEF Init, TypeOK, Counted
<1> QED
  BY <1>2, <1>3 DEF Init, IInv, NoRequestCutOff

(* Steps of the process leave the connections and their count alone.       *)
LEMMA MainStep ==
    ASSUME IsFiniteSet(Conns), IInv, Main \/ Server \/ Signal \/ AcceptError
    PROVE  IInv'
<1>1. UNCHANGED <<conn, requestCount>>
  BY DEF Main, Server, StartServer, NewRadioLayer, PublishLayer, HandleError, HandleSignal, ShutdownEnter,
         ShutdownMark, ShutdownClose, ShutdownPoll, ShutdownTimeout, ExitProcess, newHTTPListener, SetListener,
         Signal, AcceptError
<1>2. TypeOK'
  BY <1>1 DEF IInv, TypeOK
<1>3. (requestCount = Cardinality(InFlight))' /\ (Quiet => Quiet')
  BY <1>1 DEF IInv, InFlight, Quiet
<1>4. requestCount <= 0 => Quiet
  <2> SUFFICES ASSUME requestCount <= 0 PROVE Quiet
    OBVIOUS
  <2>1. IsFiniteSet(InFlight)
    BY FS_Subset DEF InFlight
  <2>2. Cardinality(InFlight) \in Nat
    BY <2>1, FS_CardinalityType
  <2>3. InFlight = {}
    BY <2>1, <2>2, FS_EmptySet DEF IInv
  <2> QED
    BY <2>3 DEF InFlight, Quiet, Counted
<1>5. (main \in {"close", "drain", "drainErr"} => inShutdown)'
  BY DEF IInv, TypeOK, Main, Server, StartServer, NewRadioLayer, PublishLayer, HandleError, HandleSignal,
         ShutdownEnter, ShutdownMark, ShutdownClose, ShutdownPoll, ShutdownTimeout, ExitProcess, newHTTPListener,
         SetListener, Signal, AcceptError, Exit, Return
<1>6. (main = "stopped" /\ then = "exit" => inShutdown /\ Quiet)'
  BY <1>3, <1>4 DEF IInv, TypeOK, Main, Server, StartServer, NewRadioLayer, PublishLayer, HandleError, HandleSignal,
         ShutdownEnter, ShutdownMark, ShutdownClose, ShutdownPoll, ShutdownTimeout, ExitProcess, newHTTPListener,
         SetListener, Signal, AcceptError, Exit, Return
<1>7. (main = "exited" \/ status = -1)'
  BY DEF IInv, TypeOK, Main, Server, StartServer, NewRadioLayer, PublishLayer, HandleError, HandleSignal,
         ShutdownEnter, ShutdownMark, ShutdownClose, ShutdownPoll, ShutdownTimeout, ExitProcess, newHTTPListener,
         SetListener, Signal, AcceptError, Exit, Return
<1>8. NoRequestCutOff'
  <2>1. NoRequestCutOff <=> (status = 0 => Quiet)
    BY DEF NoRequestCutOff, Quiet
  <2>2. NoRequestCutOff' <=> (status' = 0 => Quiet')
    BY DEF NoRequestCutOff, Quiet
  <2> QED
    BY <1>3, <2>1, <2>2 DEF IInv, TypeOK, Main, Server, StartServer, NewRadioLayer, PublishLayer, HandleError,
         HandleSignal, ShutdownEnter, ShutdownMark, ShutdownClose, ShutdownPoll, ShutdownTimeout, ExitProcess,
         newHTTPListener, SetListener, Signal, AcceptError, Exit, Return
<1> QED
  BY <1>2, <1>3, <1>5, <1>6, <1>7, <1>8 DEF IInv

(* A step of one connection: its state decides how the count changes.      *)
LEMMA CountStep ==
    ASSUME IsFiniteSet(Conns), NEW c \in Conns, NEW from, NEW to, TypeOK, ConnStep(c, from, to)
    PROVE  /\ from \in Counted /\ to \notin Counted
                => Cardinality(InFlight') = Cardinality(InFlight) - 1
           /\ from \notin Counted /\ to \in Counted
                => Cardinality(InFlight') = Cardinality(InFlight) + 1
           /\ (from \in Counted <=> to \in Counted)
                => Cardinality(InFlight') = Cardinality(InFlight)
           /\ Cardinality(InFlight) \in Nat /\ Cardinality(InFlight') \in Nat
<1>0. Cardinality(InFlight') \in Nat
  BY FS_Subset, FS_CardinalityType DEF InFlight
<1>1. IsFiniteSet(InFlight)
  BY FS_Subset DEF InFlight
<1>2. conn' = [conn EXCEPT ![c] = to] /\ conn[c] = from /\ DOMAIN conn = Conns
  BY DEF ConnStep, TypeOK
<1>3. CASE from \in Counted /\ to \notin Counted
  <2>1. c \in InFlight /\ InFlight' = InFlight \ {c}
    BY <1>2, <1>3 DEF InFlight
  <2> QED
    BY <1>1, <1>3, <2>1, FS_RemoveElement, FS_CardinalityType
<1>4. CASE from \notin Counted /\ to \in Counted
  <2>1. c \notin InFlight /\ InFlight' = InFlight \cup {c}
    BY <1>2, <1>4 DEF InFlight
  <2> QED
    BY <1>1, <1>4, <2>1, FS_AddElement, FS_CardinalityType
<1>5. CASE from \in Counted <=> to \in Counted
  <2>1. InFlight' = InFlight
    BY <1>2, <1>5 DEF InFlight
  <2> QED
    BY <1>1, <1>5, <2>1, FS_CardinalityType
<1> QED
  BY <1>0, <1>3, <1>4, <1>5

LEMMA ConnSteps ==
    ASSUME IsFiniteSet(Conns), NEW c \in Conns, IInv,
           \/ AcceptTCP(c) \/ SendConn(c) \/ ClientCloses(c)
           \/ RequestCount(c) \/ RequestCheck(c) \/ RequestEnd(c)
    PROVE  IInv'
<1>1. PICK from \in {"none", "accepted", "idle", "counted", "handling", "refused"},
           to \in {"accepted", "idle", "closed", "counted", "handling", "refused"} :
        /\ ConnStep(c, from, to)
        /\ to = "handling" => ~inShutdown
        /\ requestCount' = IF from \in Counted /\ to \notin Counted THEN requestCount - 1
                           ELSE IF from \notin Counted /\ to \in Counted THEN requestCount + 1
                           ELSE requestCount
        /\ (from = "counted") <=> to \in {"handling", "refused"}
  BY SMTT(30) DEF AcceptTCP, SendConn, ClientCloses, RequestCount, RequestCheck, RequestEnd, Counted
<1>2. UNCHANGED <<main, inShutdown, then, status>> /\ Alive
  BY <1>1 DEF ConnStep
<1>3. (requestCount = Cardinality(InFlight))' /\ requestCount' \in Nat
  BY <1>1, CountStep DEF IInv, TypeOK
<1>4. TypeOK'
  BY <1>1, <1>3 DEF IInv, TypeOK, ConnStep, Counted
<1>5. (main = "stopped" /\ then = "exit" => inShutdown /\ Quiet)'
  BY <1>1, <1>2 DEF IInv, TypeOK, Quiet, ConnStep
<1>6. NoRequestCutOff'
  BY <1>2 DEF IInv, NoRequestCutOff, Alive
<1> QED
  BY <1>2, <1>3, <1>4, <1>5, <1>6 DEF IInv

(* The invariant, for every finite set of connections.                     *)
LEMMA Invariance == ASSUME IsFiniteSet(Conns) PROVE Spec => []IInv
<1>1. IInv /\ UNCHANGED vars => IInv'
  <2> SUFFICES ASSUME IInv, UNCHANGED vars PROVE IInv'
    OBVIOUS
  <2>1. TypeOK' /\ InFlight' = InFlight
    BY DEF IInv, TypeOK, vars, InFlight
  <2> QED
    BY <2>1 DEF IInv, vars, NoRequestCutOff, Quiet
<1>2. IInv /\ Next => IInv'
  BY MainStep, ConnSteps DEF Next
<1> QED
  BY <1>1, <1>2, InitIInv, PTL DEF Spec

(* radio's exit status 0 means that no request was cut off: when           *)
(* stopProcess's Shutdown returned nil, no handler is serving a request,   *)
(* and none starts before os.Exit.                                         *)
THEOREM DrainedBeforeExit == ASSUME IsFiniteSet(Conns) PROVE Spec => []NoRequestCutOff
BY Invariance, PTL DEF IInv
=============================================================================

----------------------------- MODULE HTTPServer -----------------------------
(***************************************************************************)
(* The process of radio: startRadio (src/cmd/radio-main.go) starts the     *)
(* HTTP server in a goroutine of its own while it initializes the object   *)
(* layer, then waits in handleSignals (signals.go); the server             *)
(* (http/server.go) accepts connections through its listener               *)
(* (http/listener.go), counts the requests in progress and drains them in  *)
(* Shutdown.  net/http's Serve loop is external.                           *)
(***************************************************************************)
EXTENDS Integers, FiniteSets

CONSTANT Conns    \* connections that clients may open

VARIABLES
    main,         \* where startRadio, Shutdown or handleSignals stands
    serve,        \* where the goroutine that runs Start stands
    tcp,          \* the TCP listeners: none, open or closed
    listener,     \* srv.listener is set
    inShutdown, requestCount,
    conn,         \* connection -> state
    objectAPI,    \* globalObjectAPI is set
    osSignal,     \* a signal waits in globalOSSignalCh
    then,         \* what follows Shutdown: exit on a signal, or a fatal error
    status        \* exit status of the process, -1 while it runs

vars == <<main, serve, tcp, listener, inShutdown, requestCount, conn, objectAPI, osSignal, then, status>>

Counted == {"counted", "handling", "refused"}

Exit(code) == main' = "exited" /\ status' = code

-----------------------------------------------------------------------------
(* startRadio *)

StartServer ==
    /\ main = "boot"
    /\ main' = "layer" /\ serve' = "start"
    /\ UNCHANGED <<tcp, listener, inShutdown, requestCount, conn, objectAPI, osSignal, then, status>>

NewRadioLayer ==
    /\ main = "layer"
    /\ \/ main' = "publish" /\ UNCHANGED then
       \/ main' = "shutdown" /\ then' = "fatal"
    /\ UNCHANGED <<serve, tcp, listener, inShutdown, requestCount, conn, objectAPI, osSignal, status>>

PublishLayer ==
    /\ main = "publish"
    /\ main' = "signals" /\ objectAPI' = TRUE
    /\ UNCHANGED <<serve, tcp, listener, inShutdown, requestCount, conn, osSignal, then, status>>

(* handleSignals: a signal of the operating system, or the error with      *)
(* which Start returned; the channel of the latter has no buffer.          *)
HandleError ==
    /\ main = "signals" /\ serve = "returned"
    /\ Exit(1)
    /\ UNCHANGED <<serve, tcp, listener, inShutdown, requestCount, conn, objectAPI, osSignal, then>>

HandleSignal ==
    /\ main = "signals" /\ osSignal
    /\ main' = "shutdown" /\ osSignal' = FALSE /\ then' = "exit"
    /\ UNCHANGED <<serve, tcp, listener, inShutdown, requestCount, conn, objectAPI, status>>

(* The operating system delivers a signal; before signal.Notify it ends    *)
(* the process.                                                            *)
Signal ==
    /\ main \notin {"boot", "exited"} /\ ~osSignal
    /\ osSignal' = TRUE
    /\ UNCHANGED <<main, serve, tcp, listener, inShutdown, requestCount, conn, objectAPI, then, status>>

-----------------------------------------------------------------------------
(* Shutdown, called by startRadio's error path and by stopProcess.         *)

(* Shutdown returns, with an error unless ok, and its caller goes on.      *)
Return(ok) == main' = "stopped" /\ then' = IF ok THEN then ELSE "fatal"

ShutdownEnter ==
    /\ main = "shutdown"
    /\ \/ ~listener /\ Return(FALSE)
       \/ listener /\ main' = "mark" /\ UNCHANGED then
    /\ UNCHANGED <<serve, tcp, listener, inShutdown, requestCount, conn, objectAPI, osSignal, status>>

ShutdownMark ==
    /\ main = "mark"
    /\ main' = "close" /\ inShutdown' = TRUE
    /\ UNCHANGED <<serve, tcp, listener, requestCount, conn, objectAPI, osSignal, then, status>>

(* Mutant of ShutdownClose: the error of Close is not kept.                *)
MutCloseDropsError ==
    /\ main = "close"
    /\ main' = "drain" /\ tcp' = "closed"
    /\ UNCHANGED <<serve, listener, inShutdown, requestCount, conn, objectAPI, osSignal, then, status>>

(* Close fails when Serve has closed the listener before: Shutdown returns *)
(* that error after it has drained the requests.                           *)
ShutdownClose ==
    /\ main = "close"
    /\ main' = IF tcp = "open" THEN "drain" ELSE "drainErr"
    /\ tcp' = "closed"
    /\ UNCHANGED <<serve, listener, inShutdown, requestCount, conn, objectAPI, osSignal, then, status>>

ShutdownPoll ==
    /\ main \in {"drain", "drainErr"} /\ requestCount <= 0
    /\ Return(main = "drain")
    /\ UNCHANGED <<serve, tcp, listener, inShutdown, requestCount, conn, objectAPI, osSignal, status>>

(* Mutant of ShutdownTimeout: the timer is only looked at after a poll.    *)
MutTimeoutAfterPoll ==
    /\ main \in {"drain", "drainErr"} /\ requestCount <= 0
    /\ Return(FALSE)
    /\ UNCHANGED <<serve, tcp, listener, inShutdown, requestCount, conn, objectAPI, osSignal, status>>

ShutdownTimeout ==
    /\ main \in {"drain", "drainErr"}
    /\ Return(FALSE)
    /\ UNCHANGED <<serve, tcp, listener, inShutdown, requestCount, conn, objectAPI, osSignal, status>>

(* stopProcess has ended, or FatalIf is reached; requests ran on meanwhile. *)
ExitProcess ==
    /\ main = "stopped"
    /\ Exit(IF then = "exit" THEN 0 ELSE 1)
    /\ UNCHANGED <<serve, tcp, listener, inShutdown, requestCount, conn, objectAPI, osSignal, then>>

-----------------------------------------------------------------------------
(* Start, in its goroutine *)

Alive == main # "exited"

newHTTPListener ==
    /\ Alive /\ serve = "start"
    /\ \/ serve' = "listening" /\ tcp' = "open"
       \/ serve' = "returned" /\ UNCHANGED tcp
    /\ UNCHANGED <<main, listener, inShutdown, requestCount, conn, objectAPI, osSignal, then, status>>

SetListener ==
    /\ Alive /\ serve = "listening"
    /\ serve' = "serving" /\ listener' = TRUE
    /\ UNCHANGED <<main, tcp, inShutdown, requestCount, conn, objectAPI, osSignal, then, status>>

(* AcceptTCP fails, by itself or because Shutdown closed it, and the error *)
(* reaches Serve (external), which closes the listener and returns.        *)
AcceptError ==
    /\ Alive /\ serve = "serving"
    /\ serve' = "returned" /\ tcp' = "closed"
    /\ UNCHANGED <<main, listener, inShutdown, requestCount, conn, objectAPI, osSignal, then, status>>

-----------------------------------------------------------------------------
(* Connections *)

ConnStep(c, from, to) ==
    /\ Alive /\ conn[c] = from
    /\ conn' = [conn EXCEPT ![c] = to]
    /\ UNCHANGED <<main, serve, tcp, listener, inShutdown, objectAPI, osSignal, then, status>>

AcceptTCP(c) == tcp = "open" /\ ConnStep(c, "none", "accepted") /\ UNCHANGED requestCount

(* handleConn: the connection goes to Serve's Accept or, once Close has    *)
(* closed doneCh, is closed; with both possible either may happen.         *)
SendConn(c) ==
    /\ \/ serve = "serving" /\ ConnStep(c, "accepted", "idle")
       \/ tcp = "closed" /\ ConnStep(c, "accepted", "closed")
    /\ UNCHANGED requestCount

(* A request on an open connection: the wrapped handler counts it, then    *)
(* reads inShutdown, then serves it; requests follow each other.           *)
RequestCount(c) == ConnStep(c, "idle", "counted") /\ requestCount' = requestCount + 1

(* Mutant of RequestCheck: requests are served during a shutdown too.      *)
MutCheckNothing(c) == ConnStep(c, "counted", "handling") /\ UNCHANGED requestCount

RequestCheck(c) ==
    /\ ConnStep(c, "counted", IF inShutdown THEN "refused" ELSE "handling")
    /\ UNCHANGED requestCount

RequestEnd(c) ==
    /\ ConnStep(c, "handling", "idle") \/ ConnStep(c, "refused", "idle")
    /\ requestCount' = requestCount - 1

ClientCloses(c) == ConnStep(c, "idle", "closed") /\ UNCHANGED requestCount

-----------------------------------------------------------------------------
Init ==
    /\ main = "boot" /\ serve = "off" /\ tcp = "none" /\ listener = FALSE
    /\ inShutdown = FALSE /\ requestCount = 0
    /\ conn = [c \in Conns |-> "none"]
    /\ objectAPI = FALSE /\ osSignal = FALSE /\ then = "" /\ status = -1

Main ==
    \/ StartServer \/ NewRadioLayer \/ PublishLayer \/ HandleError \/ HandleSignal
    \/ ShutdownEnter \/ ShutdownMark \/ ShutdownClose \/ ShutdownPoll \/ ShutdownTimeout
    \/ ExitProcess

Server == newHTTPListener \/ SetListener

Next ==
    \/ Main \/ Server \/ Signal \/ AcceptError
    \/ \E c \in Conns : AcceptTCP(c) \/ SendConn(c) \/ ClientCloses(c)
                       \/ RequestCount(c) \/ RequestCheck(c) \/ RequestEnd(c)

Spec == Init /\ [][Next]_vars

(* The goroutines of the process run; clients and signals need not come,   *)
(* and no handler needs to return.                                         *)
FairSpec ==
    /\ Spec
    /\ WF_vars(Main) /\ WF_vars(Server)

-----------------------------------------------------------------------------
(* Properties *)

TypeOK ==
    /\ requestCount \in Nat
    /\ conn \in [Conns -> {"none", "accepted", "idle", "closed"} \cup Counted]

(* The process exits with status 0 only after Shutdown has drained it: no  *)
(* request that a handler is serving is cut off, also not one that was     *)
(* being counted while Shutdown marked, closed and polled, or that arrived *)
(* between the last poll and the exit.                                     *)
NoRequestCutOff == status = 0 => \A c \in Conns : conn[c] # "handling"

(* Every signal ends the process, whatever the requests in progress do,    *)
(* and also when it arrives while the object layer is being initialized.   *)
SignalEnds == osSignal ~> main = "exited"

(* A server that stops by itself is a failure, and the exit status says    *)
(* so: whenever Start has returned before Shutdown marked the server, the  *)
(* process ends with status 1, also when a signal comes before the error   *)
(* is taken from its channel and Shutdown finds nothing left to drain.     *)
FailureIsReported == serve = "returned" /\ ~inShutdown ~> status = 1
=============================================================================

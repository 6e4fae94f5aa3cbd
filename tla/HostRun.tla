------------------------------ MODULE HostRun ------------------------------
(***************************************************************************)
(* One run of a host, from the moment it is logged in (src/runtime/        *)
(* runhost.go, host.go and session.go): RunHost's own goroutine, which      *)
(* drives the conductor, waits for the frame pump and closes the host; the  *)
(* frame pump, host.Run; and the connection between them and the server,    *)
(* Session.  What RunHost returns is what the supervisor restarts on.       *)
(*                                                                         *)
(* ctx is RunHost's own context: the operator, the conductor's end and the  *)
(* pump's end all cancel it.                                                *)
(***************************************************************************)
EXTENDS SessionBase

VARIABLES
  up, sent, wire, sock, closing, done, err, closer, closed,  \* the connection: Session
  rpc, recvq, recvClosed, wpc, sendq,
  ctx,          \* whether ctx is cancelled
  pump, hostDone,   \* host.Run and what it sent on hostDone ("none": nothing yet)
  cond,         \* conductor.Run: "run", or what it returned
  main,         \* RunHost
  result,       \* what RunHost returns
  logout,       \* what LogoutGraceful returned
  stopped       \* history: the operator cancelled the run

connVars == <<up, sent, wire, sock, closing, done, err, closer, closed, rpc, recvq,
              recvClosed, wpc, sendq>>
runVars == <<ctx, pump, hostDone, cond, main, result, logout, stopped>>
vars == <<connVars, runVars>>

Conn == INSTANCE Session

Init ==
  /\ Conn!Init
  /\ ctx = FALSE /\ pump = "run" /\ hostDone = "none" /\ cond = "run"
  /\ main = "start" /\ result = "none" /\ logout = "none" /\ stopped = FALSE

-----------------------------------------------------------------------------
(* The frame pump. *)

PumpReturns(e) == pump' = "cancel" /\ hostDone' = e

PumpFrame ==
  /\ pump = "run"
  /\ Conn!Recv
  /\ UNCHANGED runVars

PumpSeesCancel ==
  /\ pump = "run" /\ ctx
  /\ PumpReturns("canceled")
  /\ UNCHANGED <<connVars, ctx, cond, main, result, logout, stopped>>

\* recvCh is closed and drained: the connection's error, if it has one.
PumpSeesClose ==
  /\ pump = "run" /\ recvClosed /\ recvq = 0
  /\ PumpReturns(IF err = "none" THEN "nil" ELSE "conn")
  /\ UNCHANGED <<connVars, ctx, cond, main, result, logout, stopped>>

\* The pump's end cancels the run.
LeftRunning == ctx
CancelledByPump == TRUE

PumpCancels ==
  /\ pump = "cancel" /\ pump' = "ended"
  /\ ctx' = CancelledByPump
  /\ UNCHANGED <<connVars, hostDone, cond, main, result, logout, stopped>>

-----------------------------------------------------------------------------
(* RunHost. *)

\* The second the mirror is given to fill: a run cancelled in it has no conductor.
Started ==
  /\ main = "start" /\ main' = "conduct"
  /\ UNCHANGED <<connVars, ctx, pump, hostDone, cond, result, logout, stopped>>

StartCancelled ==
  /\ main = "start" /\ ctx /\ main' = "wait"
  /\ UNCHANGED <<connVars, ctx, pump, hostDone, cond, result, logout, stopped>>

\* The conductor returns when its director has nothing left, with an error, or cancelled.
ConductorReturns ==
  /\ main = "conduct"
  /\ cond' \in {"nil", "error"} \/ (ctx /\ cond' = "canceled")
  /\ main' = "wait" /\ ctx' = TRUE
  /\ UNCHANGED <<connVars, pump, hostDone, result, logout, stopped>>

\* waitHost, and which of the two errors is returned.
PumpErrorLost == IF cond = "error" THEN "error" ELSE "nil"
Verdict ==
  IF cond = "error" THEN "error" ELSE IF hostDone = "conn" THEN "conn" ELSE "nil"

WaitHost ==
  /\ main = "wait" /\ hostDone # "none"
  /\ result' = Verdict
  /\ main' = "send"
  /\ UNCHANGED <<connVars, ctx, pump, hostDone, cond, logout, stopped>>

\* The deferred host.Close: LogoutGraceful sends a logout and waits for the connection to
\* end, again and again until its time is up ...
LogoutSend ==
  /\ main = "send" /\ main' = "await"
  /\ Conn!Send \/ (done /\ UNCHANGED connVars)
  /\ UNCHANGED <<ctx, pump, hostDone, cond, result, logout, stopped>>

LogoutEnds(outcome) ==
  /\ main = "await" /\ main' = "close" /\ logout' = outcome
  /\ UNCHANGED <<connVars, ctx, pump, hostDone, cond, result, stopped>>

LogoutReleased == done /\ LogoutEnds("released")

LogoutTimesOut == LogoutEnds("timeout")

LogoutRetries ==
  /\ main = "await" /\ main' = "send"
  /\ UNCHANGED <<connVars, ctx, pump, hostDone, cond, result, logout, stopped>>

\* ... and then the connection is closed.
CloseConn ==
  /\ main = "close" /\ Conn!CloseBy("user")
  /\ UNCHANGED runVars

RunReturns ==
  /\ main = "close" /\ closed = "yes" /\ main' = "returned"
  /\ UNCHANGED <<connVars, ctx, pump, hostDone, cond, result, logout, stopped>>

-----------------------------------------------------------------------------
(* The operator, and the packets the conductor and the heartbeat send. *)

Cancel ==
  /\ ~stopped /\ main # "returned"
  /\ stopped' = TRUE /\ ctx' = TRUE
  /\ UNCHANGED <<connVars, pump, hostDone, cond, main, result, logout>>

HostSends ==
  /\ main \in {"start", "conduct", "wait"}
  /\ Conn!Send
  /\ UNCHANGED runVars

ConnStep ==
  /\ Conn!Server \/ Conn!Reader \/ Conn!Writer \/ Conn!CloseStep
  /\ UNCHANGED runVars

Pump == PumpFrame \/ PumpSeesCancel \/ PumpSeesClose \/ PumpCancels

Main ==
  \/ Started \/ StartCancelled \/ ConductorReturns \/ WaitHost
  \/ LogoutSend \/ LogoutReleased \/ LogoutTimesOut \/ LogoutRetries
  \/ CloseConn \/ RunReturns

Next == ConnStep \/ Pump \/ Main \/ Cancel \/ HostSends

Spec == Init /\ [][Next]_vars

\* The goroutines run, the start-up second passes, a cancelled conductor returns (Conductor),
\* and LogoutGraceful's time runs out.  The conductor need never return by itself.
Fairness ==
  /\ WF_vars(Conn!Reader /\ UNCHANGED runVars) /\ WF_vars(Conn!Writer /\ UNCHANGED runVars)
  /\ WF_vars(Conn!CloseStep /\ UNCHANGED runVars)
  /\ WF_vars(Pump) /\ WF_vars(Main /\ (main = "conduct" => ctx))
  /\ SF_vars(LogoutTimesOut)

FairSpec == Spec /\ Fairness

-----------------------------------------------------------------------------
(* Properties. *)

\* Every variable has its type.
TypeOK ==
  /\ Conn!TypeOK
  /\ ctx \in BOOLEAN /\ stopped \in BOOLEAN
  /\ pump \in {"run", "cancel", "ended"}
  /\ hostDone \in {"none", "nil", "canceled", "conn"}
  /\ cond \in {"run", "nil", "error", "canceled"}
  /\ main \in {"start", "conduct", "wait", "send", "await", "close", "returned"}
  /\ result \in {"none", "nil", "conn", "error"}
  /\ logout \in {"none", "released", "timeout"}

\* What the connection says of its end is true: it blames the server only for a close the
\* server made, however a Close of ours races its read (conn.go:40-44 and 246-250), and one
\* that ends without an error was closed by the teardown (conn.go:251-258).
EndIsTruthful == Conn!ServerBlamedRightly /\ Conn!SilentEndIsLocal

\* RunHost reports success only when the operator stopped the host or its conductor had
\* finished: a lost connection always reaches the supervisor as an error
\* (runhost.go:164-172 and 280-286).
LossIsReported ==
  result = "nil" => stopped \/ cond = "nil"

\* A run that ended with the connection's error had lost its connection to the server, or
\* had read what it could not decode: no host is restarted for having been stopped.
ErrorIsReal == result = "conn" => up = "closed" \/ err = "decode"

\* What RunHost returns is right both ways: the supervisor restarts on an error and takes
\* nil for a stop (runhost.go:280-286).
VerdictIsRight == LossIsReported /\ ErrorIsReal

\* A run whose connection is lost, or that the operator stops, returns and leaves no
\* goroutine of the connection behind (runhost.go:280-286, session.go:95-104), unless the
\* server stops reading; and once done is closed both loops end, a full recvCh that nobody
\* receives from and a server that does not read notwithstanding (conn.go:221-284).
RunEnds ==
  /\ (up = "closed" \/ stopped) ~>
       ((main = "returned" /\ rpc = "ended" /\ wpc = "ended") \/ up = "stalled")
  /\ done ~> (rpc = "ended" /\ wpc = "ended" /\ recvClosed)

-----------------------------------------------------------------------------
(* What the repository says of this code and the code does not keep: see the  *)
(* README's known disagreements.                                              *)

\* While LogoutGraceful waits for the server to close the connection, the read loop is free
\* to notice it (session.go:36-39: "The session read loop turns that EOF into conn.Done()
\* closing. So logout accepted == conn.Done() fired").
LogoutAcceptedIsSeen ==
  main = "await" /\ up = "closed" => ~(rpc = "emit" /\ recvq = RecvCap)

\* LogoutGraceful ends within its time (session.go:44-48: maxWait, "Honors ctx cancellation").
LogoutIsBounded == main = "send" ~> main = "close"

=============================================================================

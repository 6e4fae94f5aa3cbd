---------------------------- MODULE HostRunProofs ----------------------------
(* The connection tells how it ended, and what RunHost returns to the          *)
(* supervisor is right, for every capacity and number of frames; at the end,   *)
(* the goals that mesad pushes to a running host arrive.                       *)
EXTENDS HostRun, Naturals, Sequences, TLAPS

-----------------------------------------------------------------------------
(* The connection, whatever the capacities, the number of frames and its user:  *)
(* types, and the two classifications of its end.                              *)

\* What keeps the two classifications right: Close marks before it cuts, so a read that
\* failed and finds no mark failed because of the server; and whoever of the two loops is
\* first to close has an error to report.
CloseInOrder ==
  /\ closed = "no" => sock /\ ~closing
  /\ closed = "marked" => sock /\ closing
  /\ closed \in {"cut", "yes"} => ~sock /\ closing
  /\ done <=> closed = "yes"
  /\ closer = "none" => closed = "no"
  /\ recvClosed => closed = "yes"

FailureHasCause ==
  /\ rpc = "failed" => closing \/ up = "closed"
  /\ rpc \in {"exit", "ended"} => err # "none" \/ closer # "none"
  /\ wpc = "exit" => err # "none"
  /\ closer \in {"reader", "writer"} => err # "none"
  /\ err = "write" => up = "closed" \/ closer = "user"

ConnInv == Conn!TypeOK /\ CloseInOrder /\ FailureHasCause /\ Conn!ServerBlamedRightly

\* The connection starts in the invariant (conn.go:91-100).
LEMMA ConnInit == Conn!Init => ConnInv
<1> SUFFICES ASSUME Conn!Init PROVE ConnInv
  OBVIOUS
<1>1. /\ up \in {"open", "stalled", "closed"} /\ sent \in 0 .. MaxFrames /\ wire \in 0 .. sent
      /\ err \in {"none", "decode", "server", "read", "write"}
      /\ closer \in {"none", "user", "reader", "writer"}
      /\ closed \in {"no", "marked", "cut", "yes"}
      /\ rpc \in {"read", "failed", "emit", "exit", "ended"}
      /\ recvq \in 0 .. RecvCap
      /\ wpc \in {"select", "write", "exit", "ended"} /\ sendq \in 0 .. SendCap
  BY CapsAssumption, FramesAssumption, SMT DEF Conn!Init
<1>2. sock \in BOOLEAN /\ closing \in BOOLEAN /\ done \in BOOLEAN /\ recvClosed \in BOOLEAN
  BY Zenon DEF Conn!Init
<1>3. CloseInOrder /\ FailureHasCause /\ Conn!ServerBlamedRightly
  BY DEF Conn!Init, CloseInOrder, FailureHasCause, Conn!ServerBlamedRightly
<1> QED BY <1>1, <1>2, <1>3 DEF ConnInv, Conn!TypeOK

\* Every step keeps the types (conn.go:173-300).
LEMMA ConnTypeStep ==
  ASSUME Conn!TypeOK, [Conn!Next]_Conn!vars PROVE Conn!TypeOK'
<1> USE CapsAssumption, FramesAssumption, StallsAssumption DEF Conn!TypeOK
<1>1. CASE Conn!Read
  BY <1>1 DEF Conn!Read, Conn!Store, Conn!peerVars, Conn!closeVars, Conn!readVars, Conn!writeVars
<1>2. CASE Conn!ReadFails
  BY <1>2 DEF Conn!ReadFails, Conn!peerVars, Conn!closeVars, Conn!readVars, Conn!writeVars
<1>3. CASE Conn!Classify
  BY <1>3 DEF Conn!Classify, Conn!ServerClosed, Conn!Store, Conn!peerVars, Conn!closeVars,
        Conn!readVars, Conn!writeVars
<1>4. CASE Conn!Emit
  BY <1>4 DEF Conn!Emit, Conn!EmitAborts, Conn!peerVars, Conn!closeVars, Conn!readVars,
        Conn!writeVars
<1>5. CASE Conn!ReaderCloses
  BY <1>5 DEF Conn!ReaderCloses, Conn!CloseBy, Conn!peerVars, Conn!closeVars, Conn!readVars,
        Conn!writeVars
<1>6. CASE Conn!ReaderEnds
  BY <1>6 DEF Conn!ReaderEnds, Conn!peerVars, Conn!closeVars, Conn!readVars, Conn!writeVars
<1>7. CASE Conn!WriterSelects
  BY <1>7 DEF Conn!WriterSelects, Conn!peerVars, Conn!closeVars, Conn!readVars, Conn!writeVars
<1>8. CASE Conn!Write
  BY <1>8 DEF Conn!Write, Conn!peerVars, Conn!closeVars, Conn!readVars, Conn!writeVars
<1>9. CASE Conn!WriteFails
  BY <1>9 DEF Conn!WriteFails, Conn!Store, Conn!peerVars, Conn!closeVars, Conn!readVars,
        Conn!writeVars
<1>10. CASE Conn!WriterCloses
  BY <1>10 DEF Conn!WriterCloses, Conn!CloseBy, Conn!peerVars, Conn!closeVars, Conn!readVars,
        Conn!writeVars
<1>11. CASE Conn!WriterEnds
  BY <1>11 DEF Conn!WriterEnds, Conn!peerVars, Conn!closeVars, Conn!readVars, Conn!writeVars
<1>12. CASE Conn!ServerSends
  BY <1>12 DEF Conn!ServerSends, Conn!peerVars, Conn!closeVars, Conn!readVars, Conn!writeVars
<1>13. CASE Conn!ServerCloses
  BY <1>13 DEF Conn!ServerCloses, Conn!peerVars, Conn!closeVars, Conn!readVars, Conn!writeVars
<1>14. CASE Conn!ServerStalls
  BY <1>14 DEF Conn!ServerStalls, Conn!peerVars, Conn!closeVars, Conn!readVars, Conn!writeVars
<1>15. CASE Conn!Send
  BY <1>15 DEF Conn!Send, Conn!peerVars, Conn!closeVars, Conn!readVars, Conn!writeVars
<1>16. CASE Conn!Recv
  BY <1>16 DEF Conn!Recv, Conn!peerVars, Conn!closeVars, Conn!readVars, Conn!writeVars
<1>17. CASE Conn!CloseBy("user")
  BY <1>17 DEF Conn!CloseBy, Conn!peerVars, Conn!closeVars, Conn!readVars, Conn!writeVars
<1>18. CASE Conn!CloseStep
  <2>1. closed' \in {"no", "marked", "cut", "yes"}
    BY <1>18 DEF Conn!CloseStep, Conn!CloseOrder
  <2>2. closing' \in BOOLEAN /\ sock' \in BOOLEAN
    BY <1>18, Zenon DEF Conn!CloseStep
  <2>3. done' \in BOOLEAN
    <3>1. done' = done \/ done' = TRUE BY <1>18, Zenon DEF Conn!CloseStep
    <3> QED BY <3>1, Zenon
  <2>4. UNCHANGED <<Conn!peerVars, closer, err, Conn!readVars, Conn!writeVars>>
    BY <1>18 DEF Conn!CloseStep
  <2> QED BY <2>1, <2>2, <2>3, <2>4 DEF Conn!peerVars, Conn!readVars, Conn!writeVars
<1>19. CASE UNCHANGED Conn!vars
  BY <1>19 DEF Conn!vars, Conn!peerVars, Conn!closeVars, Conn!readVars, Conn!writeVars
<1> QED BY <1>1, <1>2, <1>3, <1>4, <1>5, <1>6, <1>7, <1>8, <1>9, <1>10, <1>11, <1>12, <1>13,
      <1>14, <1>15, <1>16, <1>17, <1>18, <1>19 DEF Conn!Next, Conn!Server, Conn!Reader,
      Conn!Writer

\* Every step keeps the order of the teardown (conn.go:195-202).
LEMMA ConnOrderStep ==
  ASSUME Conn!TypeOK, CloseInOrder, [Conn!Next]_Conn!vars PROVE CloseInOrder'
<1> USE CapsAssumption, FramesAssumption, StallsAssumption DEF Conn!TypeOK, CloseInOrder
<1>1. CASE Conn!Read
  BY <1>1 DEF Conn!Read, Conn!Store, Conn!peerVars, Conn!closeVars, Conn!readVars, Conn!writeVars
<1>2. CASE Conn!ReadFails
  BY <1>2 DEF Conn!ReadFails, Conn!peerVars, Conn!closeVars, Conn!readVars, Conn!writeVars
<1>3. CASE Conn!Classify
  BY <1>3 DEF Conn!Classify, Conn!ServerClosed, Conn!Store, Conn!peerVars, Conn!closeVars,
        Conn!readVars, Conn!writeVars
<1>4. CASE Conn!Emit
  BY <1>4 DEF Conn!Emit, Conn!EmitAborts, Conn!peerVars, Conn!closeVars, Conn!readVars,
        Conn!writeVars
<1>5. CASE Conn!ReaderCloses
  BY <1>5 DEF Conn!ReaderCloses, Conn!CloseBy, Conn!peerVars, Conn!closeVars, Conn!readVars,
        Conn!writeVars
<1>6. CASE Conn!ReaderEnds
  BY <1>6 DEF Conn!ReaderEnds, Conn!peerVars, Conn!closeVars, Conn!readVars, Conn!writeVars
<1>7. CASE Conn!WriterSelects
  BY <1>7 DEF Conn!WriterSelects, Conn!peerVars, Conn!closeVars, Conn!readVars, Conn!writeVars
<1>8. CASE Conn!Write
  BY <1>8 DEF Conn!Write, Conn!peerVars, Conn!closeVars, Conn!readVars, Conn!writeVars
<1>9. CASE Conn!WriteFails
  BY <1>9 DEF Conn!WriteFails, Conn!Store, Conn!peerVars, Conn!closeVars, Conn!readVars,
        Conn!writeVars
<1>10. CASE Conn!WriterCloses
  BY <1>10 DEF Conn!WriterCloses, Conn!CloseBy, Conn!peerVars, Conn!closeVars, Conn!readVars,
        Conn!writeVars
<1>11. CASE Conn!WriterEnds
  BY <1>11 DEF Conn!WriterEnds, Conn!peerVars, Conn!closeVars, Conn!readVars, Conn!writeVars
<1>12. CASE Conn!ServerSends
  BY <1>12 DEF Conn!ServerSends, Conn!peerVars, Conn!closeVars, Conn!readVars, Conn!writeVars
<1>13. CASE Conn!ServerCloses
  BY <1>13 DEF Conn!ServerCloses, Conn!peerVars, Conn!closeVars, Conn!readVars, Conn!writeVars
<1>14. CASE Conn!ServerStalls
  BY <1>14 DEF Conn!ServerStalls, Conn!peerVars, Conn!closeVars, Conn!readVars, Conn!writeVars
<1>15. CASE Conn!Send
  BY <1>15 DEF Conn!Send, Conn!peerVars, Conn!closeVars, Conn!readVars, Conn!writeVars
<1>16. CASE Conn!Recv
  BY <1>16 DEF Conn!Recv, Conn!peerVars, Conn!closeVars, Conn!readVars, Conn!writeVars
<1>17. CASE Conn!CloseBy("user")
  BY <1>17 DEF Conn!CloseBy, Conn!peerVars, Conn!closeVars, Conn!readVars, Conn!writeVars
<1>18. CASE Conn!CloseStep
  BY <1>18 DEF Conn!CloseStep, Conn!CloseOrder, Conn!peerVars, Conn!closeVars, Conn!readVars,
        Conn!writeVars
<1>19. CASE UNCHANGED Conn!vars
  BY <1>19 DEF Conn!vars, Conn!peerVars, Conn!closeVars, Conn!readVars, Conn!writeVars
<1> QED BY <1>1, <1>2, <1>3, <1>4, <1>5, <1>6, <1>7, <1>8, <1>9, <1>10, <1>11, <1>12, <1>13,
      <1>14, <1>15, <1>16, <1>17, <1>18, <1>19 DEF Conn!Next, Conn!Server, Conn!Reader,
      Conn!Writer

\* Every step keeps the cause of a failure on record (conn.go:239-284).
LEMMA ConnCauseStep ==
  ASSUME Conn!TypeOK, CloseInOrder, FailureHasCause, [Conn!Next]_Conn!vars PROVE FailureHasCause'
<1> USE CapsAssumption, FramesAssumption, StallsAssumption DEF Conn!TypeOK, CloseInOrder, FailureHasCause
<1>1. CASE Conn!Read
  BY <1>1 DEF Conn!Read, Conn!Store, Conn!peerVars, Conn!closeVars, Conn!readVars, Conn!writeVars
<1>2. CASE Conn!ReadFails
  BY <1>2 DEF Conn!ReadFails, Conn!peerVars, Conn!closeVars, Conn!readVars, Conn!writeVars
<1>3. CASE Conn!Classify
  BY <1>3 DEF Conn!Classify, Conn!ServerClosed, Conn!Store, Conn!peerVars, Conn!closeVars,
        Conn!readVars, Conn!writeVars
<1>4. CASE Conn!Emit
  BY <1>4 DEF Conn!Emit, Conn!EmitAborts, Conn!peerVars, Conn!closeVars, Conn!readVars,
        Conn!writeVars
<1>5. CASE Conn!ReaderCloses
  BY <1>5 DEF Conn!ReaderCloses, Conn!CloseBy, Conn!peerVars, Conn!closeVars, Conn!readVars,
        Conn!writeVars
<1>6. CASE Conn!ReaderEnds
  BY <1>6 DEF Conn!ReaderEnds, Conn!peerVars, Conn!closeVars, Conn!readVars, Conn!writeVars
<1>7. CASE Conn!WriterSelects
  BY <1>7 DEF Conn!WriterSelects, Conn!peerVars, Conn!closeVars, Conn!readVars, Conn!writeVars
<1>8. CASE Conn!Write
  BY <1>8 DEF Conn!Write, Conn!peerVars, Conn!closeVars, Conn!readVars, Conn!writeVars
<1>9. CASE Conn!WriteFails
  BY <1>9 DEF Conn!WriteFails, Conn!Store, Conn!peerVars, Conn!closeVars, Conn!readVars,
        Conn!writeVars
<1>10. CASE Conn!WriterCloses
  BY <1>10 DEF Conn!WriterCloses, Conn!CloseBy, Conn!peerVars, Conn!closeVars, Conn!readVars,
        Conn!writeVars
<1>11. CASE Conn!WriterEnds
  BY <1>11 DEF Conn!WriterEnds, Conn!peerVars, Conn!closeVars, Conn!readVars, Conn!writeVars
<1>12. CASE Conn!ServerSends
  BY <1>12 DEF Conn!ServerSends, Conn!peerVars, Conn!closeVars, Conn!readVars, Conn!writeVars
<1>13. CASE Conn!ServerCloses
  BY <1>13 DEF Conn!ServerCloses, Conn!peerVars, Conn!closeVars, Conn!readVars, Conn!writeVars
<1>14. CASE Conn!ServerStalls
  BY <1>14 DEF Conn!ServerStalls, Conn!peerVars, Conn!closeVars, Conn!readVars, Conn!writeVars
<1>15. CASE Conn!Send
  BY <1>15 DEF Conn!Send, Conn!peerVars, Conn!closeVars, Conn!readVars, Conn!writeVars
<1>16. CASE Conn!Recv
  BY <1>16 DEF Conn!Recv, Conn!peerVars, Conn!closeVars, Conn!readVars, Conn!writeVars
<1>17. CASE Conn!CloseBy("user")
  BY <1>17 DEF Conn!CloseBy, Conn!peerVars, Conn!closeVars, Conn!readVars, Conn!writeVars
<1>18. CASE Conn!CloseStep
  BY <1>18 DEF Conn!CloseStep, Conn!CloseOrder, Conn!peerVars, Conn!closeVars, Conn!readVars,
        Conn!writeVars
<1>19. CASE UNCHANGED Conn!vars
  BY <1>19 DEF Conn!vars, Conn!peerVars, Conn!closeVars, Conn!readVars, Conn!writeVars
<1> QED BY <1>1, <1>2, <1>3, <1>4, <1>5, <1>6, <1>7, <1>8, <1>9, <1>10, <1>11, <1>12, <1>13,
      <1>14, <1>15, <1>16, <1>17, <1>18, <1>19 DEF Conn!Next, Conn!Server, Conn!Reader,
      Conn!Writer

\* Every step keeps the blame right (conn.go:246-260).
LEMMA ConnBlameStep ==
  ASSUME Conn!TypeOK, CloseInOrder, FailureHasCause, Conn!ServerBlamedRightly, [Conn!Next]_Conn!vars PROVE Conn!ServerBlamedRightly'
<1> USE CapsAssumption, FramesAssumption, StallsAssumption DEF Conn!TypeOK, CloseInOrder, FailureHasCause, Conn!ServerBlamedRightly
<1>1. CASE Conn!Read
  BY <1>1 DEF Conn!Read, Conn!Store, Conn!peerVars, Conn!closeVars, Conn!readVars, Conn!writeVars
<1>2. CASE Conn!ReadFails
  BY <1>2 DEF Conn!ReadFails, Conn!peerVars, Conn!closeVars, Conn!readVars, Conn!writeVars
<1>3. CASE Conn!Classify
  BY <1>3 DEF Conn!Classify, Conn!ServerClosed, Conn!Store, Conn!peerVars, Conn!closeVars,
        Conn!readVars, Conn!writeVars
<1>4. CASE Conn!Emit
  BY <1>4 DEF Conn!Emit, Conn!EmitAborts, Conn!peerVars, Conn!closeVars, Conn!readVars,
        Conn!writeVars
<1>5. CASE Conn!ReaderCloses
  BY <1>5 DEF Conn!ReaderCloses, Conn!CloseBy, Conn!peerVars, Conn!closeVars, Conn!readVars,
        Conn!writeVars
<1>6. CASE Conn!ReaderEnds
  BY <1>6 DEF Conn!ReaderEnds, Conn!peerVars, Conn!closeVars, Conn!readVars, Conn!writeVars
<1>7. CASE Conn!WriterSelects
  BY <1>7 DEF Conn!WriterSelects, Conn!peerVars, Conn!closeVars, Conn!readVars, Conn!writeVars
<1>8. CASE Conn!Write
  BY <1>8 DEF Conn!Write, Conn!peerVars, Conn!closeVars, Conn!readVars, Conn!writeVars
<1>9. CASE Conn!WriteFails
  BY <1>9 DEF Conn!WriteFails, Conn!Store, Conn!peerVars, Conn!closeVars, Conn!readVars,
        Conn!writeVars
<1>10. CASE Conn!WriterCloses
  BY <1>10 DEF Conn!WriterCloses, Conn!CloseBy, Conn!peerVars, Conn!closeVars, Conn!readVars,
        Conn!writeVars
<1>11. CASE Conn!WriterEnds
  BY <1>11 DEF Conn!WriterEnds, Conn!peerVars, Conn!closeVars, Conn!readVars, Conn!writeVars
<1>12. CASE Conn!ServerSends
  BY <1>12 DEF Conn!ServerSends, Conn!peerVars, Conn!closeVars, Conn!readVars, Conn!writeVars
<1>13. CASE Conn!ServerCloses
  BY <1>13 DEF Conn!ServerCloses, Conn!peerVars, Conn!closeVars, Conn!readVars, Conn!writeVars
<1>14. CASE Conn!ServerStalls
  BY <1>14 DEF Conn!ServerStalls, Conn!peerVars, Conn!closeVars, Conn!readVars, Conn!writeVars
<1>15. CASE Conn!Send
  BY <1>15 DEF Conn!Send, Conn!peerVars, Conn!closeVars, Conn!readVars, Conn!writeVars
<1>16. CASE Conn!Recv
  BY <1>16 DEF Conn!Recv, Conn!peerVars, Conn!closeVars, Conn!readVars, Conn!writeVars
<1>17. CASE Conn!CloseBy("user")
  BY <1>17 DEF Conn!CloseBy, Conn!peerVars, Conn!closeVars, Conn!readVars, Conn!writeVars
<1>18. CASE Conn!CloseStep
  BY <1>18 DEF Conn!CloseStep, Conn!CloseOrder, Conn!peerVars, Conn!closeVars, Conn!readVars,
        Conn!writeVars
<1>19. CASE UNCHANGED Conn!vars
  BY <1>19 DEF Conn!vars, Conn!peerVars, Conn!closeVars, Conn!readVars, Conn!writeVars
<1> QED BY <1>1, <1>2, <1>3, <1>4, <1>5, <1>6, <1>7, <1>8, <1>9, <1>10, <1>11, <1>12, <1>13,
      <1>14, <1>15, <1>16, <1>17, <1>18, <1>19 DEF Conn!Next, Conn!Server, Conn!Reader,
      Conn!Writer

\* The invariant is inductive.
LEMMA ConnInvStep == ConnInv /\ [Conn!Next]_Conn!vars => ConnInv'
BY ConnTypeStep, ConnOrderStep, ConnCauseStep, ConnBlameStep DEF ConnInv

\* The invariant holds throughout.
THEOREM ConnInvariance == Conn!Spec => []ConnInv
BY ConnInit, ConnInvStep, PTL DEF Conn!Spec

\* Type correctness of the connection.
THEOREM ConnTypeCorrect == Conn!Spec => []Conn!TypeOK
<1>1. ConnInv => Conn!TypeOK BY DEF ConnInv
<1> QED BY <1>1, ConnInvariance, PTL

\* The read loop never blames the server for a close of our own (conn.go:246-250).
THEOREM BlameIsRight == Conn!Spec => []Conn!ServerBlamedRightly
<1>1. ConnInv => Conn!ServerBlamedRightly BY DEF ConnInv
<1> QED BY <1>1, ConnInvariance, PTL

\* A connection that ends without an error was closed by its user (conn.go:251-258).
THEOREM NoSilentLoss == Conn!Spec => []Conn!SilentEndIsLocal
<1>1. ConnInv => Conn!SilentEndIsLocal
  BY DEF ConnInv, Conn!TypeOK, CloseInOrder, FailureHasCause, Conn!SilentEndIsLocal
<1> QED BY <1>1, ConnInvariance, PTL

-----------------------------------------------------------------------------
(* The connection inside a run. *)

\* A step of the run is a step of its connection, or leaves it alone (runhost.go:163-286).
LEMMA StepOfConn == [Next]_vars => [Conn!Next]_Conn!vars
<1> SUFFICES ASSUME [Next]_vars PROVE [Conn!Next]_Conn!vars
  OBVIOUS
<1>1. CASE ConnStep BY <1>1 DEF ConnStep, Conn!Next
<1>2. CASE PumpFrame BY <1>2 DEF PumpFrame, Conn!Next
<1>3. CASE HostSends BY <1>3 DEF HostSends, Conn!Next
<1>4. CASE CloseConn BY <1>4 DEF CloseConn, Conn!Next
<1>5. ASSUME UNCHANGED connVars PROVE UNCHANGED Conn!vars
  BY <1>5 DEF connVars, Conn!vars, Conn!peerVars, Conn!closeVars, Conn!readVars, Conn!writeVars
<1>6. CASE LogoutSend BY <1>5, <1>6 DEF LogoutSend, Conn!Next
<1>7. CASE UNCHANGED vars BY <1>5, <1>7 DEF vars
<1>8. CASE PumpSeesCancel \/ PumpSeesClose \/ PumpCancels \/ Cancel
  BY <1>5, <1>8 DEF PumpSeesCancel, PumpSeesClose, PumpCancels, Cancel
<1>9. CASE Started \/ StartCancelled \/ ConductorReturns \/ WaitHost
  BY <1>5, <1>9 DEF Started, StartCancelled, ConductorReturns, WaitHost
<1>10. CASE LogoutReleased \/ LogoutTimesOut \/ LogoutRetries \/ RunReturns
  BY <1>5, <1>10 DEF LogoutReleased, LogoutTimesOut, LogoutEnds, LogoutRetries, RunReturns
<1> QED BY <1>1, <1>2, <1>3, <1>4, <1>6, <1>7, <1>8, <1>9, <1>10 DEF Next, Pump, Main

-----------------------------------------------------------------------------
(* What RunHost returns. *)

\* The invariant of the connection is kept by every step of the run.
LEMMA ConnStepInv == ConnInv /\ [Next]_vars => ConnInv'
BY StepOfConn, ConnInvStep

\* The pump has reported exactly when it is no longer running, RunHost goes on to the
\* teardown only then, and only the teardown closes the connection from our side.
Phases ==
  /\ pump = "run" <=> hostDone = "none"
  /\ main \in {"send", "await", "close", "returned"} => hostDone # "none"
  /\ main \in {"start", "conduct"} => cond = "run"
  /\ main \in {"start", "conduct", "wait"} => result = "none"
  /\ closer = "user" => main \in {"close", "returned"}

\* Who cancelled the run: the operator, the conductor's own end, or a pump that lost the
\* connection.  A pump never ends on a connection closed without an error.
Causes ==
  /\ hostDone # "nil"
  /\ ctx => stopped \/ cond \in {"nil", "error"} \/ hostDone = "conn"
  /\ hostDone = "canceled" => stopped \/ cond \in {"nil", "error"}
  /\ hostDone = "conn" => up = "closed" \/ err = "decode"
  /\ result = "conn" => hostDone = "conn"

RunTypeOK ==
  /\ pump \in {"run", "cancel", "ended"}
  /\ hostDone \in {"none", "nil", "canceled", "conn"}
  /\ cond \in {"run", "nil", "error", "canceled"}
  /\ main \in {"start", "conduct", "wait", "send", "await", "close", "returned"}
  /\ result \in {"none", "nil", "conn", "error"}
  /\ logout \in {"none", "released", "timeout"}

Flags == ctx \in BOOLEAN /\ stopped \in BOOLEAN

Inv == ConnInv /\ RunTypeOK /\ Phases /\ Causes /\ LossIsReported

\* What a step of the connection's own loops leaves alone: the first error, the server's
\* hanging up, and who closes for the user (conn.go:221-300).
LEMMA ConnKeeps ==
  ASSUME Conn!Next
  PROVE  /\ err # "none" => err' = err
         /\ up = "closed" => up' = "closed"
<1> USE DEF Conn!peerVars, Conn!closeVars, Conn!readVars, Conn!writeVars
<1>1. CASE Conn!Read BY <1>1 DEF Conn!Read, Conn!Store
<1>2. CASE Conn!ReadFails BY <1>2 DEF Conn!ReadFails
<1>3. CASE Conn!Classify BY <1>3 DEF Conn!Classify, Conn!ServerClosed, Conn!Store
<1>4. CASE Conn!Emit BY <1>4 DEF Conn!Emit
<1>5. CASE Conn!ReaderCloses BY <1>5 DEF Conn!ReaderCloses, Conn!CloseBy
<1>6. CASE Conn!ReaderEnds BY <1>6 DEF Conn!ReaderEnds
<1>7. CASE Conn!WriterSelects BY <1>7 DEF Conn!WriterSelects
<1>8. CASE Conn!Write BY <1>8 DEF Conn!Write
<1>9. CASE Conn!WriteFails BY <1>9 DEF Conn!WriteFails, Conn!Store
<1>10. CASE Conn!WriterCloses BY <1>10 DEF Conn!WriterCloses, Conn!CloseBy
<1>11. CASE Conn!WriterEnds BY <1>11 DEF Conn!WriterEnds
<1>12. CASE Conn!ServerSends BY <1>12 DEF Conn!ServerSends
<1>13. CASE Conn!ServerCloses BY <1>13 DEF Conn!ServerCloses
<1>14. CASE Conn!ServerStalls BY <1>14 DEF Conn!ServerStalls
<1>15. CASE Conn!CloseStep BY <1>15 DEF Conn!CloseStep
<1>16. CASE Conn!Send BY <1>16 DEF Conn!Send
<1>17. CASE Conn!Recv BY <1>17 DEF Conn!Recv
<1>18. CASE Conn!CloseBy("user") BY <1>18 DEF Conn!CloseBy
<1> QED BY <1>1, <1>2, <1>3, <1>4, <1>5, <1>6, <1>7, <1>8, <1>9, <1>10, <1>11, <1>12, <1>13,
      <1>14, <1>15, <1>16, <1>17, <1>18 DEF Conn!Next, Conn!Server, Conn!Reader, Conn!Writer

\* The loops close in their own name, and leave the run alone.
LEMMA LoopsKeepCloser ==
  ASSUME ConnStep
  PROVE  (closer' = "user" => closer = "user") /\ UNCHANGED runVars
<1> USE DEF Conn!peerVars, Conn!closeVars, Conn!readVars, Conn!writeVars
<1>0. UNCHANGED runVars BY DEF ConnStep
<1>1. CASE Conn!Read BY <1>0, <1>1 DEF Conn!Read, Conn!Store
<1>2. CASE Conn!ReadFails BY <1>0, <1>2 DEF Conn!ReadFails
<1>3. CASE Conn!Classify BY <1>0, <1>3 DEF Conn!Classify, Conn!ServerClosed, Conn!Store
<1>4. CASE Conn!Emit BY <1>0, <1>4 DEF Conn!Emit
<1>5. CASE Conn!ReaderCloses BY <1>0, <1>5 DEF Conn!ReaderCloses, Conn!CloseBy
<1>6. CASE Conn!ReaderEnds BY <1>0, <1>6 DEF Conn!ReaderEnds
<1>7. CASE Conn!WriterSelects BY <1>0, <1>7 DEF Conn!WriterSelects
<1>8. CASE Conn!Write BY <1>0, <1>8 DEF Conn!Write
<1>9. CASE Conn!WriteFails BY <1>0, <1>9 DEF Conn!WriteFails, Conn!Store
<1>10. CASE Conn!WriterCloses BY <1>0, <1>10 DEF Conn!WriterCloses, Conn!CloseBy
<1>11. CASE Conn!WriterEnds BY <1>0, <1>11 DEF Conn!WriterEnds
<1>12. CASE Conn!ServerSends BY <1>0, <1>12 DEF Conn!ServerSends
<1>13. CASE Conn!ServerCloses BY <1>0, <1>13 DEF Conn!ServerCloses
<1>14. CASE Conn!ServerStalls BY <1>0, <1>14 DEF Conn!ServerStalls
<1>15. CASE Conn!CloseStep BY <1>0, <1>15 DEF Conn!CloseStep
<1> QED BY <1>1, <1>2, <1>3, <1>4, <1>5, <1>6, <1>7, <1>8, <1>9, <1>10, <1>11, <1>12, <1>13,
      <1>14, <1>15 DEF ConnStep, Conn!Server, Conn!Reader, Conn!Writer

\* Every step keeps the types of the run.
LEMMA TypeStep ==
  ASSUME RunTypeOK, [Next]_vars PROVE RunTypeOK'
<1> USE DEF RunTypeOK, connVars, runVars
<1>1. CASE ConnStep
  BY <1>1, LoopsKeepCloser
<1>2. CASE PumpFrame
  BY <1>2 DEF PumpFrame, Conn!Recv, Conn!peerVars, Conn!closeVars, Conn!readVars, Conn!writeVars
<1>3. CASE PumpSeesCancel
  BY <1>3 DEF PumpSeesCancel, PumpReturns
<1>4. CASE PumpSeesClose
  BY <1>4 DEF PumpSeesClose, PumpReturns
<1>5. CASE PumpCancels
  BY <1>5 DEF PumpCancels, CancelledByPump
<1>6. CASE Started
  BY <1>6 DEF Started
<1>7. CASE StartCancelled
  BY <1>7 DEF StartCancelled
<1>8. CASE ConductorReturns
  BY <1>8 DEF ConductorReturns
<1>9. CASE WaitHost
  BY <1>9 DEF WaitHost, Verdict
<1>10. CASE LogoutSend
  BY <1>10 DEF LogoutSend, Conn!Send, Conn!peerVars, Conn!closeVars, Conn!readVars, Conn!writeVars
<1>11. CASE LogoutReleased
  BY <1>11 DEF LogoutReleased, LogoutEnds
<1>12. CASE LogoutTimesOut
  BY <1>12 DEF LogoutTimesOut, LogoutEnds
<1>13. CASE LogoutRetries
  BY <1>13 DEF LogoutRetries
<1>14. CASE CloseConn
  BY <1>14 DEF CloseConn, Conn!CloseBy, Conn!peerVars, Conn!closeVars, Conn!readVars, Conn!writeVars
<1>15. CASE RunReturns
  BY <1>15 DEF RunReturns
<1>16. CASE Cancel
  BY <1>16 DEF Cancel
<1>17. CASE HostSends
  BY <1>17 DEF HostSends, Conn!Send, Conn!peerVars, Conn!closeVars, Conn!readVars, Conn!writeVars
<1>18. CASE UNCHANGED vars BY <1>18 DEF vars
<1> QED BY <1>1, <1>2, <1>3, <1>4, <1>5, <1>6, <1>7, <1>8, <1>9, <1>10, <1>11, <1>12, <1>13,
      <1>14, <1>15, <1>16, <1>17, <1>18 DEF Next, Pump, Main

\* Every step keeps the phases of the run (runhost.go:163-286).
LEMMA PhaseStep ==
  ASSUME RunTypeOK, Phases, [Next]_vars PROVE Phases'
<1> USE DEF RunTypeOK, Phases, connVars, runVars
<1>1. CASE ConnStep
  BY <1>1, LoopsKeepCloser
<1>2. CASE PumpFrame
  BY <1>2 DEF PumpFrame, Conn!Recv, Conn!peerVars, Conn!closeVars, Conn!readVars, Conn!writeVars
<1>3. CASE PumpSeesCancel
  BY <1>3 DEF PumpSeesCancel, PumpReturns
<1>4. CASE PumpSeesClose
  BY <1>4 DEF PumpSeesClose, PumpReturns
<1>5. CASE PumpCancels
  BY <1>5 DEF PumpCancels, CancelledByPump
<1>6. CASE Started
  BY <1>6 DEF Started
<1>7. CASE StartCancelled
  BY <1>7 DEF StartCancelled
<1>8. CASE ConductorReturns
  BY <1>8 DEF ConductorReturns
<1>9. CASE WaitHost
  BY <1>9 DEF WaitHost, Verdict
<1>10. CASE LogoutSend
  BY <1>10 DEF LogoutSend, Conn!Send, Conn!peerVars, Conn!closeVars, Conn!readVars, Conn!writeVars
<1>11. CASE LogoutReleased
  BY <1>11 DEF LogoutReleased, LogoutEnds
<1>12. CASE LogoutTimesOut
  BY <1>12 DEF LogoutTimesOut, LogoutEnds
<1>13. CASE LogoutRetries
  BY <1>13 DEF LogoutRetries
<1>14. CASE CloseConn
  BY <1>14 DEF CloseConn, Conn!CloseBy, Conn!peerVars, Conn!closeVars, Conn!readVars, Conn!writeVars
<1>15. CASE RunReturns
  BY <1>15 DEF RunReturns
<1>16. CASE Cancel
  BY <1>16 DEF Cancel
<1>17. CASE HostSends
  BY <1>17 DEF HostSends, Conn!Send, Conn!peerVars, Conn!closeVars, Conn!readVars, Conn!writeVars
<1>18. CASE UNCHANGED vars BY <1>18 DEF vars
<1> QED BY <1>1, <1>2, <1>3, <1>4, <1>5, <1>6, <1>7, <1>8, <1>9, <1>10, <1>11, <1>12, <1>13,
      <1>14, <1>15, <1>16, <1>17, <1>18 DEF Next, Pump, Main

\* Every step keeps the cause of a cancelled run (runhost.go:164-172 and 280-286).
LEMMA CauseStep ==
  ASSUME ConnInv, RunTypeOK, Phases, Causes, [Next]_vars PROVE Causes'
<1> USE DEF RunTypeOK, Phases, Causes, connVars, runVars
<1>1. CASE ConnStep
  BY <1>1, ConnKeeps, LoopsKeepCloser DEF ConnStep, Conn!Next
<1>2. CASE PumpFrame
  BY <1>2 DEF PumpFrame, Conn!Recv, Conn!peerVars, Conn!closeVars, Conn!readVars, Conn!writeVars
<1>3. CASE PumpSeesCancel
  BY <1>3 DEF PumpSeesCancel, PumpReturns
<1>4. CASE PumpSeesClose
  <2>1. closer # "user" BY <1>4 DEF PumpSeesClose, Phases
  <2>2. err # "none" /\ (up = "closed" \/ err = "decode")
    BY <1>4, <2>1 DEF PumpSeesClose, ConnInv, Conn!TypeOK, CloseInOrder, FailureHasCause,
       Conn!ServerBlamedRightly
  <2> QED BY <1>4, <2>2 DEF PumpSeesClose, PumpReturns
<1>5. CASE PumpCancels
  BY <1>5 DEF PumpCancels, CancelledByPump
<1>6. CASE Started
  BY <1>6 DEF Started
<1>7. CASE StartCancelled
  BY <1>7 DEF StartCancelled
<1>8. CASE ConductorReturns
  BY <1>8 DEF ConductorReturns
<1>9. CASE WaitHost
  BY <1>9 DEF WaitHost, Verdict
<1>10. CASE LogoutSend
  BY <1>10 DEF LogoutSend, Conn!Send, Conn!peerVars, Conn!closeVars, Conn!readVars, Conn!writeVars
<1>11. CASE LogoutReleased
  BY <1>11 DEF LogoutReleased, LogoutEnds
<1>12. CASE LogoutTimesOut
  BY <1>12 DEF LogoutTimesOut, LogoutEnds
<1>13. CASE LogoutRetries
  BY <1>13 DEF LogoutRetries
<1>14. CASE CloseConn
  BY <1>14 DEF CloseConn, Conn!CloseBy, Conn!peerVars, Conn!closeVars, Conn!readVars, Conn!writeVars
<1>15. CASE RunReturns
  BY <1>15 DEF RunReturns
<1>16. CASE Cancel
  BY <1>16 DEF Cancel
<1>17. CASE HostSends
  BY <1>17 DEF HostSends, Conn!Send, Conn!peerVars, Conn!closeVars, Conn!readVars, Conn!writeVars
<1>18. CASE UNCHANGED vars BY <1>18 DEF vars
<1> QED BY <1>1, <1>2, <1>3, <1>4, <1>5, <1>6, <1>7, <1>8, <1>9, <1>10, <1>11, <1>12, <1>13,
      <1>14, <1>15, <1>16, <1>17, <1>18 DEF Next, Pump, Main

\* No step lets RunHost report success for a lost connection (runhost.go:280-286).
LEMMA LossStep ==
  ASSUME RunTypeOK, Phases, Causes, LossIsReported, [Next]_vars PROVE LossIsReported'
<1> USE DEF RunTypeOK, Phases, Causes, LossIsReported, connVars, runVars
<1>1. CASE ConnStep
  BY <1>1, LoopsKeepCloser
<1>2. CASE PumpFrame
  BY <1>2 DEF PumpFrame, Conn!Recv, Conn!peerVars, Conn!closeVars, Conn!readVars, Conn!writeVars
<1>3. CASE PumpSeesCancel
  BY <1>3 DEF PumpSeesCancel, PumpReturns
<1>4. CASE PumpSeesClose
  BY <1>4 DEF PumpSeesClose, PumpReturns
<1>5. CASE PumpCancels
  BY <1>5 DEF PumpCancels, CancelledByPump
<1>6. CASE Started
  BY <1>6 DEF Started
<1>7. CASE StartCancelled
  BY <1>7 DEF StartCancelled
<1>8. CASE ConductorReturns
  BY <1>8 DEF ConductorReturns
<1>9. CASE WaitHost
  BY <1>9 DEF WaitHost, Verdict
<1>10. CASE LogoutSend
  BY <1>10 DEF LogoutSend, Conn!Send, Conn!peerVars, Conn!closeVars, Conn!readVars, Conn!writeVars
<1>11. CASE LogoutReleased
  BY <1>11 DEF LogoutReleased, LogoutEnds
<1>12. CASE LogoutTimesOut
  BY <1>12 DEF LogoutTimesOut, LogoutEnds
<1>13. CASE LogoutRetries
  BY <1>13 DEF LogoutRetries
<1>14. CASE CloseConn
  BY <1>14 DEF CloseConn, Conn!CloseBy, Conn!peerVars, Conn!closeVars, Conn!readVars, Conn!writeVars
<1>15. CASE RunReturns
  BY <1>15 DEF RunReturns
<1>16. CASE Cancel
  BY <1>16 DEF Cancel
<1>17. CASE HostSends
  BY <1>17 DEF HostSends, Conn!Send, Conn!peerVars, Conn!closeVars, Conn!readVars, Conn!writeVars
<1>18. CASE UNCHANGED vars BY <1>18 DEF vars
<1> QED BY <1>1, <1>2, <1>3, <1>4, <1>5, <1>6, <1>7, <1>8, <1>9, <1>10, <1>11, <1>12, <1>13,
      <1>14, <1>15, <1>16, <1>17, <1>18 DEF Next, Pump, Main

\* The flags stay flags.
LEMMA FlagStep ==
  ASSUME Flags, [Next]_vars PROVE Flags'
<1>1. (ctx' = ctx \/ ctx' = TRUE) /\ (stopped' = stopped \/ stopped' = TRUE)
  <2> USE DEF runVars
  <2>1. CASE ConnStep BY <2>1, LoopsKeepCloser
  <2>2. CASE PumpFrame BY <2>2 DEF PumpFrame
  <2>3. CASE PumpSeesCancel BY <2>3 DEF PumpSeesCancel, PumpReturns
  <2>4. CASE PumpSeesClose BY <2>4 DEF PumpSeesClose, PumpReturns
  <2>5. CASE PumpCancels BY <2>5 DEF PumpCancels, CancelledByPump
  <2>6. CASE Started BY <2>6 DEF Started
  <2>7. CASE StartCancelled BY <2>7 DEF StartCancelled
  <2>8. CASE ConductorReturns BY <2>8 DEF ConductorReturns
  <2>9. CASE WaitHost BY <2>9 DEF WaitHost, Verdict
  <2>10. CASE LogoutSend BY <2>10 DEF LogoutSend
  <2>11. CASE LogoutReleased BY <2>11 DEF LogoutReleased, LogoutEnds
  <2>12. CASE LogoutTimesOut BY <2>12 DEF LogoutTimesOut, LogoutEnds
  <2>13. CASE LogoutRetries BY <2>13 DEF LogoutRetries
  <2>14. CASE CloseConn BY <2>14 DEF CloseConn
  <2>15. CASE RunReturns BY <2>15 DEF RunReturns
  <2>16. CASE Cancel BY <2>16 DEF Cancel
  <2>17. CASE HostSends BY <2>17 DEF HostSends
  <2>18. CASE UNCHANGED vars BY <2>18 DEF vars
  <2> QED BY <2>1, <2>2, <2>3, <2>4, <2>5, <2>6, <2>7, <2>8, <2>9, <2>10, <2>11, <2>12,
        <2>13, <2>14, <2>15, <2>16, <2>17, <2>18 DEF Next, Pump, Main
<1> QED BY <1>1, Zenon DEF Flags

\* The run starts in the invariant (runhost.go:148-172).
LEMMA InitInv == Init => Inv /\ Flags
<1> SUFFICES ASSUME Init PROVE Inv /\ Flags
  OBVIOUS
<1>1. Conn!Init BY Zenon DEF Init, Conn!Init, Conn!Init
<1>2. ConnInv BY <1>1, ConnInit, CapsAssumption, FramesAssumption, StallsAssumption
<1>3. RunTypeOK /\ Phases /\ Causes /\ LossIsReported
  BY DEF Init, Conn!Init, RunTypeOK, Phases, Causes, LossIsReported
<1>4. Flags BY Zenon DEF Init, Flags
<1> QED BY <1>2, <1>3, <1>4 DEF Inv

\* The invariant holds throughout.
THEOREM Invariance == Spec => [](Inv /\ Flags)
<1>1. Inv /\ Flags /\ [Next]_vars => (Inv /\ Flags)'
  BY ConnStepInv, TypeStep, PhaseStep, CauseStep, LossStep, FlagStep DEF Inv
<1> QED BY <1>1, InitInv, PTL DEF Spec

\* Type correctness of the run and its connection.
THEOREM TypeCorrect == Spec => []TypeOK
<1>1. Inv /\ Flags => TypeOK
  <2> SUFFICES ASSUME Inv, Flags PROVE TypeOK
    OBVIOUS
  <2>1. Conn!TypeOK BY Zenon DEF Inv, ConnInv, Conn!TypeOK, Conn!TypeOK
  <2> QED BY <2>1, Zenon DEF Inv, Flags, RunTypeOK, TypeOK
<1> QED BY <1>1, Invariance, PTL

\* A lost connection always reaches the supervisor as an error (runhost.go:280-286).
THEOREM LossReported == Spec => []LossIsReported
<1>1. Inv => LossIsReported BY DEF Inv
<1> QED BY <1>1, Invariance, PTL

\* And only a lost or undecodable connection does (runhost.go:353-359).
THEOREM ErrorsAreReal == Spec => []ErrorIsReal
<1>1. Inv => ErrorIsReal BY DEF Inv, Causes, ErrorIsReal
<1> QED BY <1>1, Invariance, PTL

\* What the connection says of its end is true for as long as the run uses it
\* (conn.go:246-263).
THEOREM EndTruthful == Spec => []EndIsTruthful
<1>1. ConnInv => Conn!ServerBlamedRightly
  BY DEF ConnInv, Conn!ServerBlamedRightly, Conn!ServerBlamedRightly
<1>2. ConnInv => Conn!SilentEndIsLocal
  BY DEF ConnInv, Conn!TypeOK, CloseInOrder, FailureHasCause, Conn!SilentEndIsLocal
<1>3. Inv => EndIsTruthful BY <1>1, <1>2 DEF Inv, EndIsTruthful
<1> QED BY <1>3, Invariance, PTL

\* What RunHost returns is right both ways (runhost.go:280-286 and 353-359).
THEOREM VerdictRight == Spec => []VerdictIsRight
<1>1. LossIsReported /\ ErrorIsReal => VerdictIsRight BY DEF VerdictIsRight
<1> QED BY <1>1, LossReported, ErrorsAreReal, PTL

-----------------------------------------------------------------------------
(* The host's live goal.  While it runs, a host keeps a stream to mesad and     *)
(* applies the goals an operator pushes: for any streams, goals and capacities   *)
(* and one operator at a time, the standing goal arrives.  The theorems carry    *)
(* Provision's assumption as their hypothesis.                                   *)

CONSTANTS Streams, Pushers, Goals, ChanCap, WireCap, Base, None

VARIABLES goal, pushed, subs, st, hand, chan, posted, cut, cur, live, push, down, lost

\* `posted` is what is on the way in a stream.
P == INSTANCE Provision WITH wire <- posted

\* Calls of PushGoal do not overlap.
OneOperator == \A p, q \in Pushers : p = q

\* What an operator installs or is pushing is an operator's goal.
Installed ==
  /\ pushed => goal \in Goals
  /\ \A p \in Pushers : push[p].at # "idle" => push[p].goal \in Goals

\* The goal being pushed is the registry's, unless a persona write has replaced that.
Standing ==
  \A p \in Pushers : push[p].at # "idle" /\ pushed => push[p].goal = goal

\* A handler between Take and Send has a goal in hand; a stream that is not registered yet
\* has nothing in its channel, and no operator has found it.
Streamed ==
  /\ \A k \in Streams : st[k] = "send" => hand[k] \in Goals
  /\ \A k \in Streams : st[k] \in {"ended", "dialed"} => chan[k] = <<>>
  /\ \A p \in Pushers :
       /\ push[p].at = "send" => push[p].ch \in Streams
       /\ push[p].ch \in Streams => st[push[p].ch] # "dialed"
  /\ subs # None => st[subs] \in {"registered", "loop", "send"}

\* An operator is on its way to stream k.
Owed(k) ==
  \E p \in Pushers : push[p].at = "lookup" \/ (push[p].at = "send" /\ push[p].ch = k)

\* The newest goal of a queue.
LastOf(s) == s[Len(s)]

\* Nothing older than the registry's goal will be applied last: what waits in the channel
\* of a stream about to re-send, and what is under way on the host's own.
Settled(k) ==
  /\ st[k] = "registered" => chan[k] = <<>> \/ LastOf(chan[k]) = goal
  /\ st[k] \in {"loop", "send"} /\ cur = k /\ k \notin cut => P!Arriving(k) = goal

\* So it is for the stream the registry names, once no push is on its way to it.
SubSettled ==
  (pushed /\ subs # None /\ subs \notin lost /\ ~Owed(subs)) => Settled(subs)

\* What holds with any number of operators.
Kept == P!TypeOK /\ Installed /\ Streamed

GoalInv == Kept /\ Standing /\ SubSettled

-----------------------------------------------------------------------------
(* Sequences.                                                                  *)

\* The last element of a queue when it grows, and when its head is taken.
LEMMA Queues ==
  ASSUME NEW s \in Seq(Goals)
  PROVE  /\ \A g \in Goals : /\ Append(s, g) \in Seq(Goals) /\ Append(s, g) # <<>>
                             /\ LastOf(Append(s, g)) = g
         /\ s # <<>> =>
              /\ Head(s) \in Goals /\ Tail(s) \in Seq(Goals)
              /\ IF Tail(s) = <<>> THEN LastOf(s) = Head(s) ELSE LastOf(Tail(s)) = LastOf(s)
<1>1. \A g \in Goals : /\ Append(s, g) \in Seq(Goals) /\ Append(s, g) # <<>>
                       /\ LastOf(Append(s, g)) = g
  BY DEF LastOf
<1>2. ASSUME s # <<>>
      PROVE  /\ Head(s) \in Goals /\ Tail(s) \in Seq(Goals)
             /\ IF Tail(s) = <<>> THEN LastOf(s) = Head(s) ELSE LastOf(Tail(s)) = LastOf(s)
  <2>1. Head(s) \in Goals /\ Tail(s) \in Seq(Goals) /\ Len(Tail(s)) = Len(s) - 1 /\ Len(s) \in Nat \ {0}
    BY <1>2
  <2>0. \A t \in Seq(Goals) : t = <<>> <=> Len(t) = 0
    OBVIOUS
  <2>2. CASE Len(s) = 1
    <3>1. Len(Tail(s)) = 0
      BY <2>1, <2>2
    <3>2. Tail(s) = <<>>
      BY <2>0, <2>1, <3>1, Zenon
    <3>3. LastOf(s) = Head(s)
      BY <2>2 DEF LastOf
    <3> QED BY <2>1, <3>2, <3>3
  <2>3. CASE Len(s) > 1
    <3>1. Len(Tail(s)) = Len(s) - 1 /\ Len(s) - 1 \in 1 .. Len(s) - 1 /\ Len(Tail(s)) # 0
      BY <2>1, <2>3
    <3>2. Tail(s) # <<>>
      BY <2>0, <2>1, <3>1, Zenon
    <3>3. Tail(s)[Len(s) - 1] = s[Len(s)]
      BY <1>2, <2>1, <3>1
    <3> QED BY <2>1, <3>1, <3>2, <3>3 DEF LastOf
  <2> QED BY <2>1, <2>2, <2>3
<1> QED BY <1>1, <1>2

Joined(w, x, c) == w \o x \o c

\* The last element of three queues in a row.
LEMMA LastOfThree ==
  ASSUME NEW w \in Seq(Goals), NEW x \in Seq(Goals), NEW c \in Seq(Goals)
  PROVE  /\ c # <<>> => Joined(w, x, c) # <<>> /\ LastOf(Joined(w, x, c)) = LastOf(c)
         /\ c = <<>> /\ x # <<>> => Joined(w, x, c) # <<>> /\ LastOf(Joined(w, x,
               c)) = LastOf(x)
         /\ c = <<>> /\ x = <<>> => Joined(w, x, c) = w
<1> USE DEF Joined
<1>1. /\ w \o x \in Seq(Goals) /\ Len(w \o x) = Len(w) + Len(x)
      /\ w \o x \o c \in Seq(Goals) /\ Len(w \o x \o c) = Len(w) + Len(x) + Len(c)
  OBVIOUS
<1>2. ASSUME c # <<>> PROVE w \o x \o c # <<>> /\ LastOf(w \o x \o c) = LastOf(c)
  <2>1. Len(c) \in Nat \ {0}
    BY <1>2
  <2> QED BY <1>1, <2>1 DEF LastOf
<1>3. ASSUME c = <<>>, x # <<>> PROVE w \o x \o c # <<>> /\ LastOf(w \o x \o c) = LastOf(x)
  <2>1. Len(x) \in Nat \ {0} /\ Len(c) = 0
    BY <1>3
  <2> QED BY <1>1, <2>1 DEF LastOf
<1>4. ASSUME c = <<>>, x = <<>> PROVE w \o x \o c = w
  BY <1>4
<1> QED BY <1>2, <1>3, <1>4

\* What a stream will have delivered last: the end of its channel, or else the goal in its
\* handler's hand, or else the end of the wire, or else what the host has.
Delivers(s, h, c, w, l) ==
  IF c # <<>> THEN LastOf(c) ELSE IF s = "send" THEN h ELSE IF w # <<>> THEN LastOf(w) ELSE l

InHand(s, h) == IF s = "send" THEN <<h>> ELSE <<>>

\* The end of wire, hand and channel in a row is the first of the three, from the back,
\* that has anything.
LEMMA LastDelivered ==
  ASSUME NEW w \in Seq(Goals), NEW c \in Seq(Goals), NEW s, NEW h, NEW l,
         s = "send" => h \in Goals
  PROVE  (IF Joined(w, InHand(s, h), c) = <<>> THEN l ELSE LastOf(Joined(w, InHand(s,
        h), c)))
           = Delivers(s, h, c, w, l)
<1>1. /\ InHand(s, h) \in Seq(Goals)
      /\ s = "send" => InHand(s, h) # <<>> /\ LastOf(InHand(s, h)) = h
      /\ s # "send" => InHand(s, h) = <<>>
  BY DEF LastOf, InHand
<1> QED BY <1>1, LastOfThree DEF Delivers

\* What a stream will have delivered last, by where its handler is.
LEMMA Arrival ==
  P!TypeOK /\ Streamed =>
    \A k \in Streams : P!Arriving(k) = Delivers(st[k], hand[k], chan[k], posted[k], live)
<1> SUFFICES ASSUME P!TypeOK, Streamed, NEW k \in Streams
             PROVE  P!Arriving(k) = Delivers(st[k], hand[k], chan[k], posted[k], live)
  OBVIOUS
<1>1. chan[k] \in Seq(Goals) /\ posted[k] \in Seq(Goals) /\ (st[k] = "send" => hand[k] \in Goals)
  BY DEF P!TypeOK, Streamed
<1>2. P!Arriving(k) = IF Joined(posted[k], InHand(st[k], hand[k]), chan[k]) = <<>> THEN live
                    ELSE LastOf(Joined(posted[k], InHand(st[k], hand[k]), chan[k]))
  BY DEF P!Arriving, Joined, InHand, LastOf
<1> QED BY <1>1, <1>2, LastDelivered

-----------------------------------------------------------------------------
(* Steps.                                                                      *)

\* Every step keeps the types.
LEMMA StreamTypeStep ==
  P!ConstantsOK /\ P!TypeOK /\ Installed /\ Streamed /\ [P!Next]_P!vars => P!TypeOK'
<1> SUFFICES ASSUME P!ConstantsOK, P!TypeOK, Installed, Streamed, [P!Next]_P!vars PROVE P!TypeOK'
  OBVIOUS
<1> USE DEF P!Running, P!NoPush, P!streamVars
<1> USE DEF P!ConstantsOK
<1>1. ASSUME NEW k \in Streams, P!Dial(k) PROVE P!TypeOK'
  BY <1>1 DEF P!Dial, P!TypeOK
<1>2. CASE P!Apply
  BY <1>2, Queues DEF P!Apply, P!TypeOK
<1>3. CASE P!HangUp
  BY <1>3 DEF P!HangUp, P!TypeOK
<1>4. ASSUME NEW n \in 0..WireCap, P!Break(n) PROVE P!TypeOK'
  BY <1>4 DEF P!Break, P!TypeOK
<1>5. CASE P!HostRestart
  BY <1>5 DEF P!HostRestart, P!TypeOK
<1>6. ASSUME NEW k \in Streams, P!RegisterSub(k) PROVE P!TypeOK'
  BY <1>6 DEF P!RegisterSub, P!TypeOK
<1>7. ASSUME NEW k \in Streams, P!Resend(k) PROVE P!TypeOK'
  BY <1>7 DEF P!Resend, P!TypeOK, Installed
<1>8. ASSUME NEW k \in Streams, P!Take(k) PROVE P!TypeOK'
  BY <1>8, Queues DEF P!Take, P!TypeOK
<1>9. ASSUME NEW k \in Streams, P!Send(k) PROVE P!TypeOK'
  BY <1>9, Queues DEF P!Send, P!TypeOK, Streamed
<1>10. ASSUME NEW k \in Streams, P!Leave(k) PROVE P!TypeOK'
  BY <1>10 DEF P!Leave, P!TypeOK, P!Unregistered
<1>11. ASSUME NEW p \in Pushers, NEW g \in Goals, P!PushSet(p, g) PROVE P!TypeOK'
  BY <1>11 DEF P!PushSet, P!TypeOK
<1>12. ASSUME NEW p \in Pushers, P!PushLookup(p) PROVE P!TypeOK'
  BY <1>12 DEF P!PushLookup, P!TypeOK
<1>13. ASSUME NEW p \in Pushers, P!PushSend(p) PROVE P!TypeOK'
  <2>0. push[p].ch \in Streams /\ push[p].goal \in Goals /\ chan[push[p].ch] \in Seq(Goals)
    BY <1>13 DEF P!PushSend, P!TypeOK, Installed, Streamed
  <2>1. chan' \in [Streams -> Seq(Goals)]
    <3>1. Append(chan[push[p].ch], push[p].goal) \in Seq(Goals)
      BY <2>0, Queues
    <3>2. chan' = chan \/ chan' = [chan EXCEPT ![push[p].ch] = Append(chan[push[p].ch],
          push[p].goal)]
      BY <1>13 DEF P!PushSend
    <3> QED BY <3>1, <3>2 DEF P!TypeOK
  <2>2. lost' \subseteq Streams /\ push[p].ch \in Streams
    BY <1>13, <2>0 DEF P!PushSend, P!TypeOK
  <2>3. push' \in [Pushers -> [at: {"idle", "lookup", "send"},
                              goal: Goals \union {None}, ch: Streams \union {None}]]
    BY <1>13 DEF P!PushSend, P!TypeOK
  <2> QED BY <1>13, <2>1, <2>2, <2>3 DEF P!PushSend, P!TypeOK
<1>14. CASE P!PutPersona
  BY <1>14 DEF P!PutPersona, P!TypeOK
<1>15. CASE P!Shutdown
  BY <1>15 DEF P!Shutdown, P!TypeOK
<1>16. CASE P!ForceStop
  BY <1>16 DEF P!ForceStop, P!TypeOK
<1>17. CASE P!Restart
  BY <1>17 DEF P!Restart, P!TypeOK
<1>18. CASE UNCHANGED <<P!vars>>
  BY <1>18 DEF P!TypeOK, P!vars
<1> QED
  BY <1>1, <1>2, <1>3, <1>4, <1>5, <1>6, <1>7, <1>8, <1>9, <1>10, <1>11, <1>12, <1>13,
        <1>14, <1>15, <1>16, <1>17, <1>18
  DEF P!Next, P!Handler, P!Operator, P!vars, P!streamVars

\* Operators push operators' goals.
LEMMA InstalledStep ==
  P!ConstantsOK /\ P!TypeOK /\ Installed /\ [P!Next]_P!vars => Installed'
<1> SUFFICES ASSUME P!ConstantsOK, P!TypeOK, Installed, [P!Next]_P!vars PROVE Installed'
  OBVIOUS
<1> USE DEF P!Running, P!NoPush, P!streamVars
<1> USE DEF P!ConstantsOK
<1>1. ASSUME NEW p \in Pushers, NEW g \in Goals, P!PushSet(p, g) PROVE Installed'
  BY <1>1 DEF P!PushSet, P!TypeOK, Installed
<1>2. ASSUME NEW p \in Pushers, P!PushLookup(p) PROVE Installed'
  BY <1>2 DEF P!PushLookup, P!TypeOK, Installed
<1>3. ASSUME NEW p \in Pushers, P!PushSend(p) PROVE Installed'
  BY <1>3 DEF P!PushSend, P!TypeOK, Installed
<1>4. CASE P!PutPersona
  BY <1>4 DEF P!PutPersona, P!TypeOK, Installed
<1>5. CASE P!Restart
  BY <1>5 DEF P!Restart, P!TypeOK, Installed
<1>6. CASE UNCHANGED <<goal, pushed, push>>
  BY <1>6 DEF Installed
<1> QED
  BY <1>1, <1>2, <1>3, <1>4, <1>5, <1>6
  DEF P!Next, P!Handler, P!Operator, P!vars, P!streamVars, P!Dial, P!Apply, P!HangUp, P!Break,
        P!HostRestart, P!RegisterSub, P!Resend, P!Take, P!Send, P!Leave, P!Shutdown, P!ForceStop

\* The goal being pushed stays the registry's.
LEMMA StandingStep ==
  P!ConstantsOK /\ OneOperator /\ P!TypeOK /\ Standing /\ [P!Next]_P!vars => Standing'
<1> SUFFICES ASSUME P!ConstantsOK, OneOperator, P!TypeOK, Standing, [P!Next]_P!vars PROVE Standing'
  OBVIOUS
<1> USE DEF P!Running, P!NoPush, P!streamVars
<1> USE DEF P!ConstantsOK
<1>1. ASSUME NEW p \in Pushers, NEW g \in Goals, P!PushSet(p, g) PROVE Standing'
  BY <1>1 DEF P!PushSet, P!TypeOK, Standing, OneOperator
<1>2. ASSUME NEW p \in Pushers, P!PushLookup(p) PROVE Standing'
  BY <1>2 DEF P!PushLookup, P!TypeOK, Standing
<1>3. ASSUME NEW p \in Pushers, P!PushSend(p) PROVE Standing'
  BY <1>3 DEF P!PushSend, P!TypeOK, Standing
<1>4. CASE P!PutPersona
  BY <1>4 DEF P!PutPersona, P!TypeOK, Standing
<1>5. CASE P!Restart
  BY <1>5 DEF P!Restart, P!TypeOK, Standing
<1>6. CASE UNCHANGED <<goal, pushed, push>>
  BY <1>6 DEF Standing
<1> QED
  BY <1>1, <1>2, <1>3, <1>4, <1>5, <1>6
  DEF P!Next, P!Handler, P!Operator, P!vars, P!streamVars, P!Dial, P!Apply, P!HangUp, P!Break,
        P!HostRestart, P!RegisterSub, P!Resend, P!Take, P!Send, P!Leave, P!Shutdown, P!ForceStop

\* Streams keep their phases.
LEMMA StreamedStep ==
  P!ConstantsOK /\ P!TypeOK /\ Streamed /\ [P!Next]_P!vars => Streamed'
<1> SUFFICES ASSUME P!ConstantsOK, P!TypeOK, Streamed, [P!Next]_P!vars PROVE Streamed'
  OBVIOUS
<1> USE DEF P!Running, P!NoPush, P!streamVars
<1> USE DEF P!ConstantsOK
<1>1. ASSUME NEW k \in Streams, P!Dial(k) PROVE Streamed'
  BY <1>1 DEF P!Dial, P!TypeOK, Streamed
<1>2. ASSUME NEW k \in Streams, P!RegisterSub(k) PROVE Streamed'
  BY <1>2 DEF P!RegisterSub, P!TypeOK, Streamed
<1>3. ASSUME NEW k \in Streams, P!Resend(k) PROVE Streamed'
  BY <1>3 DEF P!Resend, P!TypeOK, Streamed
<1>4. ASSUME NEW k \in Streams, P!Take(k) PROVE Streamed'
  BY <1>4, Queues DEF P!Take, P!TypeOK, Streamed
<1>5. ASSUME NEW k \in Streams, P!Send(k) PROVE Streamed'
  BY <1>5 DEF P!Send, P!TypeOK, Streamed
<1>6. ASSUME NEW k \in Streams, P!Leave(k) PROVE Streamed'
  BY <1>6 DEF P!Leave, P!TypeOK, Streamed, P!Unregistered
<1>7. ASSUME NEW p \in Pushers, NEW g \in Goals, P!PushSet(p, g) PROVE Streamed'
  BY <1>7 DEF P!PushSet, P!TypeOK, Streamed
<1>8. ASSUME NEW p \in Pushers, P!PushLookup(p) PROVE Streamed'
  BY <1>8 DEF P!PushLookup, P!TypeOK, Streamed
<1>9. ASSUME NEW p \in Pushers, P!PushSend(p) PROVE Streamed'
  BY <1>9 DEF P!PushSend, P!TypeOK, Streamed
<1>10. CASE P!Restart
  BY <1>10 DEF P!Restart, P!TypeOK, Streamed
<1>11. CASE UNCHANGED <<subs, st, hand, chan, push>>
  BY <1>11 DEF Streamed
<1> QED
  BY <1>1, <1>2, <1>3, <1>4, <1>5, <1>6, <1>7, <1>8, <1>9, <1>10, <1>11
  DEF P!Next, P!Handler, P!Operator, P!vars, P!streamVars, P!Apply, P!HangUp, P!Break, P!HostRestart,
        P!PutPersona, P!Shutdown, P!ForceStop


\* The same after a step.
LEMMA ArrivalNext ==
  (P!TypeOK /\ Streamed)' =>
    \A k \in Streams : P!Arriving(k)' = Delivers(st'[k], hand'[k], chan'[k], posted'[k],
          live')
<1> SUFFICES ASSUME P!TypeOK', Streamed', NEW k \in Streams
             PROVE  P!Arriving(k)' = Delivers(st'[k], hand'[k], chan'[k], posted'[k], live')
  OBVIOUS
<1>1. chan'[k] \in Seq(Goals) /\ posted'[k] \in Seq(Goals) /\ (st'[k] = "send" => hand'[k] \in Goals)
  BY DEF P!TypeOK, Streamed
<1>2. P!Arriving(k)' = IF Joined(posted'[k], InHand(st'[k], hand'[k]),
      chan'[k]) = <<>> THEN live'
                     ELSE LastOf(Joined(posted'[k], InHand(st'[k], hand'[k]), chan'[k]))
  BY DEF P!Arriving, Joined, InHand, LastOf
<1> QED BY <1>1, <1>2, LastDelivered

\* What the registered stream will deliver last stays the registry's goal.
LEMMA SettledStep ==
  P!ConstantsOK /\ OneOperator /\ P!TypeOK /\ Installed /\ Standing /\ Streamed /\ SubSettled /\ [P!Next]_P!vars => SubSettled'
<1> SUFFICES ASSUME P!ConstantsOK, OneOperator, P!TypeOK, Installed, Standing, Streamed, SubSettled,
      [P!Next]_P!vars PROVE SubSettled'
  OBVIOUS
<1> USE DEF P!Running, P!NoPush, P!streamVars
<1> USE DEF P!ConstantsOK
<1>a. \A k \in Streams : P!Arriving(k) = Delivers(st[k], hand[k], chan[k], posted[k], live)
  BY Arrival
<1>b. \A k \in Streams : P!Arriving(k)' = Delivers(st'[k], hand'[k], chan'[k], posted'[k],
      live')
  BY ArrivalNext, StreamTypeStep, StreamedStep
<1>c. \A k \in Streams : chan[k] \in Seq(Goals) /\ posted[k] \in Seq(Goals)
  BY DEF P!TypeOK
<1>1. ASSUME NEW k \in Streams, P!Dial(k) PROVE SubSettled'
  BY <1>1, <1>a, <1>b, <1>c DEF P!Dial, SubSettled, Settled, Owed, Delivers, P!TypeOK,
        Streamed
<1>2. CASE P!Apply
  BY <1>2, <1>a, <1>b, <1>c, Queues DEF P!Apply, SubSettled, Settled, Owed, Delivers,
        P!TypeOK
<1>3. CASE P!HangUp
  BY <1>3, <1>a, <1>b, <1>c DEF P!HangUp, SubSettled, Settled, Owed, Delivers, P!TypeOK,
        Streamed
<1>4. ASSUME NEW n \in 0..WireCap, P!Break(n) PROVE SubSettled'
  BY <1>4, <1>a, <1>b, <1>c DEF P!Break, SubSettled, Settled, Owed, Delivers, P!TypeOK
<1>5. CASE P!HostRestart
  BY <1>5, <1>a, <1>b, <1>c DEF P!HostRestart, SubSettled, Settled, Owed, Delivers, P!TypeOK
<1>6. ASSUME NEW k \in Streams, P!RegisterSub(k) PROVE SubSettled'
  BY <1>6, <1>a, <1>b, <1>c DEF P!RegisterSub, SubSettled, Settled, Owed, Delivers,
        P!TypeOK, Streamed
<1>7. ASSUME NEW k \in Streams, P!Resend(k) PROVE SubSettled'
  <2>1. pushed => goal \in Goals /\ <<goal>> # <<>> /\ LastOf(<<goal>>) = goal
    BY DEF Installed, LastOf
  <2>2. \A j \in Streams :
          /\ st'[j] = IF j = k THEN "loop" ELSE st[j]
          /\ posted'[j] = IF j = k /\ pushed /\ k \notin cut THEN <<goal>> ELSE posted[j]
    BY <1>7 DEF P!Resend, P!TypeOK
  <2> QED BY <1>7, <2>1, <2>2, <1>a, <1>b DEF P!Resend, SubSettled, Settled, Owed,
        Delivers, P!TypeOK
<1>8. ASSUME NEW k \in Streams, P!Take(k) PROVE SubSettled'
  BY <1>8, <1>a, <1>b, <1>c, Queues DEF P!Take, SubSettled, Settled, Owed, Delivers,
        P!TypeOK
<1>9. ASSUME NEW k \in Streams, P!Send(k) PROVE SubSettled'
  <2>1. hand[k] \in Goals /\ posted[k] \in Seq(Goals)
    BY <1>9 DEF P!Send, Streamed, P!TypeOK
  <2>2. Append(posted[k], hand[k]) # <<>> /\ LastOf(Append(posted[k], hand[k])) = hand[k]
    BY <2>1, Queues
  <2>3. \A j \in Streams :
          /\ st'[j] = IF j = k THEN "loop" ELSE st[j]
          /\ hand'[j] = IF j = k THEN None ELSE hand[j]
          /\ posted'[j] = IF j = k THEN Append(posted[k], hand[k]) ELSE posted[j]
    BY <1>9 DEF P!Send, P!TypeOK
  <2> QED BY <1>9, <2>2, <2>3, <1>a, <1>b DEF P!Send, SubSettled, Settled, Owed,
        Delivers, P!TypeOK
<1>10. ASSUME NEW k \in Streams, P!Leave(k) PROVE SubSettled'
  BY <1>10, <1>a, <1>b, <1>c DEF P!Leave, SubSettled, Settled, Owed, Delivers, P!TypeOK,
        Streamed, P!Unregistered
<1>11. ASSUME NEW p \in Pushers, NEW g \in Goals, P!PushSet(p, g) PROVE SubSettled'
  BY <1>11, <1>a, <1>b, <1>c DEF P!PushSet, SubSettled, Settled, Owed, Delivers, P!TypeOK
<1>12. ASSUME NEW p \in Pushers, P!PushLookup(p) PROVE SubSettled'
  BY <1>12, <1>a, <1>b, <1>c DEF P!PushLookup, SubSettled, Settled, Owed, Delivers,
        P!TypeOK, OneOperator
<1>13. ASSUME NEW p \in Pushers, P!PushSend(p) PROVE SubSettled'
  <2> DEFINE c == push[p].ch
  <2>1. c \in Streams /\ push[p].goal \in Goals /\ chan[c] \in Seq(Goals)
    BY <1>13 DEF P!PushSend, P!TypeOK, Installed, Streamed
  <2>2. Append(chan[c], push[p].goal) # <<>> /\ LastOf(Append(chan[c],
        push[p].goal)) = push[p].goal
    BY <2>1, Queues
  <2>3. \A j \in Streams : j # c => chan'[j] = chan[j] /\ (j \in lost' <=> j \in lost)
    BY <1>13, <2>1 DEF P!PushSend, P!TypeOK
  <2>4. st[c] # "ended" => \/ chan'[c] = Append(chan[c], push[p].goal)
                           \/ c \in lost'
    BY <1>13, <2>1 DEF P!PushSend, P!TypeOK
  <2>5. UNCHANGED <<goal, pushed, subs, st, hand, posted, cut, cur, live>>
    BY <1>13 DEF P!PushSend
  <2>6. subs # None => subs \in Streams /\ st[subs] # "ended"
    BY DEF P!TypeOK, Streamed
  <2>7. Owed(subs) /\ subs # None => subs = c
    BY <1>13 DEF Owed, P!PushSend, OneOperator
  <2>8. pushed => push[p].goal = goal
    BY <1>13 DEF P!PushSend, Standing
  <2> HIDE DEF c
  <2> SUFFICES ASSUME pushed, subs # None, subs \notin lost' PROVE Settled(subs)'
    BY <2>5 DEF SubSettled
  <2>9. CASE subs = c
    BY <2>2, <2>4, <2>5, <2>6, <2>8, <2>9, <1>b DEF Settled, Delivers
  <2>10. CASE subs # c
    <3>1. Settled(subs)
      BY <2>3, <2>6, <2>7, <2>10 DEF SubSettled
    <3>2. chan'[subs] = chan[subs]
      BY <2>3, <2>6, <2>10
    <3> QED BY <3>1, <3>2, <2>5, <2>6, <1>a, <1>b DEF Settled, Delivers
  <2> QED BY <2>9, <2>10
<1>14. CASE P!PutPersona
  BY <1>14 DEF P!PutPersona, SubSettled
<1>15. CASE P!ForceStop
  BY <1>15, <1>a, <1>b, <1>c DEF P!ForceStop, SubSettled, Settled, Owed, Delivers, P!TypeOK
<1>16. CASE P!Restart
  BY <1>16 DEF P!Restart, SubSettled
<1>17. CASE UNCHANGED <<goal, pushed, P!streamVars, cur, live, push, lost>>
  BY <1>17 DEF SubSettled, Settled, Owed, P!Arriving, P!streamVars
<1> QED
  BY <1>1, <1>2, <1>3, <1>4, <1>5, <1>6, <1>7, <1>8, <1>9, <1>10, <1>11, <1>12, <1>13,
        <1>14, <1>15, <1>16, <1>17
  DEF P!Next, P!Handler, P!Operator, P!vars, P!streamVars, P!Shutdown


-----------------------------------------------------------------------------
(* The theorems.                                                               *)

\* The invariant holds at the start.
LEMMA GoalInvInit == P!ConstantsOK /\ P!Init => GoalInv
<1> SUFFICES ASSUME P!ConstantsOK, P!Init PROVE GoalInv
  OBVIOUS
<1> USE DEF P!ConstantsOK, P!Init, P!NoPush
<1>1. chan \in [Streams -> Seq(Goals)] /\ posted \in [Streams -> Seq(Goals)]
  <2>1. <<>> \in Seq(Goals)
    OBVIOUS
  <2> QED BY <2>1
<1>2. push \in [Pushers -> [at: {"idle", "lookup", "send"},
                            goal: Goals \union {None}, ch: Streams \union {None}]]
  OBVIOUS
<1>3. pushed \in BOOLEAN /\ down \in BOOLEAN
  OBVIOUS
<1>4. P!TypeOK
  BY <1>1, <1>2, <1>3 DEF P!TypeOK
<1>5. Installed /\ Standing /\ Streamed /\ SubSettled
  BY DEF Installed, Standing, Streamed, SubSettled
<1> QED BY <1>4, <1>5 DEF GoalInv, Kept

\* The part of the invariant that any number of operators keep.
THEOREM StreamsKept ==
  ASSUME P!ConstantsOK PROVE P!Spec => []Kept
<1>1. P!Init => Kept
  BY GoalInvInit DEF GoalInv
<1>2. Kept /\ [P!Next]_P!vars => Kept'
  BY StreamTypeStep, InstalledStep, StreamedStep DEF Kept
<1> QED BY <1>1, <1>2, PTL DEF P!Spec

\* The whole of it, when calls of PushGoal do not overlap.
THEOREM GoalInvariance ==
  ASSUME P!ConstantsOK, OneOperator PROVE P!Spec => []GoalInv
<1>1. P!Init => GoalInv
  BY GoalInvInit
<1>2. GoalInv /\ [P!Next]_P!vars => GoalInv'
  BY StreamTypeStep, InstalledStep, StandingStep, StreamedStep, SettledStep DEF GoalInv, Kept
<1> QED BY <1>1, <1>2, PTL DEF P!Spec

\* Every variable keeps its type, with any number of operators.
THEOREM StreamTypes ==
  ASSUME P!ConstantsOK PROVE P!Spec => []P!TypeOK
BY StreamsKept, PTL DEF Kept

\* A standing operator goal is applied or on its way, whatever order a push, a reconnect's
\* registration and its look at the registry ran in (server.go:640-672, 707-770), for any
\* number of streams and any capacities, when calls of PushGoal do not overlap.
THEOREM GoalsArrive ==
  ASSUME P!ConstantsOK, OneOperator PROVE P!Spec => []P!GoalOnItsWay
<1>1. GoalInv => P!GoalOnItsWay
  BY DEF GoalInv, SubSettled, Settled, Owed, P!GoalOnItsWay, P!Attached, P!Quiet
<1> QED BY <1>1, GoalInvariance, PTL

=============================================================================

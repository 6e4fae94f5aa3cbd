------------------------------ MODULE Session ------------------------------
(***************************************************************************)
(* A game connection once it is logged in (src/session/conn.go): the read   *)
(* loop, the write loop, the two queues and the teardown.  Close runs once, *)
(* in three steps (mark, close the socket, close done); whoever calls it    *)
(* meanwhile waits.  The first terminal error is kept, and what it says     *)
(* decides whether the host is restarted.                                   *)
(*                                                                         *)
(* Frames and packets are counted, their contents play no part.  The server *)
(* sends frames, may stop reading, and may hang up; a broken network is a   *)
(* server that hung up.                                                     *)
(***************************************************************************)
EXTENDS SessionBase

VARIABLES
  up,          \* the server's side: "open", "stalled" or "closed"
  sent, wire,  \* frames the server has sent, and those not yet decoded
  sock,        \* whether our side of the socket is open
  closing, done, err,
  closer,      \* who is in Close, and
  closed,      \* how far it has come: "no", "marked", "cut" or "yes"
  rpc, recvq, recvClosed,  \* the read loop and recvCh
  wpc, sendq   \* the write loop and sendCh

peerVars == <<up, sent, wire>>
closeVars == <<sock, closing, done, closer, closed>>
readVars == <<rpc, recvq, recvClosed>>
writeVars == <<wpc, sendq>>
vars == <<peerVars, closeVars, err, readVars, writeVars>>

Init ==
  /\ up = "open" /\ sent = 0 /\ wire = 0
  /\ sock = TRUE /\ closing = FALSE /\ done = FALSE /\ err = "none"
  /\ closer = "none" /\ closed = "no"
  /\ rpc = "read" /\ recvq = 0 /\ recvClosed = FALSE
  /\ wpc = "select" /\ sendq = 0

\* The first terminal error is the one that stays.
Store(e) == err' = IF err = "none" THEN e ELSE err

-----------------------------------------------------------------------------
(* Close. *)

\* The first caller runs it, a step at a time.
CloseBy(who) ==
  /\ closed = "no" /\ closer = "none"
  /\ closer' = who
  /\ UNCHANGED <<peerVars, sock, closing, done, closed, err, readVars, writeVars>>

\* Mutant of CloseOrder: the socket is cut before the mark.
SocketFirst == <<"cut", "marked">>
CloseOrder == <<"marked", "cut">>

CloseStep ==
  /\ closer # "none"
  /\ \/ closed = "no" /\ closed' = CloseOrder[1] /\ UNCHANGED done
     \/ closed = CloseOrder[1] /\ closed' = CloseOrder[2] /\ UNCHANGED done
     \/ closed = CloseOrder[2] /\ closed' = "yes" /\ done' = TRUE
  /\ closing' = (closing \/ closed' = "marked")
  /\ sock' = (sock /\ closed' # "cut")
  /\ UNCHANGED <<peerVars, closer, err, readVars, writeVars>>

-----------------------------------------------------------------------------
(* The read loop. *)

\* A frame decodes or does not; one that an earlier read put in the decoder does so even
\* after the socket was cut.  A read of a socket that either side has closed fails.
Read ==
  /\ rpc = "read" /\ wire > 0
  /\ wire' = wire - 1
  /\ \/ rpc' = "emit" /\ UNCHANGED err
     \/ rpc' = "exit" /\ Store("decode")
  /\ UNCHANGED <<up, sent, closeVars, recvq, recvClosed, writeVars>>

ReadFails ==
  /\ rpc = "read"
  /\ ~sock \/ (up = "closed" /\ wire = 0)
  /\ rpc' = "failed"
  /\ UNCHANGED <<peerVars, closeVars, err, recvq, recvClosed, writeVars>>

\* A failed read is our own Close, or the server's doing: it hung up, or the network did.
ServerClosed == Store("server") \/ (up = "closed" /\ Store("read"))

Classify ==
  /\ rpc = "failed"
  /\ \/ closing /\ UNCHANGED err
     \/ ~closing /\ ServerClosed
  /\ rpc' = "exit"
  /\ UNCHANGED <<peerVars, closeVars, recvq, recvClosed, writeVars>>

\* The frame goes to recvCh, or is dropped once done is closed.
EmitAborts == done

Emit ==
  /\ rpc = "emit"
  /\ \/ recvq < RecvCap /\ recvq' = recvq + 1 /\ rpc' = "read"
     \/ EmitAborts /\ rpc' = "exit" /\ UNCHANGED recvq
  /\ UNCHANGED <<peerVars, closeVars, err, recvClosed, writeVars>>

\* The deferred calls: Close, and when that has run close(recvCh).
ReaderCloses == rpc = "exit" /\ CloseBy("reader")

ReaderEnds ==
  /\ rpc = "exit" /\ closed = "yes"
  /\ rpc' = "ended" /\ recvClosed' = TRUE
  /\ UNCHANGED <<peerVars, closeVars, err, recvq, writeVars>>

-----------------------------------------------------------------------------
(* The write loop. *)

\* The select: with both ready, either.
WriterSelects ==
  /\ wpc = "select"
  /\ \/ done /\ wpc' = "ended" /\ UNCHANGED sendq
     \/ sendq > 0 /\ sendq' = sendq - 1 /\ wpc' = "write"
  /\ UNCHANGED <<peerVars, closeVars, err, readVars>>

\* The write succeeds, also for a while after the server has hung up; it fails on a
\* closed connection; it waits while the server is not reading.
Write ==
  /\ wpc = "write" /\ sock /\ up # "stalled"
  /\ wpc' = "select"
  /\ UNCHANGED <<peerVars, closeVars, err, readVars, sendq>>

WriteFails ==
  /\ wpc = "write" /\ (~sock \/ up = "closed")
  /\ Store("write")
  /\ wpc' = "exit"
  /\ UNCHANGED <<peerVars, closeVars, readVars, sendq>>

WriterCloses == wpc = "exit" /\ CloseBy("writer")

WriterEnds ==
  /\ wpc = "exit" /\ closed = "yes"
  /\ wpc' = "ended"
  /\ UNCHANGED <<peerVars, closeVars, err, readVars, sendq>>

-----------------------------------------------------------------------------
(* The server and the connection's users. *)

ServerSends ==
  /\ up # "closed" /\ sent < MaxFrames
  /\ sent' = sent + 1 /\ wire' = wire + 1
  /\ UNCHANGED <<up, closeVars, err, readVars, writeVars>>

ServerCloses ==
  /\ up # "closed" /\ up' = "closed"
  /\ UNCHANGED <<sent, wire, closeVars, err, readVars, writeVars>>

ServerStalls ==
  /\ Stalls /\ up = "open" /\ up' = "stalled"
  /\ UNCHANGED <<sent, wire, closeVars, err, readVars, writeVars>>

\* Send: the packet is queued.  (The other outcome, after done, changes nothing.)
Send ==
  /\ sendq < SendCap /\ sendq' = sendq + 1
  /\ UNCHANGED <<peerVars, closeVars, err, readVars, wpc>>

Recv ==
  /\ recvq > 0 /\ recvq' = recvq - 1
  /\ UNCHANGED <<peerVars, closeVars, err, rpc, recvClosed, writeVars>>

Server == ServerSends \/ ServerCloses \/ ServerStalls
Reader == Read \/ ReadFails \/ Classify \/ Emit \/ ReaderCloses \/ ReaderEnds
Writer == WriterSelects \/ Write \/ WriteFails \/ WriterCloses \/ WriterEnds

Next ==
  \/ Server \/ Reader \/ Writer \/ CloseStep
  \/ Send \/ Recv \/ CloseBy("user")

Spec == Init /\ [][Next]_vars

\* The goroutines run; a socket's read and write end once either side is closed.
Fairness == WF_vars(Reader) /\ WF_vars(Writer) /\ WF_vars(CloseStep)

FairSpec == Spec /\ Fairness

-----------------------------------------------------------------------------
(* Properties. *)

\* Every variable has its type.
TypeOK ==
  /\ up \in {"open", "stalled", "closed"} /\ sent \in 0 .. MaxFrames /\ wire \in 0 .. sent
  /\ sock \in BOOLEAN /\ closing \in BOOLEAN /\ done \in BOOLEAN
  /\ err \in {"none", "decode", "server", "read", "write"}
  /\ closer \in {"none", "user", "reader", "writer"}
  /\ closed \in {"no", "marked", "cut", "yes"}
  /\ rpc \in {"read", "failed", "emit", "exit", "ended"}
  /\ recvq \in 0 .. RecvCap /\ recvClosed \in BOOLEAN
  /\ wpc \in {"select", "write", "exit", "ended"} /\ sendq \in 0 .. SendCap

\* The read loop blames the server only for a close the server made: a local Close, however
\* it races the read, is not reported as one (conn.go:40-44 and 246-250).
ServerBlamedRightly == err \in {"server", "read"} => up = "closed"

\* A connection that ends without an error was closed by its user: no loss of the server
\* goes unreported to the supervisor (conn.go:251-258).
SilentEndIsLocal == recvClosed /\ err = "none" => closer = "user"

-----------------------------------------------------------------------------
(* What the repository says of this code and the code does not keep: see the  *)
(* README's known disagreements.                                              *)

\* A local Close of a connection that the server has not closed leaves no error
\* (conn_eof_test.go:54-70: "a clean stop - no error, no restart").
LocalCloseIsClean == up # "closed" => err \in {"none", "decode"}

=============================================================================

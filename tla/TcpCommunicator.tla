--------------------------- MODULE TcpCommunicator ---------------------------
(***************************************************************************)
(* TCPCommunicator.cpp: the one-client server behind the "send" button.    *)
(* The window's thread posts writeImpl to a strand and goes on; the        *)
(* io_service threads run the strand's handlers one at a time, the read    *)
(* and accept handlers beside them.                                        *)
(*                                                                         *)
(* Lines are numbered in the order they are sent.  write() hands the       *)
(* strand a pointer into a temporary that dies when write() returns, so a  *)
(* writeImpl that runs later copies whatever is there: Garbage.            *)
(***************************************************************************)
EXTENDS Naturals, Sequences, SequencesExt

CONSTANTS
    MaxSend,    \* bound: clicks on "send"
    MaxRecv     \* bound: lines the peer sends

ASSUME BoundAssumption == MaxSend \in Nat /\ MaxRecv \in Nat

Garbage == 0
Line == 0 .. MaxSend

VARIABLES
    socket,      \* "closed" (waiting for the client), "connected", "lost" (peer gone)
    _outbox,     \* the deque of lines
    strand,      \* handlers posted to _strand and not yet run
    writing,     \* async_writes started and not complete
    wire,        \* lines handed to the network, oldest first
    m_readBuffer, \* a line of the peer by number, 0 when blank
    reading,     \* "none", "started" (async_read), "complete" (handleRead is due)
    received,    \* lines the peer has sent so far
    shown,       \* lines handleRead printed
    sends,       \* clicks on "send" so far
    inWrite,     \* the window's thread is inside write(const char*)
    running      \* io_service not stopped, Uinit not thrown

recv == <<m_readBuffer, reading, received, shown>>
send == <<_outbox, strand, writing, wire>>
vars == <<socket, send, recv, sends, inWrite, running>>

Handler ==
    [op : {"writeImpl"}, line : Line] \cup [op : {"handleWrite"}, ok : BOOLEAN]

TypeOK ==
    /\ socket \in {"closed", "connected", "lost"}
    /\ _outbox \in Seq(Line)
    /\ strand \in Seq(Handler)
    /\ writing \in Seq(Line)
    /\ wire \in Seq(Line)
    /\ m_readBuffer \in 0 .. MaxRecv
    /\ reading \in {"none", "started", "complete"}
    /\ received \in 0 .. MaxRecv
    /\ shown \in Seq(1 .. MaxRecv)
    /\ sends \in 0 .. MaxSend
    /\ inWrite \in BOOLEAN
    /\ running \in {"yes", "stopped", "thrown"}

Init ==
    /\ socket = "closed"
    /\ _outbox = <<>> /\ strand = <<>> /\ writing = <<>> /\ wire = <<>>
    /\ m_readBuffer = 0 /\ reading = "none" /\ received = 0 /\ shown = <<>>
    /\ sends = 0 /\ inWrite = FALSE /\ running = "yes"

-----------------------------------------------------------------------------
(* The client.  The acceptor takes one connection and never another.        *)

\* handleListen without error, then read().
Accept ==
    /\ running = "yes" /\ socket = "closed"
    /\ socket' = "connected"
    /\ m_readBuffer' = 0 /\ reading' = "started"
    /\ UNCHANGED <<send, received, shown, sends, inWrite, running>>

PeerLeaves ==
    /\ socket = "connected"
    /\ socket' = "lost"
    /\ UNCHANGED <<send, recv, sends, inWrite, running>>

\* The peer's next line completes the async_read.
Receive ==
    /\ running = "yes" /\ socket = "connected" /\ reading = "started"
    /\ received < MaxRecv
    /\ received' = received + 1
    /\ m_readBuffer' = received + 1
    /\ reading' = "complete"
    /\ UNCHANGED <<socket, send, shown, sends, inWrite, running>>

\* handleRead prints the buffer up to its first NUL and reads again, which
\* blanks the buffer.  (Mutant: the buffer is not blanked and is read again.)
ReadAgainStale == UNCHANGED m_readBuffer /\ reading' \in {"started", "complete"}
ReadAgain == m_readBuffer' = 0 /\ reading' = "started"

\* What is printed.
Printed == IF m_readBuffer = 0 THEN shown ELSE Append(shown, m_readBuffer)

HandleRead ==
    /\ running = "yes" /\ reading = "complete"
    /\ shown' = Printed
    /\ ReadAgain
    /\ UNCHANGED <<socket, send, received, sends, inWrite, running>>

\* The read fails once the peer is gone: handleRead returns, nothing reads or
\* listens any more.
ReadFails ==
    /\ running = "yes" /\ socket = "lost" /\ reading = "started"
    /\ reading' = "none"
    /\ UNCHANGED <<socket, send, m_readBuffer, received, shown, sends, inWrite, running>>

-----------------------------------------------------------------------------
(* Sending *)

\* write(const char*), up to the post: it also blanks the read buffer.
Write ==
    /\ ~inWrite /\ sends < MaxSend
    /\ sends' = sends + 1
    /\ inWrite' = TRUE
    /\ m_readBuffer' = 0
    /\ strand' = Append(strand, [op |-> "writeImpl", line |-> sends + 1])
    /\ UNCHANGED <<socket, _outbox, writing, wire, reading, received, shown, running>>

\* write returns and the caller's temporary string is freed: a writeImpl that
\* has not run finds the line there, or something else.
Pointee(h) ==
    IF h.op = "writeImpl" /\ h.line = sends THEN [op |-> "writeImpl", line |-> Garbage] ELSE h
WriteReturns ==
    /\ inWrite /\ inWrite' = FALSE
    /\ \/ UNCHANGED strand
       \/ strand' = [i \in DOMAIN strand |-> Pointee(strand[i])]
    /\ UNCHANGED <<socket, _outbox, writing, wire, recv, sends, running>>

\* write(): start sending the line in front.
StartWrite(box) == writing' = Append(writing, box[1])

\* writeImpl: queue the line; start it only if it is alone.  (Mutant: every
\* line starts a write.)
QueueAlwaysStarts(line) == _outbox' = Append(_outbox, line) /\ StartWrite(_outbox')
Queue(line) ==
    /\ _outbox' = Append(_outbox, line)
    /\ IF Len(_outbox') > 1 THEN UNCHANGED writing ELSE StartWrite(_outbox')

WriteImpl ==
    /\ running = "yes" /\ strand # <<>> /\ Head(strand).op = "writeImpl"
    /\ Queue(Head(strand).line)
    /\ strand' = Tail(strand)
    /\ UNCHANGED <<socket, wire, recv, sends, inWrite, running>>

\* The network takes the line of an async_write, or the write fails; handleWrite
\* is posted through the strand.  Without a client it must fail; after the peer
\* left it may still be taken by the kernel.
Complete(i, ok) ==
    /\ running = "yes" /\ i \in DOMAIN writing
    /\ ok => socket # "closed"
    /\ writing' = RemoveAt(writing, i)
    /\ wire' = IF ok THEN Append(wire, writing[i]) ELSE wire
    /\ strand' = Append(strand, [op |-> "handleWrite", ok |-> ok])
    /\ UNCHANGED <<socket, _outbox, recv, sends, inWrite, running>>

\* handleWrite: drop the line in front; go on with the next, unless the write
\* failed.  (Mutants: the line is dropped only on success; the next line is
\* not started.)
NextLineKeepsFailed(ok) ==
    /\ _outbox' = IF ok THEN Tail(_outbox) ELSE _outbox
    /\ IF _outbox' # <<>> THEN StartWrite(_outbox') ELSE UNCHANGED writing
NextLineForgotten(ok) == _outbox' = Tail(_outbox) /\ UNCHANGED writing
NextLine(ok) ==
    /\ _outbox' = Tail(_outbox)
    /\ IF ok /\ _outbox' # <<>> THEN StartWrite(_outbox') ELSE UNCHANGED writing

HandleWrite ==
    /\ running = "yes" /\ strand # <<>> /\ Head(strand).op = "handleWrite"
    /\ NextLine(Head(strand).ok)
    /\ strand' = Tail(strand)
    /\ UNCHANGED <<socket, wire, recv, sends, inWrite, running>>

\* Uinit on the window's thread.  cancel() throws when no client ever
\* connected, since the socket was never opened.
Uinit ==
    /\ running = "yes" /\ ~inWrite
    /\ running' = IF socket = "closed" THEN "thrown" ELSE "stopped"
    /\ UNCHANGED <<socket, send, recv, sends, inWrite>>

-----------------------------------------------------------------------------
Io ==
    \/ Accept \/ HandleRead \/ ReadFails \/ WriteImpl \/ HandleWrite
    \/ \E i \in DOMAIN writing, ok \in BOOLEAN : Complete(i, ok)

Next == PeerLeaves \/ Receive \/ Write \/ WriteReturns \/ Uinit \/ Io

Spec == Init /\ [][Next]_vars

\* The io_service threads run what is ready, strand and reads alike, and the
\* window's thread returns from write().
Fairness ==
    /\ WF_vars(WriteImpl) /\ WF_vars(HandleWrite) /\ WF_vars(WriteReturns)
    /\ WF_vars(\E i \in DOMAIN writing, ok \in BOOLEAN : Complete(i, ok))
FairSpec == Spec /\ Fairness

-----------------------------------------------------------------------------
(* Properties *)

\* At most one async_write is outstanding on the socket, as async_write
\* requires, and it is sending the line in front of the outbox; when it is
\* complete its handleWrite is still due before another starts.
OneWriteAtATime ==
    LET due == {i \in DOMAIN strand : strand[i].op = "handleWrite"} IN
    /\ Len(writing) <= 1
    /\ writing # <<>> => _outbox # <<>> /\ writing[1] = _outbox[1] /\ due = {}
    /\ \A i, j \in due : i = j
    /\ due # {} => _outbox # <<>>

\* The outbox implements a lossy FIFO: a line leaves it in front, when its
\* write completes, so lines reach the network in the order they were sent and
\* none twice; one may be missing, or be garbage.
Due == \E i \in DOMAIN strand : strand[i].op = "handleWrite"
Pending == IF Due THEN Tail(_outbox) ELSE _outbox
Fifo == INSTANCE LossyFifo WITH Message <- Line, pending <- Pending, delivered <- wire
ImplementsFifo == Fifo!Spec

\* What is printed was received, in order and once, although write() blanks
\* the buffer the read handler has yet to look at.
ShownInOrder ==
    /\ \A i, j \in DOMAIN shown : i < j => shown[i] < shown[j]
    /\ \A i \in DOMAIN shown : shown[i] <= received

\* As long as no write fails every queued line is sent.
NoFailure == \A i \in DOMAIN strand : strand[i].op = "handleWrite" => strand[i].ok
OutboxDrains == []NoFailure /\ [](running = "yes") => (_outbox # <<>> ~> _outbox = <<>>)

\* TCPCommunicator.cpp:151 returns early with the comment "outstanding
\* async_write": when a line waits behind another, a write is outstanding or
\* its handleWrite is due.
BacklogIsBeingWritten ==
    Len(_outbox) > 1 => writing # <<>> \/ Due
=============================================================================

------------------------------- MODULE H2Conn ------------------------------
(***************************************************************************)
(* internal/tlsfp/h2client.go: one HTTP/2 connection and the requests that *)
(* share it.                                                               *)
(*                                                                         *)
(* Four kinds of goroutine act on it: the callers in roundTrip and later   *)
(* in the response body, one body writer per request, and the one read     *)
(* loop, which hands DATA to a caller through an io.Pipe and can do        *)
(* nothing else until the caller takes it.  The read loop's steps are the  *)
(* frames the peer may send then; frames of a stream it has forgotten are  *)
(* read and dropped.                                                       *)
(*                                                                         *)
(* Windows and bodies are counted in units of data; a DATA frame from the  *)
(* peer is one unit.  Header fields, PING and the preface carry no state.  *)
(***************************************************************************)
EXTENDS Integers, FiniteSets

CONSTANTS
  Calls,         \* the requests
  Upload,        \* units in each request's body
  StreamWin,     \* what the peer's SETTINGS may give as INITIAL_WINDOW_SIZE
  FirstWin,      \* the protocol's initial window, of streams and connection
  MaxFrames      \* bound: frames of the peer

NoCall == "none"

ASSUME H2Assumption ==
  /\ IsFiniteSet(Calls) /\ NoCall \notin Calls
  /\ Upload \in [Calls -> Nat]
  /\ StreamWin \subseteq Nat
  /\ FirstWin \in Nat \ {0}
  /\ MaxFrames \in Nat

VARIABLES
  call,       \* idle, reserved, waiting, holding (the body, but not in Read),
              \* reading (in Read), over
  ended,      \* how the call ended: what roundTrip or the last Read returned
  sid,        \* stream id; 0 before roundTrip
  nextID,
  streams,    \* c.streams
  stream,     \* the h2Stream
  writer,     \* writeRequestBody: none, sending, done
  left,       \* units of the body it has still to charge to the windows
  hand,       \* units charged, whose DATA frame is not written yet
  sendWin, connSendWin, initStreamWin,
  goAway, closed,
  loop,       \* [call, last]: the DATA the read loop waits to hand over; or Idle,
              \* or AckDue: SETTINGS applied, not acknowledged
  peer,       \* how far the peer's side of each stream is
  recvWin,    \* units the peer may still send on this connection
  wire,       \* history: the largest id of the HEADERS written
  sent,       \* history: units of each body written, and
  sentAll,    \*          units of DATA written on the connection
  granted,    \* history: units the peer's WINDOW_UPDATEs added, by stream and
  grantedAll, \*          for the connection
  peerWin,    \* history: the INITIAL_WINDOW_SIZE the peer must allow for
  overtaken,  \* history: calls whose hand was filled before the last ACK
  frames

callVars  == <<call, ended, sid, nextID>>
winVars   == <<sendWin, connSendWin, initStreamWin>>
connVars  == <<goAway, closed, loop>>
peerVars  == <<peer, recvWin, frames>>
sentVars  == <<writer, left, hand, sent, sentAll, overtaken>>
histVars  == <<wire, granted, grantedAll, peerWin>>
h2Vars    == <<callVars, streams, stream, sentVars, winVars, connVars, peerVars, histVars>>

(***************************************************************************)
(* An h2Stream: hdr is an answer in hdrCh, pipe what a Read finds when no    *)
(* data is being handed over.                                              *)
(***************************************************************************)
Stream == [hdr : BOOLEAN, pipe : {"open", "eof", "error"},
           done : BOOLEAN, closed : BOOLEAN]

NewStream == [hdr |-> FALSE, pipe |-> "open", done |-> FALSE, closed |-> FALSE]

\* eof is a body read to its end; error any other end, the caller's own included.
Ending == {"none", "eof", "error"}

Idle   == [call |-> NoCall, last |-> FALSE]
AckDue == [call |-> NoCall, last |-> TRUE]

\* Every variable has its type; a stream in the table has an id and has not been
\* closed, and its writer has not lost count.
H2TypeOK ==
  /\ call \in [Calls -> {"idle", "reserved", "waiting", "holding", "reading", "over"}]
  /\ ended \in [Calls -> Ending]
  /\ sid \in [Calls -> Nat] /\ nextID \in Nat
  /\ streams \subseteq Calls
  /\ stream \in [Calls -> Stream]
  /\ writer \in [Calls -> {"none", "sending", "done"}]
  /\ left \in [Calls -> Nat] /\ hand \in [Calls -> Nat]
  /\ sent \in [Calls -> Nat] /\ sentAll \in Nat /\ overtaken \subseteq Calls
  /\ sendWin \in [Calls -> Int] /\ connSendWin \in Int /\ initStreamWin \in Nat
  /\ goAway \in BOOLEAN /\ closed \in BOOLEAN
  /\ loop \in [call : Calls \cup {NoCall}, last : BOOLEAN]
  /\ peer \in [Calls -> {"unaware", "refused", "open", "answering", "ended", "reset"}]
  /\ recvWin \in Nat /\ frames \in Nat
  /\ wire \in Nat
  /\ granted \in [Calls -> Nat] /\ grantedAll \in Nat /\ peerWin \in Nat
  /\ \A r \in streams : sid[r] # 0 /\ ~stream[r].closed
  /\ \A r \in Calls : left[r] + hand[r] + sent[r] = Upload[r]

\* newH2Conn has read the peer's first SETTINGS.
H2Init ==
  /\ call = [r \in Calls |-> "idle"]
  /\ ended = [r \in Calls |-> "none"]
  /\ sid = [r \in Calls |-> 0] /\ nextID = 1
  /\ streams = {}
  /\ stream = [r \in Calls |-> NewStream]
  /\ writer = [r \in Calls |-> "none"]
  /\ left = Upload /\ hand = [r \in Calls |-> 0] /\ overtaken = {}
  /\ sent = [r \in Calls |-> 0] /\ sentAll = 0
  /\ initStreamWin \in StreamWin /\ peerWin = initStreamWin
  /\ sendWin = [r \in Calls |-> 0] /\ connSendWin = FirstWin
  /\ goAway = FALSE /\ closed = FALSE
  /\ loop = Idle
  /\ peer = [r \in Calls |-> "unaware"]
  /\ recvWin = FirstWin
  /\ wire = 0
  /\ granted = [r \in Calls |-> 0] /\ grantedAll = 0
  /\ frames = 0

(***************************************************************************)
(* Stream and connection life cycle, as functions of the stream.           *)
(***************************************************************************)

\* Mutant: the mark the writer waits for is not set.
FinishedUnmarked(st) == [st EXCEPT !.done = TRUE]

\* finishStream; the caller also takes the stream out of the table.
Finished(st) == [st EXCEPT !.done = TRUE, !.closed = TRUE]

\* A pipe closed once keeps its first error.
Piped(st, how) == IF st.pipe = "open" THEN [st EXCEPT !.pipe = how] ELSE st

\* Mutants: a reset leaves the pipe open, or ends it like a body.
ResetPipeOpen(st) == Finished(st)
ResetClean(st) == Finished(Piped(st, "eof"))

\* resetStream: RST_STREAM, the pipe fails, the stream is finished.
Reset(st) == Finished(Piped(st, "error"))

\* Mutant: the stream stays in the table.
KeepsStream(r) == UNCHANGED streams

Forget(r) == streams' = streams \ {r}

EndCall(r, how) ==
  /\ call' = [call EXCEPT ![r] = "over"]
  /\ ended' = [ended EXCEPT ![r] = how]

(***************************************************************************)
(* roundTrip.                                                              *)
(***************************************************************************)

\* An id and a stream, or errConnUnusable.
Reserves(r) ==
  /\ call[r] = "idle"
  /\ \/ /\ closed \/ goAway
        /\ EndCall(r, "error")
        /\ UNCHANGED <<sid, nextID, streams, sendWin>>
     \/ /\ ~closed /\ ~goAway
        /\ call' = [call EXCEPT ![r] = "reserved"]
        /\ sid' = [sid EXCEPT ![r] = nextID]
        /\ nextID' = nextID + 2
        /\ streams' = streams \cup {r}
        /\ sendWin' = [sendWin EXCEPT ![r] = initStreamWin]
        /\ UNCHANGED ended
  /\ UNCHANGED <<stream, sentVars, connSendWin, initStreamWin, connVars, peerVars, histVars>>

\* writeHeaders, under wmu alone, so HEADERS may go out in another order than
\* their ids: the peer accepts no id below one it has seen.  Then the body writer
\* is started.  Any write may fail before the read loop notices anything.
WritesHeaders(r) ==
  /\ call[r] = "reserved"
  /\ \/ /\ EndCall(r, "error")
        /\ Forget(r)
        /\ UNCHANGED <<writer, wire, peer>>
     \/ /\ ~closed
        /\ call' = [call EXCEPT ![r] = "waiting"]
        /\ wire' = IF sid[r] > wire THEN sid[r] ELSE wire
        /\ peer' = [peer EXCEPT ![r] = IF sid[r] > wire THEN "open" ELSE "refused"]
        /\ writer' = [writer EXCEPT ![r] = IF Upload[r] > 0 THEN "sending" ELSE "none"]
        /\ UNCHANGED <<ended, streams>>
  /\ UNCHANGED <<sid, nextID, stream, left, hand, sent, sentAll, overtaken, winVars, connVars,
                 recvWin, frames, granted, grantedAll, peerWin>>

\* The select of roundTrip: any case that is ready may be taken.
Deadline(r) ==
  /\ call[r] = "waiting"
  /\ EndCall(r, "error")
  /\ stream' = [stream EXCEPT ![r] = Reset(@)]
  /\ Forget(r)
  /\ UNCHANGED <<sid, nextID, sentVars, winVars, connVars, peerVars, histVars>>

SeesDone(r) ==
  /\ call[r] = "waiting" /\ stream[r].done
  /\ EndCall(r, "error")
  /\ UNCHANGED <<sid, nextID, streams, stream, sentVars, winVars, connVars, peerVars, histVars>>

\* buildResponse, or a :status it cannot read.
TakesHeaders(r) ==
  /\ call[r] = "waiting" /\ stream[r].hdr
  /\ \/ /\ call' = [call EXCEPT ![r] = "holding"]
        /\ stream' = [stream EXCEPT ![r] = [@ EXCEPT !.hdr = FALSE]]
        /\ UNCHANGED <<ended, streams>>
     \/ /\ EndCall(r, "error")
        /\ stream' = [stream EXCEPT ![r] = Reset([@ EXCEPT !.hdr = FALSE])]
        /\ Forget(r)
  /\ UNCHANGED <<sid, nextID, sentVars, winVars, connVars, peerVars, histVars>>

(***************************************************************************)
(* The body writer.                                                        *)
(***************************************************************************)

LeastOf(S) == CHOOSE x \in S : \A y \in S : x <= y

\* writeData: as much as is left and both windows allow.
Chunk(r) == LeastOf({left[r], sendWin[r], connSendWin})

MayWrite(r) == connSendWin > 0 /\ sendWin[r] > 0

\* Under mu both windows are charged with a chunk.
Debits(r) ==
  /\ writer[r] = "sending" /\ left[r] > 0 /\ hand[r] = 0
  /\ MayWrite(r) /\ ~closed /\ ~stream[r].closed
  /\ left' = [left EXCEPT ![r] = @ - Chunk(r)]
  /\ hand' = [hand EXCEPT ![r] = Chunk(r)]
  /\ sendWin' = [sendWin EXCEPT ![r] = @ - Chunk(r)]
  /\ connSendWin' = connSendWin - Chunk(r)
  /\ UNCHANGED <<callVars, streams, stream, writer, sent, sentAll, overtaken, initStreamWin,
                 connVars, peerVars, histVars>>

\* The writer's error path: it resets the stream and ends.
BreaksOff(r) ==
  /\ writer' = [writer EXCEPT ![r] = "done"]
  /\ stream' = [stream EXCEPT ![r] = Reset(@)]
  /\ Forget(r)

\* Under wmu the chunk goes out, whatever mu let happen meanwhile; or the write
\* fails.
WritesData(r) ==
  /\ writer[r] = "sending" /\ hand[r] > 0
  /\ \/ /\ ~closed
        /\ sent' = [sent EXCEPT ![r] = @ + hand[r]] /\ sentAll' = sentAll + hand[r]
        /\ hand' = [hand EXCEPT ![r] = 0] /\ overtaken' = overtaken \ {r}
        /\ UNCHANGED <<writer, stream, streams>>
     \/ BreaksOff(r) /\ UNCHANGED <<hand, sent, sentAll, overtaken>>
  /\ UNCHANGED <<callVars, left, winVars, connVars, peerVars, histVars>>

\* The whole body is out: END_STREAM, or the write fails.
WritesEnd(r) ==
  /\ writer[r] = "sending" /\ left[r] = 0 /\ hand[r] = 0
  /\ \/ /\ ~closed
        /\ writer' = [writer EXCEPT ![r] = "done"]
        /\ UNCHANGED <<stream, streams>>
     \/ BreaksOff(r)
  /\ UNCHANGED <<callVars, left, hand, sent, sentAll, overtaken, winVars, connVars, peerVars,
                 histVars>>

\* Stream or connection closed under it.
WriterGivesUp(r) ==
  /\ writer[r] = "sending" /\ left[r] > 0 /\ hand[r] = 0
  /\ closed \/ stream[r].closed
  /\ BreaksOff(r)
  /\ UNCHANGED <<callVars, left, hand, sent, sentAll, overtaken, winVars, connVars, peerVars,
                 histVars>>

Writer(r) == Debits(r) \/ WritesData(r) \/ WritesEnd(r) \/ WriterGivesUp(r)

(***************************************************************************)
(* The caller reads the response body.                                     *)
(***************************************************************************)

\* The end of a body with END_STREAM.
EndOfBody(r) ==
  /\ stream' = [stream EXCEPT ![r] = Finished(Piped(@, "eof"))]
  /\ Forget(r)

\* Read is called, when the caller is through with what it has.
AsksMore(r) ==
  /\ call[r] = "holding"
  /\ call' = [call EXCEPT ![r] = "reading"]
  /\ UNCHANGED <<ended, sid, nextID, streams, stream, sentVars, winVars, connVars, peerVars,
                 histVars>>

\* The read loop's Write returns: the windows are given back, and it goes on.
ReadsData(r) ==
  /\ call[r] = "reading" /\ stream[r].pipe = "open"
  /\ loop.call = r
  /\ call' = [call EXCEPT ![r] = "holding"]
  /\ loop' = Idle
  /\ recvWin' = IF closed THEN recvWin ELSE recvWin + 1
  /\ IF loop.last THEN EndOfBody(r) ELSE UNCHANGED <<stream, streams>>
  /\ UNCHANGED <<ended, sid, nextID, sentVars, winVars, goAway, closed, peer, frames, histVars>>

\* EOF or the error the pipe was closed with; the caller closes the body.
ReadsEnd(r) ==
  /\ call[r] = "reading" /\ stream[r].pipe # "open"
  /\ EndCall(r, stream[r].pipe)
  /\ UNCHANGED <<sid, nextID, streams, stream, sentVars, winVars, connVars, peerVars, histVars>>

\* The caller closes the body before its end: RST_STREAM unless it is done.
Closes(r) ==
  /\ call[r] = "holding"
  /\ EndCall(r, "error")
  /\ IF stream[r].done
     THEN UNCHANGED <<stream, streams>>
     ELSE stream' = [stream EXCEPT ![r] = Reset(@)] /\ Forget(r)
  /\ UNCHANGED <<sid, nextID, sentVars, winVars, connVars, peerVars, histVars>>

\* The pipe is closed under the read loop's Write: the stream is reset, and the
\* window of the data is not given back.
LoopGivesUp ==
  /\ loop.call # NoCall
  /\ stream[loop.call].pipe # "open"
  /\ loop' = Idle
  /\ stream' = [stream EXCEPT ![loop.call] = Reset(@)]
  /\ Forget(loop.call)
  /\ UNCHANGED <<callVars, sentVars, winVars, goAway, closed, peerVars, histVars>>

(***************************************************************************)
(* The read loop, when it is not handing DATA over: the next frame.        *)
(***************************************************************************)

\* A frame is read; a peer that saw an id out of order only ends the connection.
Frame ==
  /\ loop = Idle /\ ~closed
  /\ frames < MaxFrames
  /\ \A r \in Calls : peer[r] # "refused"
  /\ frames' = frames + 1

PeerTo(r, to) == peer' = [peer EXCEPT ![r] = to]

\* handleHeaders, the response's: the caller is told; END_STREAM ends the body.
ReceivesHeaders(r) ==
  /\ Frame /\ peer[r] = "open"
  /\ \E end \in BOOLEAN :
       /\ PeerTo(r, IF end THEN "ended" ELSE "answering")
       /\ IF r \notin streams
          THEN UNCHANGED <<stream, streams>>
          ELSE LET st == [stream[r] EXCEPT !.hdr = TRUE]
               IN IF end
                  THEN stream' = [stream EXCEPT ![r] = Finished(Piped(st, "eof"))] /\ Forget(r)
                  ELSE stream' = [stream EXCEPT ![r] = st] /\ UNCHANGED streams
  /\ UNCHANGED <<callVars, sentVars, winVars, connVars, recvWin, histVars>>

\* handleData: the loop waits for the reader; DATA of a forgotten stream is
\* dropped and its window is not given back.
ReceivesData(r) ==
  /\ Frame /\ peer[r] = "answering" /\ recvWin > 0
  /\ recvWin' = recvWin - 1
  /\ \E end \in BOOLEAN :
       /\ IF end THEN PeerTo(r, "ended") ELSE UNCHANGED peer
       /\ loop' = IF r \in streams THEN [call |-> r, last |-> end] ELSE Idle
  /\ UNCHANGED <<callVars, streams, stream, sentVars, winVars, goAway, closed, histVars>>

\* Trailers, or an empty DATA frame with END_STREAM.
ReceivesEnd(r) ==
  /\ Frame /\ peer[r] = "answering"
  /\ PeerTo(r, "ended")
  /\ IF r \in streams THEN EndOfBody(r) ELSE UNCHANGED <<stream, streams>>
  /\ UNCHANGED <<callVars, sentVars, winVars, connVars, recvWin, histVars>>

\* handleReset.
ReceivesReset(r) ==
  /\ Frame /\ peer[r] \in {"open", "answering"}
  /\ PeerTo(r, "reset")
  /\ IF r \in streams
     THEN stream' = [stream EXCEPT ![r] = Reset(@)] /\ Forget(r)
     ELSE UNCHANGED <<stream, streams>>
  /\ UNCHANGED <<callVars, sentVars, winVars, connVars, recvWin, histVars>>

\* Mutant: the streams in flight keep the window they had.
ShiftedNone(delta) == sendWin

\* The difference is applied to every stream in flight.
Shifted(delta) == [r \in Calls |-> sendWin[r] + IF r \in streams THEN delta ELSE 0]

\* handleSettings, under mu.  The peer may not hold the client to a smaller
\* window before it has the ACK.
ReceivesSettings ==
  /\ Frame
  /\ \E w \in StreamWin \ {initStreamWin} :
       /\ initStreamWin' = w
       /\ peerWin' = IF w > peerWin THEN w ELSE peerWin
       /\ sendWin' = Shifted(w - initStreamWin)
  /\ loop' = AckDue
  /\ UNCHANGED <<callVars, streams, stream, sentVars, connSendWin, goAway, closed, peer, recvWin,
                 wire, granted, grantedAll>>

\* And under wmu: the ACK, after which the peer counts with the new window.
Acks ==
  /\ loop = AckDue
  /\ loop' = Idle
  /\ peerWin' = initStreamWin
  /\ overtaken' = {r \in Calls : hand[r] > 0}
  /\ UNCHANGED <<callVars, streams, stream, writer, left, hand, sent, sentAll, winVars, goAway,
                 closed, peerVars, wire, granted, grantedAll>>

\* handleWindowUpdate, for the connection or a stream.
ReceivesWindow ==
  /\ Frame
  /\ \/ /\ connSendWin' = connSendWin + 1
        /\ grantedAll' = grantedAll + 1
        /\ UNCHANGED <<sendWin, granted>>
     \/ \E r \in Calls :
          /\ peer[r] \in {"open", "answering"} /\ r \in streams
          /\ sendWin' = [sendWin EXCEPT ![r] = @ + 1]
          /\ granted' = [granted EXCEPT ![r] = @ + 1]
          /\ UNCHANGED <<connSendWin, grantedAll>>
  /\ UNCHANGED <<callVars, streams, stream, sentVars, initStreamWin, connVars, peer, recvWin,
                 wire, peerWin>>

\* GOAWAY: no new requests; those in flight go on.
ReceivesGoAway ==
  /\ Frame /\ ~goAway
  /\ goAway' = TRUE
  /\ UNCHANGED <<callVars, streams, stream, sentVars, winVars, closed, loop, peer, recvWin,
                 histVars>>

\* closeWithErr, with io.EOF when the peer closed the connection between two
\* frames: a pipe closed with io.EOF reads like the end of a complete body.  The
\* streams stay in the table, not marked closed.
ConnectionEnds ==
  /\ loop = Idle /\ ~closed
  /\ closed' = TRUE
  /\ \E how \in {"eof", "error"} :
       stream' = [r \in Calls |-> IF r \in streams
                                  THEN [Piped(stream[r], how) EXCEPT !.done = TRUE]
                                  ELSE stream[r]]
  /\ UNCHANGED <<callVars, streams, sentVars, winVars, goAway, loop, peerVars, histVars>>

\* What roundTrip and a Read under way do by themselves; what a caller with the
\* body does next is its own affair.
GoesOn(r) ==
  \/ WritesHeaders(r)
  \/ Deadline(r) \/ SeesDone(r) \/ TakesHeaders(r)
  \/ ReadsData(r) \/ ReadsEnd(r)

Caller(r) == AsksMore(r) \/ Closes(r)

Received(r) ==
  ReceivesHeaders(r) \/ ReceivesData(r) \/ ReceivesEnd(r) \/ ReceivesReset(r)

H2Next ==
  \/ \E r \in Calls : Reserves(r) \/ GoesOn(r) \/ Caller(r) \/ Writer(r) \/ Received(r)
  \/ LoopGivesUp \/ Acks
  \/ ReceivesSettings \/ ReceivesWindow \/ ReceivesGoAway \/ ConnectionEnds

(***************************************************************************)
(* roundTrip waits no longer than its context's deadline; writers and the  *)
(* read loop run.  That a write on the TCP connection returns, with an     *)
(* error if need be, is assumed of the network: no deadline is set on it.  *)
(* Nothing is assumed of the frames of the peer, nor that a request is     *)
(* made, nor that a caller with a body asks for more of it or closes it:   *)
(* it may be writing to a client of its own that has stopped reading.      *)
(***************************************************************************)
H2Fairness ==
  /\ \A r \in Calls : WF_h2Vars(GoesOn(r)) /\ WF_h2Vars(Writer(r))
  /\ WF_h2Vars(LoopGivesUp) /\ WF_h2Vars(Acks)

H2Spec == H2Init /\ [][H2Next]_h2Vars /\ H2Fairness

(***************************************************************************)
(* Properties.                                                             *)
(***************************************************************************)

\* Whatever order the peer's SETTINGS and WINDOW_UPDATEs come in between two
\* writers sharing the connection, DATA goes out only within what the peer has
\* allowed, for the stream and for the connection (writeData, handleSettings,
\* handleWindowUpdate); the one exception is a chunk that was charged before the
\* ACK of a smaller window and is written after it.
WithinWindows ==
  [][\A r \in Calls : sent'[r] # sent[r] =>
       /\ r \in overtaken \/ sent'[r] <= peerWin + granted[r]
       /\ sentAll' <= FirstWin + grantedAll]_h2Vars

\* Where a call ended, by whoever noticed it, its stream is out of the table of
\* a live connection: otherwise the shared connection grows for as long as it
\* lives (finishStream, removeStream, resetStream).
NoStreamLeak ==
  \A r \in Calls : call[r] = "over" /\ ~closed => r \notin streams

\* A body that reads as complete was ended by the peer, or by the end of the
\* connection: a reset, by either side, never reads as a complete body.
CleanEnd ==
  \A r \in Calls : ended[r] = "eof" => peer[r] = "ended" \/ closed

\* A call that has ended does not leave its body writer behind, asleep on a
\* window the peer will not open: finishStream and closeWithErr wake it.
WriterFollowsItsCall ==
  \A r \in Calls : call[r] = "over" ~> writer[r] # "sending"

\* The read loop every request depends on stays in the hands of one of them only
\* while that one has data and neither asks for more nor closes the body: a
\* reader takes the data, and the end of a call, whatever brings it, lets go.
LoopMovesOn ==
  \A r \in Calls : []<>(call[r] # "holding") => []<>(loop.call # r)
=============================================================================

--------------------------- MODULE Transport_proofs -------------------------
(***************************************************************************)
(* Theorems about the HTTP/2 client, for any requests, bodies, windows and *)
(* connections.  Of one connection: its types, that an ended call leaves   *)
(* no stream behind, that a reset is never read as a complete body, and    *)
(* that DATA stays within the windows.  Of the pool of connections: its    *)
(* types, that it writes a request at most once (module OneSend), and that *)
(* a usable connection stays pooled.  Of the two together, as MCTransport  *)
(* composes them: their types.                                             *)
(***************************************************************************)
EXTENDS MCTransport, FiniteSetTheorems, TLAPS

(***************************************************************************)
(* One connection.  Four goroutines end a stream (the caller, its writer,  *)
(* the read loop, the end of the connection), each seeing the others' work *)
(* through the same few flags; StreamInv says what those flags tell about  *)
(* the table and about the peer.                                           *)
(***************************************************************************)

\* Before roundTrip has an id, nothing exists of a call, here or at the peer;
\* until HEADERS are written the peer knows nothing of it.
Untouched(r) ==
  /\ call[r] = "idle" => stream[r] = NewStream /\ r \notin streams /\ writer[r] = "none"
  /\ call[r] \in {"idle", "reserved"} => peer[r] = "unaware"

\* On a live connection a finished stream is out of the table, and a pipe that
\* was closed is of a finished stream.
FinishedIsOut(r) ==
  /\ ~closed /\ stream[r].done => r \notin streams
  /\ stream[r].pipe # "open" => stream[r].done

\* A pipe closed with io.EOF, and the last DATA of a body on its way to the
\* reader, are of a stream the peer ended.
EndedByPeer(r) ==
  /\ stream[r].pipe = "eof" => peer[r] = "ended" \/ closed
  /\ loop.call = r /\ loop.last => peer[r] = "ended"

StreamInv == \A r \in Calls : Untouched(r) /\ FinishedIsOut(r) /\ EndedByPeer(r)

H2Inv == H2TypeOK /\ nextID # 0 /\ StreamInv /\ NoStreamLeak /\ CleanEnd

-----------------------------------------------------------------------------

\* An answer in hdrCh changes nothing else of its stream.
LEMMA AnsweredStream ==
  ASSUME NEW st \in Stream, NEW b \in BOOLEAN
  PROVE  LET new == [st EXCEPT !.hdr = b]
         IN  /\ new \in Stream /\ new.pipe = st.pipe
             /\ new.done = st.done /\ new.closed = st.closed
BY DEF Stream

\* A finished stream keeps its pipe and its answer.
LEMMA FinishedStream ==
  ASSUME NEW st \in Stream
  PROVE  /\ Finished(st) \in Stream
         /\ Finished(st).done /\ Finished(st).closed /\ Finished(st).pipe = st.pipe
BY DEF Finished, Stream

\* Whatever closes a pipe, the first to do it decides how it reads.
LEMMA PipedStream ==
  ASSUME NEW st \in Stream, NEW how \in {"eof", "error"}
  PROVE  /\ Piped(st, how) \in Stream
         /\ Piped(st, how).pipe # "open"
         /\ Piped(st, how).pipe \in {st.pipe, how}
         /\ Piped(st, how).done = st.done /\ Piped(st, how).closed = st.closed
BY DEF Piped, Stream

\* A reset finishes the stream and never turns its pipe into a complete body.
LEMMA ResetStream ==
  ASSUME NEW st \in Stream
  PROVE  /\ Reset(st) \in Stream
         /\ Reset(st).done /\ Reset(st).closed /\ Reset(st).pipe # "open"
         /\ Reset(st).pipe = "eof" => st.pipe = "eof"
BY PipedStream, FinishedStream DEF Reset

\* The end of a body finishes the stream.
LEMMA EndedStream ==
  ASSUME NEW st \in Stream
  PROVE  /\ Finished(Piped(st, "eof")) \in Stream
         /\ Finished(Piped(st, "eof")).done /\ Finished(Piped(st, "eof")).closed
         /\ Finished(Piped(st, "eof")).pipe # "open"
BY PipedStream, FinishedStream

\* writeData sends something, and no more than is left and allowed.
LEMMA ChunkBounds ==
  ASSUME H2TypeOK, NEW r \in Calls, left[r] > 0, MayWrite(r)
  PROVE  /\ Chunk(r) \in Nat \ {0}
         /\ Chunk(r) <= left[r] /\ Chunk(r) <= sendWin[r] /\ Chunk(r) <= connSendWin
<1> DEFINE a == left[r]
           b == sendWin[r]
           c == connSendWin
<1>1. a \in Int /\ b \in Int /\ c \in Int BY DEF H2TypeOK
<1>2. Chunk(r) = LeastOf({a, b, c}) BY DEF Chunk
<1>3. a > 0 /\ b > 0 /\ c > 0 BY DEF MayWrite
<1> HIDE DEF a, b, c
<1>4. Chunk(r) \in {a, b, c} /\ Chunk(r) <= a /\ Chunk(r) <= b /\ Chunk(r) <= c
  <2>1. \E x \in {a, b, c} : \A y \in {a, b, c} : x <= y
    <3>1. CASE a <= b /\ a <= c BY <1>1, <3>1
    <3>2. CASE b <= a /\ b <= c BY <1>1, <3>2
    <3>3. CASE c <= a /\ c <= b BY <1>1, <3>3
    <3> QED BY <1>1, <3>1, <3>2, <3>3
  <2>2. /\ LeastOf({a, b, c}) \in {a, b, c}
        /\ \A y \in {a, b, c} : LeastOf({a, b, c}) <= y
        BY <2>1 DEF LeastOf
  <2> QED BY <1>2, <2>2
<1>5. Chunk(r) \in Nat \ {0} BY <1>1, <1>3, <1>4
<1> QED BY <1>4, <1>5 DEF a, b, c

-----------------------------------------------------------------------------

\* A new connection has no call under way and an empty table.
LEMMA InitH2 == H2Init => H2Inv
<1> SUFFICES ASSUME H2Init PROVE H2Inv
    OBVIOUS
<1>1. /\ left \in [Calls -> Nat] /\ \A r \in Calls : left[r] + hand[r] + sent[r] = Upload[r]
      /\ initStreamWin \in Nat /\ peerWin \in Nat /\ connSendWin \in Int /\ recvWin \in Nat
      BY H2Assumption DEF H2Init
<1>2. stream \in [Calls -> Stream] BY DEF H2Init, NewStream, Stream
<1>3. streams = {} /\ loop \in [call : Calls \cup {NoCall}, last : BOOLEAN]
      BY DEF H2Init, Idle
<1>4. granted \in [Calls -> Nat] /\ hand \in [Calls -> Nat] /\ sent \in [Calls -> Nat] /\ sendWin \in [Calls -> Int]
      /\ sid \in [Calls -> Nat]
      BY DEF H2Init
<1>5. H2TypeOK BY <1>1, <1>2, <1>3, <1>4 DEF H2Init, H2TypeOK, Ending
<1>6. StreamInv
      BY DEF H2Init, StreamInv, Untouched, FinishedIsOut, EndedByPeer, NewStream, Idle
<1> QED BY <1>5, <1>6 DEF H2Init, H2Inv, NoStreamLeak, CleanEnd

\* roundTrip puts its stream into the table under mu, before anything is written.
LEMMA ReservesInv ==
  ASSUME H2Inv, NEW r \in Calls, Reserves(r)
  PROVE  H2Inv'
<1> USE DEF H2Inv, Reserves, EndCall, sentVars, connVars, peerVars, histVars
<1>1. H2TypeOK' /\ nextID' # 0
      BY DEF H2TypeOK, Ending, StreamInv, Untouched, NewStream
<1>2. StreamInv'
      BY DEF H2TypeOK, StreamInv, Untouched, FinishedIsOut, EndedByPeer, NewStream
<1>3. NoStreamLeak' BY DEF H2TypeOK, NoStreamLeak, StreamInv, Untouched
<1>4. CleanEnd' BY DEF H2TypeOK, CleanEnd
<1> QED BY <1>1, <1>2, <1>3, <1>4

\* HEADERS go out, or the stream is taken back out of the table.
LEMMA WritesHeadersInv ==
  ASSUME H2Inv, NEW r \in Calls, WritesHeaders(r)
  PROVE  H2Inv'
<1> USE DEF H2Inv, WritesHeaders, EndCall, Forget, winVars, connVars
<1>1. H2TypeOK' /\ nextID' # 0
  <2>1. UNCHANGED <<sid, nextID, stream, left, hand, sent, sentAll, overtaken, winVars, connVars,
                    recvWin, frames, granted, grantedAll, peerWin>>
        OBVIOUS
  <2>2. /\ call' \in [Calls -> {"idle", "reserved", "waiting", "holding", "reading", "over"}]
        /\ ended' \in [Calls -> Ending] /\ streams' \subseteq streams
        /\ writer' \in [Calls -> {"none", "sending", "done"}]
        BY DEF H2TypeOK, Ending
  <2>3. /\ wire' \in Nat
        /\ peer' \in [Calls -> {"unaware", "refused", "open", "answering", "ended", "reset"}]
        BY DEF H2TypeOK
  <2> QED BY <2>1, <2>2, <2>3 DEF H2TypeOK
<1>2. StreamInv' BY DEF H2TypeOK, StreamInv, Untouched, FinishedIsOut, EndedByPeer
<1>3. NoStreamLeak' BY DEF H2TypeOK, NoStreamLeak
<1>4. CleanEnd' BY DEF H2TypeOK, CleanEnd, StreamInv, Untouched
<1> QED BY <1>1, <1>2, <1>3, <1>4

\* What resetting a stream keeps, whoever does it and whatever becomes of its call.
LEMMA ResetKeeps ==
  ASSUME H2Inv, NEW r \in Calls, NEW st \in Stream,
         st.pipe = stream[r].pipe,
         call[r] # "idle",
         stream' = [stream EXCEPT ![r] = Reset(st)], Forget(r),
         UNCHANGED <<peer, closed, sid>>,
         loop' \in {loop, Idle},
         \A q \in Calls : q # r => call'[q] = call[q] /\ writer'[q] = writer[q],
         call'[r] \in {call[r], "over"}
  PROVE  /\ stream' \in [Calls -> Stream] /\ streams' \subseteq Calls
         /\ \A q \in streams' : sid'[q] # 0 /\ ~stream'[q].closed
         /\ StreamInv' /\ NoStreamLeak'
<1> DEFINE new == Reset(st)
<1>1. new \in Stream /\ new.done /\ new.pipe # "open" /\ (new.pipe = "eof" => st.pipe = "eof")
      BY ResetStream
<1>2. stream' = [stream EXCEPT ![r] = new] OBVIOUS
<1> HIDE DEF new
<1>3. stream'[r] = new /\ \A q \in Calls : q # r => stream'[q] = stream[q]
      BY <1>2 DEF H2Inv, H2TypeOK
<1>4. stream' \in [Calls -> Stream] /\ streams' \subseteq Calls
      BY <1>1, <1>2 DEF H2Inv, H2TypeOK, Forget
<1>5. \A q \in streams' : sid'[q] # 0 /\ ~stream'[q].closed
      BY <1>3 DEF H2Inv, H2TypeOK, Forget
<1>6. StreamInv'
  <2> SUFFICES ASSUME NEW q \in Calls
               PROVE  Untouched(q)' /\ FinishedIsOut(q)' /\ EndedByPeer(q)'
      BY DEF StreamInv
  <2>1. CASE q = r
        BY <1>1, <1>3, <2>1
        DEF H2Inv, StreamInv, Untouched, FinishedIsOut, EndedByPeer, Forget, Idle
  <2>2. CASE q # r
        BY <1>3, <2>2
        DEF H2Inv, StreamInv, Untouched, FinishedIsOut, EndedByPeer, Forget, Idle
  <2> QED BY <2>1, <2>2
<1>7. NoStreamLeak' BY DEF H2Inv, NoStreamLeak, Forget
<1> QED BY <1>4, <1>5, <1>6, <1>7

\* A call whose context ends resets its stream, which leaves the table.
LEMMA DeadlineInv ==
  ASSUME H2Inv, NEW r \in Calls, Deadline(r)
  PROVE  H2Inv'
<1> USE DEF Deadline, EndCall, sentVars, winVars, connVars, peerVars, histVars
<1>1. stream[r] \in Stream /\ call[r] # "idle" BY DEF H2Inv, H2TypeOK
<1>2. call'[r] = "over" /\ \A q \in Calls : q # r => call'[q] = call[q]
      BY DEF H2Inv, H2TypeOK
<1>3. /\ stream' \in [Calls -> Stream] /\ streams' \subseteq Calls
      /\ \A q \in streams' : sid'[q] # 0 /\ ~stream'[q].closed
      /\ StreamInv' /\ NoStreamLeak'
      BY <1>1, <1>2, ResetKeeps
<1>4. H2TypeOK' BY <1>3 DEF H2Inv, H2TypeOK, Ending
<1>5. CleanEnd' BY DEF H2Inv, H2TypeOK, CleanEnd
<1> QED BY <1>3, <1>4, <1>5 DEF H2Inv

\* Whoever set done has taken the stream out before.
LEMMA SeesDoneInv ==
  ASSUME H2Inv, NEW r \in Calls, SeesDone(r)
  PROVE  H2Inv'
<1> USE DEF H2Inv, SeesDone, EndCall, sentVars, winVars, connVars, peerVars, histVars
<1>1. H2TypeOK' /\ nextID' # 0 BY DEF H2TypeOK, Ending
<1>2. StreamInv' BY DEF H2TypeOK, StreamInv, Untouched, FinishedIsOut, EndedByPeer
<1>3. NoStreamLeak' BY DEF H2TypeOK, NoStreamLeak, StreamInv, FinishedIsOut
<1>4. CleanEnd' BY DEF H2TypeOK, CleanEnd
<1> QED BY <1>1, <1>2, <1>3, <1>4

\* The caller takes the answer over; the table is left alone.
LEMMA TakesHeadersInv ==
  ASSUME H2Inv, NEW r \in Calls, TakesHeaders(r)
  PROVE  H2Inv'
<1> DEFINE st == [stream[r] EXCEPT !.hdr = FALSE]
<1> USE DEF EndCall, sentVars, winVars, connVars, peerVars, histVars
<1>1. /\ st \in Stream /\ st.pipe = stream[r].pipe
      /\ st.done = stream[r].done /\ st.closed = stream[r].closed
  <2>1. stream[r] \in Stream BY DEF H2Inv, H2TypeOK
  <2> QED BY <2>1, AnsweredStream
<1>2. call[r] = "waiting" BY DEF TakesHeaders
<1>3. UNCHANGED <<sid, nextID, sentVars, winVars, connVars, peerVars, histVars>>
      BY DEF TakesHeaders
<1>4. CASE call' = [call EXCEPT ![r] = "holding"] /\ stream' = [stream EXCEPT ![r] = st]
           /\ UNCHANGED <<ended, streams>>
  <2> HIDE DEF st
  <2>1. H2TypeOK' /\ nextID' # 0 BY <1>1, <1>3, <1>4 DEF H2Inv, H2TypeOK
  <2>2. StreamInv'
        BY <1>1, <1>2, <1>3, <1>4
        DEF H2Inv, H2TypeOK, StreamInv, Untouched, FinishedIsOut, EndedByPeer
  <2>3. NoStreamLeak' /\ CleanEnd'
        BY <1>3, <1>4 DEF H2Inv, H2TypeOK, NoStreamLeak, CleanEnd
  <2> QED BY <2>1, <2>2, <2>3 DEF H2Inv
<1>5. CASE EndCall(r, "error") /\ stream' = [stream EXCEPT ![r] = Reset(st)] /\ Forget(r)
  <2> HIDE DEF st
  <2>1. call'[r] = "over" /\ \A q \in Calls : q # r => call'[q] = call[q]
        BY <1>5 DEF H2Inv, H2TypeOK
  <2>2. /\ stream' \in [Calls -> Stream] /\ streams' \subseteq Calls
        /\ \A q \in streams' : sid'[q] # 0 /\ ~stream'[q].closed
        /\ StreamInv' /\ NoStreamLeak'
        BY <1>1, <1>2, <1>3, <1>5, <2>1, ResetKeeps
  <2>3. H2TypeOK' BY <1>3, <1>5, <2>2 DEF H2Inv, H2TypeOK, Ending
  <2>4. CleanEnd' BY <1>3, <1>5 DEF H2Inv, H2TypeOK, CleanEnd
  <2> QED BY <1>3, <2>2, <2>3, <2>4 DEF H2Inv
<1> QED BY <1>4, <1>5 DEF TakesHeaders

\* A chunk moves from what is left to the hand of the writer.
LEMMA DebitsInv ==
  ASSUME H2Inv, NEW r \in Calls, Debits(r)
  PROVE  H2Inv'
<1> USE DEF Debits, callVars, connVars, peerVars, histVars
<1>1. Chunk(r) \in Nat \ {0} /\ Chunk(r) <= left[r] BY ChunkBounds DEF H2Inv
<1> DEFINE n == Chunk(r)
<1>2. /\ left' = [left EXCEPT ![r] = @ - n] /\ hand' = [hand EXCEPT ![r] = n]
      /\ sendWin' = [sendWin EXCEPT ![r] = @ - n] /\ connSendWin' = connSendWin - n
      /\ hand[r] = 0
      OBVIOUS
<1> HIDE DEF n
<1>3. n \in Nat /\ n <= left[r] BY <1>1 DEF n
<1>4. left' \in [Calls -> Nat] /\ hand' \in [Calls -> Nat]
      /\ sendWin' \in [Calls -> Int] /\ connSendWin' \in Int
      BY <1>2, <1>3 DEF H2Inv, H2TypeOK
<1>5. ASSUME NEW q \in Calls PROVE left'[q] + hand'[q] + sent[q] = Upload[q]
  <2>1. /\ left[q] \in Nat /\ hand[q] \in Nat /\ sent[q] \in Nat
        /\ left[q] + hand[q] + sent[q] = Upload[q]
        BY DEF H2Inv, H2TypeOK
  <2>2. CASE q = r
    <3>1. left'[q] = left[q] - n /\ hand'[q] = n /\ hand[q] = 0
          BY <1>2, <2>2 DEF H2Inv, H2TypeOK
    <3> QED BY <1>3, <2>1, <3>1
  <2>3. CASE q # r
    <3>1. left'[q] = left[q] /\ hand'[q] = hand[q] BY <1>2, <2>3 DEF H2Inv, H2TypeOK
    <3> QED BY <2>1, <3>1
  <2> QED BY <2>2, <2>3
<1>6. H2TypeOK' BY <1>4, <1>5 DEF H2Inv, H2TypeOK
<1>7. nextID' # 0 /\ StreamInv' /\ NoStreamLeak' /\ CleanEnd'
      BY DEF H2Inv, StreamInv, Untouched, FinishedIsOut, EndedByPeer, NoStreamLeak, CleanEnd
<1> QED BY <1>6, <1>7 DEF H2Inv

\* The writer's error path: its stream is reset.
LEMMA BreaksOffInv ==
  ASSUME H2Inv, NEW r \in Calls, writer[r] = "sending", BreaksOff(r),
         UNCHANGED <<callVars, left, hand, sent, sentAll, overtaken, winVars, connVars, peerVars,
                     histVars>>
  PROVE  H2Inv'
<1> USE DEF callVars, winVars, connVars, peerVars, histVars
<1>1. /\ writer' = [writer EXCEPT ![r] = "done"]
      /\ stream' = [stream EXCEPT ![r] = Reset(@)] /\ Forget(r)
      BY DEF BreaksOff
<1>2. stream[r] \in Stream /\ call[r] # "idle"
      BY DEF H2Inv, H2TypeOK, StreamInv, Untouched
<1>3. \A q \in Calls : q # r => writer'[q] = writer[q]
      BY <1>1 DEF H2Inv, H2TypeOK
<1>4. CleanEnd' /\ nextID' # 0 BY DEF H2Inv, CleanEnd
<1>5. /\ stream' \in [Calls -> Stream] /\ streams' \subseteq Calls
      /\ \A q \in streams' : sid'[q] # 0 /\ ~stream'[q].closed
      /\ StreamInv' /\ NoStreamLeak'
      BY <1>1, <1>2, <1>3, ResetKeeps
<1>6. H2TypeOK' BY <1>1, <1>5 DEF H2Inv, H2TypeOK
<1> QED BY <1>4, <1>5, <1>6 DEF H2Inv

\* Writing DATA touches nothing the invariant relates; a failed write resets.
LEMMA WritesDataInv ==
  ASSUME H2Inv, NEW r \in Calls, WritesData(r)
  PROVE  H2Inv'
<1> USE DEF callVars, winVars, connVars, peerVars, histVars
<1>1. /\ writer[r] = "sending" /\ UNCHANGED <<callVars, left, winVars, connVars, peerVars, histVars>>
      BY DEF WritesData
<1>2. CASE BreaksOff(r) /\ UNCHANGED <<hand, sent, sentAll, overtaken>>
      BY <1>1, <1>2, BreaksOffInv
<1>3. CASE /\ sent' = [sent EXCEPT ![r] = @ + hand[r]] /\ sentAll' = sentAll + hand[r]
           /\ hand' = [hand EXCEPT ![r] = 0] /\ overtaken' = overtaken \ {r}
           /\ UNCHANGED <<writer, stream, streams>>
  <2>1. /\ sent' \in [Calls -> Nat] /\ hand' \in [Calls -> Nat] /\ sentAll' \in Nat
        /\ overtaken' \subseteq Calls
        BY <1>3 DEF H2Inv, H2TypeOK
  <2>2. ASSUME NEW q \in Calls PROVE left[q] + hand'[q] + sent'[q] = Upload[q]
    <3>1. /\ left[q] \in Nat /\ hand[q] \in Nat /\ sent[q] \in Nat
          /\ left[q] + hand[q] + sent[q] = Upload[q]
          BY DEF H2Inv, H2TypeOK
    <3>2. CASE q = r
      <4>1. hand'[q] = 0 /\ sent'[q] = sent[q] + hand[q]
            BY <1>3, <3>2 DEF H2Inv, H2TypeOK
      <4> QED BY <3>1, <4>1
    <3>3. CASE q # r
      <4>1. hand'[q] = hand[q] /\ sent'[q] = sent[q] BY <1>3, <3>3 DEF H2Inv, H2TypeOK
      <4> QED BY <3>1, <4>1
    <3> QED BY <3>2, <3>3
  <2>3. H2TypeOK' BY <1>1, <1>3, <2>1, <2>2 DEF H2Inv, H2TypeOK
  <2>4. nextID' # 0 /\ StreamInv' /\ NoStreamLeak' /\ CleanEnd'
        BY <1>1, <1>3
        DEF H2Inv, StreamInv, Untouched, FinishedIsOut, EndedByPeer, NoStreamLeak, CleanEnd
  <2> QED BY <2>3, <2>4 DEF H2Inv
<1> QED BY <1>2, <1>3 DEF WritesData

\* The writer's own end: WritesEnd and WriterGivesUp.
LEMMA WriterEndsInv ==
  ASSUME H2Inv, NEW r \in Calls, WritesEnd(r) \/ WriterGivesUp(r)
  PROVE  H2Inv'
<1> USE DEF callVars, winVars, connVars, peerVars, histVars
<1>1. /\ writer[r] = "sending"
      /\ UNCHANGED <<callVars, left, hand, sent, sentAll, overtaken, winVars, connVars, peerVars,
                     histVars>>
      BY DEF WritesEnd, WriterGivesUp
<1>2. CASE BreaksOff(r) BY <1>1, <1>2, BreaksOffInv
<1>3. CASE writer' = [writer EXCEPT ![r] = "done"] /\ UNCHANGED <<stream, streams>>
  <2>1. call[r] # "idle" BY <1>1 DEF H2Inv, StreamInv, Untouched
  <2>2. \A q \in Calls : q # r => writer'[q] = writer[q]
        BY <1>3 DEF H2Inv, H2TypeOK
  <2>3. H2TypeOK' BY <1>1, <1>3 DEF H2Inv, H2TypeOK
  <2>4. StreamInv'
        BY <1>1, <1>3, <2>1, <2>2 DEF H2Inv, StreamInv, Untouched, FinishedIsOut, EndedByPeer
  <2>5. NoStreamLeak' /\ CleanEnd' /\ nextID' # 0
        BY <1>1, <1>3 DEF H2Inv, NoStreamLeak, CleanEnd
  <2> QED BY <2>3, <2>4, <2>5 DEF H2Inv
<1> QED BY <1>1, <1>2, <1>3 DEF WritesEnd, WriterGivesUp

\* What the end of a body keeps, when the peer has ended the stream or ends it now.
LEMMA EndOfBodyKeeps ==
  ASSUME H2Inv, NEW r \in Calls, NEW st \in Stream,
         call[r] \notin {"idle", "reserved"}, peer'[r] = "ended",
         \A q \in Calls : q # r => peer'[q] = peer[q],
         stream' = [stream EXCEPT ![r] = Finished(Piped(st, "eof"))], Forget(r),
         call' = call \/ call' = [call EXCEPT ![r] = "holding"],
         UNCHANGED <<writer, closed, sid>>,
         loop' \in {loop, Idle}
  PROVE  /\ stream' \in [Calls -> Stream] /\ streams' \subseteq Calls
         /\ \A q \in streams' : sid'[q] # 0 /\ ~stream'[q].closed
         /\ StreamInv' /\ NoStreamLeak'
<1> DEFINE new == Finished(Piped(st, "eof"))
<1>1. new \in Stream /\ new.done /\ new.pipe # "open" BY EndedStream
<1>2. stream' = [stream EXCEPT ![r] = new] OBVIOUS
<1> HIDE DEF new
<1>3. stream'[r] = new /\ \A q \in Calls : q # r => stream'[q] = stream[q]
      BY <1>2 DEF H2Inv, H2TypeOK
<1>4. call'[r] \in {call[r], "holding"} /\ \A q \in Calls : q # r => call'[q] = call[q]
      BY DEF H2Inv, H2TypeOK
<1>5. stream' \in [Calls -> Stream] /\ streams' \subseteq Calls
      BY <1>1, <1>2 DEF H2Inv, H2TypeOK, Forget
<1>6. \A q \in streams' : sid'[q] # 0 /\ ~stream'[q].closed
      BY <1>3 DEF H2Inv, H2TypeOK, Forget
<1>7. StreamInv'
  <2> SUFFICES ASSUME NEW q \in Calls
               PROVE  Untouched(q)' /\ FinishedIsOut(q)' /\ EndedByPeer(q)'
      BY DEF StreamInv
  <2>1. CASE q = r
        BY <1>1, <1>3, <1>4, <2>1
        DEF H2Inv, StreamInv, Untouched, FinishedIsOut, EndedByPeer, Forget, Idle
  <2>2. CASE q # r
        BY <1>3, <1>4, <2>2
        DEF H2Inv, StreamInv, Untouched, FinishedIsOut, EndedByPeer, Forget, Idle
  <2> QED BY <2>1, <2>2
<1>8. NoStreamLeak' BY <1>4 DEF H2Inv, NoStreamLeak, Forget
<1> QED BY <1>5, <1>6, <1>7, <1>8

\* Reading the last DATA makes the pipe end as the peer meant it to.
LEMMA ReadsDataInv ==
  ASSUME H2Inv, NEW r \in Calls, ReadsData(r)
  PROVE  H2Inv'
<1> USE DEF callVars, sentVars, winVars, histVars
<1>1. /\ call[r] = "reading" /\ loop.call = r /\ loop' = Idle
      /\ recvWin' = IF closed THEN recvWin ELSE recvWin + 1
      /\ call' = [call EXCEPT ![r] = "holding"]
      /\ UNCHANGED <<ended, sid, nextID, sentVars, winVars, goAway, closed, peer, frames, histVars>>
      BY DEF ReadsData
<1>2. /\ recvWin' \in Nat /\ loop' \in [call : Calls \cup {NoCall}, last : BOOLEAN]
      /\ call' \in [Calls -> {"idle", "reserved", "waiting", "holding", "reading", "over"}]
      /\ call'[r] = "holding" /\ \A q \in Calls : q # r => call'[q] = call[q]
      BY <1>1 DEF H2Inv, H2TypeOK, Idle
<1>3. CleanEnd' /\ nextID' # 0 BY <1>1 DEF H2Inv, CleanEnd
<1>4. CASE loop.last /\ EndOfBody(r)
  <2>1. peer[r] = "ended" /\ stream[r] \in Stream
        BY <1>1, <1>4 DEF H2Inv, H2TypeOK, StreamInv, EndedByPeer
  <2>2. /\ stream' \in [Calls -> Stream] /\ streams' \subseteq Calls
        /\ \A q \in streams' : sid'[q] # 0 /\ ~stream'[q].closed
        /\ StreamInv' /\ NoStreamLeak'
        BY <1>1, <1>4, <2>1, EndOfBodyKeeps DEF EndOfBody
  <2>3. H2TypeOK' BY <1>1, <1>2, <2>2 DEF H2Inv, H2TypeOK
  <2> QED BY <1>3, <2>2, <2>3 DEF H2Inv
<1>5. CASE UNCHANGED <<stream, streams>>
  <2>1. H2TypeOK' BY <1>1, <1>2, <1>5 DEF H2Inv, H2TypeOK
  <2>2. StreamInv'
        BY <1>1, <1>2, <1>5 DEF H2Inv, StreamInv, Untouched, FinishedIsOut, EndedByPeer, Idle
  <2>3. NoStreamLeak' BY <1>1, <1>2, <1>5 DEF H2Inv, NoStreamLeak
  <2> QED BY <1>3, <2>1, <2>2, <2>3 DEF H2Inv
<1> QED BY <1>4, <1>5 DEF ReadsData

\* The end a reader sees is the end that is in the pipe.
LEMMA ReadsEndInv ==
  ASSUME H2Inv, NEW r \in Calls, ReadsEnd(r)
  PROVE  H2Inv'
<1> USE DEF H2Inv, ReadsEnd, EndCall, sentVars, winVars, connVars, peerVars, histVars
<1>1. stream[r].pipe \in {"eof", "error"} BY DEF H2TypeOK, Stream
<1>2. H2TypeOK' /\ nextID' # 0 BY <1>1 DEF H2TypeOK, Ending
<1>3. StreamInv' BY DEF H2TypeOK, StreamInv, Untouched, FinishedIsOut, EndedByPeer
<1>4. NoStreamLeak' BY DEF H2TypeOK, NoStreamLeak, StreamInv, FinishedIsOut
<1>5. CleanEnd' BY DEF H2TypeOK, CleanEnd, StreamInv, EndedByPeer
<1> QED BY <1>2, <1>3, <1>4, <1>5

\* A caller that reads on changes nothing else.
LEMMA AsksMoreInv ==
  ASSUME H2Inv, NEW r \in Calls, AsksMore(r)
  PROVE  H2Inv'
<1> USE DEF H2Inv, AsksMore, sentVars, winVars, connVars, peerVars, histVars
<1>1. H2TypeOK' /\ nextID' # 0 BY DEF H2TypeOK
<1>2. StreamInv' BY DEF H2TypeOK, StreamInv, Untouched, FinishedIsOut, EndedByPeer
<1>3. NoStreamLeak' /\ CleanEnd' BY DEF H2TypeOK, NoStreamLeak, CleanEnd
<1> QED BY <1>1, <1>2, <1>3

\* A body closed early resets its stream and never counts as complete.
LEMMA ClosesInv ==
  ASSUME H2Inv, NEW r \in Calls, Closes(r)
  PROVE  H2Inv'
<1> USE DEF EndCall, sentVars, winVars, connVars, peerVars, histVars
<1>1. /\ call[r] = "holding" /\ EndCall(r, "error")
      /\ UNCHANGED <<sid, nextID, sentVars, winVars, connVars, peerVars, histVars>>
      BY DEF Closes
<1>2. stream[r] \in Stream /\ call[r] # "idle" BY <1>1 DEF H2Inv, H2TypeOK
<1>3. call'[r] = "over" /\ \A q \in Calls : q # r => call'[q] = call[q]
      BY <1>1 DEF H2Inv, H2TypeOK
<1>4. CleanEnd' /\ nextID' # 0 BY <1>1 DEF H2Inv, H2TypeOK, CleanEnd
<1>5. CASE stream[r].done /\ UNCHANGED <<stream, streams>>
  <2>1. H2TypeOK' BY <1>1, <1>5 DEF H2Inv, H2TypeOK, Ending
  <2>2. StreamInv'
        BY <1>1, <1>3, <1>5 DEF H2Inv, StreamInv, Untouched, FinishedIsOut, EndedByPeer
  <2>3. NoStreamLeak' BY <1>1, <1>3, <1>5 DEF H2Inv, NoStreamLeak, StreamInv, FinishedIsOut
  <2> QED BY <1>4, <2>1, <2>2, <2>3 DEF H2Inv
<1>6. CASE stream' = [stream EXCEPT ![r] = Reset(@)] /\ Forget(r)
  <2>1. /\ stream' \in [Calls -> Stream] /\ streams' \subseteq Calls
        /\ \A q \in streams' : sid'[q] # 0 /\ ~stream'[q].closed
        /\ StreamInv' /\ NoStreamLeak'
        BY <1>1, <1>2, <1>3, <1>6, ResetKeeps
  <2>2. H2TypeOK' BY <1>1, <2>1 DEF H2Inv, H2TypeOK, Ending
  <2> QED BY <1>4, <2>1, <2>2 DEF H2Inv
<1> QED BY <1>5, <1>6 DEF Closes

\* A read loop that holds DATA holds them of a stream the caller has begun.
LEMMA LoopGivesUpInv ==
  ASSUME H2Inv, LoopGivesUp
  PROVE  H2Inv'
<1> USE DEF callVars, sentVars, winVars, peerVars, histVars
<1> DEFINE r == loop.call
<1>1. /\ r \in Calls /\ stream[r].pipe # "open" /\ loop' = Idle
      /\ stream' = [stream EXCEPT ![r] = Reset(@)] /\ Forget(r)
      /\ UNCHANGED <<callVars, sentVars, winVars, goAway, closed, peerVars, histVars>>
      BY DEF LoopGivesUp, H2Inv, H2TypeOK
<1> HIDE DEF r
<1>2. stream[r] \in Stream /\ call[r] # "idle"
      BY <1>1 DEF H2Inv, H2TypeOK, StreamInv, Untouched, NewStream
<1>3. /\ stream' \in [Calls -> Stream] /\ streams' \subseteq Calls
      /\ \A q \in streams' : sid'[q] # 0 /\ ~stream'[q].closed
      /\ StreamInv' /\ NoStreamLeak'
      BY <1>1, <1>2, ResetKeeps
<1>4. H2TypeOK' BY <1>1, <1>3 DEF H2Inv, H2TypeOK, Idle
<1>5. CleanEnd' /\ nextID' # 0 BY <1>1 DEF H2Inv, CleanEnd
<1> QED BY <1>3, <1>4, <1>5 DEF H2Inv

-----------------------------------------------------------------------------
(***************************************************************************)
(* The read loop's frames.                                                 *)
(***************************************************************************)

\* The read loop reads on a live connection with nothing in hand.
LEMMA FrameTyped ==
  ASSUME H2Inv, Frame
  PROVE  ~closed /\ loop = Idle /\ ~loop.last /\ frames' \in Nat
BY DEF H2Inv, H2TypeOK, Frame, Idle

\* A stream of which only the peer's side changes, to a state other than the first.
LEMMA PeerMovesInv ==
  ASSUME H2Inv, NEW r \in Calls, NEW to \in {"answering", "ended", "reset"},
         ~closed, ~loop.last, peer[r] \in {"open", "answering"},
         peer' = [peer EXCEPT ![r] = to] \/ peer' = peer,
         UNCHANGED <<call, ended, writer, closed, stream, streams>>,
         loop' = loop \/ (loop'.call = r /\ (loop'.last => peer'[r] = "ended"))
                     \/ loop' = Idle
  PROVE  StreamInv' /\ NoStreamLeak' /\ CleanEnd'
<1>1. \A q \in Calls : q # r => peer'[q] = peer[q] BY DEF H2Inv, H2TypeOK
<1>2. peer'[r] \in {peer[r], to} BY DEF H2Inv, H2TypeOK
<1>3. ASSUME NEW q \in Calls
      PROVE  Untouched(q)' /\ FinishedIsOut(q)' /\ EndedByPeer(q)'
      BY <1>1, <1>2 DEF H2Inv, StreamInv, Untouched, FinishedIsOut, EndedByPeer, Idle
<1>4. CleanEnd' BY <1>1, <1>2 DEF H2Inv, CleanEnd
<1> QED BY <1>3, <1>4 DEF StreamInv, H2Inv, NoStreamLeak

\* HEADERS that end the stream finish it: out of the table, clean end.
LEMMA ReceivesHeadersInv ==
  ASSUME H2Inv, NEW r \in Calls, ReceivesHeaders(r)
  PROVE  H2Inv'
<1> USE DEF callVars, sentVars, winVars, connVars, histVars
<1>1. PICK end \in BOOLEAN :
        /\ peer' = [peer EXCEPT ![r] = IF end THEN "ended" ELSE "answering"]
        /\ IF r \notin streams
           THEN UNCHANGED <<stream, streams>>
           ELSE LET st == [stream[r] EXCEPT !.hdr = TRUE]
                IN IF end
                   THEN stream' = [stream EXCEPT ![r] = Finished(Piped(st, "eof"))] /\ Forget(r)
                   ELSE stream' = [stream EXCEPT ![r] = st] /\ UNCHANGED streams
      BY DEF ReceivesHeaders, PeerTo
<1>2. /\ Frame /\ peer[r] = "open"
      /\ UNCHANGED <<callVars, sentVars, winVars, connVars, recvWin, histVars>>
      BY DEF ReceivesHeaders
<1>3. ~closed /\ loop = Idle /\ ~loop.last /\ frames' \in Nat BY <1>2, FrameTyped
<1>4. peer' \in [Calls -> {"unaware", "refused", "open", "answering", "ended", "reset"}]
      /\ nextID' # 0
      BY <1>1, <1>2 DEF H2Inv, H2TypeOK
<1>5. call[r] \notin {"idle", "reserved"} BY <1>2 DEF H2Inv, StreamInv, Untouched
<1> DEFINE st == [stream[r] EXCEPT !.hdr = TRUE]
<1>6. /\ st \in Stream /\ st.pipe = stream[r].pipe
      /\ st.done = stream[r].done /\ st.closed = stream[r].closed
  <2>1. stream[r] \in Stream BY DEF H2Inv, H2TypeOK
  <2> QED BY <2>1, AnsweredStream
<1>7. CASE r \notin streams
  <2>1. UNCHANGED <<stream, streams>> BY <1>1, <1>7
  <2>2. H2TypeOK' BY <1>2, <1>3, <1>4, <2>1 DEF H2Inv, H2TypeOK
  <2>3. StreamInv' /\ NoStreamLeak' /\ CleanEnd'
        BY <1>1, <1>2, <1>3, <2>1, PeerMovesInv
  <2> QED BY <1>4, <2>2, <2>3 DEF H2Inv
<1>8. CASE r \in streams /\ end
  <2>1. peer'[r] = "ended" /\ \A q \in Calls : q # r => peer'[q] = peer[q]
        BY <1>1, <1>8 DEF H2Inv, H2TypeOK
  <2>2. stream' = [stream EXCEPT ![r] = Finished(Piped(st, "eof"))] /\ Forget(r)
        BY <1>1, <1>8
  <2> HIDE DEF st
  <2>3. /\ stream' \in [Calls -> Stream] /\ streams' \subseteq Calls
        /\ \A q \in streams' : sid'[q] # 0 /\ ~stream'[q].closed
        /\ StreamInv' /\ NoStreamLeak'
        BY <1>2, <1>3, <1>5, <1>6, <2>1, <2>2, EndOfBodyKeeps
  <2>4. H2TypeOK' BY <1>2, <1>3, <1>4, <2>3 DEF H2Inv, H2TypeOK
  <2>5. CleanEnd' BY <1>2, <2>1 DEF H2Inv, CleanEnd
  <2> QED BY <1>4, <2>3, <2>4, <2>5 DEF H2Inv
<1>9. CASE r \in streams /\ ~end
  <2>1. peer'[r] = "answering" /\ \A q \in Calls : q # r => peer'[q] = peer[q]
        BY <1>1, <1>9 DEF H2Inv, H2TypeOK
  <2>2. stream' = [stream EXCEPT ![r] = st] /\ UNCHANGED streams BY <1>1, <1>9
  <2> HIDE DEF st
  <2>3. stream'[r] = st /\ \A q \in Calls : q # r => stream'[q] = stream[q]
        BY <2>2 DEF H2Inv, H2TypeOK
  <2>4. H2TypeOK' BY <1>2, <1>3, <1>4, <1>6, <2>2, <2>3 DEF H2Inv, H2TypeOK
  <2>5. StreamInv'
    <3> SUFFICES ASSUME NEW q \in Calls
                 PROVE  Untouched(q)' /\ FinishedIsOut(q)' /\ EndedByPeer(q)'
        BY DEF StreamInv
    <3>1. CASE q = r
          BY <1>2, <1>3, <1>5, <1>6, <2>1, <2>2, <2>3, <3>1
          DEF H2Inv, StreamInv, Untouched, FinishedIsOut, EndedByPeer
    <3>2. CASE q # r
          BY <1>2, <1>3, <2>1, <2>2, <2>3, <3>2
          DEF H2Inv, StreamInv, Untouched, FinishedIsOut, EndedByPeer
    <3> QED BY <3>1, <3>2
  <2>6. NoStreamLeak' /\ CleanEnd'
        BY <1>2, <1>3, <2>1, <2>2 DEF H2Inv, NoStreamLeak, CleanEnd
  <2> QED BY <1>4, <2>4, <2>5, <2>6 DEF H2Inv
<1> QED BY <1>7, <1>8, <1>9

\* DATA of a stream in the table is held until it is read or given up.
LEMMA ReceivesDataInv ==
  ASSUME H2Inv, NEW r \in Calls, ReceivesData(r)
  PROVE  H2Inv'
<1> USE DEF callVars, sentVars, winVars, histVars
<1>1. PICK end \in BOOLEAN :
        /\ IF end THEN peer' = [peer EXCEPT ![r] = "ended"] ELSE UNCHANGED peer
        /\ loop' = IF r \in streams THEN [call |-> r, last |-> end] ELSE Idle
      BY DEF ReceivesData, PeerTo
<1>2. /\ Frame /\ peer[r] = "answering" /\ recvWin > 0 /\ recvWin' = recvWin - 1
      /\ UNCHANGED <<callVars, streams, stream, sentVars, winVars, goAway, closed, histVars>>
      BY DEF ReceivesData
<1>3. ~closed /\ loop = Idle /\ ~loop.last /\ frames' \in Nat BY <1>2, FrameTyped
<1>4. /\ peer' \in [Calls -> {"unaware", "refused", "open", "answering", "ended", "reset"}]
      /\ loop' \in [call : Calls \cup {NoCall}, last : BOOLEAN]
      /\ end => peer'[r] = "ended"
      /\ recvWin' \in Nat
      BY <1>1, <1>2 DEF H2Inv, H2TypeOK, Idle
<1>5. H2TypeOK' BY <1>2, <1>3, <1>4 DEF H2Inv, H2TypeOK
<1>6. StreamInv' /\ NoStreamLeak' /\ CleanEnd'
      BY <1>1, <1>2, <1>3, <1>4, PeerMovesInv
<1> QED BY <1>2, <1>5, <1>6 DEF H2Inv

\* END_STREAM finishes the stream; only now may its pipe end clean.
LEMMA ReceivesEndInv ==
  ASSUME H2Inv, NEW r \in Calls, ReceivesEnd(r)
  PROVE  H2Inv'
<1> USE DEF callVars, sentVars, winVars, connVars, histVars
<1>1. /\ Frame /\ peer[r] = "answering" /\ peer' = [peer EXCEPT ![r] = "ended"]
      /\ UNCHANGED <<callVars, sentVars, winVars, connVars, recvWin, histVars>>
      BY DEF ReceivesEnd, PeerTo
<1>2. ~closed /\ loop = Idle /\ ~loop.last /\ frames' \in Nat BY <1>1, FrameTyped
<1>3. /\ peer' \in [Calls -> {"unaware", "refused", "open", "answering", "ended", "reset"}]
      /\ peer'[r] = "ended" /\ \A q \in Calls : q # r => peer'[q] = peer[q]
      BY <1>1 DEF H2Inv, H2TypeOK
<1>4. CASE UNCHANGED <<stream, streams>>
  <2>1. H2TypeOK' BY <1>1, <1>2, <1>3, <1>4 DEF H2Inv, H2TypeOK
  <2>2. StreamInv' /\ NoStreamLeak' /\ CleanEnd'
        BY <1>1, <1>2, <1>4, PeerMovesInv
  <2> QED BY <1>1, <2>1, <2>2 DEF H2Inv
<1>5. CASE EndOfBody(r)
  <2>1. stream[r] \in Stream /\ call[r] \notin {"idle", "reserved"}
        BY <1>1 DEF H2Inv, H2TypeOK, StreamInv, Untouched
  <2>2. /\ stream' \in [Calls -> Stream] /\ streams' \subseteq Calls
        /\ \A q \in streams' : sid'[q] # 0 /\ ~stream'[q].closed
        /\ StreamInv' /\ NoStreamLeak'
        BY <1>1, <1>3, <1>5, <2>1, EndOfBodyKeeps DEF EndOfBody
  <2>3. H2TypeOK' BY <1>1, <1>2, <1>3, <2>2 DEF H2Inv, H2TypeOK
  <2>4. CleanEnd' BY <1>1, <1>3 DEF H2Inv, CleanEnd
  <2> QED BY <1>1, <2>2, <2>3, <2>4 DEF H2Inv
<1> QED BY <1>4, <1>5 DEF ReceivesEnd

\* RST_STREAM finishes the stream with an error in its pipe.
LEMMA ReceivesResetInv ==
  ASSUME H2Inv, NEW r \in Calls, ReceivesReset(r)
  PROVE  H2Inv'
<1> USE DEF callVars, sentVars, winVars, connVars, histVars
<1>1. /\ Frame /\ peer[r] \in {"open", "answering"} /\ peer' = [peer EXCEPT ![r] = "reset"]
      /\ UNCHANGED <<callVars, sentVars, winVars, connVars, recvWin, histVars>>
      BY DEF ReceivesReset, PeerTo
<1>2. ~closed /\ loop = Idle /\ ~loop.last /\ frames' \in Nat BY <1>1, FrameTyped
<1>3. /\ peer' \in [Calls -> {"unaware", "refused", "open", "answering", "ended", "reset"}]
      /\ peer'[r] = "reset" /\ \A q \in Calls : q # r => peer'[q] = peer[q]
      BY <1>1 DEF H2Inv, H2TypeOK
<1>4. CASE UNCHANGED <<stream, streams>>
  <2>1. H2TypeOK' BY <1>1, <1>2, <1>3, <1>4 DEF H2Inv, H2TypeOK
  <2>2. StreamInv' /\ NoStreamLeak' /\ CleanEnd'
        BY <1>1, <1>2, <1>4, PeerMovesInv
  <2> QED BY <1>1, <2>1, <2>2 DEF H2Inv
<1>5. CASE stream' = [stream EXCEPT ![r] = Reset(@)] /\ Forget(r)
  <2> DEFINE new == Reset(stream[r])
  <2>1. stream[r] \in Stream /\ call[r] \notin {"idle", "reserved"}
        BY <1>1 DEF H2Inv, H2TypeOK, StreamInv, Untouched
  <2>2. new \in Stream /\ new.done /\ (new.pipe = "eof" => stream[r].pipe = "eof")
        BY <2>1, ResetStream
  <2>3. stream' = [stream EXCEPT ![r] = new] BY <1>5
  <2> HIDE DEF new
  <2>4. stream'[r] = new /\ \A q \in Calls : q # r => stream'[q] = stream[q]
        BY <2>3 DEF H2Inv, H2TypeOK
  <2>5. stream' \in [Calls -> Stream] /\ streams' = streams \ {r}
        BY <1>5, <2>2, <2>3 DEF H2Inv, H2TypeOK, Forget
  <2>6. H2TypeOK' BY <1>1, <1>2, <1>3, <2>4, <2>5 DEF H2Inv, H2TypeOK
  <2>7. StreamInv'
    <3> SUFFICES ASSUME NEW q \in Calls
                 PROVE  Untouched(q)' /\ FinishedIsOut(q)' /\ EndedByPeer(q)'
        BY DEF StreamInv
    <3>1. CASE q = r
          BY <1>1, <1>2, <1>3, <2>1, <2>2, <2>4, <2>5, <3>1
          DEF H2Inv, StreamInv, Untouched, FinishedIsOut, EndedByPeer
    <3>2. CASE q # r
          BY <1>1, <1>2, <1>3, <2>4, <2>5, <3>2
          DEF H2Inv, StreamInv, Untouched, FinishedIsOut, EndedByPeer
    <3> QED BY <3>1, <3>2
  <2>8. NoStreamLeak' BY <1>1, <2>5 DEF H2Inv, NoStreamLeak
  <2>9. CleanEnd' BY <1>1, <1>2, <1>3 DEF H2Inv, CleanEnd
  <2> QED BY <1>1, <2>6, <2>7, <2>8, <2>9 DEF H2Inv
<1> QED BY <1>4, <1>5 DEF ReceivesReset

\* SETTINGS and their ACK, WINDOW_UPDATE and GOAWAY touch no stream's life.
LEMMA ConnectionFramesInv ==
  ASSUME H2Inv, ReceivesSettings \/ Acks \/ ReceivesWindow \/ ReceivesGoAway
  PROVE  H2Inv'
<1> USE DEF callVars, sentVars, winVars, connVars, peerVars, histVars
<1>1. UNCHANGED <<callVars, streams, stream, writer, left, hand, sent, sentAll, closed, peer,
                  recvWin, wire>>
      BY DEF ReceivesSettings, Acks, ReceivesWindow, ReceivesGoAway
<1>2. frames' \in Nat /\ overtaken' \subseteq Calls
      BY FrameTyped DEF H2Inv, H2TypeOK, ReceivesSettings, Acks, ReceivesWindow, ReceivesGoAway
<1>3. loop' \in {loop, Idle, AckDue}
  <2>1. CASE ReceivesSettings BY <2>1 DEF ReceivesSettings
  <2>2. CASE Acks BY <2>2 DEF Acks
  <2>3. CASE ReceivesWindow BY <2>3 DEF ReceivesWindow
  <2>4. CASE ReceivesGoAway BY <2>4 DEF ReceivesGoAway
  <2> QED BY <2>1, <2>2, <2>3, <2>4
<1>4. loop' \in [call : Calls \cup {NoCall}, last : BOOLEAN]
  <2>1. /\ loop \in [call : Calls \cup {NoCall}, last : BOOLEAN]
        /\ Idle \in [call : Calls \cup {NoCall}, last : BOOLEAN]
        /\ AckDue \in [call : Calls \cup {NoCall}, last : BOOLEAN]
        BY DEF H2Inv, H2TypeOK, Idle, AckDue
  <2> QED BY ONLY <1>3, <2>1
<1>5. /\ sendWin' \in [Calls -> Int] /\ connSendWin' \in Int /\ initStreamWin' \in Nat
      /\ peerWin' \in Nat /\ granted' \in [Calls -> Nat] /\ grantedAll' \in Nat
      /\ goAway' \in BOOLEAN
  <2>1. CASE ReceivesSettings
        BY <2>1, H2Assumption DEF ReceivesSettings, Shifted, H2Inv, H2TypeOK
  <2>2. CASE Acks BY <2>2 DEF Acks, H2Inv, H2TypeOK
  <2>3. CASE ReceivesWindow BY <2>3 DEF ReceivesWindow, H2Inv, H2TypeOK
  <2>4. CASE ReceivesGoAway BY <2>4 DEF ReceivesGoAway, H2Inv, H2TypeOK
  <2> QED BY <2>1, <2>2, <2>3, <2>4
<1>6. H2TypeOK' BY <1>1, <1>2, <1>4, <1>5 DEF H2Inv, H2TypeOK
<1>7. StreamInv'
  <2> SUFFICES ASSUME NEW q \in Calls
               PROVE  Untouched(q)' /\ FinishedIsOut(q)' /\ EndedByPeer(q)'
      BY DEF StreamInv
  <2>1. Untouched(q) /\ FinishedIsOut(q) /\ EndedByPeer(q) BY DEF H2Inv, StreamInv
  <2>2. loop'.call = q => loop' = loop BY <1>3, H2Assumption DEF Idle, AckDue
  <2> QED BY <1>1, <2>1, <2>2 DEF Untouched, FinishedIsOut, EndedByPeer
<1>8. nextID' # 0 /\ NoStreamLeak' /\ CleanEnd' BY <1>1 DEF H2Inv, NoStreamLeak, CleanEnd
<1> QED BY <1>6, <1>7, <1>8 DEF H2Inv

\* closeWithErr finishes every stream of the table.
LEMMA ConnectionEndsInv ==
  ASSUME H2Inv, ConnectionEnds
  PROVE  H2Inv'
<1> USE DEF callVars, sentVars, winVars, peerVars, histVars
<1>1. PICK how \in {"eof", "error"} :
        stream' = [r \in Calls |-> IF r \in streams
                                   THEN [Piped(stream[r], how) EXCEPT !.done = TRUE]
                                   ELSE stream[r]]
      BY DEF ConnectionEnds
<1>2. /\ loop = Idle /\ closed' = TRUE
      /\ UNCHANGED <<callVars, streams, sentVars, winVars, goAway, loop, peerVars, histVars>>
      BY DEF ConnectionEnds
<1>3. ASSUME NEW r \in Calls
      PROVE  /\ stream'[r] \in Stream
             /\ stream'[r].closed = stream[r].closed
             /\ r \notin streams => stream'[r] = stream[r]
             /\ r \in streams => stream'[r].done
  <2>1. stream[r] \in Stream BY DEF H2Inv, H2TypeOK
  <2>2. CASE r \in streams
    <3> DEFINE st == Piped(stream[r], how)
    <3>1. st \in Stream /\ st.closed = stream[r].closed BY <2>1, PipedStream
    <3>2. stream'[r] = [st EXCEPT !.done = TRUE] BY <1>1, <2>2
    <3> HIDE DEF st
    <3> QED BY <2>2, <3>1, <3>2 DEF Stream
  <2>3. CASE r \notin streams BY <1>1, <2>1, <2>3
  <2> QED BY <2>2, <2>3
<1>4. stream' \in [Calls -> Stream] BY <1>1, <1>3
<1>5. H2TypeOK' BY <1>2, <1>3, <1>4 DEF H2Inv, H2TypeOK
<1>6. StreamInv'
      BY <1>2, <1>3 DEF H2Inv, StreamInv, Untouched, FinishedIsOut, EndedByPeer
<1>7. nextID' # 0 /\ NoStreamLeak' /\ CleanEnd' BY <1>2 DEF H2Inv, NoStreamLeak, CleanEnd
<1> QED BY <1>5, <1>6, <1>7 DEF H2Inv

-----------------------------------------------------------------------------

\* Every step of a caller, a writer, the read loop or the peer keeps the invariant.
LEMMA H2StepInv == H2Inv /\ [H2Next]_h2Vars => H2Inv'
<1> SUFFICES ASSUME H2Inv, [H2Next]_h2Vars PROVE H2Inv'
    OBVIOUS
<1>1. ASSUME NEW r \in Calls,
             Reserves(r) \/ GoesOn(r) \/ Caller(r) \/ Writer(r) \/ Received(r)
      PROVE  H2Inv'
      BY <1>1, ReservesInv, WritesHeadersInv, DeadlineInv, SeesDoneInv, TakesHeadersInv,
         ReadsDataInv, ReadsEndInv, AsksMoreInv, ClosesInv, DebitsInv, WritesDataInv,
         WriterEndsInv, ReceivesHeadersInv, ReceivesDataInv, ReceivesEndInv, ReceivesResetInv
      DEF GoesOn, Caller, Writer, Received
<1>2. CASE LoopGivesUp BY <1>2, LoopGivesUpInv
<1>3. CASE ReceivesSettings \/ Acks \/ ReceivesWindow \/ ReceivesGoAway
      BY <1>3, ConnectionFramesInv
<1>4. CASE ConnectionEnds BY <1>4, ConnectionEndsInv
<1>5. CASE UNCHANGED h2Vars
  <2>1. H2TypeOK'
        BY <1>5 DEF H2Inv, H2TypeOK, h2Vars, callVars, sentVars, winVars, connVars, peerVars,
           histVars
  <2>2. nextID' # 0 /\ StreamInv' /\ NoStreamLeak' /\ CleanEnd'
        BY <1>5 DEF H2Inv, StreamInv, Untouched, FinishedIsOut, EndedByPeer, NoStreamLeak,
           CleanEnd, h2Vars, callVars, sentVars, connVars, peerVars
  <2> QED BY <2>1, <2>2 DEF H2Inv
<1> QED BY <1>1, <1>2, <1>3, <1>4, <1>5 DEF H2Next

\* The invariant holds of every behaviour of the connection.
LEMMA AlwaysH2Inv == H2Spec => []H2Inv
BY InitH2, H2StepInv, PTL DEF H2Spec

\* Whatever the callers, their writers and the peer do to a connection, and in
\* whatever order, its variables keep their types, and a stream in the table is
\* one that was given an id and that nobody has finished.
THEOREM H2TypesCorrect == H2Spec => []H2TypeOK
<1>1. H2Inv => H2TypeOK BY DEF H2Inv
<1> QED BY <1>1, AlwaysH2Inv, PTL

\* A call that has ended, by its deadline, a reset, its own Close or the end of
\* the body, has left no stream in the table of a live connection.
THEOREM StreamsNeverLeak == H2Spec => []NoStreamLeak
<1>1. H2Inv => NoStreamLeak BY DEF H2Inv
<1> QED BY <1>1, AlwaysH2Inv, PTL

\* A body that reads as complete was ended by the peer or by the end of the
\* connection: no reset, from either side, can pass for it.
THEOREM EndsAlwaysClean == H2Spec => []CleanEnd
<1>1. H2Inv => CleanEnd BY DEF H2Inv
<1> QED BY <1>1, AlwaysH2Inv, PTL

-----------------------------------------------------------------------------
(***************************************************************************)
(* The windows.  What the client keeps is what the peer has allowed less   *)
(* what was sent and what writers have in hand, for the connection and for *)
(* every stream in the table; a stream taken out of the table is not       *)
(* shifted by SETTINGS any more, so its writer must find it closed.  A     *)
(* hand not overtaken by an ACK is within what the peer still allows.      *)
(***************************************************************************)

\* The units in the hands of the writers, one by one.
InHand == {u \in Calls \X Nat : u[2] \in 1..hand[u[1]]}

ConnAccounted ==
  /\ IsFiniteSet(InHand)
  /\ connSendWin >= 0
  /\ connSendWin = FirstWin + grantedAll - sentAll - Cardinality(InHand)

StreamsAccounted ==
  /\ initStreamWin <= peerWin
  /\ \A r \in streams : sendWin[r] = initStreamWin + granted[r] - sent[r] - hand[r]

\* Until a call has a stream the peer has given it nothing, and until it has a
\* writer nothing of its body is charged. A call with an id and no HEADERS has its
\* stream in the table and no writer.
Begins(r) ==
  /\ call[r] = "idle" => granted[r] = 0
  /\ writer[r] = "none" => sent[r] = 0 /\ hand[r] = 0
  /\ call[r] = "reserved" => r \in streams /\ writer[r] = "none"

\* A writer that may write has its stream in the table.
WriterHasStream(r) ==
  writer[r] = "sending" /\ ~closed /\ ~stream[r].closed => r \in streams

\* What was charged since the last ACK.
HandAllowed(r) ==
  hand[r] > 0 /\ r \notin overtaken => sent[r] + hand[r] <= peerWin + granted[r]

\* The read loop holds DATA only of a stream the peer knows.
LoopHolds == loop.call # NoCall => peer[loop.call] # "unaware"

WinInv ==
  /\ ConnAccounted /\ StreamsAccounted /\ LoopHolds
  /\ \A r \in Calls : Begins(r) /\ WriterHasStream(r) /\ HandAllowed(r)

allWins == <<winVars, hand, sent, sentAll, overtaken, granted, grantedAll, peerWin>>

\* The units of one chunk.
LEMMA UnitsOfChunk ==
  ASSUME NEW r \in Calls, NEW n \in Nat
  PROVE  IsFiniteSet({r} \X (1..n)) /\ Cardinality({r} \X (1..n)) = n
<1>1. IsFiniteSet({r}) /\ Cardinality({r}) = 1 BY FS_Singleton
<1>2. IsFiniteSet(1..n) /\ Cardinality(1..n) = n BY FS_Interval
<1>3. /\ IsFiniteSet({r} \X (1..n))
      /\ Cardinality({r} \X (1..n)) = Cardinality({r}) * Cardinality(1..n)
      BY <1>1, <1>2, FS_Product
<1> QED BY <1>1, <1>2, <1>3

\* A chunk charged is so many more units in hand ...
LEMMA HandFilled ==
  ASSUME H2TypeOK, IsFiniteSet(InHand), NEW r \in Calls, NEW n \in Nat, hand[r] = 0,
         hand' = [hand EXCEPT ![r] = n]
  PROVE  IsFiniteSet(InHand') /\ Cardinality(InHand') = Cardinality(InHand) + n
<1> DEFINE new == {r} \X (1..n)
<1>1. hand'[r] = n /\ \A q \in Calls : q # r => hand'[q] = hand[q] BY DEF H2TypeOK
<1>2. InHand' = InHand \cup new
  <2>1. ASSUME NEW u \in Calls \X Nat
        PROVE  u[2] \in 1..hand'[u[1]] <=> u[2] \in 1..hand[u[1]] \/ u \in new
    <3>1. CASE u[1] = r BY <1>1, <3>1
    <3>2. CASE u[1] # r BY <1>1, <3>2
    <3> QED BY <3>1, <3>2
  <2>2. new \subseteq Calls \X Nat OBVIOUS
  <2> HIDE DEF new
  <2> QED BY <2>1, <2>2 DEF InHand
<1>3. InHand \cap new = {} BY DEF InHand
<1>4. IsFiniteSet(new) /\ Cardinality(new) = n BY UnitsOfChunk
<1> HIDE DEF new
<1>5. /\ IsFiniteSet(InHand \cup new)
      /\ Cardinality(InHand \cup new)
           = Cardinality(InHand) + Cardinality(new) - Cardinality(InHand \cap new)
      BY <1>4, FS_Union
<1>6. Cardinality(InHand \cap new) = 0 BY <1>3, FS_EmptySet
<1>7. Cardinality(InHand) \in Nat BY FS_CardinalityType
<1> QED BY <1>2, <1>4, <1>5, <1>6, <1>7

\* ... and a chunk written so many less.
LEMMA HandEmptied ==
  ASSUME H2TypeOK, IsFiniteSet(InHand), NEW r \in Calls, hand' = [hand EXCEPT ![r] = 0]
  PROVE  /\ IsFiniteSet(InHand') /\ Cardinality(InHand') \in Nat
         /\ Cardinality(InHand) = Cardinality(InHand') + hand[r]
<1> DEFINE n == hand[r]
<1> DEFINE old == {r} \X (1..n)
<1>1. hand'[r] = 0 /\ \A q \in Calls : q # r => hand'[q] = hand[q] BY DEF H2TypeOK
<1>2. n \in Nat BY DEF H2TypeOK
<1>3. InHand' = InHand \ old
  <2>1. ASSUME NEW u \in Calls \X Nat
        PROVE  u[2] \in 1..hand'[u[1]] <=> u[2] \in 1..hand[u[1]] /\ u \notin old
    <3>1. CASE u[1] = r
      <4>1. u[2] \notin 1..hand'[u[1]] BY <1>1, <3>1
      <4>2. u[2] \in 1..hand[u[1]] => u \in old BY <3>1
      <4> QED BY <4>1, <4>2
    <3>2. CASE u[1] # r BY <1>1, <3>2
    <3> QED BY <3>1, <3>2
  <2> HIDE DEF old
  <2> QED BY <2>1 DEF InHand
<1>4. InHand \cap old = old BY <1>2 DEF InHand
<1>5. Cardinality(old) = n BY <1>2, UnitsOfChunk
<1> HIDE DEF old
<1>6. /\ IsFiniteSet(InHand \ old)
      /\ Cardinality(InHand \ old) = Cardinality(InHand) - Cardinality(InHand \cap old)
      BY FS_Difference
<1>7. Cardinality(InHand \ old) \in Nat /\ Cardinality(InHand) \in Nat
      BY <1>6, FS_CardinalityType
<1> HIDE DEF n
<1>8. Cardinality(InHand) = Cardinality(InHand') + n BY <1>2, <1>3, <1>4, <1>5, <1>6, <1>7
<1> QED BY <1>3, <1>6, <1>7, <1>8 DEF n

\* Nothing was sent, and the windows are what the peer begins with.
LEMMA WindowsBegin == H2Init => WinInv
<1> SUFFICES ASSUME H2Init PROVE WinInv
    OBVIOUS
<1>1. hand = [r \in Calls |-> 0] /\ sent = [r \in Calls |-> 0] BY DEF H2Init
<1>2. InHand = {}
  <2> SUFFICES ASSUME NEW u \in InHand PROVE FALSE
      OBVIOUS
  <2>1. u[1] \in Calls /\ u[2] \in 1..hand[u[1]] BY DEF InHand
  <2> QED BY <1>1, <2>1
<1>3. IsFiniteSet(InHand) /\ Cardinality(InHand) = 0 BY <1>2, FS_EmptySet
<1>4. ConnAccounted BY <1>3, H2Assumption DEF H2Init, ConnAccounted
<1>5. StreamsAccounted BY H2Assumption DEF H2Init, StreamsAccounted
<1>6. LoopHolds BY DEF H2Init, LoopHolds, Idle
<1>7. \A r \in Calls : Begins(r) /\ WriterHasStream(r) /\ HandAllowed(r)
      BY <1>1 DEF H2Init, Begins, WriterHasStream, HandAllowed
<1> QED BY <1>4, <1>5, <1>6, <1>7 DEF WinInv

\* A step that leaves the hands alone leaves what is in them.
LEMMA HandsKept ==
  ASSUME UNCHANGED <<hand, sentAll, connSendWin, grantedAll>>, ConnAccounted
  PROVE  ConnAccounted'
<1>1. InHand' = InHand BY DEF InHand
<1> QED BY <1>1 DEF ConnAccounted

\* What concerns one call, its stream and its writer, and no window. A stream
\* leaves the table closed, or with nobody to write on it.
LEMMA CallKeepsWindows ==
  ASSUME WinInv, NEW r \in Calls, UNCHANGED <<allWins, closed>>,
         \A q \in Calls : q # r => /\ call'[q] = call[q] /\ writer'[q] = writer[q]
                                   /\ stream'[q] = stream[q],
         call'[r] = call[r] \/ call'[r] \notin {"idle", "reserved"},
         writer'[r] = writer[r] \/ (writer'[r] = "done" /\ writer[r] # "none"),
         stream[r].closed => stream'[r].closed,
         \/ streams' = streams
         \/ /\ Forget(r) /\ call'[r] \notin {"idle", "reserved"}
            /\ closed \/ stream'[r].closed \/ writer'[r] # "sending",
         LoopHolds'
  PROVE  WinInv'
<1>1. ConnAccounted' BY HandsKept DEF WinInv, allWins, winVars
<1>2. StreamsAccounted' BY DEF WinInv, StreamsAccounted, allWins, winVars, Forget
<1>3. ASSUME NEW q \in Calls PROVE Begins(q)' /\ WriterHasStream(q)'
  <2>1. Begins(q) /\ WriterHasStream(q) BY DEF WinInv
  <2>2. CASE q = r BY <2>1, <2>2 DEF Begins, WriterHasStream, allWins, Forget
  <2>3. CASE q # r BY <2>1, <2>3 DEF Begins, WriterHasStream, allWins, Forget
  <2> QED BY <2>2, <2>3
<1>4. \A q \in Calls : HandAllowed(q)' BY DEF WinInv, HandAllowed, allWins
<1> QED BY <1>1, <1>2, <1>3, <1>4 DEF WinInv

\* The call is reset or ends, and the loop gives up what it holds or nothing.
LEMMA ResetKeepsWindows ==
  ASSUME H2TypeOK, WinInv, NEW r \in Calls, NEW st \in Stream,
         UNCHANGED <<allWins, closed>>, LoopHolds',
         stream' = [stream EXCEPT ![r] = Reset(st)], Forget(r),
         \A q \in Calls : q # r => call'[q] = call[q] /\ writer'[q] = writer[q],
         call'[r] \notin {"idle", "reserved"},
         writer'[r] = writer[r] \/ (writer'[r] = "done" /\ writer[r] # "none")
  PROVE  WinInv'
<1> DEFINE new == Reset(st)
<1>1. new.closed BY ResetStream
<1>2. stream' = [stream EXCEPT ![r] = new] OBVIOUS
<1> HIDE DEF new
<1>3. stream'[r].closed /\ \A q \in Calls : q # r => stream'[q] = stream[q]
      BY <1>1, <1>2 DEF H2TypeOK
<1> QED BY <1>3, CallKeepsWindows

\* The end of a body, the same.
LEMMA EndOfBodyKeepsWindows ==
  ASSUME H2TypeOK, WinInv, NEW r \in Calls, NEW st \in Stream,
         UNCHANGED <<allWins, closed, writer>>, LoopHolds',
         stream' = [stream EXCEPT ![r] = Finished(Piped(st, "eof"))], Forget(r),
         \A q \in Calls : q # r => call'[q] = call[q],
         call'[r] \notin {"idle", "reserved"}
  PROVE  WinInv'
<1> DEFINE new == Finished(Piped(st, "eof"))
<1>1. new.closed BY EndedStream
<1>2. stream' = [stream EXCEPT ![r] = new] OBVIOUS
<1> HIDE DEF new
<1>3. stream'[r].closed /\ \A q \in Calls : q # r => stream'[q] = stream[q]
      BY <1>1, <1>2 DEF H2TypeOK
<1> QED BY <1>3, CallKeepsWindows

\* A peer that knows a stream does not forget it.
LEMMA LoopKeepsHold ==
  ASSUME H2TypeOK, WinInv, loop' \in {loop, Idle},
         \A q \in Calls : peer'[q] = peer[q] \/ peer'[q] # "unaware"
  PROVE  LoopHolds'
<1>1. loop.call = NoCall \/ loop.call \in Calls BY DEF H2TypeOK
<1> QED BY <1>1 DEF WinInv, LoopHolds, Idle

\* A new stream begins with the initial window of the moment.
LEMMA ReservesWindows ==
  ASSUME H2Inv, WinInv, NEW r \in Calls, Reserves(r)
  PROVE  WinInv'
<1> USE DEF sentVars, connVars, peerVars, histVars
<1>1. /\ call[r] = "idle" /\ UNCHANGED <<stream, sentVars, connSendWin, initStreamWin>>
      /\ UNCHANGED <<connVars, peerVars, histVars>>
      BY DEF Reserves
<1>2. granted[r] = 0 /\ sent[r] = 0 /\ hand[r] = 0 /\ writer[r] = "none"
      BY <1>1 DEF H2Inv, StreamInv, Untouched, WinInv, Begins
<1>3. LoopHolds' BY <1>1 DEF WinInv, LoopHolds
<1>4. CASE EndCall(r, "error") /\ UNCHANGED <<sid, nextID, streams, sendWin>>
  <2>1. call'[r] = "over" /\ \A q \in Calls : q # r => call'[q] = call[q]
        BY <1>4 DEF EndCall, H2Inv, H2TypeOK
  <2> QED BY <1>1, <1>3, <1>4, <2>1, CallKeepsWindows DEF allWins, winVars
<1>5. CASE /\ call' = [call EXCEPT ![r] = "reserved"] /\ streams' = streams \cup {r}
           /\ sendWin' = [sendWin EXCEPT ![r] = initStreamWin]
  <2>1. call'[r] = "reserved" /\ \A q \in Calls : q # r => call'[q] = call[q]
        BY <1>5 DEF H2Inv, H2TypeOK
  <2>2. sendWin'[r] = initStreamWin /\ \A q \in Calls : q # r => sendWin'[q] = sendWin[q]
        BY <1>5 DEF H2Inv, H2TypeOK
  <2>3. streams \subseteq Calls /\ initStreamWin \in Nat BY DEF H2Inv, H2TypeOK
  <2>4. StreamsAccounted' BY <1>1, <1>2, <1>5, <2>2, <2>3 DEF WinInv, StreamsAccounted
  <2>5. ConnAccounted' BY <1>1, HandsKept DEF WinInv
  <2>6. \A q \in Calls : Begins(q)' /\ WriterHasStream(q)'
        BY <1>1, <1>2, <1>5, <2>1 DEF WinInv, Begins, WriterHasStream
  <2>7. \A q \in Calls : HandAllowed(q)' BY <1>1 DEF WinInv, HandAllowed
  <2> QED BY <1>3, <2>4, <2>5, <2>6, <2>7 DEF WinInv
<1> QED BY <1>4, <1>5 DEF Reserves

\* HEADERS are not charged to any window.
LEMMA WritesHeadersWindows ==
  ASSUME H2Inv, WinInv, NEW r \in Calls, WritesHeaders(r)
  PROVE  WinInv'
<1> USE DEF winVars, connVars
<1>1. /\ call[r] = "reserved"
      /\ UNCHANGED <<sid, nextID, stream, left, hand, sent, sentAll, overtaken, winVars, connVars,
                     recvWin, frames, granted, grantedAll, peerWin>>
      BY DEF WritesHeaders
<1>2. r \in streams /\ writer[r] = "none" BY <1>1 DEF WinInv, Begins
<1>3. CASE EndCall(r, "error") /\ Forget(r) /\ UNCHANGED <<writer, peer>>
  <2>1. call'[r] = "over" /\ \A q \in Calls : q # r => call'[q] = call[q]
        BY <1>3 DEF EndCall, H2Inv, H2TypeOK
  <2>2. LoopHolds' BY <1>1, <1>3 DEF WinInv, LoopHolds
  <2> QED BY <1>1, <1>2, <1>3, <2>1, <2>2, CallKeepsWindows DEF allWins
<1>4. CASE /\ call' = [call EXCEPT ![r] = "waiting"] /\ UNCHANGED streams
           /\ peer' = [peer EXCEPT ![r] = IF sid[r] > wire THEN "open" ELSE "refused"]
           /\ writer' = [writer EXCEPT ![r] = IF Upload[r] > 0 THEN "sending" ELSE "none"]
  <2>1. call'[r] = "waiting" /\ \A q \in Calls : q # r => call'[q] = call[q]
        BY <1>4 DEF H2Inv, H2TypeOK
  <2>2. /\ writer'[r] = IF Upload[r] > 0 THEN "sending" ELSE "none"
        /\ \A q \in Calls : q # r => writer'[q] = writer[q]
        BY <1>4 DEF H2Inv, H2TypeOK
  <2>3. \A q \in Calls : peer'[q] = peer[q] \/ peer'[q] # "unaware"
        BY <1>4 DEF H2Inv, H2TypeOK
  <2>4. LoopHolds' BY <1>1, <2>3, LoopKeepsHold DEF H2Inv
  <2>5. sent[r] = 0 /\ hand[r] = 0 BY <1>2 DEF WinInv, Begins
  <2>6. ConnAccounted' /\ StreamsAccounted' /\ \A q \in Calls : HandAllowed(q)'
        BY <1>1, <1>4, HandsKept DEF WinInv, StreamsAccounted, HandAllowed
  <2>7. \A q \in Calls : Begins(q)' /\ WriterHasStream(q)'
        BY <1>1, <1>2, <1>4, <2>1, <2>2, <2>5 DEF WinInv, Begins, WriterHasStream
  <2> QED BY <2>4, <2>6, <2>7 DEF WinInv
<1> QED BY <1>3, <1>4 DEF WritesHeaders

\* The caller's steps on a stream that exists.
LEMMA CallerWindows ==
  ASSUME H2Inv, WinInv, NEW r \in Calls,
         Deadline(r) \/ SeesDone(r) \/ TakesHeaders(r) \/ ReadsEnd(r) \/ Caller(r)
  PROVE  WinInv'
<1> USE DEF sentVars, winVars, connVars, peerVars, histVars
<1>1. /\ call[r] \in {"waiting", "holding", "reading"}
      /\ UNCHANGED <<allWins, closed, writer, loop, peer>>
      BY DEF Deadline, SeesDone, TakesHeaders, ReadsEnd, Caller, AsksMore, Closes, allWins
<1>2. stream[r] \in Stream BY DEF H2Inv, H2TypeOK
<1>3. LoopHolds' BY <1>1 DEF WinInv, LoopHolds
<1>4. ASSUME NEW how, EndCall(r, how)
      PROVE  call'[r] = "over" /\ \A q \in Calls : q # r => call'[q] = call[q]
      BY <1>4 DEF EndCall, H2Inv, H2TypeOK
<1>5. ASSUME NEW how, EndCall(r, how), UNCHANGED <<stream, streams>>
      PROVE  WinInv'
      BY <1>1, <1>3, <1>4, <1>5, CallKeepsWindows
<1>6. ASSUME NEW st \in Stream, EndCall(r, "error"),
             stream' = [stream EXCEPT ![r] = Reset(st)], Forget(r)
      PROVE  WinInv'
      BY <1>1, <1>3, <1>4, <1>6, ResetKeepsWindows DEF H2Inv
<1>7. CASE SeesDone(r) \/ ReadsEnd(r) \/ (Closes(r) /\ stream[r].done)
      BY <1>5, <1>7 DEF SeesDone, ReadsEnd, Closes
<1>8. CASE Deadline(r) \/ (Closes(r) /\ ~stream[r].done)
      BY <1>2, <1>6, <1>8 DEF Deadline, Closes
<1>9. CASE TakesHeaders(r)
  <2> DEFINE st == [stream[r] EXCEPT !.hdr = FALSE]
  <2>1. st \in Stream /\ st.closed = stream[r].closed BY <1>2, AnsweredStream
  <2>2. CASE /\ call' = [call EXCEPT ![r] = "holding"] /\ stream' = [stream EXCEPT ![r] = st]
             /\ UNCHANGED streams
    <3> HIDE DEF st
    <3>1. call'[r] = "holding" /\ \A q \in Calls : q # r => call'[q] = call[q]
          BY <2>2 DEF H2Inv, H2TypeOK
    <3>2. stream'[r] = st /\ \A q \in Calls : q # r => stream'[q] = stream[q]
          BY <2>2 DEF H2Inv, H2TypeOK
    <3> QED BY <1>1, <1>3, <2>1, <2>2, <3>1, <3>2, CallKeepsWindows
  <2>3. CASE EndCall(r, "error") /\ stream' = [stream EXCEPT ![r] = Reset(st)] /\ Forget(r)
    <3> HIDE DEF st
    <3> QED BY <1>6, <2>1, <2>3
  <2> QED BY <1>9, <2>2, <2>3 DEF TakesHeaders
<1>10. CASE AsksMore(r)
  <2>1. call'[r] = "reading" /\ \A q \in Calls : q # r => call'[q] = call[q]
        BY <1>10 DEF AsksMore, H2Inv, H2TypeOK
  <2> QED BY <1>1, <1>3, <1>10, <2>1, CallKeepsWindows DEF AsksMore
<1> QED BY <1>7, <1>8, <1>9, <1>10 DEF Caller, Closes

\* A chunk is no longer than both windows, and both are charged by it.
LEMMA DebitsWindows ==
  ASSUME H2Inv, WinInv, NEW r \in Calls, Debits(r)
  PROVE  WinInv'
<1> USE DEF callVars, connVars, peerVars, histVars
<1> DEFINE n == Chunk(r)
<1>1. n \in Nat /\ n <= sendWin[r] /\ n <= connSendWin BY ChunkBounds DEF Debits, H2Inv
<1>2. /\ hand[r] = 0 /\ hand' = [hand EXCEPT ![r] = n] /\ r \in streams /\ writer[r] # "none"
      /\ sendWin' = [sendWin EXCEPT ![r] = @ - n] /\ connSendWin' = connSendWin - n
      /\ UNCHANGED <<callVars, streams, stream, writer, sent, sentAll, overtaken, initStreamWin,
                     connVars, peerVars, histVars>>
      BY DEF Debits, WinInv, WriterHasStream
<1> HIDE DEF n
<1>3. /\ hand'[r] = n /\ sendWin'[r] = sendWin[r] - n
      /\ \A q \in Calls : q # r => hand'[q] = hand[q] /\ sendWin'[q] = sendWin[q]
      BY <1>2 DEF H2Inv, H2TypeOK
<1>4. \A q \in Calls : /\ sent[q] \in Nat /\ sendWin[q] \in Int /\ granted[q] \in Nat
                       /\ hand[q] \in Nat
      BY DEF H2Inv, H2TypeOK
<1>5. /\ peerWin \in Nat /\ initStreamWin \in Nat /\ connSendWin \in Int /\ sentAll \in Nat
      /\ grantedAll \in Nat /\ FirstWin \in Nat /\ streams \subseteq Calls
      BY H2Assumption DEF H2Inv, H2TypeOK
<1>6. ConnAccounted'
  <2>1. IsFiniteSet(InHand) BY DEF WinInv, ConnAccounted
  <2>2. IsFiniteSet(InHand') /\ Cardinality(InHand') = Cardinality(InHand) + n
        BY <1>1, <1>2, <2>1, HandFilled DEF H2Inv
  <2>3. Cardinality(InHand) \in Nat BY <2>1, FS_CardinalityType
  <2> HIDE DEF InHand
  <2>4. connSendWin = FirstWin + grantedAll - sentAll - Cardinality(InHand)
        BY DEF WinInv, ConnAccounted
  <2>5. connSendWin' >= 0 /\ sentAll' = sentAll /\ grantedAll' = grantedAll BY <1>1, <1>2, <1>5
  <2>6. connSendWin' = FirstWin + grantedAll - sentAll - Cardinality(InHand')
        BY <1>1, <1>2, <1>5, <2>2, <2>3, <2>4
  <2> QED BY <2>2, <2>5, <2>6 DEF ConnAccounted
<1>7. StreamsAccounted'
  <2>1. ASSUME NEW q \in streams
        PROVE  sendWin'[q] = initStreamWin + granted[q] - sent[q] - hand'[q]
    <3>1. sendWin[q] = initStreamWin + granted[q] - sent[q] - hand[q]
          BY DEF WinInv, StreamsAccounted
    <3>2. CASE q = r BY <1>1, <1>2, <1>3, <1>4, <1>5, <3>1, <3>2
    <3>3. CASE q # r BY <1>3, <1>5, <3>1, <3>3
    <3> QED BY <3>2, <3>3
  <2> QED BY <1>2, <2>1 DEF WinInv, StreamsAccounted
<1>8. ASSUME NEW q \in Calls PROVE HandAllowed(q)'
  <2>1. CASE q = r
    <3>1. sendWin[r] = initStreamWin + granted[r] - sent[r] /\ initStreamWin <= peerWin
          BY <1>2, <1>4, <1>5 DEF WinInv, StreamsAccounted
    <3>2. sent[r] + n <= peerWin + granted[r] BY <1>1, <1>4, <1>5, <3>1
    <3> QED BY <1>2, <1>3, <2>1, <3>2 DEF HandAllowed
  <2>2. CASE q # r BY <1>2, <1>3, <2>2 DEF WinInv, HandAllowed
  <2> QED BY <2>1, <2>2
<1>9. \A q \in Calls : Begins(q)' /\ WriterHasStream(q)'
      BY <1>2, <1>3 DEF WinInv, Begins, WriterHasStream
<1>10. LoopHolds' BY <1>2 DEF WinInv, LoopHolds
<1> QED BY <1>6, <1>7, <1>8, <1>9, <1>10 DEF WinInv

\* A writer that breaks off leaves the windows as they are.
LEMMA BreaksOffWindows ==
  ASSUME H2Inv, WinInv, NEW r \in Calls, writer[r] = "sending", BreaksOff(r),
         UNCHANGED <<call, allWins, closed, loop, peer>>
  PROVE  WinInv'
<1>1. /\ writer' = [writer EXCEPT ![r] = "done"]
      /\ stream' = [stream EXCEPT ![r] = Reset(@)] /\ Forget(r)
      BY DEF BreaksOff
<1>2. writer'[r] = "done" /\ \A q \in Calls : q # r => writer'[q] = writer[q]
      BY <1>1 DEF H2Inv, H2TypeOK
<1>3. LoopHolds' BY DEF WinInv, LoopHolds
<1>4. stream[r] \in Stream /\ call[r] \notin {"idle", "reserved"}
      BY DEF H2Inv, H2TypeOK, StreamInv, Untouched, WinInv, Begins
<1> QED BY <1>1, <1>2, <1>3, <1>4, ResetKeepsWindows DEF H2Inv

\* DATA written is no longer in hand.
LEMMA WritesDataWindows ==
  ASSUME H2Inv, WinInv, NEW r \in Calls, WritesData(r)
  PROVE  WinInv'
<1> USE DEF callVars, winVars, connVars, peerVars, histVars
<1>1. /\ writer[r] = "sending"
      /\ UNCHANGED <<callVars, left, winVars, connVars, peerVars, histVars>>
      BY DEF WritesData
<1>2. CASE BreaksOff(r) /\ UNCHANGED <<hand, sent, sentAll, overtaken>>
      BY <1>1, <1>2, BreaksOffWindows DEF allWins
<1>3. CASE /\ sent' = [sent EXCEPT ![r] = @ + hand[r]] /\ sentAll' = sentAll + hand[r]
           /\ hand' = [hand EXCEPT ![r] = 0] /\ overtaken' = overtaken \ {r}
           /\ UNCHANGED <<writer, stream, streams>>
  <2>1. /\ hand'[r] = 0 /\ sent'[r] = sent[r] + hand[r]
        /\ \A q \in Calls : q # r => hand'[q] = hand[q] /\ sent'[q] = sent[q]
        BY <1>3 DEF H2Inv, H2TypeOK
  <2>2. \A q \in Calls : /\ sent[q] \in Nat /\ sendWin[q] \in Int /\ granted[q] \in Nat
                         /\ hand[q] \in Nat
        BY DEF H2Inv, H2TypeOK
  <2>3. /\ initStreamWin \in Nat /\ connSendWin \in Int /\ sentAll \in Nat
        /\ grantedAll \in Nat /\ FirstWin \in Nat /\ streams \subseteq Calls
        BY H2Assumption DEF H2Inv, H2TypeOK
  <2>4. ConnAccounted'
    <3>1. IsFiniteSet(InHand) /\ connSendWin >= 0
          /\ connSendWin = FirstWin + grantedAll - sentAll - Cardinality(InHand)
          BY DEF WinInv, ConnAccounted
    <3>2. /\ IsFiniteSet(InHand') /\ Cardinality(InHand') \in Nat
          /\ Cardinality(InHand) = Cardinality(InHand') + hand[r]
          BY <1>3, <3>1, HandEmptied DEF H2Inv
    <3> HIDE DEF InHand
    <3>3. connSendWin = FirstWin + grantedAll - (sentAll + hand[r]) - Cardinality(InHand')
          BY <2>2, <2>3, <3>1, <3>2
    <3> QED BY <1>1, <1>3, <3>1, <3>2, <3>3 DEF ConnAccounted
  <2>5. StreamsAccounted'
    <3>1. ASSUME NEW q \in streams
          PROVE  sendWin[q] = initStreamWin + granted[q] - sent'[q] - hand'[q]
      <4>1. sendWin[q] = initStreamWin + granted[q] - sent[q] - hand[q]
            BY DEF WinInv, StreamsAccounted
      <4>2. CASE q = r
        <5>1. hand'[r] = 0 /\ sent'[r] = sent[r] + hand[r] BY <2>1
        <5>2. /\ sent[r] \in Nat /\ sendWin[r] \in Int /\ granted[r] \in Nat /\ hand[r] \in Nat
              BY <2>2
        <5>3. sendWin[r] = initStreamWin + granted[r] - sent[r] - hand[r] BY <4>1, <4>2
        <5>4. sendWin[r] = initStreamWin + granted[r] - sent'[r] - hand'[r]
              BY ONLY <2>3, <5>1, <5>2, <5>3
        <5> QED BY <4>2, <5>4
      <4>3. CASE q # r BY <2>1, <2>3, <4>1, <4>3
      <4> QED BY <4>2, <4>3
    <3> QED BY <1>1, <1>3, <3>1 DEF WinInv, StreamsAccounted
  <2>6. \A q \in Calls : HandAllowed(q)'
        BY <1>1, <1>3, <2>1 DEF WinInv, HandAllowed
  <2>7. \A q \in Calls : Begins(q)' /\ WriterHasStream(q)'
        BY <1>1, <1>3, <2>1 DEF WinInv, Begins, WriterHasStream
  <2>8. LoopHolds' BY <1>1 DEF WinInv, LoopHolds
  <2> QED BY <2>4, <2>5, <2>6, <2>7, <2>8 DEF WinInv
<1> QED BY <1>2, <1>3 DEF WritesData

\* A writer that is through, or gives up, has written no more.
LEMMA WriterEndsWindows ==
  ASSUME H2Inv, WinInv, NEW r \in Calls, WritesEnd(r) \/ WriterGivesUp(r)
  PROVE  WinInv'
<1> USE DEF callVars, winVars, connVars, peerVars, histVars
<1>1. /\ writer[r] = "sending"
      /\ UNCHANGED <<callVars, hand, sent, sentAll, overtaken, winVars, connVars, peerVars,
                     histVars>>
      BY DEF WritesEnd, WriterGivesUp
<1>2. CASE BreaksOff(r) BY <1>1, <1>2, BreaksOffWindows DEF allWins
<1>3. CASE writer' = [writer EXCEPT ![r] = "done"] /\ UNCHANGED <<stream, streams>>
  <2>1. writer'[r] = "done" /\ \A q \in Calls : q # r => writer'[q] = writer[q]
        BY <1>3 DEF H2Inv, H2TypeOK
  <2>2. LoopHolds' BY <1>1 DEF WinInv, LoopHolds
  <2> QED BY <1>1, <1>3, <2>1, <2>2, CallKeepsWindows DEF allWins
<1> QED BY <1>2, <1>3 DEF WritesEnd, WriterGivesUp

\* The receiving side has windows of its own.
LEMMA ReadsDataWindows ==
  ASSUME H2Inv, WinInv, NEW r \in Calls, ReadsData(r)
  PROVE  WinInv'
<1> USE DEF callVars, sentVars, winVars, histVars
<1>1. /\ call[r] = "reading" /\ loop' = Idle /\ stream[r] \in Stream
      /\ call'[r] = "holding" /\ \A q \in Calls : q # r => call'[q] = call[q]
      /\ UNCHANGED <<sentVars, winVars, closed, peer, histVars>>
      BY DEF ReadsData, H2Inv, H2TypeOK
<1>2. LoopHolds' BY <1>1, LoopKeepsHold DEF H2Inv
<1>3. CASE EndOfBody(r)
      BY <1>1, <1>2, <1>3, EndOfBodyKeepsWindows DEF EndOfBody, allWins, H2Inv
<1>4. CASE UNCHANGED <<stream, streams>>
      BY <1>1, <1>2, <1>4, CallKeepsWindows DEF allWins
<1> QED BY <1>3, <1>4 DEF ReadsData

\* The same, when the loop drops what nobody reads.
LEMMA LoopGivesUpWindows ==
  ASSUME H2Inv, WinInv, LoopGivesUp
  PROVE  WinInv'
<1> USE DEF callVars, sentVars, winVars, peerVars, histVars
<1> DEFINE r == loop.call
<1>1. /\ r \in Calls /\ r # NoCall /\ loop' = Idle
      /\ stream' = [stream EXCEPT ![r] = Reset(@)] /\ Forget(r)
      /\ UNCHANGED <<callVars, sentVars, winVars, closed, peerVars, histVars>>
      BY DEF LoopGivesUp, H2Inv, H2TypeOK
<1>2. peer[r] # "unaware" BY <1>1 DEF WinInv, LoopHolds
<1> HIDE DEF r
<1>3. stream[r] \in Stream /\ call[r] \notin {"idle", "reserved"}
      BY <1>1, <1>2 DEF H2Inv, H2TypeOK, StreamInv, Untouched
<1>4. LoopHolds' BY <1>1, LoopKeepsHold DEF H2Inv
<1> QED BY <1>1, <1>3, <1>4, ResetKeepsWindows DEF allWins, H2Inv

\* A frame of one stream, whose call has written its HEADERS.
LEMMA ReceivedWindows ==
  ASSUME H2Inv, WinInv, NEW r \in Calls, Received(r)
  PROVE  WinInv'
<1> USE DEF callVars, sentVars, winVars, connVars, histVars
<1>1. /\ peer[r] \in {"open", "answering"}
      /\ UNCHANGED <<callVars, sentVars, winVars, closed, histVars>>
      BY DEF Received, ReceivesHeaders, ReceivesData, ReceivesEnd, ReceivesReset
<1>2. stream[r] \in Stream /\ call[r] \notin {"idle", "reserved"}
      BY <1>1 DEF H2Inv, H2TypeOK, StreamInv, Untouched
<1>3. LoopHolds'
  <2>1. \A q \in Calls : peer'[q] = peer[q] \/ peer'[q] # "unaware"
        BY DEF H2Inv, H2TypeOK, Received, ReceivesHeaders, ReceivesData, ReceivesEnd,
           ReceivesReset, PeerTo
  <2>2. CASE loop' \in {loop, Idle} BY <2>1, <2>2, LoopKeepsHold DEF H2Inv
  <2>3. CASE loop'.call = r
    <3>1. peer'[r] # "unaware" BY <1>1, <2>1
    <3> QED BY <2>3, <3>1 DEF LoopHolds
  <2> QED BY <2>2, <2>3 DEF Received, ReceivesHeaders, ReceivesData, ReceivesEnd, ReceivesReset
<1>4. ASSUME UNCHANGED <<stream, streams>> PROVE WinInv'
      BY <1>1, <1>3, <1>4, CallKeepsWindows DEF allWins
<1>5. ASSUME NEW st \in Stream,
             stream' = [stream EXCEPT ![r] = Finished(Piped(st, "eof"))], Forget(r)
      PROVE  WinInv'
      BY <1>1, <1>2, <1>3, <1>5, EndOfBodyKeepsWindows DEF allWins, H2Inv
<1>6. CASE ReceivesData(r) BY <1>4, <1>6 DEF ReceivesData
<1>7. CASE ReceivesEnd(r) BY <1>2, <1>4, <1>5, <1>7 DEF ReceivesEnd, EndOfBody
<1>8. CASE ReceivesReset(r)
  <2>1. CASE stream' = [stream EXCEPT ![r] = Reset(@)] /\ Forget(r)
        BY <1>1, <1>2, <1>3, <2>1, ResetKeepsWindows DEF allWins, H2Inv
  <2> QED BY <1>4, <1>8, <2>1 DEF ReceivesReset
<1>9. CASE ReceivesHeaders(r)
  <2> DEFINE st == [stream[r] EXCEPT !.hdr = TRUE]
  <2>1. st \in Stream /\ st.closed = stream[r].closed BY <1>2, AnsweredStream
  <2>2. \/ UNCHANGED <<stream, streams>>
        \/ stream' = [stream EXCEPT ![r] = Finished(Piped(st, "eof"))] /\ Forget(r)
        \/ stream' = [stream EXCEPT ![r] = st] /\ UNCHANGED streams
        BY <1>9 DEF ReceivesHeaders
  <2> HIDE DEF st
  <2>3. CASE stream' = [stream EXCEPT ![r] = st] /\ UNCHANGED streams
    <3>1. stream'[r] = st /\ \A q \in Calls : q # r => stream'[q] = stream[q]
          BY <2>3 DEF H2Inv, H2TypeOK
    <3> QED BY <1>1, <1>3, <2>1, <2>3, <3>1, CallKeepsWindows DEF allWins
  <2> QED BY <1>4, <1>5, <2>1, <2>2, <2>3
<1> QED BY <1>6, <1>7, <1>8, <1>9 DEF Received

\* SETTINGS shift every stream in the table by as much as the initial window; the
\* peer allows for the larger of the two until the ACK.
LEMMA SettingsWindows ==
  ASSUME H2Inv, WinInv, ReceivesSettings
  PROVE  WinInv'
<1> USE DEF callVars, sentVars, connVars
<1>1. PICK w \in StreamWin : /\ initStreamWin' = w
                             /\ peerWin' = IF w > peerWin THEN w ELSE peerWin
                             /\ sendWin' = Shifted(w - initStreamWin)
      BY DEF ReceivesSettings
<1>2. UNCHANGED <<callVars, streams, stream, sentVars, connSendWin, goAway, closed, peer, recvWin,
                  wire, granted, grantedAll>>
      BY DEF ReceivesSettings
<1>3. w \in Nat /\ initStreamWin \in Nat /\ peerWin \in Nat /\ streams \subseteq Calls
      BY H2Assumption DEF H2Inv, H2TypeOK
<1>4. w <= peerWin' /\ peerWin <= peerWin' /\ peerWin' \in Nat BY <1>1, <1>3
<1>5. StreamsAccounted'
  <2>1. ASSUME NEW q \in streams PROVE sendWin'[q] = w + granted[q] - sent[q] - hand[q]
    <3>1. sendWin'[q] = sendWin[q] + (w - initStreamWin) BY <1>1, <1>3 DEF Shifted
    <3>2. sendWin[q] = initStreamWin + granted[q] - sent[q] - hand[q]
          BY DEF WinInv, StreamsAccounted
    <3>3. granted[q] \in Nat /\ sent[q] \in Nat /\ hand[q] \in Nat BY <1>3 DEF H2Inv, H2TypeOK
    <3> QED BY <1>3, <3>1, <3>2, <3>3
  <2> QED BY <1>1, <1>2, <1>4, <2>1 DEF StreamsAccounted
<1>6. ConnAccounted' BY <1>2, HandsKept DEF WinInv
<1>7. ASSUME NEW q \in Calls PROVE HandAllowed(q)'
  <2>1. granted[q] \in Nat /\ sent[q] \in Nat /\ hand[q] \in Nat BY DEF H2Inv, H2TypeOK
  <2>2. HandAllowed(q) BY DEF WinInv
  <2> QED BY <1>2, <1>3, <1>4, <2>1, <2>2 DEF HandAllowed
<1>8. LoopHolds' BY DEF ReceivesSettings, LoopHolds, AckDue
<1>9. \A q \in Calls : Begins(q)' /\ WriterHasStream(q)'
      BY <1>2 DEF WinInv, Begins, WriterHasStream
<1> QED BY <1>5, <1>6, <1>7, <1>8, <1>9 DEF WinInv

\* The ACK overtakes whatever is in hand.
LEMMA AcksWindows ==
  ASSUME H2Inv, WinInv, Acks
  PROVE  WinInv'
<1> USE DEF callVars, winVars, peerVars
<1>1. /\ loop' = Idle /\ peerWin' = initStreamWin
      /\ overtaken' = {r \in Calls : hand[r] > 0}
      /\ UNCHANGED <<callVars, streams, stream, writer, left, hand, sent, sentAll, winVars, goAway,
                     closed, peerVars, wire, granted, grantedAll>>
      BY DEF Acks
<1>2. initStreamWin \in Nat BY DEF H2Inv, H2TypeOK
<1>3. StreamsAccounted' BY <1>1, <1>2 DEF WinInv, StreamsAccounted
<1>4. ConnAccounted' BY <1>1, HandsKept DEF WinInv
<1>5. \A q \in Calls : HandAllowed(q)' BY <1>1 DEF HandAllowed
<1>6. LoopHolds' BY <1>1 DEF LoopHolds, Idle
<1>7. \A q \in Calls : Begins(q)' /\ WriterHasStream(q)'
      BY <1>1 DEF WinInv, Begins, WriterHasStream
<1> QED BY <1>3, <1>4, <1>5, <1>6, <1>7 DEF WinInv

\* A WINDOW_UPDATE grants to the kept window what it allows.
LEMMA WindowUpdateWindows ==
  ASSUME H2Inv, WinInv, ReceivesWindow
  PROVE  WinInv'
<1> USE DEF callVars, sentVars, connVars
<1>1. UNCHANGED <<callVars, streams, stream, sentVars, initStreamWin, connVars, peer, recvWin,
                  wire, peerWin>>
      BY DEF ReceivesWindow
<1>2. LoopHolds' /\ \A q \in Calls : WriterHasStream(q)'
      BY <1>1 DEF WinInv, LoopHolds, WriterHasStream
<1>3. /\ peerWin \in Nat /\ initStreamWin \in Nat /\ sentAll \in Nat /\ grantedAll \in Nat
      /\ FirstWin \in Nat /\ connSendWin \in Int
      BY H2Assumption DEF H2Inv, H2TypeOK
<1>4. CASE /\ connSendWin' = connSendWin + 1 /\ grantedAll' = grantedAll + 1
           /\ UNCHANGED <<sendWin, granted>>
  <2>1. InHand' = InHand BY <1>1 DEF InHand
  <2>2. Cardinality(InHand) \in Nat BY FS_CardinalityType DEF WinInv, ConnAccounted
  <2> HIDE DEF InHand
  <2>3. ConnAccounted' BY <1>1, <1>3, <1>4, <2>1, <2>2 DEF WinInv, ConnAccounted
  <2>4. StreamsAccounted' /\ \A q \in Calls : HandAllowed(q)'
        BY <1>1, <1>4 DEF WinInv, StreamsAccounted, HandAllowed
  <2>5. \A q \in Calls : Begins(q)' BY <1>1, <1>4 DEF WinInv, Begins
  <2> QED BY <1>2, <2>3, <2>4, <2>5 DEF WinInv
<1>5. ASSUME NEW r \in Calls, peer[r] \in {"open", "answering"}, r \in streams,
             sendWin' = [sendWin EXCEPT ![r] = @ + 1], granted' = [granted EXCEPT ![r] = @ + 1],
             UNCHANGED <<connSendWin, grantedAll>>
      PROVE  WinInv'
  <2>1. /\ sendWin'[r] = sendWin[r] + 1 /\ granted'[r] = granted[r] + 1
        /\ \A q \in Calls : q # r => sendWin'[q] = sendWin[q] /\ granted'[q] = granted[q]
        BY <1>5 DEF H2Inv, H2TypeOK
  <2>2. call[r] # "idle" BY <1>5 DEF H2Inv, StreamInv, Untouched
  <2>3. \A q \in Calls : /\ granted[q] \in Nat /\ sent[q] \in Nat /\ hand[q] \in Nat
                         /\ sendWin[q] \in Int
        BY DEF H2Inv, H2TypeOK
  <2>4. ASSUME NEW q \in streams
        PROVE  sendWin'[q] = initStreamWin + granted'[q] - sent[q] - hand[q]
    <3>1. sendWin[q] = initStreamWin + granted[q] - sent[q] - hand[q]
          BY DEF WinInv, StreamsAccounted
    <3>2. q \in Calls BY DEF H2Inv, H2TypeOK
    <3>3. CASE q = r BY <1>3, <2>1, <2>3, <3>1, <3>2, <3>3
    <3>4. CASE q # r BY <2>1, <3>1, <3>2, <3>4
    <3> QED BY <3>3, <3>4
  <2>5. StreamsAccounted' BY <1>1, <2>4 DEF WinInv, StreamsAccounted
  <2>6. ConnAccounted' BY <1>1, <1>5, HandsKept DEF WinInv
  <2>7. ASSUME NEW q \in Calls PROVE HandAllowed(q)'
    <3>1. HandAllowed(q) /\ granted'[q] >= granted[q] BY <2>1, <2>3 DEF WinInv
    <3>2. granted'[q] \in Nat BY <2>1, <2>3
    <3> QED BY <1>1, <1>3, <2>3, <3>1, <3>2 DEF HandAllowed
  <2>8. \A q \in Calls : Begins(q)' BY <1>1, <2>1, <2>2 DEF WinInv, Begins
  <2> QED BY <1>2, <2>5, <2>6, <2>7, <2>8 DEF WinInv
<1> QED BY <1>4, <1>5 DEF ReceivesWindow

\* A connection that leaves sends nothing.
LEMMA ConnectionWindows ==
  ASSUME H2Inv, WinInv, ReceivesGoAway \/ ConnectionEnds
  PROVE  WinInv'
<1> USE DEF callVars, sentVars, winVars, peerVars, histVars
<1>1. /\ UNCHANGED <<callVars, streams, sentVars, winVars, loop, peer, histVars>>
      /\ closed' \/ UNCHANGED <<stream, closed>>
      BY DEF ReceivesGoAway, ConnectionEnds
<1>2. ConnAccounted' BY <1>1, HandsKept DEF WinInv
<1>3. StreamsAccounted' /\ LoopHolds' BY <1>1 DEF WinInv, StreamsAccounted, LoopHolds
<1>4. \A q \in Calls : Begins(q)' /\ WriterHasStream(q)' /\ HandAllowed(q)'
      BY <1>1 DEF WinInv, Begins, WriterHasStream, HandAllowed
<1> QED BY <1>2, <1>3, <1>4 DEF WinInv

\* Every step keeps the windows equal to what is allowed minus what was charged.
LEMMA WindowsStep == H2Inv /\ WinInv /\ [H2Next]_h2Vars => WinInv'
<1> SUFFICES ASSUME H2Inv, WinInv, [H2Next]_h2Vars PROVE WinInv'
    OBVIOUS
<1>1. ASSUME NEW r \in Calls,
             Reserves(r) \/ GoesOn(r) \/ Caller(r) \/ Writer(r) \/ Received(r)
      PROVE  WinInv'
      BY <1>1, ReservesWindows, WritesHeadersWindows, CallerWindows, ReadsDataWindows,
         DebitsWindows, WritesDataWindows, WriterEndsWindows, ReceivedWindows DEF GoesOn, Writer
<1>2. CASE LoopGivesUp BY <1>2, LoopGivesUpWindows
<1>3. CASE ReceivesSettings \/ Acks \/ ReceivesWindow
      BY <1>3, SettingsWindows, AcksWindows, WindowUpdateWindows
<1>4. CASE ReceivesGoAway \/ ConnectionEnds BY <1>4, ConnectionWindows
<1>5. CASE UNCHANGED h2Vars
  <2> USE DEF h2Vars, callVars, sentVars, winVars, connVars, peerVars, histVars
  <2>1. ConnAccounted' BY <1>5, HandsKept DEF WinInv
  <2>2. StreamsAccounted' /\ LoopHolds' BY <1>5 DEF WinInv, StreamsAccounted, LoopHolds
  <2>3. \A q \in Calls : Begins(q)' /\ WriterHasStream(q)' /\ HandAllowed(q)'
        BY <1>5 DEF WinInv, Begins, WriterHasStream, HandAllowed
  <2> QED BY <2>1, <2>2, <2>3 DEF WinInv
<1> QED BY <1>1, <1>2, <1>3, <1>4, <1>5 DEF H2Next

\* Only writeData sends, what it has in hand.
LEMMA SendsWithinWindows ==
  ASSUME H2Inv, WinInv, [H2Next]_h2Vars, NEW r \in Calls, sent'[r] # sent[r]
  PROVE  /\ r \in overtaken \/ sent'[r] <= peerWin + granted[r]
         /\ sentAll' <= FirstWin + grantedAll
<1>1. UNCHANGED sent \/ \E q \in Calls : WritesData(q)
      BY DEF H2Next, GoesOn, Caller, Writer, Received, Reserves, WritesHeaders, Deadline, SeesDone,
         TakesHeaders, AsksMore, ReadsData, ReadsEnd, Closes, Debits, WritesEnd, WriterGivesUp,
         ReceivesHeaders, ReceivesData, ReceivesEnd, ReceivesReset, LoopGivesUp,
         ReceivesSettings, Acks, ReceivesWindow, ReceivesGoAway, ConnectionEnds, h2Vars, sentVars
<1>2. PICK q \in Calls : WritesData(q) BY <1>1
<1>3. /\ q = r /\ hand[r] > 0 /\ hand' = [hand EXCEPT ![r] = 0]
      /\ sent'[r] = sent[r] + hand[r] /\ sentAll' = sentAll + hand[r]
      BY <1>2 DEF WritesData, H2Inv, H2TypeOK
<1>4. /\ peerWin \in Nat /\ granted[r] \in Nat /\ sent[r] \in Nat /\ hand[r] \in Nat
      /\ FirstWin \in Nat /\ grantedAll \in Nat /\ sentAll \in Nat
      BY H2Assumption DEF H2Inv, H2TypeOK
<1>5. r \in overtaken \/ sent'[r] <= peerWin + granted[r]
      BY <1>3 DEF WinInv, HandAllowed
<1>6. /\ IsFiniteSet(InHand) /\ connSendWin >= 0 /\ connSendWin \in Int
      /\ connSendWin = FirstWin + grantedAll - sentAll - Cardinality(InHand)
      BY DEF WinInv, ConnAccounted, H2Inv, H2TypeOK
<1>7. /\ Cardinality(InHand') \in Nat
      /\ Cardinality(InHand) = Cardinality(InHand') + hand[r]
      BY <1>3, <1>6, HandEmptied DEF H2Inv
<1> HIDE DEF InHand
<1>8. sentAll + hand[r] <= FirstWin + grantedAll BY <1>4, <1>6, <1>7
<1> QED BY <1>3, <1>5, <1>8

\* DATA goes out only within what the peer has allowed, for the stream and for
\* the connection, in whatever order SETTINGS, WINDOW_UPDATEs, resets and the
\* other writers come; only a chunk that an ACK of SETTINGS overtook between its
\* charge and its write may exceed its stream's window, and never the connection's
\* (writeData, handleSettings, handleWindowUpdate).
THEOREM AlwaysWithinWindows == H2Spec => WithinWindows
<1> DEFINE Sends == \A r \in Calls : sent'[r] # sent[r] =>
                      /\ r \in overtaken \/ sent'[r] <= peerWin + granted[r]
                      /\ sentAll' <= FirstWin + grantedAll
<1>1. (H2Inv /\ WinInv) /\ [H2Next]_h2Vars => [Sends]_h2Vars BY SendsWithinWindows
<1>2. H2Spec => [](H2Inv /\ WinInv)
      BY AlwaysH2Inv, WindowsBegin, WindowsStep, PTL DEF H2Spec
<1> QED BY <1>1, <1>2, PTL DEF H2Spec, WithinWindows

-----------------------------------------------------------------------------
(***************************************************************************)
(* The pool.  The refinement needs what the types do not say: a request    *)
(* that is not waiting yet was written nowhere, one that waits was written *)
(* on one connection, and whoever is about to write holds a connection.    *)
(***************************************************************************)

Unwritten == {"start", "pooled", "dialing", "dialed", "stored"}

\* Nothing was written before the request waits, and then once.
WrittenBy ==
  \A r \in Requests :
    /\ at[r] \in Unwritten => sentOn[r] = {}
    /\ at[r] = "waiting" => \E c \in Conns : sentOn[r] = {c}

\* Who is about to write or to store a connection holds it, and it was dialled.
Holds ==
  \A r \in Requests :
    /\ at[r] \in {"pooled", "dialed", "stored"} => on[r] \in Conns
    /\ at[r] \in {"dialed", "stored"} => conn[on[r]] \notin {"none", "single"}

PoolInv == H2PoolTypeOK /\ WrittenBy /\ Holds

-----------------------------------------------------------------------------

\* At first nothing was written and nothing is pooled.
LEMMA PoolInitInv == PoolInit => PoolInv
BY H2PoolAssumption DEF PoolInit, PoolInv, H2PoolTypeOK, WrittenBy, Holds, Unwritten, Place, NoConn

\* A request takes the pooled connection, which was dialled, or none.
LEMMA GetConnInv ==
  ASSUME PoolInv, NEW r \in Requests, GetConn(r)
  PROVE  PoolInv'
<1> USE DEF PoolInv, GetConn, Moves, Usable
<1>1. H2PoolTypeOK' BY DEF H2PoolTypeOK, Place
<1>2. WrittenBy' BY DEF H2PoolTypeOK, WrittenBy, Unwritten
<1>3. Holds' BY DEF H2PoolTypeOK, Holds
<1> QED BY <1>1, <1>2, <1>3

\* A request leaves the pooled connection with a write on it or with none.
LEMMA PooledRoundTripInv ==
  ASSUME PoolInv, NEW r \in Requests, PooledRoundTrip(r)
  PROVE  PoolInv'
<1> USE DEF PoolInv, PooledRoundTrip, Moves, Usable, Writes, Dropped
<1>1. on[r] \in Conns /\ sentOn[r] = {} BY DEF Holds, WrittenBy, Unwritten
<1>2. H2PoolTypeOK' BY <1>1 DEF H2PoolTypeOK, Place
<1>3. WrittenBy'
  <2> SUFFICES ASSUME NEW q \in Requests
               PROVE  /\ at'[q] \in Unwritten => sentOn'[q] = {}
                      /\ at'[q] = "waiting" => \E c \in Conns : sentOn'[q] = {c}
      BY DEF WrittenBy
  <2>1. CASE q # r BY <2>1 DEF H2PoolTypeOK, WrittenBy
  <2>2. CASE q = r /\ Usable(on[r])
    <3>1. sentOn'[r] = {on[r]} /\ at'[r] = "waiting" BY <1>1, <2>2 DEF H2PoolTypeOK
    <3> QED BY <1>1, <2>2, <3>1 DEF Unwritten
  <2>3. CASE q = r /\ ~Usable(on[r]) BY <1>1, <2>3 DEF H2PoolTypeOK, Unwritten
  <2> QED BY <2>1, <2>2, <2>3
<1>4. Holds' BY DEF H2PoolTypeOK, Holds
<1> QED BY <1>2, <1>3, <1>4

\* A connection just dialled carries the request of its dialler or none.
LEMMA DialInv ==
  ASSUME PoolInv, NEW r \in Requests, Dial(r)
  PROVE  PoolInv'
<1> USE DEF PoolInv, Moves
<1>1. sentOn[r] = {} /\ at[r] = "dialing" BY DEF Dial, WrittenBy, Unwritten
<1>2. UNCHANGED <<kept, hooked>> BY DEF Dial
<1>3. CASE Moves(r, "failed", NoConn) /\ UNCHANGED <<conn, sentOn>>
  <2>1. H2PoolTypeOK' BY <1>2, <1>3 DEF H2PoolTypeOK, Place
  <2>2. WrittenBy' BY <1>3 DEF H2PoolTypeOK, WrittenBy, Unwritten
  <2>3. Holds' BY <1>3 DEF H2PoolTypeOK, Holds
  <2> QED BY <2>1, <2>2, <2>3
<1>4. ASSUME NEW c \in Conns, conn[c] = "none", conn' = [conn EXCEPT ![c] = "live"],
             Moves(r, "dialed", c), UNCHANGED sentOn
      PROVE  PoolInv'
  <2>1. H2PoolTypeOK' BY <1>2, <1>4 DEF H2PoolTypeOK, Place
  <2>2. WrittenBy' BY <1>1, <1>4 DEF H2PoolTypeOK, WrittenBy, Unwritten
  <2>3. Holds' BY <1>4 DEF H2PoolTypeOK, Holds
  <2> QED BY <2>1, <2>2, <2>3
<1>5. ASSUME NEW c \in Conns, conn[c] = "none", conn' = [conn EXCEPT ![c] = "single"],
             Moves(r, "waiting", c), sentOn' = [sentOn EXCEPT ![r] = @ \cup {c}]
      PROVE  PoolInv'
  <2>1. sentOn'[r] = {c} /\ at'[r] = "waiting" BY <1>1, <1>5 DEF H2PoolTypeOK
  <2>2. H2PoolTypeOK' BY <1>2, <1>5, <2>1 DEF H2PoolTypeOK, Place
  <2>3. WrittenBy'
    <3> SUFFICES ASSUME NEW q \in Requests
                 PROVE  /\ at'[q] \in Unwritten => sentOn'[q] = {}
                        /\ at'[q] = "waiting" => \E d \in Conns : sentOn'[q] = {d}
        BY DEF WrittenBy
    <3>1. CASE q # r BY <1>5, <3>1 DEF H2PoolTypeOK, WrittenBy
    <3>2. CASE q = r BY <2>1, <3>2 DEF Unwritten
    <3> QED BY <3>1, <3>2
  <2>4. Holds' BY <1>5 DEF H2PoolTypeOK, Holds
  <2> QED BY <2>2, <2>3, <2>4
<1> QED BY <1>3, <1>4, <1>5 DEF Dial

\* A connection is stored while its dialler still holds it.
LEMMA StoreConnInv ==
  ASSUME PoolInv, NEW r \in Requests, StoreConn(r)
  PROVE  PoolInv'
<1> USE DEF PoolInv, StoreConn, Moves, Stored, Usable
<1>1. on[r] \in Conns /\ conn[on[r]] \notin {"none", "single"} BY DEF Holds
<1>2. H2PoolTypeOK' BY <1>1 DEF H2PoolTypeOK, Place
<1>3. WrittenBy' BY DEF H2PoolTypeOK, WrittenBy, Unwritten
<1>4. Holds' BY <1>1 DEF H2PoolTypeOK, Holds
<1> QED BY <1>2, <1>3, <1>4

\* The dialler writes on its own connection, its only write.
LEMMA OwnRoundTripInv ==
  ASSUME PoolInv, NEW r \in Requests, OwnRoundTrip(r)
  PROVE  PoolInv'
<1> USE DEF PoolInv, OwnRoundTrip, Moves, Usable, Writes
<1>1. on[r] \in Conns /\ sentOn[r] = {} BY DEF Holds, WrittenBy, Unwritten
<1>2. H2PoolTypeOK' BY <1>1 DEF H2PoolTypeOK, Place
<1>3. WrittenBy'
  <2> SUFFICES ASSUME NEW q \in Requests
               PROVE  /\ at'[q] \in Unwritten => sentOn'[q] = {}
                      /\ at'[q] = "waiting" => \E c \in Conns : sentOn'[q] = {c}
      BY DEF WrittenBy
  <2>1. CASE q # r BY <2>1 DEF H2PoolTypeOK, WrittenBy
  <2>2. CASE q = r /\ Usable(on[r])
    <3>1. sentOn'[r] = {on[r]} /\ at'[r] = "waiting" BY <1>1, <2>2 DEF H2PoolTypeOK
    <3> QED BY <1>1, <2>2, <3>1 DEF Unwritten
  <2>3. CASE q = r /\ ~Usable(on[r]) BY <1>1, <2>3 DEF H2PoolTypeOK, Unwritten
  <2> QED BY <2>1, <2>2, <2>3
<1>4. Holds' BY DEF H2PoolTypeOK, Holds
<1> QED BY <1>2, <1>3, <1>4

\* An answer or a failure ends the request and writes nothing.
LEMMA EndsInv ==
  ASSUME PoolInv, NEW r \in Requests, RequestAnswered(r) \/ RequestFailed(r)
  PROVE  PoolInv'
<1> USE DEF PoolInv, RequestAnswered, RequestFailed, FailedGoesTo, Moves
<1>1. H2PoolTypeOK' BY DEF H2PoolTypeOK, Place
<1>2. WrittenBy' BY DEF H2PoolTypeOK, WrittenBy, Unwritten
<1>3. Holds' BY DEF H2PoolTypeOK, Holds
<1> QED BY <1>1, <1>2, <1>3

\* A connection may end at any time; what was written stays written.
LEMMA ConnLeavesInv ==
  ASSUME PoolInv, NEW c \in Conns, ConnLeaves(c)
  PROVE  PoolInv'
<1> USE DEF PoolInv, ConnLeaves, Dropped
<1>1. H2PoolTypeOK' BY DEF H2PoolTypeOK
<1>2. WrittenBy' BY DEF WrittenBy
<1>3. Holds' BY DEF H2PoolTypeOK, Holds
<1> QED BY <1>1, <1>2, <1>3

\* Every step of a request or of a connection keeps the invariant.
LEMMA PoolStepInv == PoolInv /\ [PoolNext]_poolVars => PoolInv'
<1> SUFFICES ASSUME PoolInv, [PoolNext]_poolVars PROVE PoolInv'
    OBVIOUS
<1>1. CASE UNCHANGED poolVars
  BY <1>1 DEF poolVars, PoolInv, H2PoolTypeOK, WrittenBy, Holds
<1>2. CASE PoolNext
  BY <1>2, GetConnInv, PooledRoundTripInv, DialInv, StoreConnInv, OwnRoundTripInv, EndsInv,
     ConnLeavesInv DEF PoolNext
<1> QED BY <1>1, <1>2

\* The invariant holds of every behaviour of the pool.
LEMMA AlwaysPoolInv == PoolSpec => []PoolInv
BY PoolInitInv, PoolStepInv, PTL DEF PoolSpec

-----------------------------------------------------------------------------

\* Whatever connections end when, the pool holds a dialled HTTP/2 connection whose
\* onClose is set, and only a request that was written is answered (roundtripper.go).
THEOREM PoolTypesCorrect == PoolSpec => []H2PoolTypeOK
<1>1. PoolInv => H2PoolTypeOK BY DEF PoolInv
<1> QED BY <1>1, AlwaysPoolInv, PTL

\* A dropConn that comes late and a storeConn that lost the race leave a usable
\* connection in the pool, for any number of requests and connections.
THEOREM UsableAlwaysStays == PoolSpec => UsableStaysPooled
<1> DEFINE Stays == kept # NoConn /\ Usable(kept) /\ conn'[kept] = "live" => kept' = kept
<1>1. PoolInv /\ [PoolNext]_poolVars => [Stays]_poolVars
  <2> SUFFICES ASSUME PoolInv, PoolNext, kept # NoConn, Usable(kept), conn'[kept] = "live"
               PROVE  kept' = kept
      OBVIOUS
  <2>1. ASSUME NEW r \in Requests, GetConn(r) PROVE kept' = kept
    BY <2>1 DEF GetConn
  <2>2. ASSUME NEW r \in Requests, PooledRoundTrip(r) PROVE kept' = kept
    BY <2>2 DEF PooledRoundTrip, Dropped
  <2>3. ASSUME NEW r \in Requests, StoreConn(r) PROVE kept' = kept
    BY <2>3 DEF StoreConn, Stored
  <2>4. ASSUME NEW r \in Requests,
               Dial(r) \/ OwnRoundTrip(r) \/ RequestAnswered(r) \/ RequestFailed(r)
        PROVE  kept' = kept
    BY <2>4 DEF Dial, OwnRoundTrip, RequestAnswered, RequestFailed
  <2>5. ASSUME NEW c \in Conns, ConnLeaves(c) PROVE kept' = kept
    <3>1. c # kept BY <2>5 DEF ConnLeaves, PoolInv, H2PoolTypeOK
    <3> QED BY <2>5, <3>1 DEF ConnLeaves, Dropped
  <2> QED BY <2>1, <2>2, <2>3, <2>4, <2>5 DEF PoolNext
<1> QED BY <1>1, AlwaysPoolInv, PTL DEF PoolSpec, UsableStaysPooled

-----------------------------------------------------------------------------

\* What OneSend sees of the requests.
FateOf == [r \in Requests |-> Fate(r)]

\* A step of one request changes the fate of that request alone.
LEMMA FateOnly ==
  ASSUME NEW r \in Requests, \A q \in Requests \ {r} : at'[q] = at[q] /\ sentOn'[q] = sentOn[q]
  PROVE  FateOf' = [FateOf EXCEPT ![r] = Fate(r)']
<1>1. \A q \in Requests \ {r} : Fate(q)' = Fate(q) BY DEF Fate
<1> QED BY <1>1 DEF FateOf

\* A step of one request, given what it does to that request's fate.
LEMMA OneSteps ==
  ASSUME NEW r \in Requests,
         FateOf' = [FateOf EXCEPT ![r] = Fate(r)'],
         \/ Fate(r)' = Fate(r)
         \/ Fate(r) = "new" /\ Fate(r)' = "sent"
         \/ Fate(r) = "sent" /\ Fate(r)' = "answered"
         \/ Fate(r) \in {"new", "sent"} /\ Fate(r)' = "failed"
  PROVE  [Once!Next]_FateOf
<1>1. FateOf[r] = Fate(r) BY DEF FateOf
<1>2. CASE Fate(r)' = Fate(r)
  <2>1. FateOf' = FateOf BY <1>1, <1>2 DEF FateOf
  <2> QED BY <2>1
<1>3. CASE Fate(r) = "new" /\ Fate(r)' = "sent"
  <2>1. Once!Send(r) BY <1>1, <1>3 DEF Once!Send, FateOf
  <2> QED BY <2>1 DEF Once!Next
<1>4. CASE Fate(r) = "sent" /\ Fate(r)' = "answered"
  <2>1. Once!Answer(r) BY <1>1, <1>4 DEF Once!Answer, FateOf
  <2> QED BY <2>1 DEF Once!Next
<1>5. CASE Fate(r) \in {"new", "sent"} /\ Fate(r)' = "failed"
  <2>1. Once!Fail(r) BY <1>1, <1>5 DEF Once!Fail, FateOf
  <2> QED BY <2>1 DEF Once!Next
<1> QED BY <1>2, <1>3, <1>4, <1>5

\* A request that was not written and has no end is new; one that waits was sent.
LEMMA FateIs ==
  ASSUME PoolInv, NEW r \in Requests
  PROVE  /\ at[r] \in Unwritten => Fate(r) = "new"
         /\ at[r] = "waiting" => Fate(r) = "sent"
         /\ at[r] \in {"answered", "failed"} => Fate(r) = at[r]
<1>1. at[r] = "waiting" => sentOn[r] # {} BY DEF PoolInv, WrittenBy
<1> QED BY <1>1 DEF Fate, PoolInv, WrittenBy, Unwritten

\* Step by step: the pool does what OneSend does, or nothing it can see.
LEMMA RefinementStep == PoolInv /\ PoolInv' /\ [PoolNext]_poolVars => [Once!Next]_FateOf
<1> SUFFICES ASSUME PoolInv, PoolInv', [PoolNext]_poolVars PROVE [Once!Next]_FateOf
    OBVIOUS
<1>1. CASE UNCHANGED poolVars
  <2>1. FateOf' = FateOf BY <1>1 DEF FateOf, Fate, poolVars
  <2> QED BY <2>1
<1>2. ASSUME NEW c \in Conns, ConnLeaves(c) PROVE [Once!Next]_FateOf
  <2>1. FateOf' = FateOf BY <1>2 DEF FateOf, Fate, ConnLeaves
  <2> QED BY <2>1
<1>3. ASSUME NEW r \in Requests, NEW to, NEW c, Moves(r, to, c),
             \A q \in Requests \ {r} : sentOn'[q] = sentOn[q]
      PROVE  /\ at'[r] = to
             /\ FateOf' = [FateOf EXCEPT ![r] = Fate(r)']
  <2>1. at'[r] = to /\ \A q \in Requests \ {r} : at'[q] = at[q]
    BY <1>3 DEF Moves, PoolInv, H2PoolTypeOK
  <2> QED BY <1>3, <2>1, FateOnly
<1>4. ASSUME NEW r \in Requests
      PROVE  /\ at[r] \in Unwritten => Fate(r) = "new"
             /\ at[r] = "waiting" => Fate(r) = "sent"
             /\ at'[r] \in Unwritten => Fate(r)' = "new"
             /\ at'[r] = "waiting" => Fate(r)' = "sent"
             /\ at'[r] \in {"answered", "failed"} => Fate(r)' = at'[r]
  <2>1. (PoolInv => (at[r] \in Unwritten => Fate(r) = "new")
                    /\ (at[r] = "waiting" => Fate(r) = "sent")
                    /\ (at[r] \in {"answered", "failed"} => Fate(r) = at[r]))'
    BY FateIs, PTL
  <2> QED BY <2>1, FateIs
<1>5. ASSUME NEW r \in Requests, GetConn(r) PROVE [Once!Next]_FateOf
  <2>1. PICK to \in {"pooled", "dialing"}, c \in Conns \cup {NoConn} : Moves(r, to, c)
    BY <1>5 DEF GetConn, PoolInv, H2PoolTypeOK
  <2>2. at[r] = "start" /\ sentOn' = sentOn BY <1>5 DEF GetConn
  <2>3. Fate(r)' = Fate(r) BY <1>3, <1>4, <2>1, <2>2 DEF Unwritten
  <2> QED BY <1>3, <2>1, <2>2, <2>3, OneSteps
<1>6. ASSUME NEW r \in Requests, PooledRoundTrip(r) PROVE [Once!Next]_FateOf
  <2>1. PICK to \in {"waiting", "dialing"}, c \in Conns \cup {NoConn} : Moves(r, to, c)
    BY <1>6 DEF PooledRoundTrip, Writes, PoolInv, H2PoolTypeOK
  <2>2. at[r] = "pooled" /\ \A q \in Requests \ {r} : sentOn'[q] = sentOn[q]
    BY <1>6 DEF PooledRoundTrip, Writes, PoolInv, H2PoolTypeOK
  <2>3. Fate(r) = "new" /\ Fate(r)' \in {"new", "sent"}
    BY <1>3, <1>4, <2>1, <2>2 DEF Unwritten
  <2> QED BY <1>3, <2>1, <2>2, <2>3, OneSteps
<1>7. ASSUME NEW r \in Requests, Dial(r) PROVE [Once!Next]_FateOf
  <2>1. PICK to \in {"failed", "dialed", "waiting"}, c \in Conns \cup {NoConn} : Moves(r, to, c)
    BY <1>7 DEF Dial
  <2>2. at[r] = "dialing" /\ \A q \in Requests \ {r} : sentOn'[q] = sentOn[q]
    BY <1>7 DEF Dial, PoolInv, H2PoolTypeOK
  <2>3. Fate(r) = "new" /\ Fate(r)' \in {"new", "sent", "failed"}
    BY <1>3, <1>4, <2>1, <2>2 DEF Unwritten
  <2> QED BY <1>3, <2>1, <2>2, <2>3, OneSteps
<1>8. ASSUME NEW r \in Requests, StoreConn(r) PROVE [Once!Next]_FateOf
  <2>1. Moves(r, "stored", on[r]) /\ at[r] = "dialed" /\ sentOn' = sentOn
    BY <1>8 DEF StoreConn
  <2>2. Fate(r)' = Fate(r) BY <1>3, <1>4, <2>1 DEF Unwritten
  <2> QED BY <1>3, <2>1, <2>2, OneSteps
<1>9. ASSUME NEW r \in Requests, OwnRoundTrip(r) PROVE [Once!Next]_FateOf
  <2>1. PICK to \in {"waiting", "failed"}, c \in Conns \cup {NoConn} : Moves(r, to, c)
    BY <1>9 DEF OwnRoundTrip, Writes, PoolInv, H2PoolTypeOK
  <2>2. at[r] = "stored" /\ \A q \in Requests \ {r} : sentOn'[q] = sentOn[q]
    BY <1>9 DEF OwnRoundTrip, Writes, PoolInv, H2PoolTypeOK
  <2>3. Fate(r) = "new" /\ Fate(r)' \in {"sent", "failed"}
    BY <1>3, <1>4, <2>1, <2>2 DEF Unwritten
  <2> QED BY <1>3, <2>1, <2>2, <2>3, OneSteps
<1>10. ASSUME NEW r \in Requests, RequestAnswered(r) PROVE [Once!Next]_FateOf
  <2>1. Moves(r, "answered", NoConn) /\ at[r] = "waiting" /\ sentOn' = sentOn
    BY <1>10 DEF RequestAnswered
  <2>2. Fate(r) = "sent" /\ Fate(r)' = "answered" BY <1>3, <1>4, <2>1
  <2> QED BY <1>3, <2>1, <2>2, OneSteps
<1>11. ASSUME NEW r \in Requests, RequestFailed(r) PROVE [Once!Next]_FateOf
  <2>1. Moves(r, "failed", NoConn) /\ at[r] = "waiting" /\ sentOn' = sentOn
    BY <1>11 DEF RequestFailed, FailedGoesTo
  <2>2. Fate(r) = "sent" /\ Fate(r)' = "failed" BY <1>3, <1>4, <2>1
  <2> QED BY <1>3, <2>1, <2>2, OneSteps
<1> QED BY <1>1, <1>2, <1>5, <1>6, <1>7, <1>8, <1>9, <1>10, <1>11 DEF PoolNext

\* A request is written to the upstream at most once, answered only if it was
\* written, and has one end: the pool with its retry implements OneSend, for any
\* number of requests and connections, whichever of them end when.
THEOREM WrittenAtMostOnce == PoolSpec => WrittenOnce
<1>1. PoolInit => Once!Init
  BY DEF PoolInit, Once!Init, Fate
<1>2. PoolInv /\ PoolInv' /\ [PoolNext]_poolVars => [Once!Next]_FateOf
  BY RefinementStep
<1> QED BY <1>1, <1>2, AlwaysPoolInv, PTL DEF PoolSpec, WrittenOnce, Once!Spec, FateOf

-----------------------------------------------------------------------------
(***************************************************************************)
(* The two together.                                                       *)
(***************************************************************************)

\* A behaviour of the composition is one of the connection and one of the pool:
\* what is proved of either holds of both side by side.
THEOREM TransportIsBoth == TransportSpec => H2Spec /\ PoolSpec
<1>1. TransportInit => H2Init /\ PoolInit BY DEF TransportInit
<1>2. [TransportNext]_<<level, h2Vars, poolVars>> => [H2Next]_h2Vars /\ [PoolNext]_poolVars
      BY DEF TransportNext, OnTheConnection, InThePool
<1> QED BY <1>1, <1>2, PTL DEF TransportSpec, H2Spec, PoolSpec

\* Connection and pool keep their types side by side (newH2Conn, roundTripper).
THEOREM TransportTypesCorrect == TransportSpec => []TransportTypeOK
<1>1. H2TypeOK /\ H2PoolTypeOK => TransportTypeOK BY DEF TransportTypeOK
<1> QED BY <1>1, TransportIsBoth, H2TypesCorrect, PoolTypesCorrect, PTL
=============================================================================

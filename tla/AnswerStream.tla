--------------------------- MODULE AnswerStream ---------------------------
(***************************************************************************)
(* One streamed answer, from the upstream's SSE events to the client's:    *)
(* StreamReader (internal/provider/sse.go), streamInternal's loop and      *)
(* StreamChat with its simulated tool calls (stream.go, postman.go,        *)
(* toolsim.go), the front end of the client's protocol, and Router.Stream, *)
(* which calls again only while nothing has been emitted.                  *)
(*                                                                         *)
(* The text of the upstream is a sequence of pieces:                       *)
(*   "prose"   text with no part of a marker,                              *)
(*   "start"   a proper prefix of <tool_call> or of its code fence,        *)
(*   "rest"    what makes a preceding start a call to a declared tool,     *)
(*   "odd"     what makes it a call to a tool that was not declared.       *)
(* Pieces arrive one by one, as a model's tokens do.                       *)
(***************************************************************************)
EXTENDS FrontEnds

CONSTANTS
  ToolIds,       \* ids of native tool calls
  KindOf,        \* what the Responses API makes of each: see FrontEnds
  MaxEvents,     \* bound: upstream events of one attempt
  MaxTries       \* bound: attempts

\* The id of a chunk that brings none.
NoId == "none"

ASSUME AnswerAssumption ==
  /\ NoId \notin ToolIds
  /\ KindOf \in [ToolIds -> {"function", "custom", "unreadable"}]
  /\ MaxEvents \in Nat /\ MaxTries \in Nat \ {0}

Piece == {"prose", "start", "rest", "odd"}

VARIABLES
  declared,   \* the client declared tools
  progress,   \* streaming, failed, over
  tries,
  heard,      \* events of this attempt
  received,   \* history: the text of this attempt
  fragments,  \* history: the pieces of arguments of this attempt
  reader,     \* the StreamReader
  native,     \* toolAcc, in the order of toolCallIndex
  held,       \* content: text that might be part of a marker
  emitted,    \* trackedEmit: a Delta went to the front end
  front,
  cut         \* history: whether a read of this attempt failed, before ("early") or
              \*          after ("late") its context was over

answerVars == <<declared, progress, tries, heard, received, fragments, reader, native, held,
                emitted, front, cut>>

Reader == [ids : Seq(ToolIds), last : ToolIds \cup {NoId}, text : BOOLEAN, tool : BOOLEAN,
           quota : BOOLEAN, err : {"none", "failure", "broken"}]

NewReader == [ids |-> <<>>, last |-> NoId, text |-> FALSE, tool |-> FALSE,
              quota |-> FALSE, err |-> "none"]

\* The types; the ids the reader has numbered are distinct and have an entry.
AnswerTypeOK ==
  /\ declared \in BOOLEAN /\ emitted \in BOOLEAN
  /\ progress \in {"streaming", "failed", "over"}
  /\ tries \in 1 .. MaxTries /\ heard \in 0 .. MaxEvents
  /\ received \in Seq(Piece) /\ fragments \in Nat /\ held \in Seq(Piece)
  /\ reader.ids \in Seq(ToolIds) /\ IsInjective(reader.ids)
  /\ reader.err \in {"none", "failure", "broken"}
  /\ declared => Len(native) = Len(reader.ids)
  /\ front.proto \in Protocol
  /\ ~declared => held = <<>>
  /\ cut \in {"no", "early", "late"}

AnswerInit ==
  /\ declared \in BOOLEAN
  /\ progress = "streaming" /\ tries = 1 /\ heard = 0
  /\ received = <<>> /\ fragments = 0
  /\ reader = NewReader
  /\ native = <<>> /\ held = <<>>
  /\ emitted = FALSE
  /\ front \in {NewFront(p) : p \in Protocol}
  /\ cut = "no"

(***************************************************************************)
(* Simulated tool calls: toolsim.go.                                       *)
(***************************************************************************)

\* Mutant: a marker is held back only once it is complete.
CompleteOnly(s) == Len(s) > 1 /\ s[1] = "start" /\ s[2] \in {"rest", "odd"}

\* isViablePrefix: s may become a tool-call marker, or begins with one.
Viable(s) == s # <<>> /\ s[1] = "start" /\ (Len(s) = 1 \/ s[2] \in {"rest", "odd"})

\* splitStreamSafe: everything before the first viable position may be sent.
SafeLength(s) ==
  LET viable == {k \in 1 .. Len(s) : Viable(SubSeq(s, k, Len(s)))}
  IN IF viable = {} THEN Len(s) ELSE Min(viable) - 1

\* parseSimulatedToolCalls: the calls, and the text without them.
CallsIn(s) == {k \in 1 .. Len(s) - 1 : s[k] = "start" /\ s[k + 1] = "rest"}

Without(s, calls) ==
  LET gone == calls \cup {k + 1 : k \in calls}
      kept == [k \in DOMAIN s |-> IF k \in gone THEN <<>> ELSE <<s[k]>>]
  IN Concat(kept)

(***************************************************************************)
(* Emission.                                                               *)
(***************************************************************************)
EmitAll(ds) ==
  /\ front' = FoldLeft(OnDelta, front, ds)
  /\ emitted' = (emitted \/ ds # <<>>)

TextIf(s) == IF s = <<>> THEN <<>> ELSE <<TextDelta(s)>>

(***************************************************************************)
(* The upstream's events, each fed to the reader and through the wrapper   *)
(* of StreamChat.  After a failure event the loop goes on reading; a       *)
(* usage event that shows the quota exceeded ends it.                      *)
(***************************************************************************)
Hears ==
  /\ progress = "streaming" /\ heard < MaxEvents
  /\ ~reader.quota
  /\ heard' = heard + 1

\* handleTextChunk, flushSafe; after a native call text is not parsed any more.
Text(x) ==
  /\ Hears
  /\ received' = Append(received, x)
  /\ reader' = [reader EXCEPT !.text = TRUE]
  /\ IF ~declared \/ reader.tool
     THEN EmitAll(<<TextDelta(<<x>>)>>) /\ UNCHANGED held
     ELSE LET all == Append(held, x)
              n == SafeLength(all)
          IN /\ EmitAll(TextIf(SubSeq(all, 1, n)))
             /\ held' = SubSeq(all, n + 1, Len(all))
  /\ UNCHANGED <<declared, progress, tries, fragments, native, cut>>

\* handleThinkingChunk.
Thinking ==
  /\ Hears
  /\ EmitAll(<<ThinkingDelta(<<"thought">>)>>)
  /\ UNCHANGED <<declared, progress, tries, received, fragments, reader, native, held, cut>>

\* Mutant: every chunk gets a number of its own.
NumberedAnew(ids, id) == Append(ids, id)

\* toolCallIndex.
Numbered(ids, id) == IF id \in ToSet(ids) THEN ids ELSE Append(ids, id)

IndexOf(ids, id) == CHOOSE j \in DOMAIN ids : ids[j] = id

\* Mutant: a chunk without an id is dropped.
LastIdNone(id) == id

\* A chunk without an id continues the last call.
LastId(id) == IF id = NoId THEN reader.last ELSE id

\* handleToolCallChunk.  With declared tools the call is kept and sent at the
\* end, and the held text goes out; otherwise the chunk passes through.
ToolChunk(id) ==
  /\ Hears
  /\ fragments' = fragments + IF id = NoId /\ reader.last = NoId THEN 0 ELSE 1
  /\ LET which == LastId(id)
         ids == Numbered(reader.ids, which)
         j == IndexOf(ids, which)
         arg == <<"arg">>
     IN IF which = NoId
        THEN UNCHANGED <<reader, native, held, emitted, front>>
        ELSE /\ reader' = [reader EXCEPT !.ids = ids, !.last = which, !.tool = TRUE]
             /\ native' = IF j \in DOMAIN native
                          THEN [native EXCEPT ![j] = @ \o arg] ELSE Append(native, arg)
             /\ IF declared
                THEN EmitAll(TextIf(held)) /\ held' = <<>>
                ELSE EmitAll(<<ToolDelta(j, KindOf[which], arg)>>) /\ UNCHANGED held
  /\ UNCHANGED <<declared, progress, tries, received, cut>>

\* handleFailure, and handleUsage with an exceeded quota.
Failure(kind) ==
  /\ Hears
  /\ reader' = IF kind = "quota" THEN [reader EXCEPT !.quota = TRUE]
               ELSE [reader EXCEPT !.err = kind]
  /\ UNCHANGED <<declared, progress, tries, received, fragments, native, held, emitted, front,
                 cut>>

(***************************************************************************)
(* The end of the stream, which is the end of the body, an exceeded quota, *)
(* or a read that fails.  Once the context is over, RequestTimeout having  *)
(* passed or the client having left, streamInternal does not look at the   *)
(* error of a read: the answer may have been cut short and is judged like  *)
(* a whole one.                                                            *)
(***************************************************************************)
Stops == cut' = "no" \/ (cut' = "late" /\ ~reader.quota)

Output == reader.text \/ reader.tool

\* Mutant: an empty completion is an answer.
WholeWithoutOutput == reader.err = "none" /\ ~reader.quota

\* [DONE] or not, an answer needs text or a tool call.
Whole == reader.err = "none" /\ ~reader.quota /\ Output

NativeDeltas ==
  [j \in DOMAIN native |-> ToolDelta(j, KindOf[reader.ids[j]], native[j])]

\* The calls found in the held text: numbered from 1 here, from 0 in the code.
Simulated(s) ==
  [j \in 1 .. Cardinality(CallsIn(s)) |-> ToolDelta(j, "function", <<"call">>)]

\* StreamChat after a successful streamInternal: native calls, else what the
\* held text holds of calls.
LastDeltas ==
  IF ~declared THEN <<FinishDelta>>
  ELSE IF reader.tool THEN TextIf(held) \o NativeDeltas \o <<FinishDelta>>
  ELSE TextIf(Without(held, CallsIn(held))) \o Simulated(held) \o <<FinishDelta>>

Succeeds ==
  /\ progress = "streaming" /\ Whole /\ Stops
  /\ progress' = "over"
  /\ front' = Succeeded(FoldLeft(OnDelta, front, LastDeltas))
  /\ emitted' = TRUE /\ held' = <<>>
  /\ UNCHANGED <<declared, tries, heard, received, fragments, reader, native>>

\* The stream's end is no answer, or reading it fails with the context alive: the
\* held text goes out.
Fails ==
  /\ progress = "streaming"
  /\ \/ ~Whole /\ Stops /\ UNCHANGED reader
     \/ /\ ~reader.quota /\ cut' = "early"
        /\ reader' = [reader EXCEPT !.err = "broken"]
  /\ progress' = "failed"
  /\ EmitAll(TextIf(held)) /\ held' = <<>>
  /\ UNCHANGED <<declared, tries, heard, received, fragments, native>>

\* Router.Stream: another attempt only if nothing was emitted.
\* Mutant: an attempt follows output.
RetryAlways == tries < MaxTries

MayRetry == tries < MaxTries /\ ~emitted

TriesAgain ==
  /\ progress = "failed" /\ MayRetry
  /\ progress' = "streaming" /\ tries' = tries + 1
  /\ heard' = 0 /\ received' = <<>> /\ fragments' = 0
  /\ reader' = NewReader /\ native' = <<>> /\ cut' = "no"
  /\ UNCHANGED <<declared, held, emitted, front>>

\* A failure that is not tried again, or no attempt is left.
GivesUp ==
  /\ progress = "failed"
  /\ progress' = "over"
  /\ front' = Failed(front)
  /\ UNCHANGED <<declared, tries, heard, received, fragments, reader, native, held, emitted, cut>>

AnswerNext ==
  \/ \E x \in Piece : Text(x)
  \/ Thinking
  \/ \E id \in ToolIds \cup {NoId} : ToolChunk(id)
  \/ \E kind \in {"failure", "quota"} : Failure(kind)
  \/ Succeeds \/ Fails \/ TriesAgain \/ GivesUp

AnswerSpec == AnswerInit /\ [][AnswerNext]_answerVars

(***************************************************************************)
(* Properties.                                                             *)
(***************************************************************************)

\* The non-streaming answer to the same events: Chat, applySimulatedTools and
\* collectToolCalls work on the whole text at once.
ChatText ==
  IF declared /\ ~reader.tool THEN Without(received, CallsIn(received)) ELSE received

ChatCalls ==
  IF reader.tool THEN Len(reader.ids)
  ELSE IF declared THEN Cardinality(CallsIn(received)) ELSE 0

SuccessSaid == \E e \in ToSet(front.written) : e.what = "end"

CallsSeen(f) == {e.at : e \in {x \in ToSet(f.written) : x.sort = "tool"}}

\* The end the client is told is the end streamInternal found: an answer without
\* text or call, a failure, an exhausted quota or a read that failed in time never
\* reads as complete. An answer cut short by a read that failed after the end of
\* its context does, if it has text or a call (stream.go:256).
EndIsTrue ==
  progress = "over" =>
    /\ Ended(front)
    /\ SuccessSaid <=> reader.err = "none" /\ ~reader.quota /\ Output
    /\ SuccessSaid => cut # "early"

\* However the upstream cuts its text, a client that is told the answer is
\* complete has read the text and the calls of the non-streaming answer to the
\* events there were: no piece of a marker leaked, none lost, no attempt's text twice,
\* no argument fragment in another call; and it is told so only when it is true
\* (splitStreamSafe, flushSafe, flushText, simulatedDeltas, handleToolCallChunk,
\* trackedEmit).
ClientSeesTheAnswer ==
  /\ EndIsTrue
  /\ SuccessSaid =>
       /\ TextSeen(front) = ChatText
       /\ Cardinality(CallsSeen(front)) = ChatCalls
       /\ reader.tool => Len(ArgsSeen(front)) = fragments

\* Every answer is a well-formed stream of its protocol, whatever order the
\* Deltas come in and wherever they stop.
WellFormed == WellFormedAnswer(front)

=============================================================================

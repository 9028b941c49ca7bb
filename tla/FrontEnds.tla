----------------------------- MODULE FrontEnds -----------------------------
(***************************************************************************)
(* The streams the three protocols answer with: streamAnthropic,           *)
(* streamResponses and streamOpenAI of internal/api.  Each turns the same  *)
(* Deltas into the events of its protocol; the state it keeps between two  *)
(* Deltas is a record here, and a Delta a function on that record.         *)
(*                                                                         *)
(* An event is its kind, the index of the content block or output item it  *)
(* belongs to, that item's sort and its payload.  Ids, sequence numbers,   *)
(* models and usage fields are left out.                                   *)
(***************************************************************************)
EXTENDS Integers, SequencesExt

Protocol == {"anthropic", "responses", "openai"}

Shut == -1

Ev(what, at, sort, data) == [what |-> what, at |-> at, sort |-> sort, data |-> data]

(***************************************************************************)
(* A front end: the block each of the two sorts has open, the tools seen,  *)
(* in their order, what is written, and the Responses API's own            *)
(* accumulation: the text of each sort and the output items.               *)
(***************************************************************************)
NewFront(p) ==
  [proto |-> p, started |-> FALSE, http |-> FALSE,
   open |-> [thinking |-> Shut, text |-> Shut], next |-> 0, tools |-> <<>>,
   written |-> <<>>,
   buf |-> [thinking |-> <<>>, text |-> <<>>], output |-> <<>>]

\* sseWriter: the first frame commits the headers.
Put(f, e) == [f EXCEPT !.started = TRUE, !.written = Append(@, e)]

\* ensureStarted: message_start, response.created; chat completions have none.
Starts(f) ==
  IF f.started \/ f.proto = "openai" THEN f ELSE Put(f, Ev("start", Shut, "answer", <<>>))

OpenItem(f, sort) ==
  IF f.open[sort] # Shut THEN f
  ELSE [Put(f, Ev("open", f.next, sort, <<>>)) EXCEPT !.open[sort] = f.next, !.next = @ + 1]

\* Mutant: the block is forgotten without a stop event.
ForgetItem(f, sort) == [f EXCEPT !.open[sort] = Shut]

\* closeThinking, closeText, closeReasoning; the Responses API keeps the item.
CloseItem(f, sort) ==
  IF f.open[sort] = Shut THEN f
  ELSE [Put(f, Ev("close", f.open[sort], sort, <<>>)) EXCEPT
          !.open[sort] = Shut,
          !.output = Append(@, [at |-> f.open[sort], sort |-> sort, data |-> f.buf[sort]])]

Say(f, sort, data) ==
  [Put(f, Ev("delta", f.open[sort], sort, data)) EXCEPT !.buf[sort] = @ \o data]

(***************************************************************************)
(* Tool calls.  An entry of tools is a toolIndexes or toolAcc entry.       *)
(***************************************************************************)
SeenAt(f, key) == {j \in DOMAIN f.tools : f.tools[j].key = key}

\* exec and custom calls are written whole, when the answer ends.
Deferred(f, kind) == f.proto = "responses" /\ kind # "function"

\* A call that was not seen gets the next number.
NewTool(f, d) ==
  LET new == [key |-> d.key, at |-> f.next, kind |-> d.tool, args |-> <<>>]
      g   == [f EXCEPT !.next = @ + 1, !.tools = Append(@, new)]
  IN IF SeenAt(f, d.key) # {} THEN f
     ELSE IF Deferred(f, d.tool) THEN g ELSE Put(g, Ev("open", new.at, "tool", <<>>))

\* A piece of its arguments.
Arguments(f, j, data) ==
  LET kept == [f EXCEPT !.tools[j].args = @ \o data]
  IN IF data = <<>> \/ Deferred(f, f.tools[j].kind) THEN kept
     ELSE Put(kept, Ev("delta", f.tools[j].at, "tool", data))

Tool(f, d) ==
  LET g == NewTool(f, d) IN Arguments(g, CHOOSE j \in SeenAt(g, d.key) : TRUE, d.data)

\* What closes before a tool call: in the Responses API only a new one.
BeforeTool(f, d) ==
  IF f.proto = "responses" /\ SeenAt(f, d.key) # {} THEN f
  ELSE CloseItem(CloseItem(f, "thinking"), "text")

(***************************************************************************)
(* One Delta.                                                              *)
(***************************************************************************)
ThinkingDelta(d) == [kind |-> "thinking", key |-> 0, tool |-> "function", data |-> d]
TextDelta(d)     == [kind |-> "text", key |-> 0, tool |-> "function", data |-> d]
ToolDelta(key, kind, args) == [kind |-> "tool", key |-> key, tool |-> kind, data |-> args]
FinishDelta      == [kind |-> "finish", key |-> 0, tool |-> "function", data |-> <<>>]

\* Mutant: a text block stays open under the thinking that follows it.
BlocksAtThinkingKept(f) == f

\* Only Messages closes the text when thinking comes; the Responses API leaves
\* the message item open beside the reasoning item.
BlocksAtThinking(f) == IF f.proto = "anthropic" THEN CloseItem(f, "text") ELSE f

Blocks(f, d) ==
  CASE d.kind = "thinking" -> Say(OpenItem(BlocksAtThinking(f), "thinking"), "thinking", d.data)
    [] d.kind = "text"     -> Say(OpenItem(CloseItem(f, "thinking"), "text"), "text", d.data)
    [] d.kind = "tool"     -> Tool(BeforeTool(f, d), d)
    [] d.kind = "finish"   -> f

\* A chunk of a chat completion carries the Delta as it is.
Completion(f, d) ==
  Put(f, Ev(IF d.kind = "finish" THEN "finish" ELSE "delta", d.key, d.kind, d.data))

OnDelta(f, d) == IF f.proto = "openai" THEN Completion(f, d) ELSE Blocks(Starts(f), d)

(***************************************************************************)
(* The end of the answer, after Router.Stream has returned.                *)
(***************************************************************************)

\* A deferred call is opened, written whole and closed; one whose arguments do
\* not parse as exec falls back to an ordinary call.
CloseTool(f, t) ==
  LET whole == IF t.args = <<>> THEN <<"none">> ELSE t.args
      late == Deferred(f, t.kind)
      fallback == late /\ t.kind = "unreadable"
      opened == IF late THEN Put(f, Ev("open", t.at, "tool", <<>>)) ELSE f
      said == IF late /\ ~fallback THEN Put(opened, Ev("delta", t.at, "tool", t.args)) ELSE opened
  IN [Put(said, Ev("close", t.at, "tool", IF fallback THEN t.args ELSE <<>>))
        EXCEPT !.output = Append(@, [at |-> t.at, sort |-> "tool", data |-> whole])]

CloseAll(f) ==
  FoldLeft(CloseTool, CloseItem(CloseItem(f, "thinking"), "text"), f.tools)

\* Mutant: a failure after output ends like an answer.
FailedAsDone(f) ==
  IF f.proto = "openai" THEN Put(f, Ev("end", Shut, "answer", <<>>))
  ELSE Put(CloseAll(f), Ev("end", Shut, "answer", <<>>))

\* Messages opens the stream to fail in it; the others answer an HTTP error when
\* nothing was written, and an error event, without [DONE], when something was.
Failed(f) ==
  IF f.proto = "anthropic"
  THEN Put(CloseAll(Starts(f)), Ev("error", Shut, "answer", <<>>))
  ELSE IF ~f.started THEN [f EXCEPT !.http = TRUE]
  ELSE Put(IF f.proto = "responses" THEN CloseAll(f) ELSE f, Ev("error", Shut, "answer", <<>>))

Succeeded(f) ==
  Put(IF f.proto = "openai" THEN f ELSE CloseAll(f), Ev("end", Shut, "answer", <<>>))

(***************************************************************************)
(* What a client makes of the events.                                      *)
(***************************************************************************)
Ended(f) == f.http \/ \E e \in ToSet(f.written) : e.what \in {"end", "error"}

Concat(s) == FoldLeft(LAMBDA a, b : a \o b, <<>>, s)

DataOf(f, Test(_)) ==
  Concat([i \in DOMAIN f.written |-> IF Test(f.written[i]) THEN f.written[i].data ELSE <<>>])

TextSeen(f) == DataOf(f, LAMBDA e : e.what = "delta" /\ e.sort = "text")

ArgsSeen(f) == DataOf(f, LAMBDA e : e.sort = "tool")

Position(f, what, i) == {j \in DOMAIN f.written : f.written[j].what = what /\ f.written[j].at = i}

\* Items are opened once and closed once, their deltas lie in between, and when
\* the answer is over every index handed out was opened and closed.
ItemsBalanced(f) ==
  LET items == 0 .. (f.next - 1)
      opens(i) == Position(f, "open", i)
      closes(i) == Position(f, "close", i)
  IN /\ \A i \in items : Cardinality(opens(i)) <= 1 /\ Cardinality(closes(i)) <= 1
     /\ \A i \in items : \A c \in closes(i) \cup Position(f, "delta", i) :
          \E o \in opens(i) : o < c
     /\ \A i \in items : \A c \in closes(i) : \A d \in Position(f, "delta", i) : d < c
     /\ Ended(f) => \A i \in items : opens(i) # {} /\ closes(i) # {}

\* In Messages a text or thinking block ends before the next block begins.
BlocksInTurn(f) ==
  \A j, k \in DOMAIN f.written :
    /\ j < k /\ f.written[j].what = "open" /\ f.written[k].what = "open"
    /\ f.written[j].sort # "tool"
    => \E c \in Position(f, "close", f.written[j].at) : c < k

\* The events of one answer: one start, at the start; nothing after the end.
Framed(f) ==
  \A j \in DOMAIN f.written :
    /\ f.proto # "openai" => (f.written[j].what = "start" <=> j = 1)
    /\ f.written[j].what \in {"end", "error"} => j = Len(f.written)

WellFormedAnswer(f) ==
  /\ Framed(f)
  /\ f.proto # "openai" => ItemsBalanced(f)
  /\ f.proto = "anthropic" => BlocksInTurn(f)
=============================================================================

---------------------------- MODULE Conversation ----------------------------
(***************************************************************************)
(* internal/provider: how a stateless client's message list is matched to  *)
(* a server-side conversation (conversation.go, the in-memory store of     *)
(* convstore.go, buildBody, seed.go, and the ends of Chat and StreamChat). *)
(*                                                                         *)
(* A client resends its whole history each turn.  The provider looks the   *)
(* longest known prefix up, continues that conversation with the newest    *)
(* message only, or starts a new one with the history folded into it.      *)
(* Fingerprints are taken to be injective: the fingerprint of a prefix is  *)
(* the prefix, as far as roles, texts and the ids of tool calls go.  Each  *)
(* store operation is a step of its own, so the calls of several clients   *)
(* interleave between them.                                                *)
(*                                                                         *)
(* The upstream service and the clients are external, modelled from what   *)
(* the provider sends them and expects back.                               *)
(***************************************************************************)
EXTENDS Integers, SequencesExt

CONSTANTS
  Accounts,
  Clients,
  Streaming,        \* the clients served by StreamChat, the others by Chat
  Anthropic,        \* the clients whose tool results are user messages
  Opening,          \* each client's first user message
  Calls,            \* how the replies to each client may call a tool
  Texts,            \* what a reply may say
  SeedThreshold,    \* seedHistoryThresholdMessages
  MaxMessages,      \* bound: the length of a history
  MaxSessions,      \* bound: the conversations the upstream starts
  MaxEvents         \* bound: restarts, lost answers and accounts that drop out

NoConversation == 0

NoAccount == 0

Sessions == 1 .. MaxSessions

(***************************************************************************)
(* How a reply calls a tool: not at all, with or without a tool call group *)
(* of the upstream, or as text that applySimulatedTools turns into a call. *)
(***************************************************************************)
Call == {"none", "grouped", "ungrouped", "simulated"}

ASSUME ConversationAssumption ==
  /\ IsFiniteSet(Accounts) /\ IsFiniteSet(Clients)
  /\ Streaming \subseteq Clients /\ Anthropic \subseteq Clients
  /\ Opening \in [Clients -> Nat]
  /\ Calls \in [Clients -> SUBSET Call] /\ Texts \subseteq Nat
  /\ SeedThreshold \in Nat /\ MaxMessages \in Nat /\ MaxSessions \in Nat /\ MaxEvents \in Nat

(***************************************************************************)
(* Messages, as conversationFingerprint sees them: role, text and the ids  *)
(* of tool calls.  "of" and "turn" are the id of the call in a reply that  *)
(* makes one and in the tool result for it; the upstream takes a new id    *)
(* for each, made up here from the conversation and the reply's number.    *)
(* Every other message has its text in "of" and no turn: two plain replies *)
(* with the same text are the same message.  An assistant message is exact *)
(* when the client sends it back as the provider recorded it; clients      *)
(* reshape theirs.                                                         *)
(***************************************************************************)

UserMessage(text) == [role |-> "user", of |-> text, turn |-> 0, call |-> "none", exact |-> TRUE]

FollowUp == UserMessage(0)

PlainReply(text, exact) ==
  [role |-> "assistant", of |-> text, turn |-> 0, call |-> "none", exact |-> exact]

CallingReply(s, n, call, exact) ==
  [role |-> "assistant", of |-> s, turn |-> n, call |-> call, exact |-> exact]

\* The reply in the Result r.
Reply(r, exact) == IF r.call = "none" THEN PlainReply(r.text, exact)
                   ELSE CallingReply(r.id, r.turn, r.call, exact)

ToolResult(c, s, n) ==
  [role |-> IF c \in Anthropic THEN "tool_result" ELSE "tool",
   of |-> s, turn |-> n, call |-> "none", exact |-> TRUE]

IsToolResult(m) == m.role \in {"tool", "tool_result"}

\* The id of the call a tool result answers.
ToolCallID(m) == <<m.of, m.turn>>

\* toolTailIndex >= 0.
ToolTail(messages) == IsToolResult(Last(messages))

HasReusableHistory(messages) ==
  \E i \in 1 .. Len(messages) : messages[i].role = "assistant" \/ IsToolResult(messages[i])

VARIABLES
  conv,         \* convMap: (account, fingerprint) -> conversation
  owner,        \* convOwn: fingerprint -> account
  toolGroups,   \* (account, tool call) -> "group" or "-"
  sessions,     \* external: the upstream's conversations
  usable,       \* the accounts the router may use
  history,      \* the messages of each client
  pc,           \* ready, selected, calling, answered, storing, ended, gone
  acc,          \* the account of the client's call, or NoAccount
  seeded,       \* shouldSeed is behind this call
  sent,         \* the conversationId in the body
  native,       \* the body is a TOOL_RESPONSE
  result,       \* what the upstream answered
  todo,         \* fingerprints RememberConversation still has to record
  half,         \* the first of them has its conversation, not yet its owner
  told,         \* history: the conversations each client saw corrupt
  forgotten,    \* history: the keys InvalidateConversation deleted
  events        \* restarts, lost answers and drop-outs so far

store    == <<conv, owner, toolGroups>>
callVars == <<acc, seeded, sent, native, result>>
putVars  == <<todo, half>>
vars     == <<store, sessions, usable, history, pc, callVars, putVars, told, forgotten, events>>

NoResult == [kind |-> "none", id |-> NoConversation, turn |-> 0, call |-> "none", text |-> 0]

Message == [role : {"user", "assistant", "tool", "tool_result"},
            of : Nat, turn : Nat, call : Call, exact : BOOLEAN]

Session == [acc : Accounts, users : SUBSET Clients, pending : SUBSET (Nat \X Nat),
            turns : Nat, corrupt : BOOLEAN]

\* Every key of the store names a conversation of the upstream, and a call
\* stores exactly while it has something left to store.
TypeOK ==
  /\ sessions \in Seq(Session)
  /\ \A k \in DOMAIN conv :
       k[1] \in Accounts /\ k[2] \in Seq(Message) /\ conv[k] \in DOMAIN sessions
  /\ \A fp \in DOMAIN owner : fp \in Seq(Message) /\ owner[fp] \in Accounts
  /\ \A k \in DOMAIN toolGroups : k[1] \in Accounts /\ toolGroups[k] \in {"group", "-"}
  /\ usable \in SUBSET Accounts
  /\ pc \in [Clients -> {"ready", "selected", "calling", "answered", "storing", "ended"}]
  /\ acc \in [Clients -> Accounts \cup {NoAccount}]
  /\ \A c \in Clients : pc[c] # "ready" => acc[c] \in Accounts
  /\ native \in [Clients -> BOOLEAN]
  /\ \A c \in Clients : pc[c] = "storing" <=> todo[c] # <<>>
  /\ \A c \in Clients : half[c] => pc[c] = "storing"
  /\ \A c \in Clients : native[c] /\ pc[c] = "calling" => sent[c] \in DOMAIN sessions

Init ==
  /\ conv = <<>> /\ owner = <<>> /\ toolGroups = <<>>
  /\ sessions = <<>>
  /\ usable = Accounts
  /\ history = [c \in Clients |-> <<UserMessage(Opening[c])>>]
  /\ pc = [c \in Clients |-> "ready"]
  /\ acc = [c \in Clients |-> NoAccount]
  /\ seeded = [c \in Clients |-> FALSE]
  /\ sent = [c \in Clients |-> NoConversation]
  /\ native = [c \in Clients |-> FALSE]
  /\ result = [c \in Clients |-> NoResult]
  /\ todo = [c \in Clients |-> <<>>]
  /\ half = [c \in Clients |-> FALSE]
  /\ told = [c \in Clients |-> {}]
  /\ forgotten = {}
  /\ events = 0

(***************************************************************************)
(* The lookups.                                                            *)
(***************************************************************************)

Prefix(messages, i) == SubSeq(messages, 1, i)

\* Mutant: the key of a conversation does not name the account.
GetConversationAnyAccount(a, fp) ==
  LET keys == {k \in DOMAIN conv : k[2] = fp}
  IN  IF keys # {} THEN conv[CHOOSE k \in keys : TRUE] ELSE NoConversation

GetConversation(a, fp) ==
  IF <<a, fp>> \in DOMAIN conv THEN conv[<<a, fp>>] ELSE NoConversation

\* Mutant: the shortest known prefix wins.
LookupConversationShortest(a, messages) ==
  LET known == {i \in 1 .. Len(messages) - 1 :
                  GetConversation(a, Prefix(messages, i)) # NoConversation}
  IN  IF HasReusableHistory(messages) /\ known # {}
      THEN GetConversation(a, Prefix(messages, Min(known))) ELSE NoConversation

\* The conversation of the longest known prefix, the last message left out.
LookupConversation(a, messages) ==
  LET known == {i \in 1 .. Len(messages) - 1 :
                  GetConversation(a, Prefix(messages, i)) # NoConversation}
  IN  IF HasReusableHistory(messages) /\ known # {}
      THEN GetConversation(a, Prefix(messages, Max(known))) ELSE NoConversation

\* The accounts StickyAccount may name: none or one.
StickyAccount(messages) ==
  LET known == {i \in 1 .. Len(messages) - 1 : Prefix(messages, i) \in DOMAIN owner}
  IN  IF HasReusableHistory(messages) /\ known # {}
      THEN {owner[Prefix(messages, Max(known))]} ELSE {}

ToolGroup(a, call) ==
  IF <<a, call>> \in DOMAIN toolGroups THEN toolGroups[<<a, call>>] ELSE "unknown"

ShouldSeed(a, messages) ==
  /\ HasReusableHistory(messages)
  /\ Len(messages) >= SeedThreshold
  /\ LookupConversation(a, messages) = NoConversation

(***************************************************************************)
(* The upstream (external).  A conversation has an account and tool calls  *)
(* it waits for; a corrupt one answers nothing any more.                   *)
(***************************************************************************)

NewSession(c) ==
  [acc |-> acc[c], users |-> {c}, pending |-> {}, turns |-> 0, corrupt |-> FALSE]

Fresh == Len(sessions) + 1

\* The conversation a call reaches, and the table after it.
Reached(c) == IF sent[c] = NoConversation THEN Fresh ELSE sent[c]

ReachedSession(c) ==
  IF sent[c] = NoConversation THEN NewSession(c)
  ELSE [sessions[sent[c]] EXCEPT !.users = @ \cup {c}]

After(c, s) ==
  IF sent[c] = NoConversation THEN Append(sessions, s) ELSE [sessions EXCEPT ![sent[c]] = s]

(***************************************************************************)
(* One call.                                                               *)
(***************************************************************************)

\* The router's choice: the owner while it is usable, or any usable account.
Select(c, a) ==
  /\ pc[c] = "ready"
  /\ a \in usable
  /\ StickyAccount(history[c]) \subseteq usable => StickyAccount(history[c]) \subseteq {a}
  /\ acc' = [acc EXCEPT ![c] = a]
  /\ pc' = [pc EXCEPT ![c] = "selected"]
  /\ UNCHANGED <<store, sessions, usable, history, seeded, sent, native, result, putVars, told,
                 forgotten, events>>

\* seedConversation: the history goes out ahead of the turn.  Unless the tail
\* is a tool result, the new conversation is kept for all but the last message.
SeedSucceeds(c) ==
  /\ pc[c] = "selected"
  /\ ~seeded[c] /\ ShouldSeed(acc[c], history[c])
  /\ Fresh \in Sessions
  /\ sessions' = Append(sessions, NewSession(c))
  /\ seeded' = [seeded EXCEPT ![c] = TRUE]
  /\ result' = [result EXCEPT ![c] = [NoResult EXCEPT !.id = Fresh]]
  /\ IF ToolTail(history[c])
     THEN UNCHANGED <<pc, todo>>
     ELSE /\ todo' = [todo EXCEPT ![c] = <<Front(history[c])>>]
          /\ pc' = [pc EXCEPT ![c] = "storing"]
  /\ UNCHANGED <<store, usable, history, acc, sent, native, half, told, forgotten, events>>

\* Any failure of the account aborts the call, any other falls back to folding.
SeedFails(c) ==
  /\ pc[c] = "selected"
  /\ ~seeded[c] /\ ShouldSeed(acc[c], history[c])
  /\ \/ /\ seeded' = [seeded EXCEPT ![c] = TRUE]
        /\ UNCHANGED <<pc, result>>
     \/ /\ result' = [result EXCEPT ![c] = [NoResult EXCEPT !.kind = "failed"]]
        /\ pc' = [pc EXCEPT ![c] = "ended"]
        /\ UNCHANGED seeded
  /\ UNCHANGED <<store, sessions, usable, history, acc, sent, native, putVars, told,
                 forgotten, events>>

\* Which conversation buildBody continues: a tool result goes back natively if
\* its group is known, into the conversation if it is known to have none, and
\* with the whole history to a new one otherwise.
BuildBody(c) ==
  /\ pc[c] = "selected"
  /\ seeded[c] \/ ~ShouldSeed(acc[c], history[c])
  /\ LET known == LookupConversation(acc[c], history[c])
         tail  == ToolTail(history[c])
         group == ToolGroup(acc[c], ToolCallID(Last(history[c])))
     IN  /\ native' = [native EXCEPT ![c] =
                         tail /\ group = "group" /\ known # NoConversation]
         /\ sent' = [sent EXCEPT ![c] =
                       IF tail /\ group = "unknown" THEN NoConversation ELSE known]
  /\ pc' = [pc EXCEPT ![c] = "calling"]
  /\ UNCHANGED <<store, sessions, usable, history, acc, seeded, result, putVars, told,
                 forgotten, events>>

\* What a call comes back with: a reply, or no reply but perhaps a conversation.
Output(c, kind, call, text) ==
  [kind |-> kind, id |-> Reached(c), turn |-> ReachedSession(c).turns + 1, call |-> call,
   text |-> text]

Failure(kind, id) == [NoResult EXCEPT !.kind = kind, !.id = id]

\* The answer is the Result; how the body was built no longer matters.
Answered(c, answer) ==
  /\ result' = [result EXCEPT ![c] = answer]
  /\ pc' = [pc EXCEPT ![c] = "answered"]
  /\ seeded' = [seeded EXCEPT ![c] = FALSE]
  /\ native' = [native EXCEPT ![c] = FALSE]
  /\ UNCHANGED <<store, usable, history, acc, sent, putVars, told, forgotten>>

\* Does the upstream wait for the tool results the call brings?
Expected(c) ==
  native[c] => sent[c] # NoConversation
               /\ ToolCallID(Last(history[c])) \in sessions[sent[c]].pending

\* The upstream answers, and waits for the results of the calls it makes.
Upstream(c, call) ==
  /\ pc[c] = "calling"
  /\ Reached(c) \in Sessions
  /\ Expected(c) /\ ~ReachedSession(c).corrupt
  /\ LET s    == ReachedSession(c)
         n    == s.turns + 1
         open == IF native[c] THEN s.pending \ {ToolCallID(Last(history[c]))} ELSE s.pending
     IN  sessions' = After(c, [s EXCEPT !.turns = n,
                                 !.pending = IF call = "grouped"
                                             THEN open \cup {<<Reached(c), n>>} ELSE open])

Replies(c, call, text) ==
  /\ Upstream(c, call)
  /\ Answered(c, Output(c, "reply", call, text))
  /\ UNCHANGED events

\* The answer is lost on the way: the stream breaks, or the client is gone while
\* it lasts.
AnswerLost(c, call) ==
  /\ events < MaxEvents
  /\ Upstream(c, call)
  /\ Answered(c, Failure("failed", NoConversation))
  /\ events' = events + 1

\* Only the last delta did not reach the client: the id is set.
EndLost(c, call, text) ==
  /\ events < MaxEvents
  /\ c \in Streaming
  /\ Upstream(c, call)
  /\ Answered(c, Output(c, "cut", call, text))
  /\ events' = events + 1

\* No output at all: the conversation is lost, though its id came with it.
RepliesEmpty(c) ==
  /\ pc[c] = "calling"
  /\ Reached(c) \in Sessions
  /\ Expected(c)
  /\ sessions' = After(c, [ReachedSession(c) EXCEPT !.corrupt = TRUE])
  /\ Answered(c, Failure("empty", Reached(c)))
  /\ UNCHANGED events

\* TOOL_CALL_NOT_FOUND.
ToolCallNotFound(c) ==
  /\ pc[c] = "calling"
  /\ ~Expected(c)
  /\ sessions' = After(c, ReachedSession(c))
  /\ Answered(c, Failure("notFound", NoConversation))
  /\ UNCHANGED events

\* Any failure before the upstream has taken the call in.
CallFails(c) ==
  /\ pc[c] = "calling"
  /\ Answered(c, Failure("failed", NoConversation))
  /\ UNCHANGED <<sessions, events>>

(***************************************************************************)
(* What the provider does with the answer.                                 *)
(***************************************************************************)

\* Mutant: the empty ConversationID is stored like any other.
RememberedUnchecked(c) == result[c].kind = "reply" \/ c \in Streaming

\* Has the call itself to be stored?  Chat returns on an error before
\* RememberConversation; StreamChat goes on to it.
Remembered(c) ==
  result[c].id # NoConversation /\ (result[c].kind = "reply" \/ c \in Streaming)

\* assistantFollowup # nil: content or tool calls were collected.  With tools on
\* offer StreamChat collects neither of a call that fails.
HasFollowup(c) ==
  result[c].kind = "reply" \/ (result[c].kind = "cut" /\ Calls[c] = {"none"})

\* The fingerprints RememberConversation records.
ToRemember(c) ==
  IF ~Remembered(c) THEN <<>>
  ELSE IF HasFollowup(c)
  THEN <<history[c], Append(history[c], Reply(result[c], TRUE))>>
  ELSE <<history[c]>>

StoreNext(c, fps) ==
  /\ todo' = [todo EXCEPT ![c] = fps]
  /\ pc' = [pc EXCEPT ![c] = IF fps = <<>> THEN "ended" ELSE "storing"]

\* sync.Map's Store.
Put(map, key, value) ==
  [k \in DOMAIN map \cup {key} |-> IF k = key THEN value ELSE map[k]]

\* rememberToolGroups, before the simulated calls are added.
RememberToolGroups(c) ==
  LET key == <<acc[c], <<result[c].id, result[c].turn>>>>
  IN  toolGroups' = CASE result[c].call = "grouped"   -> Put(toolGroups, key, "group")
                      [] result[c].call = "ungrouped" -> Put(toolGroups, key, "-")
                      [] OTHER                        -> toolGroups

Succeed(c) ==
  /\ pc[c] = "answered"
  /\ result[c].kind = "reply"
  /\ RememberToolGroups(c)
  /\ StoreNext(c, ToRemember(c))
  /\ UNCHANGED <<conv, owner, sessions, usable, history, callVars, half, told, forgotten, events>>

SessionCorrupt(c) == result[c].kind \in {"empty", "notFound"}

\* trailingToolCallIDs: only messages of the role "tool" carry the id.
TrailingToolCallIDs(messages) ==
  {ToolCallID(messages[i]) : i \in {j \in 1 .. Len(messages) : messages[j].role = "tool"}}

\* InvalidateConversation: whatever the history leads to now is forgotten, with
\* the groups of the tool results in the request; the owner stays.
Invalidate(c) ==
  LET id    == LookupConversation(acc[c], history[c])
      keys  == {k \in DOMAIN conv : k[1] = acc[c] /\ conv[k] = id}
      calls == {<<acc[c], t>> : t \in TrailingToolCallIDs(history[c])}
  IN  IF id = NoConversation THEN UNCHANGED <<conv, toolGroups, forgotten>>
      ELSE /\ conv' = Restrict(conv, DOMAIN conv \ keys)
           /\ toolGroups' = Restrict(toolGroups, DOMAIN toolGroups \ calls)
           /\ forgotten' = forgotten \cup keys

\* invalidateIfCorrupt, then what the two kinds of call do on an error.
Fail(c) ==
  /\ pc[c] = "answered"
  /\ result[c].kind # "reply"
  /\ IF SessionCorrupt(c) THEN Invalidate(c) ELSE UNCHANGED <<conv, toolGroups, forgotten>>
  /\ told' = [told EXCEPT ![c] = IF SessionCorrupt(c)
                                THEN @ \cup ({sent[c], result[c].id} \ {NoConversation}) ELSE @]
  /\ StoreNext(c, ToRemember(c))
  /\ UNCHANGED <<owner, sessions, usable, history, callVars, half, events>>

WriteConversation(c) ==
  /\ conv' = Put(conv, <<acc[c], Head(todo[c])>>, result[c].id)
  /\ forgotten' = forgotten \ {<<acc[c], Head(todo[c])>>}
  /\ UNCHANGED owner

WriteOwner(c) ==
  /\ owner' = Put(owner, Head(todo[c]), acc[c])
  /\ UNCHANGED <<conv, forgotten>>

\* The first of the fingerprints is done; after the last one the seeding or the
\* call is over.
Stored(c) ==
  /\ todo' = [todo EXCEPT ![c] = Tail(@)]
  /\ pc' = [pc EXCEPT ![c] = IF Len(todo[c]) > 1 THEN @
                             ELSE IF result[c].kind = "none" THEN "selected" ELSE "ended"]

\* Mutant: the owner is written first.
SetConversationIDOwnerFirst(c) ==
  /\ pc[c] = "storing"
  /\ \/ ~half[c] /\ WriteOwner(c) /\ UNCHANGED <<todo, pc>>
     \/ half[c] /\ WriteConversation(c) /\ Stored(c)
  /\ half' = [half EXCEPT ![c] = ~@]
  /\ UNCHANGED <<toolGroups, sessions, usable, history, callVars, told, events>>

\* setConversationID: the conversation, then its owner.
SetConversationID(c) ==
  /\ pc[c] = "storing"
  /\ \/ ~half[c] /\ WriteConversation(c) /\ UNCHANGED <<todo, pc>>
     \/ half[c] /\ WriteOwner(c) /\ Stored(c)
  /\ half' = [half EXCEPT ![c] = ~@]
  /\ UNCHANGED <<toolGroups, sessions, usable, history, callVars, told, events>>

(***************************************************************************)
(* The clients (external), and what else happens.                          *)
(***************************************************************************)

\* The next call starts from an empty Result.
Grows(c, more) ==
  /\ Len(history[c] \o more) <= MaxMessages
  /\ history' = [history EXCEPT ![c] = @ \o more]
  /\ pc' = [pc EXCEPT ![c] = "ready"]
  /\ seeded' = [seeded EXCEPT ![c] = FALSE]
  /\ sent' = [sent EXCEPT ![c] = NoConversation]
  /\ native' = [native EXCEPT ![c] = FALSE]
  /\ result' = [result EXCEPT ![c] = NoResult]
  /\ acc' = [acc EXCEPT ![c] = NoAccount]
  /\ UNCHANGED <<store, sessions, usable, putVars, told, forgotten, events>>

\* The client takes the reply over and asks on, or brings the tool's result.
NextTurn(c, exact) ==
  /\ pc[c] = "ended" /\ result[c].kind = "reply"
  /\ LET r == Reply(result[c], exact)
     IN  Grows(c, <<r, IF r.call = "none" THEN FollowUp ELSE ToolResult(c, r.of, r.turn)>>)

\* After a failure the same messages again, by the router or by the client.
Resend(c) ==
  /\ pc[c] = "ended" /\ result[c].kind # "reply"
  /\ Grows(c, <<>>)

\* After a failure the user types something else.
MoveOn(c) ==
  /\ pc[c] = "ended" /\ result[c].kind # "reply"
  /\ Grows(c, <<FollowUp>>)

\* The process restarts: the stores are gone, the calls under way break off.
Restart ==
  /\ events < MaxEvents
  /\ conv' = <<>> /\ owner' = <<>> /\ toolGroups' = <<>>
  /\ pc' = [c \in Clients |-> IF pc[c] = "ready" THEN "ready" ELSE "ended"]
  /\ result' = [c \in Clients |-> IF pc[c] \in {"ready", "ended"} THEN result[c]
                                  ELSE [NoResult EXCEPT !.kind = "failed"]]
  /\ todo' = [c \in Clients |-> <<>>]
  /\ half' = [c \in Clients |-> FALSE]
  /\ events' = events + 1
  /\ UNCHANGED <<sessions, usable, history, acc, seeded, sent, native, told, forgotten>>

\* An account becomes unusable: disabled or exhausted.
DropOut(a) ==
  /\ events < MaxEvents
  /\ usable \ {a} # {} /\ a \in usable
  /\ usable' = usable \ {a}
  /\ events' = events + 1
  /\ UNCHANGED <<store, sessions, history, pc, callVars, putVars, told, forgotten>>

Turn(c) ==
  \/ \E a \in Accounts : Select(c, a)
  \/ SeedSucceeds(c)
  \/ SeedFails(c)
  \/ BuildBody(c)
  \/ \E call \in Calls[c] : AnswerLost(c, call)
  \/ \E call \in Calls[c], text \in Texts : Replies(c, call, text) \/ EndLost(c, call, text)
  \/ RepliesEmpty(c)
  \/ ToolCallNotFound(c)
  \/ CallFails(c)
  \/ Succeed(c)
  \/ Fail(c)
  \/ SetConversationID(c)
  \/ \E exact \in BOOLEAN : NextTurn(c, exact)
  \/ Resend(c)
  \/ MoveOn(c)

Next ==
  \/ \E c \in Clients : Turn(c)
  \/ Restart
  \/ \E a \in Accounts : DropOut(a)

Spec == Init /\ [][Next]_vars

(***************************************************************************)
(* Properties.                                                             *)
(***************************************************************************)

\* A conversation belongs to the account it was started on: after a change of
\* account no call takes the old account's conversation along, neither in the
\* body it builds nor in what it records of the answer.
NoForeignConversation ==
  /\ \A c \in Clients : pc[c] = "calling" /\ sent[c] # NoConversation
                         => sessions[sent[c]].acc = acc[c]
  /\ \A k \in DOMAIN conv : sessions[conv[k]].acc = k[1]

\* Wherever StickyAccount sends a client, its account has a conversation for
\* that prefix, unless that was invalidated: at no point between the two writes
\* of setConversationID, of however many calls, can a reader see the owner first.
OwnerHasConversation ==
  \A fp \in DOMAIN owner :
    <<owner[fp], fp>> \in DOMAIN conv \/ <<owner[fp], fp>> \in forgotten

\* The messages that bear the id of a tool call.
BearsID(m) == m.turn # 0

\* Two clients that opened with the same words are told apart by the first tool
\* call: a client one of whose prefixes with a call in it is known continues a
\* conversation it took part in, however much of its history is known besides.
CallsTellApart ==
  [][\A c \in Clients :
       /\ BuildBody(c) /\ sent'[c] # NoConversation
       /\ \E i \in 1 .. Len(history[c]) - 1 :
            /\ \E j \in 1 .. i : BearsID(history[c][j])
            /\ GetConversation(acc[c], Prefix(history[c], i)) # NoConversation
       => c \in sessions[sent'[c]].users]_vars

\* stream.go: after a corrupt answer "the retry is downgraded to a rebuild with
\* conversationId=null".  A client is never led back into a conversation it was
\* told is corrupt.
CorruptNeverResent ==
  [][\A c \in Clients : BuildBody(c) => sent'[c] \notin told[c]]_vars

\* conversation.go, InvalidateConversation: only this one session is touched,
\* "never a healthy concurrent one of the same account".  It looks the history
\* up again, and by now that may lead into another client's conversation.
InvalidationSparesTheHealthy ==
  [][\A c \in Clients : Fail(c) =>
       \A k \in DOMAIN conv \ DOMAIN conv' :
         sessions[conv[k]].corrupt \/ sessions[conv[k]].users = {c}]_vars
=============================================================================

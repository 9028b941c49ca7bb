------------------------ MODULE Conversation_proofs ------------------------
(***************************************************************************)
(* Theorems about the continuation of conversations, for any clients,      *)
(* accounts, histories and bounds: types, that no conversation is carried  *)
(* to another account, that an owner is never seen before its              *)
(* conversation, and that a known tool call leads its own client only.     *)
(*                                                                         *)
(* The last one rests on marks: the ids of the tool calls (in replies and  *)
(* in the results for them) in a list of messages.  An id is new when its  *)
(* reply arrives, only its client ever has it in its history, and every    *)
(* key of the store that bears it leads to a conversation that client is   *)
(* in.  Plain replies have no id and no mark.                              *)
(***************************************************************************)
EXTENDS Conversation, WellFoundedInduction, TLAPS

\* How far a call may be.
Phase == {"ready", "selected", "calling", "answered", "storing", "ended"}

\* What the upstream may have answered.
Result == [kind : {"none", "reply", "cut", "failed", "empty", "notFound"},
           id : Nat, turn : Nat, call : Call, text : Nat]

\* What every variable holds.
Types ==
  /\ sessions \in Seq(Session)
  /\ DOMAIN conv \subseteq Accounts \X Seq(Message)
  /\ \A k \in DOMAIN conv : conv[k] \in 1 .. Len(sessions)
  /\ \A fp \in DOMAIN owner : fp \in Seq(Message) /\ owner[fp] \in Accounts
  /\ \A k \in DOMAIN toolGroups : k[1] \in Accounts /\ toolGroups[k] \in {"group", "-"}
  /\ usable \in SUBSET Accounts
  /\ history \in [Clients -> Seq(Message) \ {<<>>}]
  /\ pc \in [Clients -> Phase]
  /\ acc \in [Clients -> Accounts \cup {NoAccount}]
  /\ seeded \in [Clients -> BOOLEAN]
  /\ native \in [Clients -> BOOLEAN]
  /\ sent \in [Clients -> Nat]
  /\ result \in [Clients -> Result]
  /\ todo \in [Clients -> Seq(Seq(Message))]
  /\ half \in [Clients -> BOOLEAN]

\* How far a call is and what it holds go together.
PhaseOf(c) ==
  /\ pc[c] # "ready" => acc[c] \in Accounts
  /\ pc[c] = "ready" => result[c].id = NoConversation
  /\ pc[c] = "storing" <=> todo[c] # <<>>
  /\ pc[c] = "storing" => result[c].id # NoConversation
  /\ half[c] => pc[c] = "storing"
  /\ result[c].id <= Len(sessions) /\ sent[c] <= Len(sessions)
  /\ native[c] /\ pc[c] = "calling" => sent[c] # NoConversation

Phases == \A c \in Clients : PhaseOf(c)

\* The conversation of a call's Result, and the one it continues, are its
\* account's; the client takes part in the former.
OwnOf(c) ==
  /\ result[c].id # NoConversation =>
       sessions[result[c].id].acc = acc[c] /\ c \in sessions[result[c].id].users
  /\ pc[c] = "calling" /\ sent[c] # NoConversation => sessions[sent[c]].acc = acc[c]

Own == \A c \in Clients : OwnOf(c)

\* Every key of the store leads to a conversation of the key's account.
ConvOwn == \A k \in DOMAIN conv : sessions[conv[k]].acc = k[1]

\* Between the two writes of setConversationID the first has taken effect.
HalfDone ==
  \A c \in Clients : half[c] =>
    <<acc[c], Head(todo[c])>> \in DOMAIN conv \/ <<acc[c], Head(todo[c])>> \in forgotten

\* The ids of the tool calls among the messages.
Marks(messages) ==
  {ToolCallID(messages[i]) : i \in {j \in 1 .. Len(messages) : BearsID(messages[j])}}

\* The replies a client has taken over, or is about to.
MarksOf(c) ==
  Marks(history[c]) \cup
    (IF result[c].kind \in {"reply", "cut"} THEN {<<result[c].id, result[c].turn>>} ELSE {})

\* Some reply of the upstream had the id t.
Minted(t) == t[1] \in 1 .. Len(sessions) /\ t[2] <= sessions[t[1]].turns

\* Marks come from replies only, in the histories and in the store.
MarksMinted ==
  /\ \A c \in Clients : \A t \in MarksOf(c) : Minted(t)
  /\ \A k \in DOMAIN conv : \A t \in Marks(k[2]) : Minted(t)

\* No two clients share a reply.
MarksApart ==
  \A c, d \in Clients : c # d => MarksOf(c) \cap MarksOf(d) = {}

\* A key with a client's mark leads to a conversation the client is in.
MarksLead ==
  \A k \in DOMAIN conv : \A c \in Clients :
    Marks(k[2]) \cap MarksOf(c) # {} => c \in sessions[conv[k]].users

\* What a call still has to store bears no marks but its client's.
MarksKept ==
  \A c \in Clients : \A i \in 1 .. Len(todo[c]) : Marks(todo[c][i]) \subseteq MarksOf(c)

-----------------------------------------------------------------------------
(***************************************************************************)
(* The operators the module is built from.                                 *)
(***************************************************************************)

\* A set of naturals that is not empty has a least member.
LEMMA HasLeast ==
  ASSUME NEW T, T \subseteq Nat, T # {}
  PROVE  \E x \in T : \A y \in T : x <= y
<1> DEFINE R == {ss \in Nat \X Nat : ss[1] < ss[2]}
<1>1. IsWellFoundedOn(R, Nat)
  BY NatLessThanWellFounded DEF OpToRel
<1> HIDE DEF R
<1>2. PICK x \in T : \A y \in T : <<y, x>> \notin R
  BY <1>1, WFMin
<1>3. \A y \in T : ~(y < x)
  BY <1>2 DEF R
<1> QED
  BY <1>3

\* Max is a member of a bounded set, and none of its members is greater.
LEMMA MaxIsGreatest ==
  ASSUME NEW n \in Nat, NEW S, S \subseteq 1 .. n, S # {}
  PROVE  Max(S) \in S /\ \A y \in S : y <= Max(S)
<1> DEFINE T == {n - i : i \in S}
<1>1. T \subseteq Nat
  OBVIOUS
<1>2. T # {}
  OBVIOUS
<1> HIDE DEF T
<1>3. PICK x \in T : \A y \in T : x <= y
  BY <1>1, <1>2, HasLeast
<1>4. PICK m \in S : x = n - m
  BY DEF T
<1>5. \A y \in S : n - m <= n - y
  BY <1>3, <1>4 DEF T
<1>6. \A y \in S : m >= y
  BY <1>5
<1> QED
  BY <1>6 DEF Max

\* The prefix a conversation is kept for after a seeding.
LEMMA FrontIs ==
  ASSUME NEW S, NEW s \in Seq(S), s # <<>>
  PROVE  /\ Front(s) \in Seq(S)
         /\ Len(Front(s)) < Len(s)
         /\ \A i \in 1 .. Len(Front(s)) : Front(s)[i] = s[i]
BY DEF Front

\* A prefix is one.
LEMMA PrefixIs ==
  ASSUME NEW S, NEW s \in Seq(S), NEW i \in 0 .. Len(s)
  PROVE  /\ Prefix(s, i) \in Seq(S)
         /\ Len(Prefix(s, i)) = i
         /\ \A j \in 1 .. i : Prefix(s, i)[j] = s[j]
BY DEF Prefix

\* Every lookup finds nothing or a conversation kept for the account.
LEMMA LookupKnown ==
  ASSUME NEW a, NEW messages
  PROVE  LET id == LookupConversation(a, messages)
         IN  id = NoConversation \/ \E fp : <<a, fp>> \in DOMAIN conv /\ id = conv[<<a, fp>>]
<1>1. \A fp : GetConversation(a, fp) # NoConversation =>
                 <<a, fp>> \in DOMAIN conv /\ GetConversation(a, fp) = conv[<<a, fp>>]
  BY DEF GetConversation
<1> DEFINE known == {i \in 1 .. Len(messages) - 1 :
                       GetConversation(a, Prefix(messages, i)) # NoConversation}
           fp == Prefix(messages, Max(known))
<1>2. LookupConversation(a, messages) \in {NoConversation, GetConversation(a, fp)}
  BY DEF LookupConversation
<1> HIDE DEF fp
<1> QED
  BY <1>1, <1>2

-----------------------------------------------------------------------------
(***************************************************************************)
(* The upstream's table.                                                   *)
(***************************************************************************)

\* Conversations are never lost, and keep their account and their users.
Grown ==
  /\ sessions' \in Seq(Session)
  /\ Len(sessions) <= Len(sessions')
  /\ \A i \in 1 .. Len(sessions) :
       /\ sessions'[i].acc = sessions[i].acc
       /\ sessions[i].users \subseteq sessions'[i].users
       /\ sessions[i].turns <= sessions'[i].turns

\* The conversation a call reaches is its account's, and has the client in it.
LEMMA Reach ==
  ASSUME Types, Phases, Own, NEW c \in Clients, pc[c] = "calling"
  PROVE  /\ Reached(c) \in 1 .. Len(sessions) + 1
         /\ ReachedSession(c) \in Session
         /\ ReachedSession(c).acc = acc[c] /\ c \in ReachedSession(c).users
         /\ Reached(c) \in 1 .. Len(sessions) =>
              /\ sessions[Reached(c)].users \subseteq ReachedSession(c).users
              /\ sessions[Reached(c)].turns = ReachedSession(c).turns
<1>1. CASE sent[c] = NoConversation
  <2>1. Reached(c) = Len(sessions) + 1 /\ ReachedSession(c) = NewSession(c)
    BY <1>1 DEF Reached, Fresh, ReachedSession
  <2>2. acc[c] \in Accounts /\ Len(sessions) \in Nat
    BY DEF Types, Phases, PhaseOf
  <2> QED
    BY <2>1, <2>2 DEF NewSession, Session
<1>2. CASE sent[c] # NoConversation
  <2>1. /\ Reached(c) = sent[c]
        /\ ReachedSession(c) = [sessions[sent[c]] EXCEPT !.users = @ \cup {c}]
    BY <1>2 DEF Reached, ReachedSession
  <2>2. sent[c] \in 1 .. Len(sessions) /\ sessions \in Seq(Session)
    BY <1>2 DEF Types, Phases, PhaseOf, NoConversation
  <2>3. sessions[sent[c]] \in Session
    BY <2>2
  <2>4. sessions[sent[c]].acc = acc[c]
    BY <1>2 DEF Own, OwnOf
  <2> DEFINE s == sessions[sent[c]]
  <2>5. /\ [s EXCEPT !.users = @ \cup {c}] \in Session
        /\ [s EXCEPT !.users = @ \cup {c}].acc = s.acc
        /\ [s EXCEPT !.users = @ \cup {c}].users = s.users \cup {c}
        /\ [s EXCEPT !.users = @ \cup {c}].turns = s.turns
    BY <2>3 DEF Session
  <2> QED
    BY <2>1, <2>2, <2>4, <2>5
<1> QED
  BY <1>1, <1>2

\* The table after a call left the conversation it reached as s.
LEMMA AfterIs ==
  ASSUME Types, Phases, NEW c \in Clients, NEW s \in Session
  PROVE  /\ After(c, s) \in Seq(Session)
         /\ Len(sessions) <= Len(After(c, s))
         /\ Reached(c) <= Len(After(c, s))
         /\ After(c, s)[Reached(c)] = s
         /\ \A i \in 1 .. Len(sessions) : i # Reached(c) => After(c, s)[i] = sessions[i]
<1>1. CASE sent[c] = NoConversation
  BY <1>1 DEF After, Reached, Fresh, Types
<1>2. CASE sent[c] # NoConversation
  <2>1. sent[c] \in 1 .. Len(sessions) /\ sessions \in Seq(Session)
    BY <1>2 DEF Types, Phases, PhaseOf, NoConversation
  <2>2. After(c, s) = [sessions EXCEPT ![sent[c]] = s] /\ Reached(c) = sent[c]
    BY <1>2 DEF After, Reached
  <2> QED
    BY <2>1, <2>2
<1> QED
  BY <1>1, <1>2

\* A call that reached the upstream left its conversation as s.
LEMMA GrownAfter ==
  ASSUME Types, Phases, Own, NEW c \in Clients, pc[c] = "calling", NEW s \in Session,
         s.acc = ReachedSession(c).acc, s.users = ReachedSession(c).users,
         s.turns >= ReachedSession(c).turns, sessions' = After(c, s)
  PROVE  /\ Grown
         /\ Reached(c) \in 1 .. Len(sessions')
         /\ sessions'[Reached(c)] = s
<1>1. /\ Reached(c) \in 1 .. Len(sessions) + 1
      /\ ReachedSession(c) \in Session
      /\ ReachedSession(c).acc = acc[c] /\ c \in ReachedSession(c).users
      /\ Reached(c) \in 1 .. Len(sessions) =>
           /\ sessions[Reached(c)].users \subseteq ReachedSession(c).users
           /\ sessions[Reached(c)].turns = ReachedSession(c).turns
           /\ sessions[Reached(c)].acc = ReachedSession(c).acc
  <2>1. Reached(c) \in 1 .. Len(sessions) => sessions[Reached(c)].acc = acc[c]
    <3>1. CASE sent[c] = NoConversation
      <4>1. Reached(c) = Len(sessions) + 1 /\ Len(sessions) \in Nat
        BY <3>1 DEF Reached, Fresh, Types
      <4> QED
        BY <4>1
    <3>2. CASE sent[c] # NoConversation
      BY <3>2 DEF Reached, Own, OwnOf
    <3> QED
      BY <3>1, <3>2
  <2> QED
    BY <2>1, Reach
<1>2. /\ sessions' \in Seq(Session)
      /\ Len(sessions) <= Len(sessions')
      /\ Reached(c) <= Len(sessions')
      /\ sessions'[Reached(c)] = s
      /\ \A i \in 1 .. Len(sessions) : i # Reached(c) => sessions'[i] = sessions[i]
  BY AfterIs
<1>3. \A i \in 1 .. Len(sessions) : sessions[i].turns <= sessions[i].turns
  <2>1. \A i \in 1 .. Len(sessions) : sessions[i] \in Session
    BY DEF Types
  <2> QED
    BY <2>1 DEF Session
<1>4. \A i \in 1 .. Len(sessions) :
       /\ sessions'[i].acc = sessions[i].acc
       /\ sessions[i].users \subseteq sessions'[i].users
       /\ sessions[i].turns <= sessions'[i].turns
  <2> TAKE i \in 1 .. Len(sessions)
  <2>1. CASE i = Reached(c)
    BY <1>1, <1>2, <2>1
  <2>2. CASE i # Reached(c)
    BY <1>2, <1>3, <2>2
  <2> QED
    BY <2>1, <2>2
<1> QED
  BY <1>1, <1>2, <1>4 DEF Grown

-----------------------------------------------------------------------------
(***************************************************************************)
(* What the steps of a call have in common.                                *)
(***************************************************************************)

\* An answer arrives: a conversation it names is the call's own, and a reply in
\* it has a number that no reply had before.
Arrives(c, answer) ==
  /\ pc[c] = "calling"
  /\ Answered(c, answer)
  /\ Grown
  /\ answer \in Result /\ answer.kind # "none"
  /\ answer.id # NoConversation =>
       /\ answer.id \in 1 .. Len(sessions')
       /\ sessions'[answer.id].acc = acc[c] /\ c \in sessions'[answer.id].users
  /\ answer.kind \in {"reply", "cut"} =>
       /\ answer.id # NoConversation
       /\ answer.turn <= sessions'[answer.id].turns
       /\ ~Minted(<<answer.id, answer.turn>>)

\* The actions by which an answer, or none, arrives.
Arrival(c) ==
  \/ \E call \in Calls[c] : AnswerLost(c, call)
  \/ \E call \in Calls[c], text \in Texts : Replies(c, call, text) \/ EndLost(c, call, text)
  \/ RepliesEmpty(c) \/ ToolCallNotFound(c) \/ CallFails(c)

\* A conversation that lost its content.
LEMMA Corrupting ==
  ASSUME NEW s \in Session
  PROVE  LET t == [s EXCEPT !.corrupt = TRUE]
         IN  t \in Session /\ t.acc = s.acc /\ t.users = s.users /\ t.turns >= s.turns
<1>1. s.turns >= s.turns
  BY DEF Session
<1> QED
  BY <1>1 DEF Session

\* The table after the upstream took a call in.
LEMMA Taken ==
  ASSUME Types, Phases, Own, NEW c \in Clients, NEW call \in Call, Upstream(c, call)
  PROVE  LET id == Reached(c)
             n  == ReachedSession(c).turns + 1
         IN  /\ pc[c] = "calling"
             /\ Grown
             /\ id \in 1 .. Len(sessions') /\ id # NoConversation /\ n \in Nat
             /\ sessions'[id].acc = acc[c] /\ c \in sessions'[id].users
             /\ n <= sessions'[id].turns
             /\ ~Minted(<<id, n>>)
<1> DEFINE s    == ReachedSession(c)
           n    == s.turns + 1
           open == IF native[c] THEN s.pending \ {ToolCallID(Last(history[c]))} ELSE s.pending
           wait == IF call = "grouped" THEN open \cup {<<Reached(c), n>>} ELSE open
           t    == [s EXCEPT !.turns = n, !.pending = wait]
<1>1. pc[c] = "calling" /\ sessions' = After(c, t)
  BY DEF Upstream
<1>2. /\ s \in Session /\ Reached(c) \in 1 .. Len(sessions) + 1
      /\ s.acc = acc[c] /\ c \in s.users
      /\ Reached(c) \in 1 .. Len(sessions) => sessions[Reached(c)].turns = s.turns
  BY <1>1, Reach
<1>3. Len(sessions) \in Nat
  BY DEF Types
<1> HIDE DEF s
<1>4. n \in Nat /\ n > s.turns /\ open \subseteq Nat \X Nat
  BY <1>2 DEF Session
<1> HIDE DEF open
<1>5. wait \in SUBSET (Nat \X Nat)
  BY <1>2, <1>3, <1>4
<1> HIDE DEF wait, n
<1>6. t \in Session /\ t.acc = s.acc /\ t.users = s.users /\ t.turns = n
  <2>1. s \in Session /\ n \in Nat /\ wait \in SUBSET (Nat \X Nat)
    BY <1>2, <1>4, <1>5
  <2> QED
    BY ONLY <2>1 DEF Session
<1> HIDE DEF t
<1>7. Grown /\ Reached(c) \in 1 .. Len(sessions') /\ sessions'[Reached(c)] = t
  <2>1. t.turns >= s.turns
    BY <1>2, <1>4, <1>6 DEF Session
  <2> QED
    BY <1>1, <1>6, <2>1, GrownAfter DEF s
<1>8. ~Minted(<<Reached(c), n>>)
  BY <1>2, <1>4 DEF Minted, Session
<1>9. n <= t.turns
  BY <1>4, <1>6
<1>10. Reached(c) # NoConversation
  BY <1>2, <1>3 DEF NoConversation
<1> QED
  BY <1>1, <1>2, <1>4, <1>6, <1>7, <1>8, <1>9, <1>10 DEF n, s

\* Every one of them is an answer as Arrives describes it.
LEMMA ArrivalIs ==
  ASSUME Types, Phases, Own, NEW c \in Clients, Arrival(c)
  PROVE  \E answer : Arrives(c, answer)
<1> USE DEF NoConversation
<1>0. Calls[c] \subseteq Call /\ Texts \subseteq Nat
  BY ConversationAssumption
<1>a. ASSUME NEW kind \in {"failed", "empty", "notFound"}, NEW id \in Nat
      PROVE  Failure(kind, id) \in Result /\ Failure(kind, id).kind = kind /\ Failure(kind, id).id = id
  BY DEF Failure, NoResult, Result, Call
<1>b. ASSUME NEW call \in Calls[c], NEW text \in Texts, NEW kind \in {"reply", "cut"},
             Upstream(c, call), Answered(c, Output(c, kind, call, text))
      PROVE  Arrives(c, Output(c, kind, call, text))
  <2> DEFINE id == Reached(c)
             n  == ReachedSession(c).turns + 1
  <2>1. call \in Call /\ text \in Nat
    BY <1>0
  <2>2. /\ pc[c] = "calling" /\ Grown
        /\ id \in 1 .. Len(sessions') /\ id # 0 /\ n \in Nat
        /\ sessions'[id].acc = acc[c] /\ c \in sessions'[id].users
        /\ n <= sessions'[id].turns /\ ~Minted(<<id, n>>)
    BY <1>b, <2>1, Taken
  <2>3. id \in Nat
    BY <2>2
  <2>4. Output(c, kind, call, text) =
          [kind |-> kind, id |-> id, turn |-> n, call |-> call, text |-> text]
    BY DEF Output
  <2> HIDE DEF id, n
  <2>5. [kind |-> kind, id |-> id, turn |-> n, call |-> call, text |-> text] \in Result
    BY <2>1, <2>2, <2>3 DEF Result
  <2> QED
    BY <1>b, <2>2, <2>4, <2>5 DEF Arrives
<1>1. ASSUME NEW call \in Calls[c], NEW text \in Texts, Replies(c, call, text)
      PROVE  \E answer : Arrives(c, answer)
  BY <1>1, <1>b DEF Replies
<1>2. ASSUME NEW call \in Calls[c], AnswerLost(c, call)
      PROVE  Arrives(c, Failure("failed", 0))
  <2>1. Upstream(c, call) /\ Answered(c, Failure("failed", 0))
    BY <1>2 DEF AnswerLost
  <2>2. pc[c] = "calling" /\ Grown
    BY <1>0, <2>1, Taken
  <2> QED
    BY <1>a, <2>1, <2>2 DEF Arrives
<1>3. ASSUME NEW call \in Calls[c], NEW text \in Texts, EndLost(c, call, text)
      PROVE  \E answer : Arrives(c, answer)
  BY <1>3, <1>b DEF EndLost
<1>4. ASSUME RepliesEmpty(c)
      PROVE  Arrives(c, Failure("empty", Reached(c)))
  <2> DEFINE t == [ReachedSession(c) EXCEPT !.corrupt = TRUE]
  <2>1. pc[c] = "calling" /\ sessions' = After(c, t) /\ Answered(c, Failure("empty", Reached(c)))
    BY <1>4 DEF RepliesEmpty
  <2>2. ReachedSession(c) \in Session /\ ReachedSession(c).acc = acc[c] /\ c \in ReachedSession(c).users
    BY <2>1, Reach
  <2>3. /\ t \in Session /\ t.acc = ReachedSession(c).acc /\ t.users = ReachedSession(c).users
        /\ t.turns >= ReachedSession(c).turns
    BY <2>2, Corrupting
  <2> HIDE DEF t
  <2>4. Grown /\ Reached(c) \in 1 .. Len(sessions') /\ sessions'[Reached(c)] = t
    BY <2>1, <2>3, GrownAfter
  <2> QED
    BY <1>a, <2>1, <2>2, <2>3, <2>4 DEF Arrives
<1>5. ASSUME ToolCallNotFound(c)
      PROVE  Arrives(c, Failure("notFound", 0))
  <2> DEFINE t == ReachedSession(c)
  <2>1. pc[c] = "calling" /\ sessions' = After(c, t) /\ Answered(c, Failure("notFound", 0))
    BY <1>5 DEF ToolCallNotFound
  <2>2. t \in Session
    BY <2>1, Reach
  <2>3. t.turns >= t.turns
    BY <2>2 DEF Session
  <2>4. Grown
    BY <2>1, <2>2, <2>3, GrownAfter
  <2> QED
    BY <1>a, <2>1, <2>4 DEF Arrives
<1>6. ASSUME CallFails(c)
      PROVE  Arrives(c, Failure("failed", 0))
  <2>1. pc[c] = "calling" /\ sessions' = sessions /\ Answered(c, Failure("failed", 0))
    BY <1>6 DEF CallFails
  <2>2. Grown
    <3>1. \A i \in 1 .. Len(sessions) : sessions[i] \in Session
      BY DEF Types
    <3> QED
      BY <2>1, <3>1 DEF Grown, Types, Session
  <2> QED
    BY <1>a, <2>1, <2>2 DEF Arrives
<1> QED
  BY <1>1, <1>2, <1>3, <1>4, <1>5, <1>6 DEF Arrival

\* The client asks again: more messages, none of them marked by another's reply.
Asks(c, more) ==
  /\ pc[c] = "ended"
  /\ Grows(c, more)
  /\ more \in Seq(Message)
  /\ Marks(more) \subseteq MarksOf(c)

\* The actions by which a client asks again.
Asking(c) == (\E exact \in BOOLEAN : NextTurn(c, exact)) \/ Resend(c) \/ MoveOn(c)

\* The marks of two messages.
LEMMA MarksOfTwo ==
  ASSUME NEW m, NEW n, NEW S, BearsID(m) => ToolCallID(m) \in S, BearsID(n) => ToolCallID(n) \in S
  PROVE  Marks(<<m, n>>) \subseteq S
BY DEF Marks

\* A reply bears the id of its Result, if it bears one.
LEMMA ReplyIs ==
  ASSUME NEW r \in Result, NEW exact \in BOOLEAN
  PROVE  /\ Reply(r, exact) \in Message
         /\ BearsID(Reply(r, exact)) => ToolCallID(Reply(r, exact)) = <<r.id, r.turn>>
         /\ Reply(r, exact).call # "none" =>
              Reply(r, exact).of = r.id /\ Reply(r, exact).turn = r.turn
<1>1. /\ PlainReply(r.text, exact) \in Message
      /\ CallingReply(r.id, r.turn, r.call, exact) \in Message
  BY DEF PlainReply, CallingReply, Message, Result, Call
<1>2. /\ ~BearsID(PlainReply(r.text, exact)) /\ PlainReply(r.text, exact).call = "none"
      /\ CallingReply(r.id, r.turn, r.call, exact).of = r.id
      /\ CallingReply(r.id, r.turn, r.call, exact).turn = r.turn
  BY DEF PlainReply, CallingReply, BearsID
<1> QED
  BY <1>1, <1>2 DEF Reply, ToolCallID

\* Every one of them is a client asking as Asks describes it.
LEMMA AskingIs ==
  ASSUME Types, NEW c \in Clients, Asking(c)
  PROVE  \E more : Asks(c, more)
<1>0. FollowUp \in Message /\ ~BearsID(FollowUp)
  BY DEF FollowUp, UserMessage, Message, Call, BearsID
<1>1. ASSUME NEW exact \in BOOLEAN, NextTurn(c, exact)
      PROVE  \E more : Asks(c, more)
  <2> DEFINE r == Reply(result[c], exact)
             f == IF r.call = "none" THEN FollowUp ELSE ToolResult(c, r.of, r.turn)
  <2>1. result[c] \in Result
    BY DEF Types
  <2>2. /\ r \in Message /\ (BearsID(r) => ToolCallID(r) = <<result[c].id, result[c].turn>>)
        /\ r.call # "none" => r.of = result[c].id /\ r.turn = result[c].turn
    BY <2>1, ReplyIs
  <2> HIDE DEF r
  <2>3. /\ ToolResult(c, r.of, r.turn) \in Message
        /\ ToolCallID(ToolResult(c, r.of, r.turn)) = <<r.of, r.turn>>
    BY <2>2 DEF ToolResult, Message, ToolCallID, Call
  <2>4. pc[c] = "ended" /\ result[c].kind = "reply" /\ Grows(c, <<r, f>>)
    BY <1>1 DEF NextTurn, r
  <2>5. <<result[c].id, result[c].turn>> \in MarksOf(c)
    BY <2>4 DEF MarksOf
  <2>6. f \in Message /\ (BearsID(f) => ToolCallID(f) = <<result[c].id, result[c].turn>>)
    BY <1>0, <2>2, <2>3
  <2> HIDE DEF f
  <2>7. Marks(<<r, f>>) \subseteq MarksOf(c)
    BY <2>2, <2>5, <2>6, MarksOfTwo
  <2>8. <<r, f>> \in Seq(Message)
    BY <2>2, <2>6
  <2> QED
    BY <2>4, <2>7, <2>8 DEF Asks
<1>2. ASSUME Resend(c)
      PROVE  Asks(c, <<>>)
  <2>1. Marks(<<>>) = {} /\ <<>> \in Seq(Message)
    BY DEF Marks
  <2> QED
    BY <1>2, <2>1 DEF Resend, Asks
<1>3. ASSUME MoveOn(c)
      PROVE  Asks(c, <<FollowUp>>)
  <2>1. Marks(<<FollowUp>>) = {} /\ <<FollowUp>> \in Seq(Message)
    BY <1>0 DEF Marks
  <2> QED
    BY <1>3, <2>1 DEF MoveOn, Asks
<1> QED
  BY <1>1, <1>2, <1>3 DEF Asking

\* The steps of a call, the answers and the client's next calls in one form.
Does(c) ==
  \/ \E a \in Accounts : Select(c, a)
  \/ SeedSucceeds(c)
  \/ SeedFails(c)
  \/ BuildBody(c)
  \/ \E answer : Arrives(c, answer)
  \/ Succeed(c)
  \/ Fail(c)
  \/ SetConversationID(c)
  \/ \E more : Asks(c, more)

\* Every step of a call is one of these.
LEMMA TurnDoes ==
  ASSUME Types, Phases, Own, NEW c \in Clients, Turn(c)
  PROVE  Does(c)
<1>1. Arrival(c) => Does(c)
  BY ArrivalIs DEF Does
<1>2. Asking(c) => Does(c)
  BY AskingIs DEF Does
<1> QED
  BY <1>1, <1>2 DEF Turn, Arrival, Asking, Does

\* A seeding starts a conversation of the call's account.
LEMMA NewSessionIs ==
  ASSUME Types, Phases, NEW c \in Clients, SeedSucceeds(c)
  PROVE  /\ Grown
         /\ Fresh \in 1 .. Len(sessions') /\ Fresh # NoConversation
         /\ sessions'[Fresh].acc = acc[c] /\ c \in sessions'[Fresh].users
<1>1. sessions' = Append(sessions, NewSession(c)) /\ pc[c] = "selected"
  BY DEF SeedSucceeds
<1>2. acc[c] \in Accounts /\ sessions \in Seq(Session)
  BY <1>1 DEF Types, Phases, PhaseOf
<1>3. NewSession(c) \in Session /\ NewSession(c).acc = acc[c] /\ c \in NewSession(c).users
  BY <1>2 DEF NewSession, Session
<1>4. \A i \in 1 .. Len(sessions) : sessions'[i] = sessions[i] /\ sessions[i] \in Session
  BY <1>1, <1>2, <1>3
<1>5. \A i \in 1 .. Len(sessions) : sessions[i].turns <= sessions[i].turns
  BY <1>4 DEF Session
<1>6. /\ sessions' \in Seq(Session) /\ Len(sessions') = Len(sessions) + 1
      /\ sessions'[Len(sessions) + 1] = NewSession(c)
  BY <1>1, <1>2, <1>3
<1>7. Grown
  BY <1>2, <1>4, <1>5, <1>6 DEF Grown
<1> QED
  BY <1>2, <1>3, <1>6, <1>7 DEF Fresh, NoConversation

\* A step that leaves the table alone lets it grow by nothing.
LEMMA SameGrown ==
  ASSUME Types, UNCHANGED sessions
  PROVE  Grown
<1>1. \A i \in 1 .. Len(sessions) : sessions[i] \in Session
  BY DEF Types
<1>2. \A i \in 1 .. Len(sessions) : sessions[i].turns <= sessions[i].turns
  BY <1>1 DEF Session
<1> QED
  BY <1>2 DEF Grown, Types

\* No step of a call loses a conversation, its account or its users.
LEMMA DoesGrow ==
  ASSUME Types, Phases, NEW c \in Clients, Does(c)
  PROVE  Grown
<1>1. CASE SeedSucceeds(c)
  BY <1>1, NewSessionIs
<1>2. CASE \E answer : Arrives(c, answer)
  BY <1>2 DEF Arrives
<1>3. CASE ~SeedSucceeds(c) /\ ~\E answer : Arrives(c, answer)
  <2>1. UNCHANGED sessions
    BY <1>3 DEF Does, Select, SeedFails, BuildBody, Succeed, Fail, SetConversationID, Asks, Grows
  <2> QED
    BY <2>1, SameGrown
<1> QED
  BY <1>1, <1>2, <1>3

\* A step of one call changes nothing of another's.
Untouched(d) ==
  /\ pc'[d] = pc[d] /\ acc'[d] = acc[d] /\ sent'[d] = sent[d] /\ native'[d] = native[d]
  /\ result'[d] = result[d] /\ todo'[d] = todo[d] /\ half'[d] = half[d]
  /\ history'[d] = history[d]

\* Whatever a call does, every other call is where it was.
LEMMA OthersUntouched ==
  ASSUME Types, NEW c \in Clients, Does(c), NEW d \in Clients, d # c
  PROVE  Untouched(d)
<1> USE DEF Types, Untouched
<1>1. CASE \E a \in Accounts : Select(c, a)
  BY <1>1 DEF Select, putVars
<1>2. CASE SeedSucceeds(c)
  BY <1>2 DEF SeedSucceeds
<1>3. CASE SeedFails(c)
  BY <1>3 DEF SeedFails, putVars
<1>4. CASE BuildBody(c)
  BY <1>4 DEF BuildBody, putVars
<1>5. CASE \E answer : Arrives(c, answer)
  BY <1>5 DEF Arrives, Answered, putVars
<1>6. CASE Succeed(c)
  BY <1>6 DEF Succeed, StoreNext, callVars
<1>7. CASE Fail(c)
  BY <1>7 DEF Fail, StoreNext, callVars
<1>8. CASE SetConversationID(c)
  BY <1>8 DEF SetConversationID, Stored, callVars
<1>9. CASE \E more : Asks(c, more)
  BY <1>9 DEF Asks, Grows, putVars
<1> QED
  BY <1>1, <1>2, <1>3, <1>4, <1>5, <1>6, <1>7, <1>8, <1>9 DEF Does

-----------------------------------------------------------------------------
(***************************************************************************)
(* Types.                                                                  *)
(***************************************************************************)

\* Fingerprints to record are lists of messages, and come with a conversation.
LEMMA ToRememberIs ==
  ASSUME Types, NEW c \in Clients
  PROVE  /\ ToRemember(c) \in Seq(Seq(Message))
         /\ ToRemember(c) # <<>> => result[c].id # NoConversation
<1> DEFINE r == Reply(result[c], TRUE)
<1>1. r \in Message /\ history[c] \in Seq(Message)
  BY ReplyIs DEF Types
<1> HIDE DEF r
<1>2. Append(history[c], r) \in Seq(Message)
  BY <1>1
<1>3. ToRemember(c) \in {<<>>, <<history[c]>>, <<history[c], Append(history[c], r)>>}
  BY DEF ToRemember, r
<1>4. ToRemember(c) # <<>> => Remembered(c)
  BY DEF ToRemember
<1>5. <<history[c]>> \in Seq(Seq(Message)) /\ <<>> \in Seq(Seq(Message))
  BY <1>1
<1>6. <<history[c], Append(history[c], r)>> \in Seq(Seq(Message))
  BY <1>1, <1>2
<1>7. ToRemember(c) \in Seq(Seq(Message))
  BY <1>3, <1>5, <1>6
<1> QED
  BY <1>4, <1>7 DEF Remembered

\* A lookup finds a conversation of the table, or none.
LEMMA LookupIsNat ==
  ASSUME Types, NEW a, NEW messages
  PROVE  LookupConversation(a, messages) \in 0 .. Len(sessions)
<1>1. Len(sessions) \in Nat /\ \A k \in DOMAIN conv : conv[k] \in 1 .. Len(sessions)
  BY DEF Types
<1>2. \/ LookupConversation(a, messages) = 0
      \/ \E k \in DOMAIN conv : LookupConversation(a, messages) = conv[k]
  BY LookupKnown DEF NoConversation
<1> QED
  BY <1>1, <1>2

\* What setConversationID writes has the types of what it looks up.
LEMMA SetConversationIDTypes ==
  ASSUME Types, Phases, NEW c \in Clients, SetConversationID(c)
  PROVE  Types'
<1>1. pc[c] = "storing" /\ todo[c] # <<>> /\ acc[c] \in Accounts
  BY DEF SetConversationID, Phases, PhaseOf
<1>2. Head(todo[c]) \in Seq(Message) /\ Tail(todo[c]) \in Seq(Seq(Message))
  BY <1>1 DEF Types
<1>3. result[c].id \in 1 .. Len(sessions)
  BY <1>1 DEF Types, Phases, PhaseOf, Result, NoConversation
<1>4. UNCHANGED <<sessions, toolGroups, usable, history, acc, seeded, sent, native, result>>
  BY DEF SetConversationID, callVars
<1>5. half' \in [Clients -> BOOLEAN]
  BY DEF SetConversationID, Types
<1>6. todo' \in [Clients -> Seq(Seq(Message))]
  <2>1. todo \in [Clients -> Seq(Seq(Message))]
    BY DEF Types
  <2>2. todo' \in {todo, [todo EXCEPT ![c] = Tail(todo[c])]}
    BY DEF SetConversationID, Stored
  <2> QED
    BY <1>2, <2>1, <2>2
<1>7. pc' \in [Clients -> Phase]
  <2>1. pc \in [Clients -> Phase]
    BY DEF Types
  <2>2. pc' \in {pc, [pc EXCEPT ![c] = pc[c]], [pc EXCEPT ![c] = "selected"], [pc EXCEPT ![c] = "ended"]}
    BY DEF SetConversationID, Stored
  <2> QED
    BY <2>1, <2>2 DEF Phase
<1>8. /\ DOMAIN conv' \subseteq Accounts \X Seq(Message)
      /\ \A k \in DOMAIN conv' : conv'[k] \in 1 .. Len(sessions)
  <2>1. CASE UNCHANGED conv
    BY <2>1 DEF Types
  <2>2. CASE WriteConversation(c)
    BY <1>1, <1>2, <1>3, <2>2 DEF WriteConversation, Put, Types
  <2> QED
    BY <2>1, <2>2 DEF SetConversationID, WriteOwner
<1>9. \A fp \in DOMAIN owner' : fp \in Seq(Message) /\ owner'[fp] \in Accounts
  <2>1. CASE UNCHANGED owner
    BY <2>1 DEF Types
  <2>2. CASE WriteOwner(c)
    BY <1>1, <1>2, <2>2 DEF WriteOwner, Put, Types
  <2> QED
    BY <2>1, <2>2 DEF SetConversationID, WriteConversation
<1> QED
  BY <1>4, <1>5, <1>6, <1>7, <1>8, <1>9 DEF Types

\* The tool groups keep their type when a reply is taken over.
LEMMA SucceedTypes ==
  ASSUME Types, Phases, NEW c \in Clients, Succeed(c)
  PROVE  Types'
<1>1. ToRemember(c) \in Seq(Seq(Message))
  BY ToRememberIs
<1>2. pc' \in [Clients -> Phase] /\ todo' \in [Clients -> Seq(Seq(Message))]
  BY <1>1 DEF Succeed, StoreNext, Types, Phase
<1>3. UNCHANGED <<sessions, conv, owner, usable, history, acc, seeded, sent, native, result, half>>
  BY DEF Succeed, callVars
<1>4. \A k \in DOMAIN toolGroups' : k[1] \in Accounts /\ toolGroups'[k] \in {"group", "-"}
  <2>1. acc[c] \in Accounts
    BY DEF Succeed, Phases, PhaseOf
  <2> DEFINE key == <<acc[c], <<result[c].id, result[c].turn>>>>
  <2>2. toolGroups' \in {toolGroups, Put(toolGroups, key, "group"), Put(toolGroups, key, "-")}
    BY DEF Succeed, RememberToolGroups
  <2> QED
    BY <2>1, <2>2 DEF Put, Types
<1> QED
  BY <1>2, <1>3, <1>4 DEF Types

\* An invalidation only takes keys away.
LEMMA FailTypes ==
  ASSUME Types, Phases, NEW c \in Clients, Fail(c)
  PROVE  Types'
<1>1. ToRemember(c) \in Seq(Seq(Message))
  BY ToRememberIs
<1>2. pc' \in [Clients -> Phase] /\ todo' \in [Clients -> Seq(Seq(Message))]
  BY <1>1 DEF Fail, StoreNext, Types, Phase
<1>3. UNCHANGED <<sessions, owner, usable, history, acc, seeded, sent, native, result, half>>
  BY DEF Fail, callVars
<1>4. CASE UNCHANGED <<conv, toolGroups>>
  BY <1>2, <1>3, <1>4 DEF Types
<1>5. CASE Invalidate(c) /\ ~UNCHANGED <<conv, toolGroups>>
  <2>1. /\ \E S \in SUBSET DOMAIN conv : conv' = Restrict(conv, S)
        /\ \E S \in SUBSET DOMAIN toolGroups : toolGroups' = Restrict(toolGroups, S)
    BY <1>5 DEF Invalidate
  <2> QED
    BY <1>2, <1>3, <2>1 DEF Types, Restrict
<1> QED
  BY <1>4, <1>5 DEF Fail

\* Every step of a call keeps the types.
LEMMA DoesTypes ==
  ASSUME Types, Phases, NEW c \in Clients, Does(c)
  PROVE  Types'
<1> USE DEF NoConversation, Phase
<1>1. ASSUME NEW a \in Accounts, Select(c, a)
      PROVE  Types'
  BY <1>1 DEF Types, Select, store, putVars
<1>2. CASE SeedSucceeds(c)
  <2>1. sessions' \in Seq(Session) /\ Len(sessions) <= Len(sessions') /\ Fresh \in Nat
    BY <1>2, NewSessionIs DEF Grown
  <2>2. UNCHANGED <<conv, owner, toolGroups, usable, history, acc, sent, native, half>>
    BY <1>2 DEF SeedSucceeds, store
  <2>3. result' \in [Clients -> Result] /\ seeded' \in [Clients -> BOOLEAN]
    BY <1>2, <2>1 DEF SeedSucceeds, Types, Result, NoResult, Call
  <2>4. Front(history[c]) \in Seq(Message)
    BY FrontIs DEF Types
  <2>5. pc' \in [Clients -> Phase] /\ todo' \in [Clients -> Seq(Seq(Message))]
    <3>1. <<Front(history[c])>> \in Seq(Seq(Message))
      BY <2>4
    <3>2. CASE UNCHANGED <<pc, todo>>
      BY <3>2 DEF Types
    <3>3. CASE /\ todo' = [todo EXCEPT ![c] = <<Front(history[c])>>]
               /\ pc' = [pc EXCEPT ![c] = "storing"]
      BY <3>1, <3>3 DEF Types
    <3> QED
      BY <1>2, <3>2, <3>3 DEF SeedSucceeds
  <2>6. \A k \in DOMAIN conv : conv[k] \in 1 .. Len(sessions')
    BY <2>1 DEF Types
  <2> QED
    BY <2>1, <2>2, <2>3, <2>5, <2>6 DEF Types
<1>3. CASE SeedFails(c)
  <2>1. UNCHANGED <<sessions, conv, owner, toolGroups, usable, history, acc, sent, native, half, todo>>
    BY <1>3 DEF SeedFails, store, putVars
  <2>2. seeded' \in [Clients -> BOOLEAN] /\ pc' \in [Clients -> Phase]
    BY <1>3 DEF SeedFails, Types
  <2>3. [NoResult EXCEPT !.kind = "failed"] \in Result
    BY DEF Result, NoResult, Call
  <2>4. result' \in [Clients -> Result]
    BY <1>3, <2>3 DEF SeedFails, Types
  <2> QED
    BY <2>1, <2>2, <2>4 DEF Types
<1>4. CASE BuildBody(c)
  <2>1. LookupConversation(acc[c], history[c]) \in Nat
    BY LookupIsNat DEF Types
  <2>2. sent' \in [Clients -> Nat] /\ native' \in [Clients -> BOOLEAN] /\ pc' \in [Clients -> Phase]
    BY <1>4, <2>1 DEF BuildBody, Types
  <2>3. UNCHANGED <<sessions, conv, owner, toolGroups, usable, history, acc, seeded, result, half, todo>>
    BY <1>4 DEF BuildBody, store, putVars
  <2> QED
    BY <2>2, <2>3 DEF Types
<1>5. ASSUME NEW answer, Arrives(c, answer)
      PROVE  Types'
  <2>1. sessions' \in Seq(Session) /\ Len(sessions) <= Len(sessions')
    BY <1>5 DEF Arrives, Grown
  <2>2. UNCHANGED <<conv, owner, toolGroups, usable, history, acc, sent, half, todo>>
    BY <1>5 DEF Arrives, Answered, store, putVars
  <2>3. answer \in Result
    BY <1>5 DEF Arrives
  <2>4. /\ result' \in [Clients -> Result] /\ seeded' \in [Clients -> BOOLEAN]
        /\ native' \in [Clients -> BOOLEAN] /\ pc' \in [Clients -> Phase]
    BY <1>5, <2>3 DEF Arrives, Answered, Types
  <2>5. \A k \in DOMAIN conv : conv[k] \in 1 .. Len(sessions')
    BY <2>1 DEF Types
  <2> QED
    BY <2>1, <2>2, <2>4, <2>5 DEF Types
<1>6. ASSUME NEW more, Asks(c, more)
      PROVE  Types'
  <2>1. UNCHANGED <<sessions, conv, owner, toolGroups, usable, half, todo>>
    BY <1>6 DEF Asks, Grows, store, putVars
  <2>2. history[c] \o more \in Seq(Message) \ {<<>>}
    BY <1>6 DEF Asks, Types
  <2>3. history' \in [Clients -> Seq(Message) \ {<<>>}]
    BY <1>6, <2>2 DEF Asks, Grows, Types
  <2>4. NoResult \in Result
    BY DEF NoResult, Result, Call
  <2>5. /\ result' \in [Clients -> Result] /\ seeded' \in [Clients -> BOOLEAN]
        /\ native' \in [Clients -> BOOLEAN] /\ pc' \in [Clients -> Phase]
        /\ sent' \in [Clients -> Nat] /\ acc' \in [Clients -> Accounts \cup {NoAccount}]
    BY <1>6, <2>4 DEF Asks, Grows, Types
  <2> QED
    BY <2>1, <2>3, <2>5 DEF Types
<1> QED
  BY <1>1, <1>2, <1>3, <1>4, <1>5, <1>6, SucceedTypes, FailTypes, SetConversationIDTypes DEF Does

\* A restart and an account that drops out keep the types.
LEMMA AroundTypes ==
  ASSUME Types, Restart \/ \E a \in Accounts : DropOut(a)
  PROVE  Types'
<1>1. CASE Restart
  <2>1. /\ UNCHANGED <<sessions, usable, history, acc, seeded, sent, native>>
        /\ conv' = <<>> /\ owner' = <<>> /\ toolGroups' = <<>>
    BY <1>1 DEF Restart
  <2>2. pc' \in [Clients -> Phase] /\ half' \in [Clients -> BOOLEAN]
    BY <1>1 DEF Restart, Types, Phase
  <2>3. todo' \in [Clients -> Seq(Seq(Message))]
    BY <1>1 DEF Restart
  <2>4. result' \in [Clients -> Result]
    BY <1>1 DEF Restart, Types, Result, NoResult, NoConversation, Call
  <2>5. DOMAIN conv' = {} /\ DOMAIN owner' = {} /\ DOMAIN toolGroups' = {}
    BY <2>1
  <2> QED
    BY <2>1, <2>2, <2>3, <2>4, <2>5 DEF Types
<1>2. ASSUME NEW a \in Accounts, DropOut(a)
      PROVE  Types'
  BY <1>2 DEF DropOut, Types, store, callVars, putVars
<1> QED
  BY <1>1, <1>2

-----------------------------------------------------------------------------
(***************************************************************************)
(* Phases, and whose conversation is whose.                                *)
(***************************************************************************)

\* The rest of a list that is not empty.
LEMMA TailIs ==
  ASSUME NEW S, NEW s \in Seq(S), s # <<>>
  PROVE  /\ Tail(s) = <<>> <=> ~(Len(s) > 1)
         /\ \A i \in 1 .. Len(Tail(s)) : i + 1 \in 1 .. Len(s) /\ Tail(s)[i] = s[i + 1]
<1>1. /\ Tail(s) \in Seq(S) /\ Len(Tail(s)) = Len(s) - 1
      /\ \A i \in 1 .. Len(Tail(s)) : Tail(s)[i] = s[i + 1]
  OBVIOUS
<1>2. Tail(s) = <<>> <=> Len(Tail(s)) = 0
  <2>1. \A q \in Seq(S) : q = <<>> <=> Len(q) = 0
    OBVIOUS
  <2> QED
    BY <1>1, <2>1, Zenon
<1>3. Len(s) \in Nat /\ Len(s) # 0
  OBVIOUS
<1>4. Tail(s) = <<>> <=> ~(Len(s) > 1)
  BY <1>1, <1>2, <1>3
<1>5. \A i \in 1 .. Len(Tail(s)) : i + 1 \in 1 .. Len(s)
  BY <1>1, <1>3
<1> QED
  BY <1>1, <1>4, <1>5

\* What a step says of the call it belongs to.
LEMMA CallPhases ==
  ASSUME Types, Phases, ConvOwn, Own, NEW c \in Clients, Does(c)
  PROVE  (PhaseOf(c) /\ OwnOf(c))'
<1> USE DEF NoConversation
<1>1. PhaseOf(c) /\ OwnOf(c) /\ Types'
  BY DoesTypes DEF Phases, Own
<1>2. Len(sessions) \in Nat /\ Len(sessions') \in Nat /\ Len(sessions) <= Len(sessions')
  <2>1. Grown
    BY DoesGrow
  <2> QED
    BY <2>1 DEF Types, Grown
<1>3. result[c].id \in Nat /\ sent[c] \in Nat
  BY DEF Types, Result
<1>4. ASSUME NEW a \in Accounts, Select(c, a)
      PROVE  (PhaseOf(c) /\ OwnOf(c))'
  <2>1. pc[c] = "ready" /\ pc'[c] = "selected" /\ acc'[c] = a
    BY <1>4 DEF Select, Types
  <2>2. UNCHANGED <<sessions, result, sent, native, todo, half>>
    BY <1>4 DEF Select, putVars
  <2> QED
    BY <1>1, <2>1, <2>2 DEF PhaseOf, OwnOf
<1>5. CASE SeedSucceeds(c)
  <2>1. pc[c] = "selected" /\ result'[c].id = Fresh /\ UNCHANGED <<acc, sent, native, half>>
    BY <1>5 DEF SeedSucceeds, Types, NoResult
  <2>2. \/ pc'[c] = "selected" /\ todo'[c] = todo[c]
        \/ pc'[c] = "storing" /\ todo'[c] = <<Front(history[c])>>
    BY <1>5, <2>1 DEF SeedSucceeds, Types
  <2>3. /\ Fresh \in 1 .. Len(sessions')
        /\ sessions'[Fresh].acc = acc[c] /\ c \in sessions'[Fresh].users
    BY <1>5, NewSessionIs
  <2>4. <<Front(history[c])>> # <<>>
    OBVIOUS
  <2>5. /\ pc[c] = "selected" /\ pc'[c] \in {"selected", "storing"}
        /\ pc'[c] = "storing" <=> todo'[c] # <<>>
    BY <1>1, <2>1, <2>2, <2>4 DEF PhaseOf
  <2>6. Fresh # 0 /\ Fresh <= Len(sessions') /\ sent[c] <= Len(sessions') /\ ~half[c]
    BY <1>1, <1>2, <1>3, <2>1, <2>3 DEF PhaseOf
  <2>7. PhaseOf(c)'
    BY <1>1, <2>1, <2>5, <2>6 DEF PhaseOf
  <2>8. OwnOf(c)'
    BY <2>1, <2>3, <2>5 DEF OwnOf
  <2> QED
    BY <2>7, <2>8
<1>6. CASE SeedFails(c)
  <2>1. /\ pc[c] = "selected" /\ pc'[c] \in {"selected", "ended"}
        /\ result'[c] = result[c] \/ result'[c].id = 0
        /\ UNCHANGED <<sessions, acc, sent, native, half, todo>>
    BY <1>6 DEF SeedFails, Types, NoResult, putVars
  <2> QED
    BY <1>1, <1>2, <2>1 DEF PhaseOf, OwnOf
<1>7. CASE BuildBody(c)
  <2> DEFINE known == LookupConversation(acc[c], history[c])
  <2>1. /\ pc[c] = "selected" /\ pc'[c] = "calling"
        /\ sent'[c] \in {0, known} /\ (native'[c] => sent'[c] # 0)
        /\ UNCHANGED <<sessions, conv, acc, result, half, todo>>
    BY <1>7 DEF BuildBody, Types, putVars, store
  <2>2. known \in 0 .. Len(sessions)
    BY LookupIsNat
  <2>3. known # 0 => sessions[known].acc = acc[c]
    <3>1. known = 0 \/ \E fp : <<acc[c], fp>> \in DOMAIN conv /\ known = conv[<<acc[c], fp>>]
      BY LookupKnown
    <3> QED
      BY <3>1 DEF ConvOwn
  <2> HIDE DEF known
  <2> QED
    BY <1>1, <1>2, <2>1, <2>2, <2>3 DEF PhaseOf, OwnOf
<1>8. ASSUME NEW answer, Arrives(c, answer)
      PROVE  (PhaseOf(c) /\ OwnOf(c))'
  <2>1. /\ pc[c] = "calling" /\ pc'[c] = "answered" /\ result'[c].id = answer.id
        /\ UNCHANGED <<acc, sent, half, todo>>
    BY <1>8 DEF Arrives, Answered, Types, putVars
  <2>2. answer.id # 0 => /\ answer.id \in 1 .. Len(sessions') /\ sessions'[answer.id].acc = acc[c]
                         /\ c \in sessions'[answer.id].users
    BY <1>8 DEF Arrives
  <2> QED
    BY <1>1, <1>2, <1>3, <2>1, <2>2 DEF PhaseOf, OwnOf
<1>9. CASE Succeed(c) \/ Fail(c)
  <2>1. /\ pc[c] = "answered" /\ todo'[c] = ToRemember(c)
        /\ pc'[c] = IF ToRemember(c) = <<>> THEN "ended" ELSE "storing"
        /\ UNCHANGED <<sessions, acc, sent, native, result, half>>
    BY <1>9 DEF Succeed, Fail, StoreNext, callVars, Types
  <2>2. ToRemember(c) # <<>> => result[c].id # NoConversation
    BY ToRememberIs
  <2> QED
    BY <1>1, <2>1, <2>2 DEF PhaseOf, OwnOf
<1>10. CASE SetConversationID(c)
  <2>1. pc[c] = "storing" /\ UNCHANGED <<sessions, acc, sent, native, result>>
    BY <1>10 DEF SetConversationID, callVars
  <2>2. CASE ~half[c]
    <3>1. half'[c] = TRUE /\ pc' = pc /\ todo' = todo
      BY <1>10, <2>2 DEF SetConversationID, Types
    <3> QED
      BY <1>1, <2>1, <3>1 DEF PhaseOf, OwnOf
  <2>3. CASE half[c]
    <3>1. half'[c] = FALSE /\ Stored(c)
      BY <1>10, <2>3 DEF SetConversationID, Types
    <3>2. /\ todo'[c] = Tail(todo[c])
          /\ pc'[c] = IF Len(todo[c]) > 1 THEN pc[c]
                      ELSE IF result[c].kind = "none" THEN "selected" ELSE "ended"
      BY <3>1 DEF Stored, Types
    <3>3. todo[c] \in Seq(Seq(Message)) /\ todo[c] # <<>>
      BY <1>1, <2>1 DEF PhaseOf, Types
    <3>4. Tail(todo[c]) = <<>> <=> ~(Len(todo[c]) > 1)
      BY <3>3, TailIs
    <3> QED
      BY <1>1, <2>1, <3>1, <3>2, <3>4 DEF PhaseOf, OwnOf
  <2> QED
    BY <2>2, <2>3
<1>11. ASSUME NEW more, Asks(c, more)
       PROVE  (PhaseOf(c) /\ OwnOf(c))'
  <2>1. /\ pc[c] = "ended" /\ pc'[c] = "ready" /\ result'[c].id = 0 /\ sent'[c] = 0
        /\ UNCHANGED <<sessions, half, todo>>
    BY <1>11 DEF Asks, Grows, Types, NoResult, putVars
  <2> QED
    BY <1>1, <1>2, <2>1 DEF PhaseOf, OwnOf
<1> QED
  BY <1>4, <1>5, <1>6, <1>7, <1>8, <1>9, <1>10, <1>11 DEF Does

\* A call that a step does not touch keeps its phase and its conversations.
LEMMA OtherPhases ==
  ASSUME Types, Grown, NEW d \in Clients, PhaseOf(d), OwnOf(d), Untouched(d)
  PROVE  (PhaseOf(d) /\ OwnOf(d))'
<1>1. Len(sessions) \in Nat /\ Len(sessions') \in Nat /\ Len(sessions) <= Len(sessions')
  BY DEF Types, Grown
<1>2. result[d].id \in Nat /\ sent[d] \in Nat
  BY DEF Types, Result
<1>3. PhaseOf(d)'
  BY <1>1, <1>2 DEF PhaseOf, Untouched
<1>4. \A i \in 1 .. Len(sessions) :
        sessions'[i].acc = sessions[i].acc /\ sessions[i].users \subseteq sessions'[i].users
  BY DEF Grown
<1>5. /\ result[d].id # NoConversation => result[d].id \in 1 .. Len(sessions)
      /\ sent[d] # NoConversation => sent[d] \in 1 .. Len(sessions)
  BY <1>1, <1>2 DEF PhaseOf, NoConversation
<1> QED
  BY <1>3, <1>4, <1>5 DEF OwnOf, Untouched

\* Every step of a call keeps every call's phase and conversations in order.
LEMMA DoesPhases ==
  ASSUME Types, Phases, ConvOwn, Own, NEW c \in Clients, Does(c)
  PROVE  (Phases /\ Own)'
<1>1. ASSUME NEW d \in Clients, d # c
      PROVE  (PhaseOf(d) /\ OwnOf(d))'
  BY <1>1, DoesGrow, OthersUntouched, OtherPhases DEF Phases, Own
<1> QED
  BY <1>1, CallPhases DEF Phases, Own

\* So do a restart and an account that drops out.
LEMMA AroundPhases ==
  ASSUME Types, Phases, Own, Restart \/ \E a \in Accounts : DropOut(a)
  PROVE  (Phases /\ Own)'
<1>1. CASE Restart
  <2> SUFFICES ASSUME NEW d \in Clients
               PROVE  (PhaseOf(d) /\ OwnOf(d))'
    BY DEF Phases, Own
  <2>1. /\ PhaseOf(d) /\ OwnOf(d)
        /\ UNCHANGED <<sessions, acc, sent, native>>
        /\ pc'[d] = IF pc[d] = "ready" THEN "ready" ELSE "ended"
        /\ result'[d] = result[d] \/ (pc[d] # "ready" /\ result'[d].id = NoConversation)
        /\ todo'[d] = <<>> /\ half'[d] = FALSE
    BY <1>1 DEF Restart, Phases, Own, NoResult
  <2>2. Len(sessions) \in Nat
    BY DEF Types
  <2> QED
    BY <2>1, <2>2 DEF PhaseOf, OwnOf, NoConversation
<1>2. ASSUME NEW a \in Accounts, DropOut(a)
      PROVE  (Phases /\ Own)'
  BY <1>2 DEF DropOut, store, callVars, putVars, Phases, PhaseOf, Own, OwnOf
<1> QED
  BY <1>1, <1>2

-----------------------------------------------------------------------------
(***************************************************************************)
(* The store: what is written, and what an owner leads to.                 *)
(***************************************************************************)

\* Each key a step leaves in conv was there, or is the one the call writes.
Written(c, k) ==
  /\ SetConversationID(c) /\ ~half[c]
  /\ k = <<acc[c], Head(todo[c])>> /\ conv'[k] = result[c].id

\* What one step may do to the store: no key of conv is lost without a trace in
\* forgotten, and conv and owner gain no more than the call's own write.
LEMMA StoreStep ==
  ASSUME NEW c \in Clients, Does(c)
  PROVE  /\ \A k \in DOMAIN conv' :
              (k \in DOMAIN conv /\ conv'[k] = conv[k]) \/ Written(c, k)
         /\ (DOMAIN conv \cup forgotten) \subseteq (DOMAIN conv' \cup forgotten')
         /\ \A fp \in DOMAIN owner' :
              \/ fp \in DOMAIN owner /\ owner'[fp] = owner[fp]
              \/ SetConversationID(c) /\ half[c] /\ fp = Head(todo[c]) /\ owner'[fp] = acc[c]
<1>1. CASE UNCHANGED <<conv, owner, forgotten>>
  BY <1>1
<1>2. CASE Fail(c) /\ Invalidate(c) /\ ~UNCHANGED <<conv, forgotten>>
  <2>1. UNCHANGED owner
    BY <1>2 DEF Fail
  <2>2. PICK keys \in SUBSET DOMAIN conv :
          conv' = Restrict(conv, DOMAIN conv \ keys) /\ forgotten' = forgotten \cup keys
    BY <1>2 DEF Invalidate
  <2> QED
    BY <2>1, <2>2 DEF Restrict
<1>3. CASE SetConversationID(c) /\ ~half[c]
  <2>1. UNCHANGED owner /\ WriteConversation(c)
    BY <1>3 DEF SetConversationID, WriteConversation
  <2> QED
    BY <1>3, <2>1 DEF WriteConversation, Put, Written
<1>4. CASE SetConversationID(c) /\ half[c]
  <2>1. UNCHANGED <<conv, forgotten>> /\ WriteOwner(c)
    BY <1>4 DEF SetConversationID, WriteOwner
  <2> QED
    BY <1>4, <2>1 DEF WriteOwner, Put
<1>5. \/ UNCHANGED <<conv, owner, forgotten>>
      \/ Fail(c) /\ Invalidate(c) /\ ~UNCHANGED <<conv, forgotten>>
      \/ SetConversationID(c)
  <2>1. ASSUME NEW a \in Accounts, Select(c, a)
        PROVE  UNCHANGED <<conv, owner, forgotten>>
    BY <2>1 DEF Select, store
  <2>2. SeedSucceeds(c) \/ SeedFails(c) \/ BuildBody(c) => UNCHANGED <<conv, owner, forgotten>>
    BY DEF SeedSucceeds, SeedFails, BuildBody, store
  <2>3. ASSUME NEW answer, Arrives(c, answer)
        PROVE  UNCHANGED <<conv, owner, forgotten>>
    BY <2>3 DEF Arrives, Answered, store
  <2>4. Succeed(c) => UNCHANGED <<conv, owner, forgotten>>
    BY DEF Succeed
  <2>5. ASSUME NEW more, Asks(c, more)
        PROVE  UNCHANGED <<conv, owner, forgotten>>
    BY <2>5 DEF Asks, Grows, store
  <2>6. Fail(c) => UNCHANGED <<conv, owner, forgotten>> \/ Invalidate(c)
    BY DEF Fail
  <2> QED
    BY <2>1, <2>2, <2>3, <2>4, <2>5, <2>6 DEF Does, Fail
<1> QED
  BY <1>1, <1>2, <1>3, <1>4, <1>5

\* What a call writes into conv is its account's.
LEMMA DoesConvOwn ==
  ASSUME Types, Phases, Own, ConvOwn, NEW c \in Clients, Does(c)
  PROVE  ConvOwn'
<1> SUFFICES ASSUME NEW k \in DOMAIN conv'
             PROVE  sessions'[conv'[k]].acc = k[1]
  BY DEF ConvOwn
<1>1. \A i \in 1 .. Len(sessions) : sessions'[i].acc = sessions[i].acc
  BY DoesGrow DEF Grown
<1>2. CASE k \in DOMAIN conv /\ conv'[k] = conv[k]
  BY <1>1, <1>2 DEF ConvOwn, Types
<1>3. CASE Written(c, k)
  <2>1. /\ pc[c] = "storing" /\ UNCHANGED sessions
        /\ k[1] = acc[c] /\ conv'[k] = result[c].id
    BY <1>3 DEF Written, SetConversationID
  <2>2. result[c].id # NoConversation
    BY <2>1 DEF Phases, PhaseOf
  <2> QED
    BY <2>1, <2>2 DEF Own, OwnOf
<1> QED
  BY <1>2, <1>3, StoreStep

\* No step takes the conversation of a half-done write away unseen.
LEMMA DoesHalfDone ==
  ASSUME Types, Phases, HalfDone, NEW c \in Clients, Does(c)
  PROVE  HalfDone'
<1> SUFFICES ASSUME NEW d \in Clients, half'[d]
             PROVE  <<acc'[d], Head(todo'[d])>> \in DOMAIN conv' \cup forgotten'
  BY DEF HalfDone
<1>1. (DOMAIN conv \cup forgotten) \subseteq (DOMAIN conv' \cup forgotten')
  BY StoreStep
<1>2. CASE d # c
  <2>1. Untouched(d)
    BY <1>2, OthersUntouched
  <2> QED
    BY <1>1, <2>1 DEF Untouched, HalfDone
<1>3. CASE d = c /\ SetConversationID(c)
  <2>1. ~half[c]
    BY <1>3 DEF SetConversationID, Types
  <2>2. WriteConversation(c) /\ UNCHANGED <<acc, todo>>
    BY <1>3, <2>1 DEF SetConversationID, callVars
  <2> QED
    BY <1>3, <2>2 DEF WriteConversation, Put
<1>4. CASE d = c /\ ~SetConversationID(c)
  <2>1. half'[c] = half[c] /\ pc[c] # "storing"
    BY <1>4 DEF Does, Select, SeedSucceeds, SeedFails, BuildBody, Arrives, Answered, Succeed, Fail,
                Asks, Grows, putVars
  <2> QED
    BY <1>4, <2>1 DEF Phases, PhaseOf
<1> QED
  BY <1>2, <1>3, <1>4

\* An owner is written when its conversation is there.
LEMMA DoesOwner ==
  ASSUME HalfDone, OwnerHasConversation, NEW c \in Clients, Does(c)
  PROVE  OwnerHasConversation'
<1> SUFFICES ASSUME NEW fp \in DOMAIN owner'
             PROVE  <<owner'[fp], fp>> \in DOMAIN conv' \cup forgotten'
  BY DEF OwnerHasConversation
<1>1. (DOMAIN conv \cup forgotten) \subseteq (DOMAIN conv' \cup forgotten')
  BY StoreStep
<1>2. CASE fp \in DOMAIN owner /\ owner'[fp] = owner[fp]
  BY <1>1, <1>2 DEF OwnerHasConversation
<1>3. CASE half[c] /\ fp = Head(todo[c]) /\ owner'[fp] = acc[c]
  BY <1>1, <1>3 DEF HalfDone
<1> QED
  BY <1>2, <1>3, StoreStep

\* A restart forgets the owners with the conversations.
LEMMA AroundStore ==
  ASSUME Types, ConvOwn, HalfDone, OwnerHasConversation,
         Restart \/ \E a \in Accounts : DropOut(a)
  PROVE  (ConvOwn /\ HalfDone /\ OwnerHasConversation)'
<1>1. CASE Restart
  <2>1. conv' = <<>> /\ owner' = <<>> /\ \A c \in Clients : half'[c] = FALSE
    BY <1>1 DEF Restart
  <2>2. DOMAIN conv' = {} /\ DOMAIN owner' = {}
    BY <2>1
  <2> QED
    BY <2>1, <2>2 DEF ConvOwn, HalfDone, OwnerHasConversation
<1>2. CASE \E a \in Accounts : DropOut(a)
  BY <1>2 DEF DropOut, store, callVars, putVars, ConvOwn, HalfDone, OwnerHasConversation
<1> QED
  BY <1>1, <1>2

-----------------------------------------------------------------------------
(***************************************************************************)
(* Marks: what tells one client's history from another's.                  *)
(***************************************************************************)

\* A prefix bears no more marks, and a longer list those of its parts.
LEMMA MarksOfParts ==
  ASSUME NEW s \in Seq(Message), NEW r \in Seq(Message)
  PROVE  /\ (\A i \in 1 .. Len(r) : i \in 1 .. Len(s) /\ r[i] = s[i]) => Marks(r) \subseteq Marks(s)
         /\ Marks(s \o r) \subseteq Marks(s) \cup Marks(r)
<1>1. (\A i \in 1 .. Len(r) : i \in 1 .. Len(s) /\ r[i] = s[i]) => Marks(r) \subseteq Marks(s)
  BY DEF Marks
<1>2. ASSUME NEW t \in Marks(s \o r)
      PROVE  t \in Marks(s) \cup Marks(r)
  <2>1. PICK i \in 1 .. Len(s \o r) : BearsID((s \o r)[i]) /\ t = ToolCallID((s \o r)[i])
    BY DEF Marks
  <2>2. CASE i <= Len(s)
    <3>1. i \in 1 .. Len(s) /\ (s \o r)[i] = s[i]
      BY <2>2
    <3> QED
      BY <2>1, <3>1 DEF Marks
  <2>3. CASE i > Len(s)
    <3>1. i - Len(s) \in 1 .. Len(r) /\ (s \o r)[i] = r[i - Len(s)]
      BY <2>3
    <3> QED
      BY <2>1, <3>1 DEF Marks
  <2> QED
    BY <2>2, <2>3
<1> QED
  BY <1>1, <1>2

\* What is recorded of a call bears no marks but its own.
LEMMA ToRememberMarks ==
  ASSUME Types, NEW c \in Clients, NEW i \in 1 .. Len(ToRemember(c))
  PROVE  Marks(ToRemember(c)[i]) \subseteq MarksOf(c)
<1> DEFINE r == Reply(result[c], TRUE)
<1>1. /\ r \in Message /\ history[c] \in Seq(Message)
      /\ BearsID(r) => ToolCallID(r) = <<result[c].id, result[c].turn>>
  BY ReplyIs DEF Types
<1>2. \/ ToRemember(c) = <<>> \/ ToRemember(c) = <<history[c]>>
      \/ HasFollowup(c) /\ ToRemember(c) = <<history[c], Append(history[c], r)>>
  BY DEF ToRemember
<1> HIDE DEF r
<1> DEFINE h == history[c]
           hr == Append(h, r)
<1> HIDE DEF h, hr
<1>3. ToRemember(c)[i] = h \/ (HasFollowup(c) /\ ToRemember(c)[i] = hr)
  <2>1. CASE ToRemember(c) = <<>>
    BY <2>1
  <2>2. CASE ToRemember(c) = <<h>>
    <3>1. i \in 1 .. Len(<<h>>)
      BY <2>2
    <3>2. i = 1
      BY <3>1
    <3> QED
      BY <2>2, <3>2
  <2>3. CASE HasFollowup(c) /\ ToRemember(c) = <<h, hr>>
    <3>1. i \in 1 .. Len(<<h, hr>>)
      BY <2>3
    <3>2. i = 1 \/ i = 2
      BY <3>1
    <3> QED
      BY <2>3, <3>2
  <2> QED
    BY <1>2, <2>1, <2>2, <2>3 DEF h, hr
<1>4. Marks(Append(history[c], r)) \subseteq
        Marks(history[c]) \cup (IF BearsID(r) THEN {ToolCallID(r)} ELSE {})
  <2>1. \A t \in 1 .. Len(history[c]) + 1 :
          \/ Append(history[c], r)[t] = r
          \/ t \in 1 .. Len(history[c]) /\ Append(history[c], r)[t] = history[c][t]
    BY <1>1
  <2>2. Len(Append(history[c], r)) = Len(history[c]) + 1
    BY <1>1
  <2> QED
    BY <2>1, <2>2 DEF Marks
<1>5. HasFollowup(c) /\ BearsID(r) => ToolCallID(r) \in MarksOf(c)
  BY <1>1 DEF HasFollowup, MarksOf
<1> QED
  BY <1>3, <1>4, <1>5 DEF MarksOf, h, hr

\* A step leaves its client the marks it has, or adds one no reply had before.
NewMark(c, t) == MarksOf(c)' \subseteq MarksOf(c) \cup {t} /\ ~Minted(t) /\ Minted(t)'

\* Marks come one at a time, from a reply that arrives.
LEMMA DoesMarks ==
  ASSUME Types, NEW c \in Clients, Does(c)
  PROVE  MarksOf(c)' \subseteq MarksOf(c) \/ \E t : NewMark(c, t)
<1>1. ASSUME NEW answer, Arrives(c, answer)
      PROVE  MarksOf(c)' \subseteq MarksOf(c) \/ \E t : NewMark(c, t)
  <2>1. /\ history' = history
        /\ result'[c] = answer
    BY <1>1 DEF Arrives, Answered, Types
  <2>2. CASE answer.kind \in {"reply", "cut"}
    <3>1. MarksOf(c)' \subseteq MarksOf(c) \cup {<<answer.id, answer.turn>>}
      BY <2>1 DEF MarksOf, Marks
    <3>2. ~Minted(<<answer.id, answer.turn>>)
      BY <1>1, <2>2 DEF Arrives
    <3>3. Minted(<<answer.id, answer.turn>>)'
      BY <1>1, <2>2 DEF Arrives, Minted
    <3> QED
      BY <3>1, <3>2, <3>3 DEF NewMark
  <2>3. CASE answer.kind \notin {"reply", "cut"}
    BY <2>1, <2>3 DEF MarksOf, Marks
  <2> QED
    BY <2>2, <2>3
<1>2. ASSUME NEW more, Asks(c, more)
      PROVE  MarksOf(c)' \subseteq MarksOf(c)
  <2>1. history'[c] = history[c] \o more /\ result'[c].kind = "none"
    BY <1>2 DEF Asks, Grows, Types, NoResult
  <2>2. Marks(history[c] \o more) \subseteq Marks(history[c]) \cup Marks(more)
    BY <1>2, MarksOfParts DEF Asks, Types
  <2>3. Marks(more) \subseteq MarksOf(c)
    BY <1>2 DEF Asks
  <2>4. MarksOf(c)' = Marks(history[c] \o more)
    BY <2>1 DEF MarksOf, Marks
  <2> QED
    BY <2>2, <2>3, <2>4 DEF MarksOf
<1>3. CASE SeedSucceeds(c) \/ SeedFails(c)
  <2>1. history' = history /\ (result'[c] = result[c] \/ result'[c].kind \in {"none", "failed"})
    BY <1>3 DEF SeedSucceeds, SeedFails, NoResult, Types
  <2> QED
    BY <2>1 DEF MarksOf, Marks
<1>4. CASE \/ \E a \in Accounts : Select(c, a)
           \/ BuildBody(c) \/ Succeed(c) \/ Fail(c) \/ SetConversationID(c)
  <2>1. history' = history /\ result' = result
    BY <1>4 DEF Select, BuildBody, Succeed, Fail, SetConversationID, callVars
  <2> QED
    BY <2>1 DEF MarksOf, Marks
<1> QED
  BY <1>1, <1>2, <1>3, <1>4 DEF Does

\* A reply that was given stays given.
LEMMA MintedStays ==
  ASSUME Types, Grown, NEW t, Minted(t), t[2] \in Nat
  PROVE  Minted(t)'
<1>1. t[1] \in 1 .. Len(sessions) /\ Len(sessions) \in Nat /\ Len(sessions') \in Nat
  BY DEF Minted, Types, Grown
<1>2. sessions[t[1]] \in Session /\ sessions'[t[1]] \in Session
  BY <1>1 DEF Types, Grown
<1>3. sessions[t[1]].turns \in Nat /\ sessions'[t[1]].turns \in Nat
  BY <1>2 DEF Session
<1>4. sessions[t[1]].turns <= sessions'[t[1]].turns
  BY <1>1 DEF Grown
<1> QED
  BY <1>1, <1>3, <1>4 DEF Minted, Grown

\* All that is said of marks.
MarksInv == MarksMinted /\ MarksApart /\ MarksLead /\ MarksKept

\* A mark's number is one.
LEMMA MarksAreIds ==
  ASSUME Types
  PROVE  /\ \A m \in Seq(Message) : \A t \in Marks(m) : t[2] \in Nat
         /\ \A c \in Clients : \A t \in MarksOf(c) : t[2] \in Nat
<1>1. ASSUME NEW m \in Seq(Message), NEW t \in Marks(m)
      PROVE  t[2] \in Nat
  <2>1. PICK i \in 1 .. Len(m) : t = ToolCallID(m[i])
    BY DEF Marks
  <2>2. m[i] \in Message
    OBVIOUS
  <2> QED
    BY <2>1, <2>2 DEF ToolCallID, Message
<1>2. \A c \in Clients : result[c].turn \in Nat /\ history[c] \in Seq(Message)
  BY DEF Types, Result
<1> QED
  BY <1>1, <1>2 DEF MarksOf

\* A step of one call gives no other client a mark.
LEMMA OthersMarks ==
  ASSUME Types, NEW c \in Clients, Does(c), NEW d \in Clients, d # c
  PROVE  MarksOf(d)' = MarksOf(d)
BY OthersUntouched DEF Untouched, MarksOf, Marks

\* Every mark a step leaves behind comes from a reply.
LEMMA DoesMarksMinted ==
  ASSUME Types, Phases, MarksMinted, MarksKept, NEW c \in Clients, Does(c)
  PROVE  MarksMinted'
<1>1. Grown
  BY DoesGrow
<1>2. \A d \in Clients : \A t \in MarksOf(d) : Minted(t)'
  BY <1>1, MintedStays, MarksAreIds DEF MarksMinted
<1>3. \A t \in MarksOf(c)' : Minted(t)'
  <2>1. CASE MarksOf(c)' \subseteq MarksOf(c)
    BY <1>2, <2>1
  <2>2. ASSUME NEW u, NewMark(c, u)
        PROVE  \A t \in MarksOf(c)' : Minted(t)'
    BY <1>2, <2>2 DEF NewMark
  <2> QED
    BY <2>1, <2>2, DoesMarks
<1>4. \A d \in Clients : \A t \in MarksOf(d)' : Minted(t)'
  BY <1>2, <1>3, OthersMarks
<1>5. ASSUME NEW k \in DOMAIN conv', NEW t \in Marks(k[2])
      PROVE  Minted(t)'
  <2>1. CASE k \in DOMAIN conv
    <3>1. Minted(t) /\ t[2] \in Nat
      BY <1>5, <2>1, MarksAreIds DEF MarksMinted, Types
    <3> QED
      BY <1>1, <3>1, MintedStays
  <2>2. CASE Written(c, k)
    <3>1. k[2] = Head(todo[c]) /\ pc[c] = "storing"
      BY <2>2 DEF Written, SetConversationID
    <3>2. todo[c] # <<>> /\ todo[c] \in Seq(Seq(Message))
      BY <3>1 DEF Types, Phases, PhaseOf
    <3>3. Head(todo[c]) = todo[c][1] /\ 1 \in 1 .. Len(todo[c])
      BY <3>2
    <3>4. t \in MarksOf(c)
      BY <1>5, <3>1, <3>3 DEF MarksKept
    <3> QED
      BY <1>2, <3>4
  <2> QED
    BY <2>1, <2>2, StoreStep
<1>6. \A k \in DOMAIN conv' : \A t \in Marks(k[2])' : Minted(t)'
  BY <1>5 DEF Marks
<1> QED
  BY <1>4, <1>6 DEF MarksMinted

\* A new mark is nobody else's.
LEMMA DoesMarksApart ==
  ASSUME Types, MarksMinted, MarksApart, NEW c \in Clients, Does(c)
  PROVE  MarksApart'
<1>1. \A d \in Clients : d # c => MarksOf(d)' = MarksOf(d) /\ MarksOf(c) \cap MarksOf(d) = {}
  BY OthersMarks DEF MarksApart
<1>2. \A d \in Clients : d # c => MarksOf(c)' \cap MarksOf(d)' = {}
  <2>1. CASE MarksOf(c)' \subseteq MarksOf(c)
    BY <1>1, <2>1
  <2>2. ASSUME NEW u, NewMark(c, u)
        PROVE  \A d \in Clients : d # c => MarksOf(c)' \cap MarksOf(d)' = {}
    <3>1. \A d \in Clients : u \notin MarksOf(d)
      BY <2>2 DEF NewMark, MarksMinted
    <3> QED
      BY <1>1, <2>2, <3>1 DEF NewMark
  <2> QED
    BY <2>1, <2>2, DoesMarks
<1>3. \A d, e \in Clients : d # e /\ d # c /\ e # c => MarksOf(d)' \cap MarksOf(e)' = {}
  BY <1>1 DEF MarksApart
<1> QED
  BY <1>2, <1>3 DEF MarksApart

\* An old key has no new mark; a new key has its writer's marks only.
LEMMA DoesMarksLead ==
  ASSUME Types, Phases, Own, MarksInv, NEW c \in Clients, Does(c)
  PROVE  MarksLead'
<1> SUFFICES ASSUME NEW k \in DOMAIN conv', NEW d \in Clients, NEW t,
                    t \in Marks(k[2]), t \in MarksOf(d)'
             PROVE  d \in sessions'[conv'[k]].users
  BY DEF MarksLead, Marks
<1>1. \A i \in 1 .. Len(sessions) : sessions[i].users \subseteq sessions'[i].users
  BY DoesGrow DEF Grown
<1>2. CASE k \in DOMAIN conv /\ conv'[k] = conv[k]
  <2>1. Minted(t)
    BY <1>2 DEF MarksInv, MarksMinted
  <2>2. t \in MarksOf(d)
    <3>1. CASE d # c
      BY <3>1, OthersMarks
    <3>2. CASE d = c /\ MarksOf(c)' \subseteq MarksOf(c)
      BY <3>2
    <3>3. ASSUME d = c, NEW u, NewMark(c, u)
          PROVE  t \in MarksOf(d)
      BY <2>1, <3>3 DEF NewMark
    <3> QED
      BY <3>1, <3>2, <3>3, DoesMarks
  <2>3. d \in sessions[conv[k]].users
    BY <1>2, <2>2 DEF MarksInv, MarksLead
  <2> QED
    BY <1>1, <1>2, <2>3 DEF Types
<1>3. CASE Written(c, k)
  <2>1. /\ k[2] = Head(todo[c]) /\ pc[c] = "storing" /\ conv'[k] = result[c].id
        /\ UNCHANGED <<sessions, history, result>>
    BY <1>3 DEF Written, SetConversationID, callVars
  <2>2. /\ todo[c] # <<>> /\ todo[c] \in Seq(Seq(Message)) /\ result[c].id # NoConversation
    BY <2>1 DEF Types, Phases, PhaseOf
  <2>3. Head(todo[c]) = todo[c][1] /\ 1 \in 1 .. Len(todo[c])
    BY <2>2
  <2>4. t \in MarksOf(c)
    BY <2>1, <2>3 DEF MarksInv, MarksKept
  <2>5. MarksOf(d)' = MarksOf(d)
    BY <2>1 DEF MarksOf, Marks
  <2>6. d = c
    BY <2>4, <2>5 DEF MarksInv, MarksApart
  <2> QED
    BY <2>1, <2>2, <2>6 DEF Own, OwnOf
<1> QED
  BY <1>2, <1>3, StoreStep

\* What is to be stored is a part of the history, or the history and the reply.
LEMMA DoesMarksKept ==
  ASSUME Types, Phases, MarksKept, NEW c \in Clients, Does(c)
  PROVE  MarksKept'
<1> SUFFICES ASSUME NEW d \in Clients, NEW i \in 1 .. Len(todo'[d])
             PROVE  Marks(todo'[d][i]) \subseteq MarksOf(d)'
  BY DEF MarksKept, Marks
<1>1. CASE d # c
  BY <1>1, OthersMarks, OthersUntouched DEF Untouched, MarksKept
<1>2. CASE d = c /\ SeedSucceeds(c) /\ todo'[c] # todo[c]
  <2>1. todo'[c] = <<Front(history[c])>> /\ UNCHANGED history
    BY <1>2 DEF SeedSucceeds, Types
  <2>2. history[c] \in Seq(Message) /\ history[c] # <<>>
    BY DEF Types
  <2>3. /\ Front(history[c]) \in Seq(Message)
        /\ Len(Front(history[c])) < Len(history[c])
        /\ \A j \in 1 .. Len(Front(history[c])) : Front(history[c])[j] = history[c][j]
    BY <2>2, FrontIs
  <2>4. \A j \in 1 .. Len(Front(history[c])) : j \in 1 .. Len(history[c])
    BY <2>2, <2>3
  <2>5. Marks(Front(history[c])) \subseteq Marks(history[c])
    BY <2>2, <2>3, <2>4, MarksOfParts
  <2>6. Marks(history[c]) \subseteq MarksOf(c)'
    BY <2>1 DEF MarksOf, Marks
  <2> QED
    BY <1>2, <2>1, <2>5, <2>6
<1>3. CASE d = c /\ (Succeed(c) \/ Fail(c))
  <2>1. todo'[c] = ToRemember(c) /\ UNCHANGED <<history, result>>
    BY <1>3 DEF Succeed, Fail, StoreNext, callVars, Types
  <2>2. MarksOf(c)' = MarksOf(c)
    BY <2>1 DEF MarksOf, Marks
  <2> QED
    BY <1>3, <2>1, <2>2, ToRememberMarks
<1>4. CASE d = c /\ SetConversationID(c)
  <2>1. pc[c] = "storing" /\ UNCHANGED <<history, result>>
    BY <1>4 DEF SetConversationID, callVars
  <2>2. MarksOf(c)' = MarksOf(c)
    BY <2>1 DEF MarksOf, Marks
  <2>3. todo'[c] = todo[c] \/ todo'[c] = Tail(todo[c])
    BY <1>4 DEF SetConversationID, Stored, Types
  <2>4. todo[c] \in Seq(Seq(Message)) /\ todo[c] # <<>>
    BY <2>1 DEF Types, Phases, PhaseOf
  <2>5. \E j \in 1 .. Len(todo[c]) : todo'[c][i] = todo[c][j]
    <3>1. CASE todo'[c] = todo[c]
      BY <1>4, <3>1
    <3>2. CASE todo'[c] = Tail(todo[c])
      BY <1>4, <2>4, <3>2, TailIs
    <3> QED
      BY <2>3, <3>1, <3>2
  <2> QED
    BY <1>4, <2>2, <2>5 DEF MarksKept
<1>5. CASE d = c /\ pc[c] # "storing" /\ todo'[c] = todo[c]
  <2>1. todo[c] = <<>>
    BY <1>5 DEF Phases, PhaseOf
  <2> QED
    BY <1>5, <2>1
<1>6. \/ SeedSucceeds(c) /\ todo'[c] # todo[c]
      \/ Succeed(c) \/ Fail(c) \/ SetConversationID(c)
      \/ pc[c] # "storing" /\ todo'[c] = todo[c]
  <2>1. ASSUME NEW a \in Accounts, Select(c, a)
        PROVE  pc[c] # "storing" /\ todo' = todo
    BY <2>1 DEF Select, putVars
  <2>2. SeedFails(c) \/ BuildBody(c) => pc[c] # "storing" /\ todo' = todo
    BY DEF SeedFails, BuildBody, putVars
  <2>3. ASSUME NEW answer, Arrives(c, answer)
        PROVE  pc[c] # "storing" /\ todo' = todo
    BY <2>3 DEF Arrives, Answered, putVars
  <2>4. ASSUME NEW more, Asks(c, more)
        PROVE  pc[c] # "storing" /\ todo' = todo
    BY <2>4 DEF Asks, Grows, putVars
  <2>5. SeedSucceeds(c) => pc[c] # "storing"
    BY DEF SeedSucceeds
  <2> QED
    BY <2>1, <2>2, <2>3, <2>4, <2>5 DEF Does
<1> QED
  BY <1>1, <1>2, <1>3, <1>4, <1>5, <1>6

\* A restart and an account that drops out add no mark.
LEMMA AroundMarks ==
  ASSUME Types, MarksInv, Restart \/ \E a \in Accounts : DropOut(a)
  PROVE  MarksInv'
<1>1. UNCHANGED sessions /\ UNCHANGED history
  BY DEF Restart, DropOut
<1>2. \A t : Minted(t)' <=> Minted(t)
  BY <1>1 DEF Minted
<1>3. CASE Restart
  <2>1. DOMAIN conv' = {} /\ \A c \in Clients : todo'[c] = <<>>
    BY <1>3 DEF Restart
  <2>2. ASSUME NEW c \in Clients
        PROVE  MarksOf(c)' \subseteq MarksOf(c)
    <3>1. result'[c] = result[c] \/ result'[c].kind = "failed"
      BY <1>3 DEF Restart, NoResult
    <3> QED
      BY <1>1, <3>1 DEF MarksOf, Marks
  <2>3. MarksMinted' /\ MarksLead' /\ MarksKept'
    BY <1>2, <2>1, <2>2 DEF MarksInv, MarksMinted, MarksLead, MarksKept
  <2>4. MarksApart'
    BY <2>2 DEF MarksInv, MarksApart
  <2> QED
    BY <2>3, <2>4 DEF MarksInv
<1>4. CASE \E a \in Accounts : DropOut(a)
  <2>1. UNCHANGED <<conv, result, todo>>
    BY <1>4 DEF DropOut, store, callVars, putVars
  <2>2. \A c \in Clients : MarksOf(c)' = MarksOf(c)
    BY <1>1, <2>1 DEF MarksOf, Marks
  <2>3. \A m : Marks(m)' = Marks(m)
    BY DEF Marks
  <2> QED
    BY <1>1, <1>2, <2>1, <2>2, <2>3 DEF MarksInv, MarksMinted, MarksApart, MarksLead, MarksKept
<1> QED
  BY <1>3, <1>4

-----------------------------------------------------------------------------
(***************************************************************************)
(* The inductive invariant and what follows from it.                       *)
(***************************************************************************)

\* The inductive invariant.
IInv ==
  /\ Types /\ Phases /\ Own
  /\ ConvOwn /\ HalfDone /\ OwnerHasConversation
  /\ MarksInv

\* It holds when the process starts.
LEMMA InitIInv == Init => IInv
<1> SUFFICES ASSUME Init
             PROVE  IInv
  OBVIOUS
<1> USE DEF Init
<1>1. DOMAIN conv = {} /\ DOMAIN owner = {} /\ DOMAIN toolGroups = {}
  OBVIOUS
<1>2. history \in [Clients -> Seq(Message) \ {<<>>}]
  <2>1. \A c \in Clients : UserMessage(Opening[c]) \in Message
    BY ConversationAssumption DEF UserMessage, Message, Call
  <2> QED
    BY <2>1
<1>3. NoResult \in Result /\ sessions \in Seq(Session) /\ Len(sessions) = 0
  BY DEF NoResult, Result, NoConversation, Call
<1>4. Types
  BY <1>1, <1>2, <1>3 DEF Types, Phase, NoConversation
<1>5. Phases /\ Own
  BY <1>3 DEF Phases, PhaseOf, Own, OwnOf, NoResult, NoConversation
<1>6. ConvOwn /\ HalfDone /\ OwnerHasConversation
  BY <1>1 DEF ConvOwn, HalfDone, OwnerHasConversation
<1>7. ASSUME NEW c \in Clients
      PROVE  MarksOf(c) = {}
  <2>1. history[c] = <<UserMessage(Opening[c])>> /\ result[c].kind = "none"
    BY DEF NoResult
  <2>2. ~BearsID(UserMessage(Opening[c]))
    BY DEF UserMessage, BearsID
  <2> HIDE DEF Init
  <2>3. Marks(history[c]) = {}
    BY <2>1, <2>2 DEF Marks
  <2> QED
    BY <2>1, <2>3 DEF MarksOf
<1>8. MarksInv
  BY <1>1, <1>7 DEF MarksInv, MarksMinted, MarksApart, MarksLead, MarksKept
<1> QED
  BY <1>4, <1>5, <1>6, <1>8 DEF IInv

\* Every step preserves it.
LEMMA NextIInv == IInv /\ [Next]_vars => IInv'
<1> SUFFICES ASSUME IInv, [Next]_vars
             PROVE  IInv'
  OBVIOUS
<1> USE DEF IInv
<1>1. ASSUME NEW c \in Clients, Turn(c)
      PROVE  IInv'
  <2>1. Does(c)
    BY <1>1, TurnDoes
  <2>2. MarksInv'
    BY <2>1, DoesMarksMinted, DoesMarksApart, DoesMarksLead, DoesMarksKept DEF MarksInv
  <2> QED
    BY <2>1, <2>2, DoesTypes, DoesPhases, DoesConvOwn, DoesHalfDone, DoesOwner
<1>2. CASE Restart \/ \E a \in Accounts : DropOut(a)
  BY <1>2, AroundTypes, AroundPhases, AroundStore, AroundMarks
<1>3. CASE UNCHANGED vars
  <2> USE <1>3 DEF vars, store, callVars, putVars
  <2>1. (Types /\ Phases /\ Own)'
    BY DEF Types, Phases, PhaseOf, Own, OwnOf
  <2>2. (ConvOwn /\ HalfDone /\ OwnerHasConversation)'
    BY DEF ConvOwn, HalfDone, OwnerHasConversation
  <2>3. \A t : Minted(t)' <=> Minted(t)
    BY DEF Minted
  <2>4. (\A c \in Clients : MarksOf(c)' = MarksOf(c)) /\ \A m : Marks(m)' = Marks(m)
    BY DEF MarksOf, Marks
  <2>5. MarksInv'
    BY <2>3, <2>4 DEF MarksInv, MarksMinted, MarksApart, MarksLead, MarksKept
  <2> QED
    BY <2>1, <2>2, <2>5
<1> QED
  BY <1>1, <1>2, <1>3 DEF Next

\* So it always holds.
THEOREM SpecIInv == Spec => []IInv
BY InitIInv, NextIInv, PTL DEF Spec

\* Whatever the clients, the accounts and the bounds, every variable keeps its
\* type, every key of the store names a conversation of the upstream, and a call
\* stores exactly while it has something left to store.
THEOREM SpecTypeOK == Spec => []TypeOK
<1>1. IInv => TypeOK
  BY DEF IInv, Types, Phases, PhaseOf, TypeOK, Phase, NoConversation
<1> QED
  BY <1>1, SpecIInv, PTL

\* No account's call ever takes another account's conversation along.
THEOREM SpecNoForeignConversation == Spec => []NoForeignConversation
<1>1. IInv => NoForeignConversation
  BY DEF IInv, Own, OwnOf, ConvOwn, NoForeignConversation
<1> QED
  BY <1>1, SpecIInv, PTL

\* No owner is ever seen without the conversation it stands for.
THEOREM SpecOwnerHasConversation == Spec => []OwnerHasConversation
BY SpecIInv, PTL DEF IInv

\* A client one of whose prefixes with a tool call is known continues a
\* conversation it took part in.
THEOREM SpecCallsTellApart == Spec => CallsTellApart
<1>1. ASSUME IInv, NEW c \in Clients, BuildBody(c), sent'[c] # NoConversation,
             NEW i \in 1 .. Len(history[c]) - 1, NEW j \in 1 .. i, BearsID(history[c][j]),
             GetConversation(acc[c], Prefix(history[c], i)) # NoConversation
      PROVE  c \in sessions[sent'[c]].users
  <2> DEFINE h     == history[c]
             a     == acc[c]
             known == {n \in 1 .. Len(h) - 1 : GetConversation(a, Prefix(h, n)) # NoConversation}
             p     == Prefix(h, Max(known))
  <2>1. h \in Seq(Message) /\ h # <<>>
    BY <1>1 DEF IInv, Types
  <2>2. Max(known) \in known /\ i <= Max(known)
    <3>1. Len(h) - 1 \in Nat /\ known \subseteq 1 .. (Len(h) - 1) /\ i \in known
      BY <1>1, <2>1
    <3> HIDE DEF known
    <3> QED
      BY <3>1, MaxIsGreatest
  <2>3. sent'[c] = GetConversation(a, p)
    <3>1. sent'[c] \in {NoConversation, LookupConversation(a, h)}
      BY <1>1 DEF BuildBody, IInv, Types
    <3>2. LookupConversation(a, h) \in {NoConversation, GetConversation(a, p)}
      BY DEF LookupConversation
    <3> QED
      BY <1>1, <3>1, <3>2
  <2>4. <<a, p>> \in DOMAIN conv /\ sent'[c] = conv[<<a, p>>]
    BY <1>1, <2>3 DEF GetConversation
  <2>5. /\ Max(known) \in 1 .. Len(h) /\ j \in 1 .. Max(known) /\ j \in 1 .. Len(h)
    <3>1. Max(known) \in 1 .. Len(h) - 1
      BY <2>2
    <3> HIDE DEF known
    <3> QED
      BY <1>1, <2>1, <2>2, <3>1
  <2>6. Len(p) = Max(known) /\ p[j] = h[j]
    <3> HIDE DEF known
    <3> QED
      BY <2>1, <2>5, PrefixIs
  <2> HIDE DEF known, p
  <2>7. ToolCallID(h[j]) \in Marks(p) /\ ToolCallID(h[j]) \in MarksOf(c)
    BY <1>1, <2>5, <2>6 DEF Marks, MarksOf
  <2>8. c \in sessions[conv[<<a, p>>]].users
    BY <1>1, <2>4, <2>7 DEF IInv, MarksInv, MarksLead
  <2> QED
    BY <2>4, <2>8
<1>2. IInv => [\A c \in Clients :
                 /\ BuildBody(c) /\ sent'[c] # NoConversation
                 /\ \E i \in 1 .. Len(history[c]) - 1 :
                      /\ \E j \in 1 .. i : BearsID(history[c][j])
                      /\ GetConversation(acc[c], Prefix(history[c], i)) # NoConversation
                 => c \in sessions[sent'[c]].users]_vars
  <2> SUFFICES ASSUME IInv, NEW c \in Clients, BuildBody(c), sent'[c] # NoConversation,
                      NEW i \in 1 .. Len(history[c]) - 1, NEW j \in 1 .. i, BearsID(history[c][j]),
                      GetConversation(acc[c], Prefix(history[c], i)) # NoConversation
               PROVE  c \in sessions[sent'[c]].users
    OBVIOUS
  <2> QED
    BY <1>1
<1> QED
  BY <1>2, SpecIInv, PTL DEF CallsTellApart, Spec
=============================================================================

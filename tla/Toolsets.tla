------------------------------- MODULE Toolsets -------------------------------
\* The pass-through of Anthropic requests to the toolsets endpoint: an account is
\* picked, the request is rewritten and posted with retries, the answer goes to
\* the client as it comes, and a failed account is left out of the next round.
\* Tool names the upstream would refuse are rewritten on the way out and back,
\* through one table for all clients. (provider/toolsets.go, api/toolsets*.go)
EXTENDS Integers, FiniteSets

CONSTANTS
  TsRequests,
  TsAccounts,
  Rounds,       \* accounts tried for a request: 3
  PostTries,    \* posts for an account: 1 + toolsetsRateLimitRetries
  Mentions,     \* request -> the tools it names, as declared or in its history
  Declares,     \* request -> the one of them the upstream calls
  Clean         \* tool -> the name the upstream accepts, itself if it is valid

VARIABLES
  ts,           \* the requests
  online,       \* accounts not marked offline
  nameMap       \* toolNameMap: upstream name -> the name it was last made of

tsVars == <<ts, online, nameMap>>

Unset == "unset"
Tools == DOMAIN Clean
Sent(tool) == Clean[tool]

ASSUME ToolsetsAssumption ==
  /\ Rounds \in Nat \ {0} /\ PostTries \in Nat \ {0}
  /\ Mentions \in [TsRequests -> SUBSET Tools]
  /\ \A r \in TsRequests : Declares[r] \in Mentions[r]

\* at: pick, prepare (tokens, rewriting), post, body, judge, over. failure: the
\* Result's kind; said: what the client has been told. tool: the one the client was shown.
\* asked is history: the accounts picked so far.
TsRequest(stream) ==
  [at |-> "pick", stream |-> stream, round |-> 0, excluded |-> {}, asked |-> {}, acc |-> Unset,
   posts |-> 0, started |-> FALSE, failure |-> Unset,
   said |-> Unset, tool |-> Unset]

Failures == {"auth", "rejected", "limited", "other"}

TsRequestSet ==
  [at : {"pick", "prepare", "post", "body", "judge", "over"}, stream : BOOLEAN,
   round : 0..Rounds, excluded : SUBSET TsAccounts, asked : SUBSET TsAccounts,
   acc : TsAccounts \cup {Unset}, posts : 0..PostTries, started : BOOLEAN,
   failure : Failures \cup {Unset, "none"}, said : {Unset, "answer", "error", "brokenOff"},
   tool : Tools \cup {Unset}]

ToolsetsTypeOK ==
  /\ ts \in [TsRequests -> TsRequestSet]
  /\ online \subseteq TsAccounts
  /\ \A u \in DOMAIN nameMap : nameMap[u] \in Tools /\ Sent(nameMap[u]) = u

ToolsetsInit ==
  /\ ts \in [TsRequests -> {TsRequest(stream) : stream \in BOOLEAN}]
  /\ online = TsAccounts
  /\ nameMap = <<>>

Turns(r, next) == ts' = [ts EXCEPT ![r] = next]

Tells(r, said) == [TsRequest(ts[r].stream) EXCEPT
  !.at = "over", !.said = said, !.started = ts[r].started, !.tool = ts[r].tool]

\* pickToolsetsAccount: the pool's rotation, without stickiness.
PicksAccount(r) ==
  LET free == online \ ts[r].excluded IN
  /\ ts[r].at = "pick"
  /\ \/ /\ free = {}
        /\ Turns(r, Tells(r, "error"))
     \/ \E a \in free :
          Turns(r, [ts[r] EXCEPT !.at = "prepare", !.acc = a, !.asked = @ \cup {a}])
  /\ UNCHANGED <<online, nameMap>>

FailsAs(r, kind) == [ts[r] EXCEPT !.at = "judge", !.failure = kind, !.posts = 0]

\* mapToolName: a name that is not accepted is replaced by its clean form.
Unfit(r) == {tool \in Mentions[r] : Sent(tool) # tool}

Rewritten(r) == {Sent(tool) : tool \in Unfit(r)}

\* GetTokens and rewriteModelForUpstream. A body that cannot be rewritten is
\* refused before anything is posted. The table remembers what each clean form
\* was last made of, tools and history of the request in turn.
Prepares(r) ==
  /\ ts[r].at = "prepare"
  /\ \/ /\ Turns(r, FailsAs(r, "auth"))
        /\ UNCHANGED nameMap
     \/ /\ Turns(r, FailsAs(r, "rejected"))
        /\ UNCHANGED nameMap
     \/ /\ Turns(r, [ts[r] EXCEPT !.at = "post"])
        /\ \E from \in [Rewritten(r) -> Unfit(r)] :
             /\ \A u \in Rewritten(r) : Sent(from[u]) = u
             /\ nameMap' = [u \in DOMAIN nameMap \cup Rewritten(r) |->
                              IF u \in Rewritten(r) THEN from[u] ELSE nameMap[u]]
  /\ UNCHANGED online

\* doWithRetry: a post that never got an answer, or was told 429 or 503, is
\* repeated through the next egress; the last error decides what is said.
NoAnswer(r, busy) ==
  /\ ts[r].at = "post"
  /\ Turns(r, IF ts[r].posts + 1 < PostTries THEN [ts[r] EXCEPT !.posts = @ + 1]
              ELSE FailsAs(r, IF busy THEN "limited" ELSE "other"))
  /\ UNCHANGED <<online, nameMap>>

\* The client leaves, or RequestTimeout is over, between two posts.
GivesUpPosting(r) ==
  /\ ts[r].at = "post"
  /\ ts[r].posts > 0
  /\ Turns(r, FailsAs(r, "other"))
  /\ UNCHANGED <<online, nameMap>>

\* An answer: 401 and 403, another 4xx, a 5xx, or a 200 with a body.
StatusArrives(r) ==
  /\ ts[r].at = "post"
  /\ \/ \E kind \in {"auth", "rejected", "other"} : Turns(r, FailsAs(r, kind))
     \/ Turns(r, [ts[r] EXCEPT !.at = "body"])
  /\ UNCHANGED <<online, nameMap>>

\* Mutant: the upstream's name reaches the client.
NotMapped(u) == u

\* unmapToolName
MappedBack(u) == IF u \in DOMAIN nameMap THEN nameMap[u] ELSE u

\* What the client sees the upstream call: the tool it declared, under the name
\* the table has for it.
ToolSeen(r) == MappedBack(Sent(Declares[r]))

\* Chat: the whole body, an error JSON among them, or a read that breaks.
BodyRead(r) ==
  /\ ts[r].at = "body" /\ ~ts[r].stream
  /\ \/ Turns(r, [ts[r] EXCEPT !.at = "judge", !.failure = "none", !.tool = ToolSeen(r)])
     \/ \E kind \in {"limited", "rejected", "other"} : Turns(r, FailsAs(r, kind))
  /\ UNCHANGED <<online, nameMap>>

\* StreamChat: every event goes on to the client at once.
EventArrives(r) ==
  /\ ts[r].at = "body" /\ ts[r].stream
  /\ \/ Turns(r, [ts[r] EXCEPT !.started = TRUE, !.tool = ToolSeen(r)])
     \/ Turns(r, [ts[r] EXCEPT !.started = TRUE])
  /\ UNCHANGED <<online, nameMap>>

\* The end of the body. With no event in it, it is a rate limit: what there was
\* to classify has been read by the scanner. A read that breaks because the
\* context is done counts as an end.
StreamStops(r, broken) ==
  /\ ts[r].at = "body" /\ ts[r].stream
  /\ Turns(r, IF broken THEN FailsAs(r, "other")
              ELSE IF ts[r].started THEN [ts[r] EXCEPT !.at = "judge", !.failure = "none"]
              ELSE FailsAs(r, "limited"))
  /\ UNCHANGED <<online, nameMap>>

JudgedAs(r, kinds) == ts[r].at = "judge" /\ ts[r].failure \in kinds

Answered(r) ==
  /\ JudgedAs(r, {"none"})
  /\ Turns(r, Tells(r, "answer"))
  /\ UNCHANGED <<online, nameMap>>

\* Once the stream is open there is no other account: an error event ends it.
BreaksOff(r) ==
  /\ JudgedAs(r, Failures) /\ ts[r].started
  /\ Turns(r, Tells(r, "brokenOff"))
  /\ UNCHANGED <<online, nameMap>>

Rejects(r) ==
  /\ JudgedAs(r, {"rejected"}) /\ ~ts[r].started
  /\ Turns(r, Tells(r, "error"))
  /\ UNCHANGED <<online, nameMap>>

\* Mutant: the failed account may be picked again.
ExcludedNone(r) == ts[r].excluded

\* Any other failure rules the account out for this request.
NowExcluded(r) == ts[r].excluded \cup {ts[r].acc}

\* Mutant: a stream that has begun is tried again.
MayTurnAlways(r) == TRUE

\* A stream that has begun is never begun again.
MayTurn(r) == ~ts[r].started

NextRound(r) ==
  /\ JudgedAs(r, Failures \ {"rejected"}) /\ MayTurn(r)
  /\ Turns(r, IF ts[r].round + 1 < Rounds
              THEN [ts[r] EXCEPT !.at = "pick", !.round = @ + 1, !.excluded = NowExcluded(r)]
              ELSE Tells(r, "error"))
  /\ online' = IF ts[r].failure = "auth" THEN online \ {ts[r].acc} ELSE online
  /\ UNCHANGED nameMap

\* A probe finds the account again.
ComesBack(a) ==
  /\ a \notin online
  /\ online' = online \cup {a}
  /\ UNCHANGED <<ts, nameMap>>

ToolsetsNext ==
  \/ \E r \in TsRequests :
       \/ PicksAccount(r) \/ Prepares(r)
       \/ (\E busy \in BOOLEAN : NoAnswer(r, busy)) \/ GivesUpPosting(r) \/ StatusArrives(r)
       \/ BodyRead(r) \/ EventArrives(r) \/ (\E broken \in BOOLEAN : StreamStops(r, broken))
       \/ Answered(r) \/ BreaksOff(r) \/ Rejects(r) \/ NextRound(r)
  \/ \E a \in TsAccounts : ComesBack(a)

ToolsetsSpec == ToolsetsInit /\ [][ToolsetsNext]_tsVars

-----------------------------------------------------------------------------
\* Properties.

\* A request whose stream has begun is on its last account, and it is told an
\* answer or an error event; one that has not begun is told an error with
\* nothing before it (toolsets_shared.go:104-107).
StreamIsOneTurn ==
  \A r \in TsRequests :
    /\ ts[r].started => ts[r].at \in {"body", "judge", "over"}
    /\ ts[r].started /\ ts[r].at = "over" => ts[r].said # "error"
    /\ ts[r].said = "brokenOff" => ts[r].started

\* An account that failed a request is not asked again by it, even if it comes
\* back online in between.
NoAccountTwice ==
  \A r \in TsRequests :
    ts[r].at \in {"prepare", "post", "body"} => Cardinality(ts[r].asked) = ts[r].round + 1

\* The tool's clean form is also that of another name some request has used: the
\* table is one for all clients and gives the name it saw last ("保证唯一",
\* toolsets.go:354, holds for names that were cut only).
Confused(r) ==
  \E q \in TsRequests : \E tool \in Mentions[q] :
    tool # Declares[r] /\ Sent(tool) = Sent(Declares[r])

\* The client is shown the tool it declared, under the name it declared, whatever
\* other clients declare or carry in their histories meanwhile, short of that.
NamesReturn ==
  \A r \in TsRequests :
    ts[r].tool # Unset /\ ~Confused(r) => ts[r].tool = Declares[r]

\* What a request through the pass-through may rely on.
ToolsetsAnswer == StreamIsOneTurn /\ NoAccountTwice /\ NamesReturn
==============================================================================

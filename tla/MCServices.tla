----------------------------- MODULE MCServices -----------------------------
(***************************************************************************)
(* The parts around the core, which share no variable with it or with one  *)
(* another: a behaviour is a behaviour of one of them, and the others stay *)
(* in one of their initial states. The gateway is looked at twice: with a  *)
(* key that is edited meanwhile, and with none but more requests, so that  *)
(* one can store an answer, another replay it and a third find out what    *)
(* became of it.                                                           *)
(***************************************************************************)
EXTENDS AnswerStream, Gateway, WafProbe, RedisStore, Toolsets, TLC

MCKind == [t1 |-> "function", t2 |-> "custom", t3 |-> "unreadable"]

MCLines == <<1, 2>>

MCMentions == [r1 |-> {"a.b", "c"}, r2 |-> {"c", "d.e", "d/e"}]
MCDeclares == [r1 |-> "a.b", r2 |-> "c"]
MCClean == "a.b" :> "a_b" @@ "c" :> "c" @@ "d.e" :> "d_e" @@ "d/e" :> "d_e"

VARIABLE part

ServicesSymmetry == Permutations(Visits)

Unless(p, still) == part = p \/ still

\* The requests of each of the gateway's two parts: of a key, at most two and all
\* the same question; of a service test, three about anything.
Visitors ==
  CASE part = "gateway" -> /\ \E v \in Visits : visit[v] = Gone
                           /\ \A v \in Visits : visit[v].pk # "service" /\ visit[v].fp # "f2"
    [] part = "cache"   -> \A v \in Visits : visit[v].pk = "service" /\ ~visit[v].tail
    [] OTHER            -> \A v \in Visits : visit[v] = Gone

ServicesInit ==
  /\ part \in {"answer", "gateway", "cache", "probe", "redis", "toolsets"}
  /\ AnswerInit /\ Unless("answer", ~declared /\ front.proto = "openai")
  /\ CacheInit /\ (part = "gateway" \/ Unless("cache", ~cacheOn /\ ~probeOn))
  /\ KeysInit /\ Unless("gateway", Keys = {})
  /\ GatewayInit /\ Visitors
  /\ ProbeInit /\ Unless("probe", \A l \in LeafNos : trigger[l] = {})
  /\ RedisInit
  /\ ToolsetsInit /\ Unless("toolsets", \A r \in TsRequests : ts[r].stream)

AnswerMoves ==
  part = "answer" /\ AnswerNext /\ UNCHANGED <<part, gatewayVars, probeVars, redisVars, tsVars>>

GatewayMoves ==
  part = "gateway" /\ GatewayNext /\ UNCHANGED <<part, answerVars, probeVars, redisVars, tsVars>>

CacheMoves ==
  part = "cache" /\ GatewayNext /\ UNCHANGED <<part, keyVars, answerVars, probeVars, redisVars, tsVars>>

ProbeMoves ==
  part = "probe" /\ ProbeNext /\ UNCHANGED <<part, answerVars, gatewayVars, redisVars, tsVars>>

RedisMoves ==
  part = "redis" /\ RedisNext /\ UNCHANGED <<part, answerVars, gatewayVars, probeVars, tsVars>>

ToolsetsMove ==
  part = "toolsets" /\ ToolsetsNext /\ UNCHANGED <<part, answerVars, gatewayVars, probeVars, redisVars>>

ServicesNext ==
  \/ AnswerMoves \/ GatewayMoves \/ CacheMoves \/ ProbeMoves
  \/ RedisMoves \/ ToolsetsMove

ServicesSpec ==
  ServicesInit
  /\ [][ServicesNext]_<<part, answerVars, gatewayVars, probeVars, redisVars, tsVars>>

\* The type invariants of the five parts (StreamReader, keySlots and
\* responseCache, probeManager, redisStore, toolNameMap).
ServicesTypeOK ==
  AnswerTypeOK /\ GatewayTypeOK /\ ProbeTypeOK /\ RedisTypeOK /\ ToolsetsTypeOK
=============================================================================

------------------------------- MODULE Gateway -------------------------------
\* A request to a /v1 endpoint from the door to the answer: the key is resolved
\* and a slot taken (traceChat), the handler checks the key again (auth), the
\* probe and the cache come before the upstream (Router.Chat and Stream), the
\* key is charged and the slot given back. The upstream is RouteLoop's, here one
\* step with any outcome. (api/middleware.go, api.go, openai.go, router/chat.go)
EXTENDS ApiKeys, ResponseCache

CONSTANTS
  Visits,      \* requests of clients
  Presents,    \* what they present: ids of keys, no row's key, "service"
  Costs,       \* credits an answer may cost, the key's multiplier included
  MaxCredits   \* the most of them

ASSUME GatewayAssumption ==
  /\ IsFiniteSet(Visits)
  /\ "no fingerprint" \notin KeyIds
  /\ MaxCredits \in Nat /\ MaxCredits \in Costs /\ Costs \subseteq 0..MaxCredits

VARIABLES
  visit,       \* the request's place and what it carries
  switched     \* history: keys whose limit went from none to some, or back,
               \*          while a request held them

gatewayVars == <<keyVars, cacheVars, visit, switched>>

NoFp == "no fingerprint"

\* key: the row's id put in the context; counted: a slot was taken for it.
\* tail: the request carries tool results, so it is not cacheable.
Visit(pk, fp, tail) ==
  [at |-> "door", pk |-> pk, fp |-> fp, tail |-> tail, key |-> NoFp, limit |-> 0,
   probed |-> FALSE, credits |-> 0]

Gone == [Visit("none", NoFp, FALSE) EXCEPT !.at = "gone"]

Stage == {"door", "slot", "auth", "probe", "cache", "upstream", "charge", "release", "gone"}

\* The types; the probe counts the requests between its entry and its exit,
\* however its setting changes meanwhile.
GatewayTypeOK ==
  /\ KeysTypeOK /\ CacheTypeOK
  /\ \A v \in Visits :
       /\ visit[v].at \in Stage
       /\ visit[v].pk \in Presents \cup {"none"} /\ visit[v].key \in KeyIds \cup {NoFp}
       /\ visit[v].credits \in 0..MaxCredits
       /\ visit[v].at = "slot" => visit[v].key # NoFp
  /\ switched \subseteq KeyIds
  /\ \A f \in Fps :
       inflightFor[f] = Cardinality({v \in Visits : visit[v].fp = f /\ visit[v].probed})

\* Any requests; one that is gone from the start is never made.
GatewayInit ==
  /\ KeysInit /\ CacheInit
  /\ visit \in [Visits -> {Visit(pk, fp, tail) : pk \in Presents, fp \in Fps, tail \in BOOLEAN}
                           \cup {Gone}]
  /\ switched = {}

Goes(v, to) == visit' = [visit EXCEPT ![v] = to]

Onward(v, stage) == [visit[v] EXCEPT !.at = stage]

\* traceChat resolves the key first; a request it refuses goes on without one,
\* for auth to answer.
ResolvesKey(v) ==
  /\ visit[v].at = "door"
  /\ IF Resolve(visit[v].pk) = "keyed"
     THEN Goes(v, [Onward(v, "slot") EXCEPT !.key = visit[v].pk,
                                            !.limit = keyRow[visit[v].pk].limit])
     ELSE Goes(v, Onward(v, "auth"))
  /\ UNCHANGED <<keyVars, cacheVars, switched>>

Holding(k) == {v \in Visits : /\ visit[v].key = k
                              /\ visit[v].at \notin {"door", "slot", "gone"}}

CountedFor(k) == {v \in Holding(k) : visit[v].limit > 0}

\* acquire, by the limit read at the door; with no slot the answer is a 429.
TakesSlot(v) ==
  LET k == visit[v].key IN
  /\ visit[v].at = "slot"
  /\ IF MayAcquire(k, visit[v].limit)
     THEN /\ slots' = Acquired(k, visit[v].limit)
          /\ Goes(v, Onward(v, "auth"))
     ELSE /\ visit' = [visit EXCEPT ![v] = Gone]
          /\ UNCHANGED slots
  /\ UNCHANGED <<keyRow, everMade, edits, edited, cacheVars, switched>>

\* Mutant: a key that was resolved at the door is not looked at again.
PassesOnce(v) == visit[v].key # NoFp \/ Resolve(visit[v].pk) # "refused"

Passes(v) == Resolve(visit[v].pk) # "refused"

\* The handler's s.auth reads the row again: it may have been used up, changed
\* or made since.
ChecksKey(v) ==
  /\ visit[v].at = "auth"
  /\ Goes(v, Onward(v, IF Passes(v) THEN "probe" ELSE "release"))
  /\ UNCHANGED <<keyVars, cacheVars, switched>>

Cacheable(v) == ~visit[v].tail

\* Router.probe, with the exit's closure made here.
Probes(v) ==
  /\ visit[v].at = "probe"
  /\ IF probeOn /\ Cacheable(v)
     THEN /\ inflightFor' = ProbedIn(visit[v].fp)
          /\ Goes(v, [Onward(v, "cache") EXCEPT !.probed = TRUE])
     ELSE /\ Goes(v, Onward(v, "cache"))
          /\ UNCHANGED inflightFor
  /\ UNCHANGED <<keyVars, cacheOn, probeOn, ll, entries, latest, switched>>

\* The probe's exit, which runs when Chat or Stream returns.
ExitProbe(v) ==
  inflightFor' = IF visit[v].probed THEN ProbedOut(visit[v].fp) ELSE inflightFor

\* cacheGet. A replayed answer keeps its credits and is charged again.
LooksInCache(v) ==
  LET fp == visit[v].fp IN
  /\ visit[v].at = "cache"
  /\ \/ /\ cacheOn /\ Cacheable(v)
        /\ CacheGet(fp)
        /\ IF Hit(fp)
           THEN /\ Goes(v, [Onward(v, "charge") EXCEPT !.credits = entries[fp].credits,
                                                       !.probed = FALSE])
                /\ ExitProbe(v)
           ELSE /\ Goes(v, Onward(v, "upstream"))
                /\ UNCHANGED inflightFor
     \/ /\ ~cacheOn \/ ~Cacheable(v)
        /\ Goes(v, Onward(v, "upstream"))
        /\ UNCHANGED <<ll, entries, inflightFor>>
  /\ UNCHANGED <<keyVars, cacheOn, probeOn, latest, switched>>

\* The upstream's answer. cachePut keeps a successful one without tool calls,
\* whether the cache is on or not. A failure may have cost credits as well.
Answers(v, credits) ==
  /\ visit[v].at = "upstream"
  /\ \/ /\ Cacheable(v)
        /\ CachePut(visit[v].fp, credits)
     \/ UNCHANGED <<ll, entries, latest>>    \* failed, or with tool calls
  /\ ExitProbe(v)
  /\ Goes(v, [Onward(v, "charge") EXCEPT !.credits = credits, !.probed = FALSE])
  /\ UNCHANGED <<keyVars, cacheOn, probeOn, switched>>

\* chargeKey, with the key of the context.
Charges(v) ==
  /\ visit[v].at = "charge"
  /\ keyRow' = IF visit[v].key = NoFp THEN keyRow ELSE Charged(visit[v].key, visit[v].credits)
  /\ Goes(v, Onward(v, "release"))
  /\ UNCHANGED <<slots, everMade, edits, edited, cacheVars, switched>>

\* The deferred release, and the end.
Leaves(v) ==
  /\ visit[v].at = "release"
  /\ slots' = IF visit[v].key = NoFp THEN slots ELSE Released(visit[v].key)
  /\ visit' = [visit EXCEPT ![v] = Gone]
  /\ UNCHANGED <<keyRow, everMade, edits, edited, cacheVars, switched>>

\* A limit that is set or lifted while requests of the key are about.
Crossed ==
  {k \in KeyIds : /\ keyRow[k].made /\ keyRow'[k].made
                  /\ (keyRow[k].limit > 0) # (keyRow'[k].limit > 0)
                  /\ \E v \in Visits : visit[v].key = k /\ visit[v].at # "gone"}

Dashboard ==
  \/ /\ Administers
     /\ switched' = switched \cup Crossed
     /\ UNCHANGED <<cacheVars, visit>>
  \/ /\ SetsCache \/ SetsProbe
     /\ Edits
     /\ UNCHANGED <<keyRow, slots, everMade, edited, visit, switched>>
  \/ /\ Ticks
     /\ UNCHANGED <<keyVars, visit, switched>>

GatewayNext ==
  \/ \E v \in Visits :
       \/ ResolvesKey(v) \/ TakesSlot(v) \/ ChecksKey(v)
       \/ Probes(v) \/ LooksInCache(v)
       \/ \E credits \in Costs : Answers(v, credits)
       \/ Charges(v) \/ Leaves(v)
  \/ Dashboard

GatewaySpec == GatewayInit /\ [][GatewayNext]_gatewayVars

-----------------------------------------------------------------------------
\* Properties.

\* The counter of a key is the number of its requests that took a slot and have
\* not given it back, as long as nobody set or lifted the key's limit around
\* them: release gives a slot back for a request that took none.
SlotsAreHolders ==
  \A k \in KeyIds \ switched : slots[k] = Cardinality(CountedFor(k))

\* A key with a quota and a limit nobody edits is overrun by no more than one
\* answer for each of its slots ("并发请求可能小幅超出限额", apikeys.go:113).
\* Admission reads the row with the slot already taken, and the charge comes
\* before the slot is given back; either one alone does not bound it.
OverrunBounded ==
  \A k \in Keys \ edited :
    LET row == keyRow[k] IN
    row.quota > 0 /\ row.limit > 0 => row.used < row.quota + row.limit * MaxCredits

\* What the cache replays is the answer stored last for the request's fingerprint,
\* no longer ago than the TTL, whichever requests put and got it since and
\* whatever was evicted and put again in between.
ReplayIsFresh ==
  [][\A v \in Visits : visit[v].at = "cache" /\ visit'[v].at = "charge" =>
       LET last == latest[visit[v].fp] IN
       last.age <= TTL /\ visit'[v].credits = last.credits]_gatewayVars

==============================================================================

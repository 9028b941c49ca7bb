---------------------------- MODULE ResponseCache ----------------------------
\* The gateway's cache of answers, least recently used out first, and the shadow
\* probe that counts what a cache would save. (router/cache.go, cache_probe.go)
\* A fingerprint is CacheKey of a request: the same one whatever the request's
\* stream flag and trailing token counts.
EXTENDS Integers, FiniteSets, SequencesExt

CONSTANTS
  Fps,          \* fingerprints
  MaxEntries,   \* cacheMaxEntries
  TTL           \* cacheTTL

ASSUME CacheAssumption == MaxEntries \in Nat \ {0} /\ TTL \in Nat

VARIABLES
  cacheOn,      \* setting cache_enabled
  probeOn,      \* setting cache_probe_enabled
  ll,           \* responseCache.ll, front first: the keys of its elements
  entries,      \* responseCache.entries: key -> its element's answer and expiry
  latest,       \* history: the answer stored last for each fingerprint, and how
                \*          long ago
  inflightFor   \* shadowProbe.inflight

cacheVars == <<cacheOn, probeOn, ll, entries, latest, inflightFor>>

\* An answer: its credits and the time since it was stored, which stands for exp
\* and stops counting once that is past.
Answer == [credits : Nat, age : 0..TTL + 1]

NeverStored == [credits |-> 0, age |-> TTL + 1]

\* The types; the list holds the keys of the index, once each.
CacheTypeOK ==
  /\ cacheOn \in BOOLEAN /\ probeOn \in BOOLEAN
  /\ ll \in Seq(Fps) /\ IsInjective(ll) /\ Len(ll) <= MaxEntries
  /\ DOMAIN entries = ToSet(ll)
  /\ \A fp \in DOMAIN entries : entries[fp] \in Answer
  /\ latest \in [Fps -> Answer]
  /\ inflightFor \in [Fps -> Nat]

CacheInit ==
  /\ cacheOn \in BOOLEAN /\ probeOn \in BOOLEAN
  /\ ll = <<>> /\ entries = <<>>
  /\ latest = [f \in Fps |-> NeverStored]
  /\ inflightFor = [f \in Fps |-> 0]

Live(e) == e.age <= TTL

\* The list without the key's element.
Others(fp) ==
  IF fp \in ToSet(ll) THEN RemoveAt(ll, CHOOSE i \in DOMAIN ll : ll[i] = fp) ELSE ll

Unindexed(fp) == [f \in DOMAIN entries \ {fp} |-> entries[f]]

Hit(fp) == fp \in DOMAIN entries /\ Live(entries[fp])

\* Mutant: a hit renews the expiry.
GetRenewing(fp) ==
  /\ ll' = IF Hit(fp) THEN <<fp>> \o Others(fp) ELSE Others(fp)
  /\ entries' = IF Hit(fp) THEN [entries EXCEPT ![fp].age = 0] ELSE Unindexed(fp)

\* responseCache.get: an entry that has expired is removed and is a miss, a live
\* one moves to the front.
CacheGet(fp) ==
  /\ ll' = IF Hit(fp) THEN <<fp>> \o Others(fp) ELSE Others(fp)
  /\ entries' = IF Hit(fp) THEN entries ELSE Unindexed(fp)

\* responseCache.put: a new answer in the key's element, which goes to the front,
\* or in a new one; beyond the bound the back goes, out of list and index.
CachePut(fp, credits) ==
  LET new == [credits |-> credits, age |-> 0]
      all == <<fp>> \o Others(fp)
      kept == SubSeq(all, 1, IF Len(all) > MaxEntries THEN MaxEntries ELSE Len(all)) IN
  /\ ll' = kept
  /\ entries' = [f \in ToSet(kept) |-> IF f = fp THEN new ELSE entries[f]]
  /\ latest' = [latest EXCEPT ![fp] = new]

\* probe: the entry's part and the part it returns for the exit.
ProbedIn(fp) == [inflightFor EXCEPT ![fp] = @ + 1]

ProbedOut(fp) == [inflightFor EXCEPT ![fp] = @ - 1]

\* Time passes.
Older(e) == IF Live(e) THEN [e EXCEPT !.age = @ + 1] ELSE e

Ticks ==
  /\ entries' = [f \in DOMAIN entries |-> Older(entries[f])]
  /\ latest' = [f \in Fps |-> Older(latest[f])]
  /\ UNCHANGED <<cacheOn, probeOn, ll, inflightFor>>

\* The dashboard's switches.
SetsCache ==
  /\ cacheOn' = ~cacheOn
  /\ UNCHANGED <<probeOn, ll, entries, latest, inflightFor>>

SetsProbe ==
  /\ probeOn' = ~probeOn
  /\ UNCHANGED <<cacheOn, ll, entries, latest, inflightFor>>
==============================================================================

------------------------------- MODULE H2Pool ------------------------------
(***************************************************************************)
(* internal/tlsfp/roundtripper.go: the pooled connection of one authority, *)
(* the requests that share, replace and drop it, and the connections       *)
(* ending under them.  What happens on a connection is module H2Conn's.    *)
(***************************************************************************)
CONSTANTS
  Requests,
  Conns        \* bound: the connections that can be dialled

NoConn == "none"

ASSUME H2PoolAssumption == NoConn \notin Conns

VARIABLES
  at,       \* start, pooled, dialing, dialed, stored, waiting, answered, failed
  on,       \* the connection the request holds
  conn,     \* none, live, goingAway, closed; single: HTTP/1.1, one request
  kept,     \* rt.conns[authority]
  hooked,   \* connections whose onClose is set
  sentOn    \* history: the connections the request was written on

poolVars == <<at, on, conn, kept, hooked, sentOn>>

Place == {"start", "pooled", "dialing", "dialed", "stored", "waiting", "answered", "failed"}

\* The types; the pool holds an HTTP/2 connection that was dialled, and a request
\* that was answered was written.
H2PoolTypeOK ==
  /\ at \in [Requests -> Place]
  /\ on \in [Requests -> Conns \cup {NoConn}]
  /\ conn \in [Conns -> {"none", "live", "goingAway", "closed", "single"}]
  /\ kept \in Conns \cup {NoConn}
  /\ hooked \subseteq Conns
  /\ sentOn \in [Requests -> SUBSET Conns]
  /\ kept # NoConn => conn[kept] \notin {"none", "single"} /\ kept \in hooked
  /\ \A r \in Requests : at[r] \in {"waiting", "answered"} => sentOn[r] # {}

PoolInit ==
  /\ at = [r \in Requests |-> "start"]
  /\ on = [r \in Requests |-> NoConn]
  /\ conn = [c \in Conns |-> "none"]
  /\ kept = NoConn
  /\ hooked = {}
  /\ sentOn = [r \in Requests |-> {}]

Usable(c) == conn[c] = "live"

Moves(r, to, c) ==
  /\ at' = [at EXCEPT ![r] = to]
  /\ on' = [on EXCEPT ![r] = c]

\* Mutant: whatever is pooled goes.
DropAny(c) == NoConn

\* dropConn: only the connection it was called for.
Dropped(c) == IF kept = c THEN NoConn ELSE kept

\* getConn: an unusable one is deleted.
GetConn(r) ==
  /\ at[r] = "start"
  /\ IF kept # NoConn /\ Usable(kept)
     THEN Moves(r, "pooled", kept) /\ UNCHANGED kept
     ELSE Moves(r, "dialing", NoConn) /\ kept' = NoConn
  /\ UNCHANGED <<conn, hooked, sentOn>>

Writes(r) ==
  /\ Moves(r, "waiting", on[r])
  /\ sentOn' = [sentOn EXCEPT ![r] = @ \cup {on[r]}]

\* roundTripInner on the pooled connection: errConnUnusable, returned before
\* anything is written, is the one error after which it dials.
PooledRoundTrip(r) ==
  /\ at[r] = "pooled"
  /\ IF Usable(on[r])
     THEN Writes(r) /\ UNCHANGED kept
     ELSE Moves(r, "dialing", NoConn) /\ kept' = Dropped(on[r]) /\ UNCHANGED sentOn
  /\ UNCHANGED <<conn, hooked>>

\* dialTLS and newH2Conn fail; or a connection of either protocol.
Dial(r) ==
  /\ at[r] = "dialing"
  /\ \/ Moves(r, "failed", NoConn) /\ UNCHANGED <<conn, sentOn>>
     \/ \E c \in Conns :
          /\ conn[c] = "none"
          /\ conn' = [conn EXCEPT ![c] = "live"]
          /\ Moves(r, "dialed", c) /\ UNCHANGED sentOn
     \/ \E c \in Conns :
          /\ conn[c] = "none"
          /\ conn' = [conn EXCEPT ![c] = "single"]
          /\ Moves(r, "waiting", c)
          /\ sentOn' = [sentOn EXCEPT ![r] = @ \cup {c}]
  /\ UNCHANGED <<kept, hooked>>

\* Mutant: the newest connection takes the place of a usable one.
Newest(c) == c

\* storeConn: a usable connection stored meanwhile stays; the new one is not
\* closed, and serves this request only.
Stored(c) == IF kept # NoConn /\ Usable(kept) THEN kept ELSE c

StoreConn(r) ==
  /\ at[r] = "dialed"
  /\ kept' = Stored(on[r])
  /\ hooked' = hooked \cup {on[r]}
  /\ Moves(r, "stored", on[r])
  /\ UNCHANGED <<conn, sentOn>>

\* The first request of a connection just dialled is not tried again.
OwnRoundTrip(r) ==
  /\ at[r] = "stored"
  /\ IF Usable(on[r]) THEN Writes(r) ELSE Moves(r, "failed", NoConn) /\ UNCHANGED sentOn
  /\ UNCHANGED <<conn, kept, hooked>>

RequestAnswered(r) ==
  /\ at[r] = "waiting"
  /\ Moves(r, "answered", NoConn)
  /\ UNCHANGED <<conn, kept, hooked, sentOn>>

\* Mutant: a request that failed after it was written is dialled again.
AfterFailure == {"failed", "dialing"}

\* Every other error goes to the caller: deadline, reset, the connection's end.
FailedGoesTo == {"failed"}

RequestFailed(r) ==
  /\ at[r] = "waiting"
  /\ \E to \in FailedGoesTo : Moves(r, to, NoConn)
  /\ UNCHANGED <<conn, kept, hooked, sentOn>>

\* GOAWAY, or the end of the connection; onClose drops it if it is set by then.
ConnLeaves(c) ==
  /\ conn[c] \in {"live", "goingAway"}
  /\ \E to \in {"goingAway", "closed"} : to # conn[c] /\ conn' = [conn EXCEPT ![c] = to]
  /\ kept' = IF c \in hooked THEN Dropped(c) ELSE kept
  /\ UNCHANGED <<at, on, hooked, sentOn>>

PoolNext ==
  \/ \E r \in Requests : GetConn(r) \/ PooledRoundTrip(r) \/ Dial(r) \/ StoreConn(r)
                         \/ OwnRoundTrip(r) \/ RequestAnswered(r) \/ RequestFailed(r)
  \/ \E c \in Conns : ConnLeaves(c)

PoolSpec == PoolInit /\ [][PoolNext]_poolVars

(***************************************************************************)
(* Properties.                                                             *)
(***************************************************************************)

\* More than one connection is no state of OneSend.
Fate(r) ==
  CASE at[r] \in {"answered", "failed"} -> at[r]
    [] at[r] \notin {"answered", "failed"} /\ sentOn[r] = {} -> "new"
    [] at[r] = "waiting" /\ (\E c \in Conns : sentOn[r] = {c}) -> "sent"
    [] OTHER -> "again"

Once == INSTANCE OneSend WITH fate <- [r \in Requests |-> Fate(r)]

\* Whichever connection ends when, a request is written at most once: the retry
\* of roundTripInner is taken only where nothing was written, so a call that is
\* charged is not made twice.
WrittenOnce == Once!Spec

\* A connection that can be used stays pooled until it cannot: a dropConn that
\* comes late, from an earlier connection's end, and a storeConn that lost the
\* race leave it where it is.
UsableStaysPooled ==
  [][kept # NoConn /\ Usable(kept) /\ (conn' [kept] = "live") => kept' = kept]_poolVars
=============================================================================

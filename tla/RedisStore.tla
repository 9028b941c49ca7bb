----------------------------- MODULE RedisStore -----------------------------
\* The conversation store that several gateways share. Each command of Redis is
\* atomic, an operation of the store is not: Reset and InvalidateConversation
\* scan, read and delete in separate commands while other gateways put. A command
\* that fails is logged and the operation goes on without it; only with its
\* instance does an operation end where it is. (provider/redisstore.go)
\* Conversation has the same operations as single steps of one process.
EXTENDS Integers, FiniteSets

CONSTANTS
  Instances,   \* goroutines of the gateways that use the store
  Accounts,
  Prints,      \* 1..n, fingerprints in the order SCAN's cursor visits them
  ConvIds,
  MaxPuts,     \* bounds: puts, and
  MaxSweeps    \*         resets and invalidations

Nothing == "nothing"

ASSUME RedisAssumption ==
  /\ IsFiniteSet(Prints) /\ Prints = 1..Cardinality(Prints)
  /\ Nothing \notin Accounts \cup ConvIds
  /\ MaxPuts \in Nat /\ MaxSweeps \in Nat

VARIABLES
  convAt,      \* conv:{account}:{fp}
  ownerAt,     \* owner:{fp}
  ownSet,      \* ownset:{account}, the fingerprints Reset looks up
  doing,       \* what each instance is at
  torn,        \* history: fingerprints the index of each account has missed
  puts, sweeps

redisVars == <<convAt, ownerAt, ownSet, doing, torn, puts, sweeps>>

\* An instance's operation. seen: the fingerprints SMEMBERS returned; dead: those
\* whose owner was still the account. History: old, the entries of the account
\* that were there when a reset began and have not been put since; mine, the
\* fingerprints that have been the account's (or had the conversation) since the
\* operation began; hurt, that it deleted another; failed, that one of its
\* commands failed.
Rest == [op |-> Nothing, acc |-> Nothing, fp |-> 0, conv |-> Nothing, at |-> Nothing,
         seen |-> {}, dead |-> {}, oldConv |-> {}, oldOwner |-> {}, mine |-> {}, hurt |-> FALSE,
         failed |-> FALSE]

Doing ==
  [op : {Nothing, "owner", "reset", "invalidate"}, acc : Accounts \cup {Nothing}, fp : Nat,
   conv : ConvIds \cup {Nothing},
   at : {Nothing, "index", "scan", "delete", "members", "owners", "end"},
   seen : SUBSET Prints, dead : SUBSET Prints,
   oldConv : SUBSET Prints, oldOwner : SUBSET Prints, mine : SUBSET Prints, hurt : BOOLEAN,
   failed : BOOLEAN]

RedisTypeOK ==
  /\ convAt \in [Accounts -> [Prints -> ConvIds \cup {Nothing}]]
  /\ ownerAt \in [Prints -> Accounts \cup {Nothing}]
  /\ ownSet \in [Accounts -> SUBSET Prints]
  /\ doing \in [Instances -> Doing]
  /\ \A i \in Instances :
       /\ doing[i].op # Nothing => doing[i].acc \in Accounts
       /\ doing[i].op = "owner" \/ doing[i].at = "delete" => doing[i].fp \in Prints
  /\ torn \in [Accounts -> SUBSET Prints]
  /\ puts \in 0..MaxPuts /\ sweeps \in 0..MaxSweeps

RedisInit ==
  /\ convAt = [a \in Accounts |-> [p \in Prints |-> Nothing]]
  /\ ownerAt = [p \in Prints |-> Nothing]
  /\ ownSet = [a \in Accounts |-> {}]
  /\ doing = [i \in Instances |-> Rest]
  /\ torn = [a \in Accounts |-> {}]
  /\ puts = 0 /\ sweeps = 0

Puts == puts < MaxPuts /\ puts' = puts + 1
Sweeps == sweeps < MaxSweeps /\ sweeps' = sweeps + 1

AtRest(i) == doing[i].op = Nothing

Does(i, next) == doing' = [doing EXCEPT ![i] = next]

\* One of its commands failed: it goes on, with a line in the log.
Stumbles(i, next) == Does(i, [next EXCEPT !.failed = TRUE])

Tears(a, lost) == torn' = [torn EXCEPT ![a] = @ \cup lost]

\* What a put of a conversation or an owner does to the histories of the others.
SinceConvPut(a, p, c) ==
  [i \in Instances |->
     IF doing[i].acc # a THEN doing[i]
     ELSE [doing[i] EXCEPT !.oldConv = @ \ {p},
                           !.mine = IF doing[i].op = "invalidate" /\ c = doing[i].conv
                                    THEN @ \cup {p} ELSE @]]

SinceOwnerPut(i, p, a) ==
  [k \in Instances |->
     IF k = i THEN [Rest EXCEPT !.op = "owner", !.acc = a, !.fp = p, !.at = "index"]
     ELSE IF doing[k].op = "reset" /\ doing[k].acc = a
     THEN [doing[k] EXCEPT !.oldOwner = @ \ {p}, !.mine = @ \cup {p}]
     ELSE doing[k]]

PutConversation(i, a, p, c) ==
  /\ AtRest(i) /\ Puts
  /\ convAt' = [convAt EXCEPT ![a][p] = c]
  /\ doing' = SinceConvPut(a, p, c)
  /\ UNCHANGED <<ownerAt, ownSet, torn, sweeps>>

\* PutOwner's pipeline: the owner first, then the index of its account. The
\* index of the owner before keeps the fingerprint.
PutOwner(i, p, a) ==
  /\ AtRest(i) /\ Puts
  /\ ownerAt' = [ownerAt EXCEPT ![p] = a]
  /\ doing' = SinceOwnerPut(i, p, a)
  /\ UNCHANGED <<convAt, ownSet, torn, sweeps>>

IndexesOwner(i) ==
  /\ doing[i].op = "owner"
  /\ ownSet' = [ownSet EXCEPT ![doing[i].acc] = @ \cup {doing[i].fp}]
  /\ Does(i, Rest)
  /\ UNCHANGED <<convAt, ownerAt, torn, puts, sweeps>>

OwnedBy(a) == {p \in Prints : ownerAt[p] = a}

BeingPut(a) ==
  {doing[k].fp : k \in {k \in Instances : doing[k].op = "owner" /\ doing[k].acc = a}}

ConvsOf(a) == {p \in Prints : convAt[a][p] # Nothing}

\* Reset: the conversations by SCAN and DEL, bucket by bucket.
StartsReset(i, a) ==
  /\ AtRest(i) /\ Sweeps
  /\ Does(i, [Rest EXCEPT !.op = "reset", !.acc = a, !.fp = 1, !.at = "scan",
                          !.oldConv = ConvsOf(a), !.oldOwner = OwnedBy(a) \ BeingPut(a),
                          !.mine = OwnedBy(a)])
  /\ UNCHANGED <<convAt, ownerAt, ownSet, torn, puts>>

\* InvalidateConversation: the conversations with the id, one by one.
StartsInvalidation(i, a, c) ==
  /\ AtRest(i) /\ Sweeps
  /\ Does(i, [Rest EXCEPT !.op = "invalidate", !.acc = a, !.conv = c, !.fp = 1, !.at = "scan",
                          !.mine = {p \in Prints : convAt[a][p] = c}])
  /\ UNCHANGED <<convAt, ownerAt, ownSet, torn, puts>>

Is(i, op, at) == doing[i].op = op /\ doing[i].at = at

\* Mutant: an invalidation deletes whatever the scan returns.
DeletesUnread(i) == TRUE

\* SCAN returns the key of the cursor's bucket if it is there. Reset deletes what
\* was returned; an invalidation reads the value first.
ReadsToDelete(i) ==
  doing[i].op = "invalidate" => convAt[doing[i].acc][doing[i].fp] = doing[i].conv

Found(i) == doing[i].fp \in ConvsOf(doing[i].acc)

Past(i) == [doing[i] EXCEPT !.at = "scan", !.fp = @ + 1]

\* The scan is over, after the last bucket or because it failed.
Scanned(i) == [doing[i] EXCEPT !.at = IF doing[i].op = "reset" THEN "members" ELSE "end"]

\* A SCAN that fails ends the scan, a GET that fails passes over its key.
Scans(i) ==
  /\ doing[i].at = "scan"
  /\ \/ /\ doing[i].fp \notin Prints
        /\ Does(i, Scanned(i))
     \/ /\ doing[i].fp \in Prints
        /\ Does(i, IF Found(i) /\ ReadsToDelete(i) THEN [doing[i] EXCEPT !.at = "delete"]
                   ELSE Past(i))
     \/ Stumbles(i, Scanned(i))
     \/ /\ doing[i].fp \in Prints /\ Found(i) /\ doing[i].op = "invalidate"
        /\ Stumbles(i, Past(i))
  /\ UNCHANGED <<convAt, ownerAt, ownSet, torn, puts, sweeps>>

\* A DEL that fails, carried out or not, ends scanDelete but not an invalidation.
DeletesConversation(i) ==
  LET without == [convAt EXCEPT ![doing[i].acc][doing[i].fp] = Nothing]
      hurts == doing[i].op = "invalidate" /\ doing[i].fp \notin doing[i].mine
      past == [Past(i) EXCEPT !.hurt = @ \/ hurts] IN
  /\ doing[i].at = "delete"
  /\ \/ convAt' = without /\ Does(i, past)
     \/ /\ convAt' \in {convAt, without}
        /\ Stumbles(i, IF doing[i].op = "reset" THEN [past EXCEPT !.at = "members"] ELSE past)
  /\ UNCHANGED <<ownerAt, ownSet, torn, puts, sweeps>>

\* SMEMBERS, without which a reset returns; a GET of every owner; one DEL of
\* those still the account's and of the index.
ReadsIndex(i) ==
  /\ Is(i, "reset", "members")
  /\ \/ Does(i, [doing[i] EXCEPT !.at = "owners", !.seen = ownSet[doing[i].acc], !.dead = {}])
     \/ Stumbles(i, [doing[i] EXCEPT !.at = "end"])
  /\ UNCHANGED <<convAt, ownerAt, ownSet, torn, puts, sweeps>>

\* Mutant: every owner in the index is deleted.
AllIndexed(i, p) == ownerAt[p] # Nothing

StillOwned(i, p) == ownerAt[p] = doing[i].acc

\* An owner that cannot be read is spared.
ReadsOwner(i, p) ==
  LET unread == [doing[i] EXCEPT !.seen = @ \ {p}] IN
  /\ Is(i, "reset", "owners")
  /\ p \in doing[i].seen
  /\ \/ Does(i, [unread EXCEPT !.dead = IF StillOwned(i, p) THEN @ \cup {p} ELSE @])
     \/ Stumbles(i, unread)
  /\ UNCHANGED <<convAt, ownerAt, ownSet, torn, puts, sweeps>>

\* The index goes with whatever it held: a fingerprint that was indexed since
\* SMEMBERS, or whose owner could not be read, is left without it.
DeletesOwners(i) ==
  LET a == doing[i].acc
      dead == doing[i].dead
      done == [doing[i] EXCEPT !.at = "end", !.hurt = @ \/ dead \ doing[i].mine # {}] IN
  /\ Is(i, "reset", "owners") /\ doing[i].seen = {}
  /\ \/ /\ ownerAt' = [p \in Prints |-> IF p \in dead THEN Nothing ELSE ownerAt[p]]
        /\ ownSet' = [ownSet EXCEPT ![a] = {}]
        /\ Tears(a, (OwnedBy(a) \cap ownSet[a]) \ dead)
        /\ Does(i, done) \/ Stumbles(i, done)
     \/ UNCHANGED <<ownerAt, ownSet, torn>> /\ Stumbles(i, done)
  /\ UNCHANGED <<convAt, puts, sweeps>>

Returns(i) ==
  /\ doing[i].at = "end"
  /\ Does(i, Rest)
  /\ UNCHANGED <<convAt, ownerAt, ownSet, torn, puts, sweeps>>

\* The instance dies, or PutOwner's pipeline breaks in the middle, which leaves
\* the index short.
Breaks(i) ==
  /\ ~AtRest(i)
  /\ Does(i, Rest)
  /\ IF doing[i].op = "owner" THEN Tears(doing[i].acc, {doing[i].fp}) ELSE UNCHANGED torn
  /\ UNCHANGED <<convAt, ownerAt, ownSet, puts, sweeps>>

\* A key's TTL is over. The index of an account is renewed with every owner it
\* gets, so it is the last of them to go.
ForgetsConversation(a, p) ==
  /\ convAt[a][p] # Nothing
  /\ convAt' = [convAt EXCEPT ![a][p] = Nothing]
  /\ UNCHANGED <<ownerAt, ownSet, doing, torn, puts, sweeps>>

ForgetsOwner(p) ==
  /\ ownerAt[p] # Nothing
  /\ ownerAt' = [ownerAt EXCEPT ![p] = Nothing]
  /\ UNCHANGED <<convAt, ownSet, doing, torn, puts, sweeps>>

ForgetsIndex(a) ==
  /\ ownSet[a] # {}
  /\ OwnedBy(a) = {}
  /\ ownSet' = [ownSet EXCEPT ![a] = {}]
  /\ UNCHANGED <<convAt, ownerAt, doing, torn, puts, sweeps>>

Forgets ==
  \E a \in Accounts :
    \/ \E p \in Prints : ForgetsConversation(a, p) \/ ForgetsOwner(p)
    \/ ForgetsIndex(a)

Operation(i) ==
  \/ \E a \in Accounts, p \in Prints :
       \/ \E c \in ConvIds : PutConversation(i, a, p, c)
       \/ PutOwner(i, p, a)
  \/ \E a \in Accounts :
       \/ StartsReset(i, a)
       \/ \E c \in ConvIds : StartsInvalidation(i, a, c)
  \/ IndexesOwner(i)
  \/ Scans(i) \/ DeletesConversation(i)
  \/ ReadsIndex(i) \/ (\E p \in Prints : ReadsOwner(i, p)) \/ DeletesOwners(i)
  \/ Returns(i) \/ Breaks(i)

RedisNext == Forgets \/ \E i \in Instances : Operation(i)

RedisSpec == RedisInit /\ [][RedisNext]_redisVars

-----------------------------------------------------------------------------
\* Properties.

\* A reset none of whose commands failed has removed every conversation that was
\* there when it began and was not put again, and every ownership, except of
\* fingerprints the index of the account has missed: by a put that broke, or by
\* an earlier reset that took the index from a put since or an owner it could not
\* read. One command that failed is enough for it to return with any of them left.
ResetForgets(i) ==
  Is(i, "reset", "end") /\ ~doing[i].failed =>
    /\ doing[i].oldConv \cap ConvsOf(doing[i].acc) = {}
    /\ doing[i].oldOwner \cap OwnedBy(doing[i].acc) \subseteq torn[doing[i].acc]

\* Whatever a reset or an invalidation deletes has been its own at some time
\* since it began, also when its commands fail on the way. Its reads and its
\* deletes are not one step: what another instance takes over in between goes too.
SweepSpares(i) == ~doing[i].hurt

SweepsAreExact == \A i \in Instances : ResetForgets(i) /\ SweepSpares(i)
==============================================================================

------------------------------- MODULE ApiKeys -------------------------------
\* The keys of the /v1 endpoints: their rows in api_keys, the slots of the
\* process that count a key's requests, what the dashboard does to them and the
\* check every request passes twice. (api/apikeys.go, store/store.go)
EXTENDS Integers, FiniteSets

CONSTANTS
  KeyIds,    \* rows; ids are AUTOINCREMENT, so a deleted one does not return
  Limits,    \* concurrency limits an administrator enters; 0 means none
  Quotas,    \* quota limits; 0 means none
  MaxEdits   \* bound: administrative steps and expiries

ASSUME KeysAssumption ==
  /\ "service" \notin KeyIds
  /\ Limits \subseteq Nat /\ Quotas \subseteq Nat /\ MaxEdits \in Nat

VARIABLES
  keyRow,    \* api_keys by id
  slots,     \* keySlots.m
  everMade,  \* ids used so far
  edits,
  edited     \* history: keys whose row has been changed since it was made

keyVars == <<keyRow, slots, everMade, edits, edited>>

NoKey == [made |-> FALSE]

Key == [made : {TRUE}, enabled : BOOLEAN, expired : BOOLEAN, limit : Limits,
        quota : Quotas, used : Nat]

KeysTypeOK ==
  /\ keyRow \in [KeyIds -> Key \cup {NoKey}]
  /\ slots \in [KeyIds -> Nat]
  /\ edits \in 0..MaxEdits
  /\ edited \subseteq everMade
  /\ \A k \in KeyIds : keyRow[k].made => k \in everMade

Keys == {k \in KeyIds : keyRow[k].made}

\* createKey's row: enabled, with nothing used.
NewKey(limit, quota) == [made |-> TRUE, enabled |-> TRUE, expired |-> FALSE,
                         limit |-> limit, quota |-> quota, used |-> 0]

NewKeys == {NewKey(limit, quota) : limit \in Limits, quota \in Quotas}

\* A gateway with keys starts with none in use; what can be edited is edited
\* later.
KeysInit ==
  /\ keyRow \in [KeyIds -> NewKeys \cup {NoKey}]
  /\ slots = [k \in KeyIds |-> 0]
  /\ everMade = Keys
  /\ edits = 0
  /\ edited = {}

\* What resolveKey says of a presented key: open (no key was ever made, or the
\* token of a service test), refused, or keyed. A key is an id of KeyIds;
\* "none" and "unknown" are no row's, "service" is a live svcToken.
Resolve(presented) ==
  IF Keys = {} THEN "open"
  ELSE IF presented = "service" THEN "open"
  ELSE IF presented \notin Keys THEN "refused"
  ELSE LET row == keyRow[presented] IN
       IF /\ row.enabled
          /\ ~row.expired
          /\ row.quota = 0 \/ row.used < row.quota
       THEN "keyed" ELSE "refused"

\* keySlots.acquire and release. An unlimited request is not counted, but every
\* keyed request gives a slot back, if one is taken.
MayAcquire(k, limit) == limit <= 0 \/ slots[k] < limit

\* Mutant: unlimited requests are counted as well.
AcquiredAlways(k, limit) == [slots EXCEPT ![k] = @ + 1]

Acquired(k, limit) ==
  IF limit <= 0 THEN slots ELSE [slots EXCEPT ![k] = @ + 1]

Released(k) == [slots EXCEPT ![k] = IF @ > 0 THEN @ - 1 ELSE 0]

\* chargeKey and AddAPIKeyUsage: an UPDATE, so a deleted key is left alone.
Charged(k, cost) ==
  IF keyRow[k].made /\ cost > 0 THEN [keyRow EXCEPT ![k].used = @ + cost] ELSE keyRow

Edits ==
  /\ edits < MaxEdits
  /\ edits' = edits + 1

CreateKey(k, limit, quota) ==
  /\ k \notin everMade
  /\ Edits
  /\ keyRow' = [keyRow EXCEPT ![k] = NewKey(limit, quota)]
  /\ everMade' = everMade \cup {k}
  /\ UNCHANGED <<slots, edited>>

\* updateKey writes every editable column; the expiry is set anew, what is used
\* stays.
UpdateKey(k, limit, quota, enabled) ==
  /\ k \in Keys
  /\ Edits
  /\ keyRow' = [keyRow EXCEPT ![k] = [@ EXCEPT !.limit = limit, !.quota = quota,
                                               !.enabled = enabled, !.expired = FALSE]]
  /\ edited' = edited \cup {k}
  /\ UNCHANGED <<slots, everMade>>

DeleteKey(k) ==
  /\ k \in Keys
  /\ Edits
  /\ keyRow' = [keyRow EXCEPT ![k] = NoKey]
  /\ UNCHANGED <<slots, everMade, edited>>

\* Time passes a key's expires_at.
ExpiresKey(k) ==
  /\ k \in Keys
  /\ ~keyRow[k].expired
  /\ Edits
  /\ keyRow' = [keyRow EXCEPT ![k] = [@ EXCEPT !.expired = TRUE]]
  /\ UNCHANGED <<slots, everMade, edited>>

Administers ==
  \E k \in KeyIds :
    \/ \E limit \in Limits, quota \in Quotas : CreateKey(k, limit, quota)
    \/ \E limit \in Limits, quota \in Quotas, on \in BOOLEAN : UpdateKey(k, limit, quota, on)
    \/ DeleteKey(k)
    \/ ExpiresKey(k)
==============================================================================

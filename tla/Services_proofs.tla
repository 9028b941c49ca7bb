--------------------------- MODULE Services_proofs ---------------------------
(***************************************************************************)
(* The parts around the core: what each promises, for every value of its   *)
(* constants, and that the parts side by side, as MCServices runs them,    *)
(* keep what each promises alone. (The streamed answer, the largest of     *)
(* them, has its proofs in AnswerStream_proofs.)                           *)
(***************************************************************************)
EXTENDS MCServices, AnswerStream_proofs

-----------------------------------------------------------------------------
(***************************************************************************)
(* RedisStore.  What an operation has seen stays true of a store that      *)
(* others change under it, because every put takes its fingerprint out of  *)
(* what the operation answers for and into what it may delete.             *)
(***************************************************************************)

\* The fingerprints an account owns, and those it has a conversation for, in the
\* tables o and c.
Owned(o, a) == {p \in Prints : o[p] = a}
Held(c, a) == {p \in Prints : c[a][p] # Nothing}

\* Of the conversations a reset d found, those left lie ahead of its cursor; of
\* the owners it found, those left and not torn are still to be read in the index.
ConvsFit(d, c) ==
  \A p \in d.oldConv \cap Held(c, d.acc) : d.at \in {"scan", "delete"} /\ p >= d.fp

Left(d, o, t) == (d.oldOwner \cap Owned(o, d.acc)) \ t[d.acc]

OwnersFit(d, o, s, t) ==
  /\ d.at \in {"scan", "delete", "members"} => Left(d, o, t) \subseteq s[d.acc]
  /\ d.at = "owners" => Left(d, o, t) \subseteq d.seen \cup d.dead
  /\ d.at = "end" => Left(d, o, t) = {}

\* A reset d may delete whatever the account owns, and unless one of its commands
\* has failed answers for what it found.
ResetFits(d, c, o, s, t) ==
  /\ d.at \in {"scan", "delete", "members", "owners", "end"}
  /\ d.fp \in Nat \ {0}
  /\ Owned(o, d.acc) \subseteq d.mine /\ d.dead \subseteq d.mine
  /\ ~d.failed => ConvsFit(d, c) /\ OwnersFit(d, o, s, t)

\* An invalidation d: it may delete whatever has its conversation.
InvalidationFits(d, c) ==
  /\ d.at \in {"scan", "delete", "end"}
  /\ d.conv \in ConvIds
  /\ \A p \in Prints : c[d.acc][p] = d.conv => p \in d.mine
  /\ d.at = "delete" => d.fp \in d.mine

Fits(d, c, o, s, t) ==
  /\ d.op = Nothing => d.at = Nothing
  /\ d.op = "owner" => d.at = "index"
  /\ d.op = "reset" => ResetFits(d, c, o, s, t)
  /\ d.op = "invalidate" => InvalidationFits(d, c)
  /\ ~d.hurt

AllFit == \A i \in Instances : Fits(doing[i], convAt, ownerAt, ownSet, torn)

\* What an account owns is in its index or about to be, or was torn out of it.
Indexed == \A a \in Accounts : OwnedBy(a) \subseteq ownSet[a] \cup BeingPut(a) \cup torn[a]

RedisInv == RedisTypeOK /\ AllFit /\ Indexed

Convs == [Accounts -> [Prints -> ConvIds \cup {Nothing}]]
Owners == [Prints -> Accounts \cup {Nothing}]
Indexes == [Accounts -> SUBSET Prints]

\* The store loses entries, and index entries only of what is owned no more or
\* torn by the loss.
Fades(c, o, s, t, cc, oo, ss, tt) ==
  /\ \A a \in Accounts, p \in Prints : cc[a][p] \in {c[a][p], Nothing}
  /\ \A p \in Prints : oo[p] \in {o[p], Nothing}
  /\ \A a \in Accounts : t[a] \subseteq tt[a]
  /\ \A a \in Accounts : Owned(oo, a) \cap s[a] \subseteq ss[a] \cup tt[a]

\* What fits a store fits it still when the store fades.
LEMMA FitsFading ==
  ASSUME NEW c, NEW o, NEW s, NEW t, NEW cc, NEW oo, NEW ss, NEW tt,
         Fades(c, o, s, t, cc, oo, ss, tt),
         NEW d \in Doing, d.op # Nothing => d.acc \in Accounts, Fits(d, c, o, s, t)
  PROVE  Fits(d, cc, oo, ss, tt)
<1>1. CASE d.op = "reset"
  <2>1. d.acc \in Accounts /\ d.acc # Nothing
    BY <1>1, RedisAssumption DEF Nothing
  <2>2. Owned(oo, d.acc) \subseteq Owned(o, d.acc) /\ Held(cc, d.acc) \subseteq Held(c, d.acc)
    BY <2>1 DEF Fades, Owned, Held
  <2>3. Owned(oo, d.acc) \cap s[d.acc] \subseteq ss[d.acc] \cup tt[d.acc] /\ t[d.acc] \subseteq tt[d.acc]
    BY <2>1 DEF Fades
  <2>4. ResetFits(d, c, o, s, t)
    BY <1>1 DEF Fits
  <2>a. Left(d, oo, tt) \subseteq Left(d, o, t) /\ (Left(d, o, t) \subseteq s[d.acc] => Left(d, oo, tt) \subseteq ss[d.acc])
    BY <2>2, <2>3 DEF Left
  <2>b. OwnersFit(d, o, s, t) => OwnersFit(d, oo, ss, tt)
    BY <2>a DEF OwnersFit
  <2>c. ConvsFit(d, c) => ConvsFit(d, cc)
    BY <2>2 DEF ConvsFit
  <2>5. ResetFits(d, cc, oo, ss, tt)
    BY <2>2, <2>4, <2>b, <2>c DEF ResetFits
  <2> QED
    BY <1>1, <2>5 DEF Fits, Nothing
<1>2. CASE d.op = "invalidate"
  <2>1. d.acc \in Accounts /\ InvalidationFits(d, c)
    BY <1>2 DEF Fits, Nothing
  <2>2. d.conv # Nothing
    BY <2>1, RedisAssumption DEF InvalidationFits
  <2>3. InvalidationFits(d, cc)
    BY <2>1, <2>2 DEF InvalidationFits, Fades
  <2> QED
    BY <1>2, <2>3 DEF Fits, Nothing
<1>3. CASE d.op \notin {"reset", "invalidate"}
  BY <1>3 DEF Fits
<1> QED
  BY <1>1, <1>2, <1>3

\* An instance at rest answers for nothing.
LEMMA RestFits ==
  Rest \in Doing /\ Rest.op = Nothing /\ Rest.at = Nothing
  /\ \A c, o, s, t : Fits(Rest, c, o, s, t)
<1>1. Rest \in Doing /\ Rest.op = Nothing /\ Rest.at = Nothing /\ ~Rest.hurt
  BY DEF Rest, Doing
<1> QED
  BY <1>1 DEF Fits, Nothing

\* Fingerprints are numbers, and there are finitely many.
LEMMA PrintsAre == Prints \subseteq Nat \ {0} /\ Cardinality(Prints) \in Nat
<1>1. Cardinality(Prints) \in Nat
  BY RedisAssumption, FS_CardinalityType
<1> QED
  BY <1>1, RedisAssumption

\* What fits a reset or an invalidation that has hurt nothing fits the operation.
LEMMA SweepFits ==
  ASSUME NEW d, NEW c, NEW o, NEW s, NEW t, d.hurt = FALSE
  PROVE  /\ d.op = "reset" /\ ResetFits(d, c, o, s, t) => Fits(d, c, o, s, t)
         /\ d.op = "invalidate" /\ InvalidationFits(d, c) => Fits(d, c, o, s, t)
BY DEF Fits, Nothing

\* The types of what an instance is at.
Sound(d) ==
  /\ d \in Doing
  /\ d.op # Nothing => d.acc \in Accounts
  /\ d.op = "owner" \/ d.at = "delete" => d.fp \in Prints

\* What the type invariant says, in the form the steps need.
LEMMA TypesSound ==
  ASSUME RedisTypeOK
  PROVE  /\ convAt \in Convs /\ ownerAt \in Owners /\ ownSet \in Indexes
         /\ doing \in [Instances -> Doing] /\ \A i \in Instances : Sound(doing[i])
         /\ torn \in Indexes /\ puts \in Nat /\ sweeps \in Nat
BY RedisAssumption DEF RedisTypeOK, Convs, Owners, Indexes, Sound

\* The way back, for the state after a step.
LEMMA SoundTypes ==
  ASSUME convAt' \in Convs, ownerAt' \in Owners, ownSet' \in Indexes,
         doing' \in [Instances -> Doing], \A i \in Instances : Sound(doing'[i]),
         torn' \in Indexes, puts' \in 0..MaxPuts, sweeps' \in 0..MaxSweeps
  PROVE  RedisTypeOK'
BY DEF RedisTypeOK, Convs, Owners, Indexes, Sound

Fading == Fades(convAt, ownerAt, ownSet, torn, convAt', ownerAt', ownSet', torn')

\* A step of one instance, in a store that only fades.
LEMMA DoesKeeps ==
  ASSUME RedisInv, NEW i \in Instances, NEW y, Sound(y),
         Fits(y, convAt', ownerAt', ownSet', torn'), Does(i, y), Fading
  PROVE  /\ doing' \in [Instances -> Doing] /\ \A j \in Instances : Sound(doing'[j])
         /\ AllFit'
<1>1. doing \in [Instances -> Doing] /\ \A j \in Instances : Sound(doing[j])
  BY TypesSound DEF RedisInv
<1>2. \A j \in Instances : doing'[j] = IF j = i THEN y ELSE doing[j]
  BY <1>1 DEF Does
<1>3. doing' \in [Instances -> Doing]
  BY <1>1 DEF Does, Sound
<1>4. ASSUME NEW j \in Instances
      PROVE  Fits(doing[j], convAt', ownerAt', ownSet', torn')
  BY <1>1, FitsFading DEF RedisInv, AllFit, Fading, Sound
<1>5. AllFit'
  BY <1>2, <1>4 DEF AllFit
<1> QED
  BY <1>1, <1>2, <1>3, <1>5

\* A step that puts no owner leaves those being put alone.
LEMMA BeingPutStays ==
  ASSUME RedisTypeOK, NEW i \in Instances, NEW y, Does(i, y),
         doing[i].op # "owner", y.op # "owner"
  PROVE  \A a \in Accounts : BeingPut(a)' = BeingPut(a)
<1>1. doing \in [Instances -> Doing]
  BY DEF RedisTypeOK
<1>2. \A j \in Instances : doing'[j] = IF j = i THEN y ELSE doing[j]
  BY <1>1 DEF Does
<1> QED
  BY <1>2 DEF BeingPut

\* A step that changes nothing in the store.
LEMMA LocalKeeps ==
  ASSUME RedisInv, NEW i \in Instances, NEW y, Sound(y),
         Fits(y, convAt, ownerAt, ownSet, torn), doing[i].op # "owner", y.op # "owner",
         Does(i, y), UNCHANGED <<convAt, ownerAt, ownSet, torn>>,
         puts' \in 0..MaxPuts, sweeps' \in 0..MaxSweeps
  PROVE  RedisInv'
<1>1. Fading
  BY DEF Fading, Fades
<1>2. /\ doing' \in [Instances -> Doing] /\ \A j \in Instances : Sound(doing'[j])
      /\ AllFit'
  BY <1>1, DoesKeeps
<1>3. RedisTypeOK'
  BY <1>2, TypesSound, SoundTypes DEF RedisInv
<1>4. \A a \in Accounts : BeingPut(a)' = BeingPut(a)
  BY BeingPutStays DEF RedisInv
<1>5. Indexed'
  BY <1>4 DEF RedisInv, Indexed, OwnedBy
<1> QED
  BY <1>2, <1>3, <1>5 DEF RedisInv

\* A new sweep begins on what the store holds.
LEMMA StartsKeep ==
  ASSUME RedisInv, NEW i \in Instances, NEW a \in Accounts,
         StartsReset(i, a) \/ \E c \in ConvIds : StartsInvalidation(i, a, c)
  PROVE  RedisInv'
<1>1. /\ UNCHANGED <<convAt, ownerAt, ownSet, torn>> /\ doing[i].op # "owner"
      /\ puts' \in 0..MaxPuts /\ sweeps' \in 0..MaxSweeps
  <2>1. UNCHANGED <<convAt, ownerAt, ownSet, torn, puts>> /\ AtRest(i) /\ Sweeps
    BY DEF StartsReset, StartsInvalidation
  <2>2. sweeps \in 0..MaxSweeps /\ puts \in 0..MaxPuts
    BY DEF RedisInv, RedisTypeOK
  <2>3. sweeps' \in 0..MaxSweeps
    BY <2>1, <2>2, RedisAssumption DEF Sweeps
  <2> QED
    BY <2>1, <2>2, <2>3 DEF AtRest, Nothing
<1>2. CASE StartsReset(i, a)
  <2> DEFINE convs == ConvsOf(a)
             owned == OwnedBy(a)
             old == owned \ BeingPut(a)
             y == [Rest EXCEPT !.op = "reset", !.acc = a, !.fp = 1, !.at = "scan",
                               !.oldConv = convs, !.oldOwner = old, !.mine = owned]
  <2>1. Does(i, y)
    BY <1>2 DEF StartsReset
  <2>2. convs \in SUBSET Prints /\ owned \in SUBSET Prints /\ old \in SUBSET owned
    BY DEF ConvsOf, OwnedBy
  <2>3. old \subseteq ownSet[a] \cup torn[a]
    BY DEF RedisInv, Indexed
  <2>4. owned = Owned(ownerAt, a)
    BY DEF OwnedBy, Owned
  <2> HIDE DEF convs, owned, old
  <2>5. /\ y \in Doing /\ y.op = "reset" /\ y.acc = a /\ y.fp = 1 /\ y.at = "scan"
        /\ y.oldConv = convs /\ y.oldOwner = old /\ y.mine = owned /\ y.dead = {} /\ y.hurt = FALSE
        /\ y.failed = FALSE
    BY <2>2 DEF Doing, Rest
  <2> HIDE DEF y
  <2>6. Sound(y)
    BY <2>5 DEF Sound
  <2>7. \A p \in convs : p >= 1
    BY <2>2, PrintsAre
  <2>a. ConvsFit(y, convAt) /\ OwnersFit(y, ownerAt, ownSet, torn)
    BY <2>2, <2>3, <2>5, <2>7 DEF ConvsFit, OwnersFit, Left
  <2>8. ResetFits(y, convAt, ownerAt, ownSet, torn)
    BY <2>2, <2>4, <2>5, <2>a DEF ResetFits
  <2>9. Fits(y, convAt, ownerAt, ownSet, torn)
    BY <2>5, <2>8, SweepFits
  <2> QED
    BY <1>1, <2>1, <2>5, <2>6, <2>9, LocalKeeps
<1>3. ASSUME NEW c \in ConvIds, StartsInvalidation(i, a, c)
      PROVE  RedisInv'
  <2> DEFINE with == {p \in Prints : convAt[a][p] = c}
             y == [Rest EXCEPT !.op = "invalidate", !.acc = a, !.conv = c, !.fp = 1, !.at = "scan",
                               !.mine = with]
  <2>1. Does(i, y)
    BY <1>3 DEF StartsInvalidation
  <2>2. with \in SUBSET Prints /\ \A p \in Prints : convAt[a][p] = c => p \in with
    OBVIOUS
  <2> HIDE DEF with
  <2>3. /\ y \in Doing /\ y.op = "invalidate" /\ y.acc = a /\ y.conv = c /\ y.at = "scan"
        /\ y.mine = with /\ y.hurt = FALSE
    BY <2>2 DEF Doing, Rest
  <2> HIDE DEF y
  <2>4. Sound(y) /\ Fits(y, convAt, ownerAt, ownSet, torn)
    BY <2>2, <2>3 DEF Sound, Fits, InvalidationFits, Nothing
  <2> QED
    BY <1>1, <2>1, <2>3, <2>4, LocalKeeps
<1> QED
  BY <1>2, <1>3

\* A sweep moves along SCAN's cursor, or reads the index.
LEMMA ReadsKeep ==
  ASSUME RedisInv, NEW i \in Instances,
         Scans(i) \/ ReadsIndex(i) \/ (\E p \in Prints : ReadsOwner(i, p)) \/ Returns(i)
  PROVE  RedisInv'
<1> DEFINE d == doing[i]
           a == d.acc
<1>1. /\ UNCHANGED <<convAt, ownerAt, ownSet, torn>> /\ d.at # "index"
      /\ puts' \in 0..MaxPuts /\ sweeps' \in 0..MaxSweeps
  BY DEF Scans, ReadsIndex, ReadsOwner, Returns, Is, RedisInv, RedisTypeOK
<1>2. Sound(d) /\ Fits(d, convAt, ownerAt, ownSet, torn)
  BY TypesSound DEF RedisInv, AllFit
<1>3. d.op # "owner"
  BY <1>1, <1>2 DEF Fits
<1>4. ASSUME NEW y, Does(i, y), Sound(y), y.op # "owner", Fits(y, convAt, ownerAt, ownSet, torn)
      PROVE  RedisInv'
  BY <1>1, <1>3, <1>4, LocalKeeps
<1>5. /\ d \in Doing /\ d.hurt = FALSE /\ d.fp \in Nat
      /\ d.op # Nothing => a \in Accounts
      /\ d.op = "reset" => ResetFits(d, convAt, ownerAt, ownSet, torn)
      /\ d.op = "invalidate" => InvalidationFits(d, convAt)
  BY <1>2 DEF Sound, Fits, Doing
<1>6. ASSUME NEW y \in Doing, Does(i, y), d.op = "reset", y.op = d.op, y.acc = d.acc,
             y.mine = d.mine, y.hurt = d.hurt,
             y.at \in {"scan", "delete", "members", "owners", "end"}, y.fp \in Nat \ {0},
             y.at = "delete" => y.fp \in Prints, y.dead \subseteq d.mine,
             y.failed \/ (ConvsFit(y, convAt) /\ OwnersFit(y, ownerAt, ownSet, torn))
      PROVE  RedisInv'
  <2>1. Sound(y) /\ y.op # "owner"
    BY <1>5, <1>6 DEF Sound, Nothing
  <2>2. ResetFits(y, convAt, ownerAt, ownSet, torn)
    BY <1>5, <1>6 DEF ResetFits
  <2>3. Fits(y, convAt, ownerAt, ownSet, torn)
    BY <1>5, <1>6, <2>2, SweepFits
  <2> QED
    BY <1>4, <1>6, <2>1, <2>3
<1>7. ASSUME NEW y \in Doing, Does(i, y), d.op = "invalidate", y.op = d.op, y.acc = d.acc,
             y.mine = d.mine, y.conv = d.conv, y.hurt = d.hurt, y.at \in {"scan", "delete", "end"},
             y.at = "delete" => y.fp \in Prints /\ y.fp \in d.mine
      PROVE  RedisInv'
  <2>1. Sound(y) /\ y.op # "owner"
    BY <1>5, <1>7 DEF Sound, Nothing
  <2>2. InvalidationFits(y, convAt)
    BY <1>5, <1>7 DEF InvalidationFits
  <2>3. Fits(y, convAt, ownerAt, ownSet, torn)
    BY <1>5, <1>7, <2>2, SweepFits
  <2> QED
    BY <1>4, <1>7, <2>1, <2>3
<1>8. CASE Scans(i)
  <2>1. d.at = "scan" /\ d.op \in {"reset", "invalidate"} /\ a \in Accounts
    BY <1>2, <1>5, <1>8 DEF Scans, Fits, Doing, Nothing
  <2>2. ASSUME NEW failed \in BOOLEAN, failed = TRUE \/ (failed = d.failed /\ d.fp \notin Prints),
               Does(i, [Scanned(i) EXCEPT !.failed = failed])
        PROVE  RedisInv'
    <3> DEFINE to == IF d.op = "reset" THEN "members" ELSE "end"
               y == [Scanned(i) EXCEPT !.failed = failed]
    <3>1. Does(i, y) /\ y = [d EXCEPT !.at = to, !.failed = failed]
      BY <1>5, <2>2 DEF Scanned, Doing
    <3>2. to \in {"members", "end"} /\ (d.op = "invalidate" => to = "end")
      OBVIOUS
    <3> HIDE DEF d, y, to
    <3>3. /\ y \in Doing /\ y.op = d.op /\ y.acc = d.acc /\ y.fp = d.fp /\ y.at = to /\ y.conv = d.conv
          /\ y.oldConv = d.oldConv /\ y.oldOwner = d.oldOwner /\ y.mine = d.mine
          /\ y.dead = d.dead /\ y.seen = d.seen /\ y.hurt = d.hurt
          /\ y.failed = failed
      BY <1>5, <3>1, <3>2 DEF Doing
    <3>4. CASE d.op = "reset"
      <4>1. ResetFits(d, convAt, ownerAt, ownSet, torn) /\ to = "members"
        BY <1>5, <3>4 DEF to
      <4>2. ASSUME ~failed
            PROVE  ConvsFit(y, convAt) /\ OwnersFit(y, ownerAt, ownSet, torn)
        <5>1. ConvsFit(d, convAt) /\ OwnersFit(d, ownerAt, ownSet, torn) /\ d.fp \notin Prints
          BY <2>2, <4>1, <4>2 DEF ResetFits
        <5>2. \A p \in d.oldConv \cap Held(convAt, d.acc) : p \in Prints /\ p >= d.fp
          BY <5>1 DEF ConvsFit, Held
        <5>3. d.fp \in Nat \ {0}
          BY <4>1 DEF ResetFits
        <5>4. d.oldConv \cap Held(convAt, d.acc) = {}
          BY <5>1, <5>2, <5>3, PrintsAre, RedisAssumption
        <5> QED
          BY <2>1, <3>3, <4>1, <5>1, <5>4 DEF ConvsFit, OwnersFit, Left
      <4> QED
        BY <1>6, <3>1, <3>3, <3>4, <4>1, <4>2 DEF ResetFits
    <3>5. CASE d.op = "invalidate"
      BY <1>7, <3>1, <3>2, <3>3, <3>5
    <3> QED
      BY <2>1, <3>4, <3>5
  <2>3. CASE Does(i, [d EXCEPT !.at = "delete"]) /\ d.fp \in Prints /\ ReadsToDelete(i)
    <3> DEFINE y == [d EXCEPT !.at = "delete"]
    <3>1. d.op = "invalidate" => convAt[d.acc][d.fp] = d.conv
      BY <2>3 DEF ReadsToDelete
    <3>2. Does(i, y)
      BY <2>3
    <3> HIDE DEF d
    <3>3. /\ y \in Doing /\ y.op = d.op /\ y.acc = d.acc /\ y.fp = d.fp
          /\ y.at = "delete" /\ y.conv = d.conv
          /\ y.oldConv = d.oldConv /\ y.oldOwner = d.oldOwner /\ y.mine = d.mine
          /\ y.dead = d.dead /\ y.seen = d.seen /\ y.hurt = d.hurt
          /\ y.failed = d.failed
      BY <1>5 DEF Doing
    <3> HIDE DEF y
    <3>4. CASE d.op = "reset"
      <4>1. ResetFits(d, convAt, ownerAt, ownSet, torn)
        BY <1>5, <3>4
      <4>2. d.failed \/ (ConvsFit(y, convAt) /\ OwnersFit(y, ownerAt, ownSet, torn))
        BY <2>1, <3>3, <4>1 DEF ResetFits, ConvsFit, OwnersFit, Left
      <4> QED
        BY <1>6, <2>3, <3>2, <3>3, <3>4, <4>1, <4>2 DEF ResetFits
    <3>5. CASE d.op = "invalidate"
      <4>1. d.fp \in d.mine
        BY <1>5, <2>3, <3>1, <3>5 DEF InvalidationFits
      <4> QED
        BY <1>7, <2>3, <3>2, <3>3, <3>5, <4>1
    <3> QED
      BY <2>1, <3>4, <3>5
  <2>4. ASSUME NEW failed \in BOOLEAN, failed = d.failed \/ d.op = "invalidate",
               Does(i, [Past(i) EXCEPT !.failed = failed]),
               d.fp \in Prints, d.op = "reset" => d.fp \notin ConvsOf(a)
        PROVE  RedisInv'
    <3> DEFINE y == [Past(i) EXCEPT !.failed = failed]
    <3>1. Does(i, y) /\ y = [d EXCEPT !.at = "scan", !.fp = d.fp + 1, !.failed = failed]
      BY <1>5, <2>4 DEF Past, Doing
    <3>2. d.op = "reset" => d.fp \notin Held(convAt, d.acc)
      BY <2>4 DEF ConvsOf, Held
    <3> HIDE DEF d, y
    <3>a. d \in Doing /\ d.fp + 1 \in Nat
      BY <1>5
    <3>3. /\ y \in Doing /\ y.op = d.op /\ y.acc = d.acc /\ y.fp = d.fp + 1
          /\ y.at = "scan" /\ y.conv = d.conv
          /\ y.oldConv = d.oldConv /\ y.oldOwner = d.oldOwner /\ y.mine = d.mine
          /\ y.dead = d.dead /\ y.seen = d.seen /\ y.hurt = d.hurt
          /\ y.failed = failed
      BY ONLY <2>4, <3>a, <3>1 DEF Doing
    <3>4. CASE d.op = "reset"
      <4>1. ResetFits(d, convAt, ownerAt, ownSet, torn) /\ failed = d.failed
        BY <1>5, <2>4, <3>4
      <4>2. ASSUME ~failed
            PROVE  ConvsFit(y, convAt) /\ OwnersFit(y, ownerAt, ownSet, torn)
        <5>1. ConvsFit(d, convAt) /\ OwnersFit(d, ownerAt, ownSet, torn)
          BY <4>1, <4>2 DEF ResetFits
        <5>2. \A p \in d.oldConv \cap Held(convAt, d.acc) : p \in Prints /\ p >= d.fp /\ p # d.fp
          BY <3>2, <3>4, <5>1 DEF ConvsFit, Held
        <5>3. \A p \in Prints : p >= d.fp /\ p # d.fp => p >= d.fp + 1
          BY <1>5, PrintsAre
        <5>4. ConvsFit(y, convAt)
          BY <3>3, <5>2, <5>3 DEF ConvsFit
        <5>5. OwnersFit(y, ownerAt, ownSet, torn)
          BY <2>1, <3>3, <5>1 DEF OwnersFit, Left
        <5> QED
          BY <5>4, <5>5
      <4>3. d.fp + 1 \in Nat \ {0} /\ d.dead \subseteq d.mine
        BY <1>5, <4>1 DEF ResetFits
      <4> QED
        BY <1>6, <3>1, <3>3, <3>4, <4>2, <4>3
    <3>5. CASE d.op = "invalidate"
      BY <1>7, <3>1, <3>3, <3>5
    <3> QED
      BY <2>1, <3>4, <3>5
  <2>5. /\ Scanned(i) = [Scanned(i) EXCEPT !.failed = d.failed]
        /\ Past(i) = [Past(i) EXCEPT !.failed = d.failed]
        /\ d.failed \in BOOLEAN
    BY <1>5 DEF Scanned, Past, Doing
  <2>6. \/ d.fp \notin Prints /\ Does(i, Scanned(i))
        \/ Stumbles(i, Scanned(i))
        \/ d.fp \in Prints /\ ReadsToDelete(i) /\ Does(i, [d EXCEPT !.at = "delete"])
        \/ d.fp \in Prints /\ ~(Found(i) /\ ReadsToDelete(i)) /\ Does(i, Past(i))
        \/ d.fp \in Prints /\ d.op = "invalidate" /\ Stumbles(i, Past(i))
    BY <1>8 DEF Scans
  <2>7. ~(Found(i) /\ ReadsToDelete(i)) => (d.op = "reset" => d.fp \notin ConvsOf(a))
    BY DEF Found, ReadsToDelete
  <2> QED
    BY <2>2, <2>3, <2>4, <2>5, <2>6, <2>7 DEF Stumbles
<1>9. CASE ReadsIndex(i)
  <2> DEFINE index == ownSet[a]
  <2>1. /\ d.op = "reset" /\ d.at = "members"
        /\ \/ Does(i, [d EXCEPT !.at = "owners", !.seen = index, !.dead = {}])
           \/ Does(i, [[d EXCEPT !.at = "end"] EXCEPT !.failed = TRUE])
    BY <1>9 DEF ReadsIndex, Is, Stumbles
  <2>2. a \in Accounts /\ index \in SUBSET Prints
    BY <1>5, <2>1, TypesSound DEF Nothing, RedisInv, Indexes
  <2>3. ResetFits(d, convAt, ownerAt, ownSet, torn)
    BY <1>5, <2>1
  <2>4. ~d.failed => Left(d, ownerAt, torn) \subseteq index /\ d.oldConv \cap Held(convAt, d.acc) = {}
    BY <2>1, <2>3 DEF ResetFits, ConvsFit, OwnersFit
  <2> HIDE DEF d, index
  <2>5. CASE Does(i, [d EXCEPT !.at = "owners", !.seen = index, !.dead = {}])
    <3> DEFINE y == [d EXCEPT !.at = "owners", !.seen = index, !.dead = {}]
    <3>1. /\ y \in Doing /\ y.op = d.op /\ y.acc = d.acc /\ y.fp = d.fp /\ y.at = "owners"
          /\ y.oldConv = d.oldConv /\ y.oldOwner = d.oldOwner /\ y.mine = d.mine
          /\ y.dead = {} /\ y.seen = index /\ y.hurt = d.hurt /\ y.failed = d.failed
      BY <1>5, <2>2 DEF Doing
    <3>2. Does(i, y)
      BY <2>5
    <3> HIDE DEF y
    <3>3. ~d.failed => ConvsFit(y, convAt) /\ OwnersFit(y, ownerAt, ownSet, torn)
      BY <2>4, <3>1 DEF ConvsFit, OwnersFit, Left
    <3>4. d.fp \in Nat \ {0} /\ y.dead \subseteq d.mine
      BY <2>3, <3>1 DEF ResetFits
    <3> QED
      BY <1>6, <2>1, <3>1, <3>2, <3>3, <3>4
  <2>6. CASE Does(i, [[d EXCEPT !.at = "end"] EXCEPT !.failed = TRUE])
    <3> DEFINE y == [[d EXCEPT !.at = "end"] EXCEPT !.failed = TRUE]
    <3>1. /\ y \in Doing /\ y.op = d.op /\ y.acc = d.acc /\ y.fp = d.fp /\ y.at = "end"
          /\ y.mine = d.mine /\ y.dead = d.dead /\ y.hurt = d.hurt /\ y.failed = TRUE
      BY <1>5 DEF Doing
    <3>2. Does(i, y)
      BY <2>6
    <3> HIDE DEF y
    <3> QED
      BY <1>6, <2>1, <2>3, <3>1, <3>2 DEF ResetFits
  <2> QED
    BY <2>1, <2>5, <2>6 DEF d, index
<1>10. ASSUME NEW p \in Prints, ReadsOwner(i, p)
       PROVE  RedisInv'
  <2> DEFINE dead == IF StillOwned(i, p) THEN d.dead \cup {p} ELSE d.dead
             unread == [d EXCEPT !.seen = d.seen \ {p}]
  <2>1. /\ d.op = "reset" /\ d.at = "owners"
        /\ Does(i, [unread EXCEPT !.dead = dead]) \/ Does(i, [unread EXCEPT !.failed = TRUE])
    BY <1>5, <1>10 DEF ReadsOwner, Is, Stumbles, Doing
  <2>2. dead \in SUBSET Prints
    BY <1>5 DEF Doing
  <2>3. ResetFits(d, convAt, ownerAt, ownSet, torn)
    BY <1>5, <2>1
  <2>4. /\ d.dead \subseteq dead /\ dead \subseteq d.dead \cup (Owned(ownerAt, d.acc) \cap {p})
        /\ Owned(ownerAt, d.acc) \cap {p} \subseteq dead
    BY DEF StillOwned, Owned
  <2> HIDE DEF d, dead
  <2>5. CASE Does(i, [unread EXCEPT !.dead = dead])
    <3> DEFINE y == [unread EXCEPT !.dead = dead]
    <3>1. /\ y \in Doing /\ y.op = d.op /\ y.acc = d.acc /\ y.fp = d.fp /\ y.at = d.at
          /\ y.oldConv = d.oldConv /\ y.oldOwner = d.oldOwner /\ y.mine = d.mine
          /\ y.dead = dead /\ y.seen = d.seen \ {p} /\ y.hurt = d.hurt /\ y.failed = d.failed
      BY <1>5, <2>2 DEF Doing
    <3>2. Does(i, y)
      BY <2>5
    <3> HIDE DEF y
    <3>3. d.fp \in Nat \ {0} /\ dead \subseteq d.mine
      BY <2>3, <2>4 DEF ResetFits
    <3>4. ASSUME ~d.failed
          PROVE  ConvsFit(y, convAt) /\ OwnersFit(y, ownerAt, ownSet, torn)
      <4>1. ConvsFit(d, convAt) /\ OwnersFit(d, ownerAt, ownSet, torn)
        BY <2>3, <3>4 DEF ResetFits
      <4>2. ConvsFit(y, convAt)
        BY <3>1, <4>1 DEF ConvsFit
      <4>3. Left(y, ownerAt, torn) = Left(d, ownerAt, torn)
        BY <3>1 DEF Left
      <4>4. Left(d, ownerAt, torn) \subseteq d.seen \cup d.dead
        BY <2>1, <4>1 DEF OwnersFit
      <4>5. Left(d, ownerAt, torn) \subseteq Owned(ownerAt, d.acc)
        BY DEF Left
      <4>6. Left(y, ownerAt, torn) \subseteq y.seen \cup y.dead
        BY <2>4, <3>1, <4>3, <4>4, <4>5
      <4> QED
        BY <2>1, <3>1, <4>2, <4>6 DEF OwnersFit
    <3> QED
      BY <1>6, <2>1, <3>1, <3>2, <3>3, <3>4
  <2>6. CASE Does(i, [unread EXCEPT !.failed = TRUE])
    <3> DEFINE y == [unread EXCEPT !.failed = TRUE]
    <3>1. /\ y \in Doing /\ y.op = d.op /\ y.acc = d.acc /\ y.fp = d.fp /\ y.at = d.at
          /\ y.mine = d.mine /\ y.dead = d.dead /\ y.hurt = d.hurt /\ y.failed = TRUE
      BY <1>5 DEF Doing
    <3>2. Does(i, y)
      BY <2>6
    <3> HIDE DEF y
    <3> QED
      BY <1>6, <2>1, <2>3, <3>1, <3>2 DEF ResetFits
  <2> QED
    BY <2>1, <2>5, <2>6 DEF d, dead
<1>11. CASE Returns(i)
  <2>1. Does(i, Rest)
    BY <1>11 DEF Returns
  <2>2. Sound(Rest) /\ Rest.op # "owner" /\ Fits(Rest, convAt, ownerAt, ownSet, torn)
    BY RestFits DEF Sound, Nothing
  <2> QED
    BY <1>4, <2>1, <2>2
<1> QED
  BY <1>8, <1>9, <1>10, <1>11

\* A conversation put: nobody answers for it any more, its invalidation may
\* delete it.
LEMMA PutConversationKeeps ==
  ASSUME RedisInv, NEW i \in Instances, NEW a \in Accounts, NEW p \in Prints, NEW c \in ConvIds,
         PutConversation(i, a, p, c)
  PROVE  RedisInv'
<1> DEFINE store == [convAt EXCEPT ![a][p] = c]
<1>1. /\ convAt' = store /\ doing' = SinceConvPut(a, p, c) /\ UNCHANGED <<ownerAt, ownSet, torn>>
      /\ puts' \in 0..MaxPuts /\ sweeps' \in 0..MaxSweeps
  <2>1. Puts /\ UNCHANGED sweeps /\ puts \in 0..MaxPuts /\ sweeps \in 0..MaxSweeps
    BY DEF PutConversation, RedisInv, RedisTypeOK
  <2>2. puts' \in 0..MaxPuts
    BY <2>1, RedisAssumption DEF Puts
  <2> QED
    BY <2>1, <2>2 DEF PutConversation
<1>2. convAt \in Convs
  BY TypesSound DEF RedisInv
<1>3. /\ store \in Convs
      /\ \A b \in Accounts, q \in Prints : store[b][q] = IF b = a /\ q = p THEN c ELSE convAt[b][q]
  BY <1>2 DEF Convs
<1> HIDE DEF store
<1>4. ASSUME NEW j \in Instances
      PROVE  /\ doing'[j] \in Doing /\ doing'[j].op = doing[j].op /\ doing'[j].acc = doing[j].acc
             /\ doing'[j].fp = doing[j].fp
             /\ Sound(doing'[j]) /\ Fits(doing'[j], store, ownerAt, ownSet, torn)
  <2> DEFINE d == doing[j]
             mine == IF d.op = "invalidate" /\ c = d.conv THEN d.mine \cup {p} ELSE d.mine
             y == [d EXCEPT !.oldConv = d.oldConv \ {p}, !.mine = mine]
  <2>1. doing'[j] = IF d.acc # a THEN d ELSE y
    BY <1>1 DEF SinceConvPut
  <2>2. Sound(d) /\ Fits(d, convAt, ownerAt, ownSet, torn)
    BY TypesSound DEF RedisInv, AllFit
  <2>3. d \in Doing
    BY <2>2 DEF Sound
  <2>4. /\ mine \in SUBSET Prints /\ d.mine \subseteq mine
        /\ d.op = "invalidate" /\ c = d.conv => p \in mine
    BY <2>3 DEF Doing
  <2>5. d.op = Nothing \/ d.acc \in Accounts
    BY <2>2 DEF Sound
  <2> HIDE DEF d, mine
  <2>6. /\ y \in Doing /\ y.op = d.op /\ y.acc = d.acc /\ y.fp = d.fp /\ y.at = d.at /\ y.conv = d.conv
        /\ y.oldConv = d.oldConv \ {p} /\ y.oldOwner = d.oldOwner /\ y.mine = mine
        /\ y.dead = d.dead /\ y.seen = d.seen /\ y.hurt = d.hurt
        /\ y.failed = d.failed
    BY <2>3, <2>4 DEF Doing
  <2> HIDE DEF y
  <2>7. Sound(y)
    BY <2>2, <2>6 DEF Sound
  <2>8. d.hurt = FALSE
    BY <2>2, <2>3 DEF Fits, Doing
  <2>9. CASE d.op = "reset"
    <3>1. ResetFits(d, convAt, ownerAt, ownSet, torn) /\ d.acc \in Accounts
      BY <2>2, <2>5, <2>9 DEF Fits, Nothing
    <3>2. ASSUME d.acc # a PROVE Fits(d, store, ownerAt, ownSet, torn)
      <4>1. Held(store, d.acc) = Held(convAt, d.acc)
        BY <1>3, <3>1, <3>2 DEF Held
      <4>2. ResetFits(d, store, ownerAt, ownSet, torn)
        BY <3>1, <4>1 DEF ResetFits, ConvsFit
      <4> QED
        BY <2>8, <2>9, <4>2, SweepFits
    <3>3. ASSUME d.acc = a PROVE Fits(y, store, ownerAt, ownSet, torn)
      <4>1. Held(store, a) \subseteq Held(convAt, a) \cup {p}
        BY <1>3 DEF Held
      <4>2. \A q \in y.oldConv \cap Held(store, y.acc) : q \in d.oldConv \cap Held(convAt, d.acc)
        BY <2>6, <3>3, <4>1
      <4>a. ConvsFit(d, convAt) => ConvsFit(y, store)
        BY <2>6, <4>2 DEF ConvsFit
      <4>b. OwnersFit(d, ownerAt, ownSet, torn) => OwnersFit(y, ownerAt, ownSet, torn)
        BY <2>6 DEF OwnersFit, Left
      <4>c. /\ d.mine \subseteq y.mine /\ y.dead = d.dead /\ y.at = d.at /\ y.fp = d.fp
            /\ y.acc = d.acc /\ y.failed = d.failed
        BY <2>4, <2>6
      <4>3. ResetFits(y, store, ownerAt, ownSet, torn)
        BY <3>1, <4>a, <4>b, <4>c DEF ResetFits
      <4> QED
        BY <2>6, <2>8, <2>9, <4>3, SweepFits
    <3> QED
      BY <2>1, <2>2, <2>3, <2>6, <2>7, <3>2, <3>3 DEF d
  <2>10. CASE d.op = "invalidate"
    <3>1. InvalidationFits(d, convAt) /\ d.acc \in Accounts
      BY <2>2, <2>5, <2>10 DEF Fits, Nothing
    <3>2. ASSUME d.acc # a PROVE Fits(d, store, ownerAt, ownSet, torn)
      <4>1. InvalidationFits(d, store)
        BY <1>3, <3>1, <3>2 DEF InvalidationFits
      <4> QED
        BY <2>8, <2>10, <4>1, SweepFits
    <3>3. ASSUME d.acc = a PROVE Fits(y, store, ownerAt, ownSet, torn)
      <4>1. \A q \in Prints : store[a][q] = d.conv => q \in mine
        BY <1>3, <2>4, <2>10, <3>1, <3>3 DEF InvalidationFits
      <4>2. InvalidationFits(y, store)
        BY <2>4, <2>6, <3>1, <3>3, <4>1 DEF InvalidationFits
      <4> QED
        BY <2>6, <2>8, <2>10, <4>2, SweepFits
    <3> QED
      BY <2>1, <2>2, <2>3, <2>6, <2>7, <3>2, <3>3 DEF d
  <2>11. CASE d.op \notin {"reset", "invalidate"}
    <3>1. Fits(d, store, ownerAt, ownSet, torn) /\ Fits(y, store, ownerAt, ownSet, torn)
      BY <2>2, <2>6, <2>8, <2>11 DEF Fits
    <3> QED
      BY <2>1, <2>2, <2>3, <2>6, <2>7, <3>1 DEF d
  <2> QED
    BY <2>9, <2>10, <2>11
<1>5. doing' \in [Instances -> Doing]
  BY <1>1, <1>4 DEF SinceConvPut
<1>6. AllFit'
  BY <1>1, <1>4 DEF AllFit
<1>7. RedisTypeOK'
  BY <1>1, <1>3, <1>4, <1>5, TypesSound, SoundTypes DEF RedisInv
<1>8. \A b \in Accounts : BeingPut(b)' = BeingPut(b)
  BY <1>4 DEF BeingPut
<1>9. Indexed'
  BY <1>1, <1>8 DEF RedisInv, Indexed, OwnedBy
<1> QED
  BY <1>6, <1>7, <1>9 DEF RedisInv

\* An owner put: no reset answers for it any more, every reset of its account may
\* delete it, and the account has it before its index does.
LEMMA PutOwnerKeeps ==
  ASSUME RedisInv, NEW i \in Instances, NEW p \in Prints, NEW a \in Accounts, PutOwner(i, p, a)
  PROVE  RedisInv'
<1> DEFINE store == [ownerAt EXCEPT ![p] = a]
           putting == [Rest EXCEPT !.op = "owner", !.acc = a, !.fp = p, !.at = "index"]
<1>1. /\ ownerAt' = store /\ doing' = SinceOwnerPut(i, p, a) /\ UNCHANGED <<convAt, ownSet, torn>>
      /\ puts' \in 0..MaxPuts /\ sweeps' \in 0..MaxSweeps /\ AtRest(i)
  <2>1. Puts /\ UNCHANGED sweeps /\ puts \in 0..MaxPuts /\ sweeps \in 0..MaxSweeps
    BY DEF PutOwner, RedisInv, RedisTypeOK
  <2>2. puts' \in 0..MaxPuts
    BY <2>1, RedisAssumption DEF Puts
  <2> QED
    BY <2>1, <2>2 DEF PutOwner
<1>2. ownerAt \in Owners
  BY TypesSound DEF RedisInv
<1>3. store \in Owners /\ \A q \in Prints : store[q] = IF q = p THEN a ELSE ownerAt[q]
  BY <1>2 DEF Owners
<1> HIDE DEF store
<1>4. /\ putting \in Doing /\ putting.op = "owner" /\ putting.acc = a /\ putting.fp = p
      /\ putting.at = "index" /\ putting.hurt = FALSE
  BY PrintsAre DEF Doing, Rest
<1> HIDE DEF putting
<1>5. Sound(putting) /\ Fits(putting, convAt, store, ownSet, torn)
  BY <1>4 DEF Sound, Fits, Nothing
<1>6. ASSUME NEW j \in Instances, j # i
      PROVE  /\ doing'[j] \in Doing /\ doing'[j].op = doing[j].op /\ doing'[j].acc = doing[j].acc
             /\ doing'[j].fp = doing[j].fp
             /\ Sound(doing'[j]) /\ Fits(doing'[j], convAt, store, ownSet, torn)
  <2> DEFINE d == doing[j]
             y == [d EXCEPT !.oldOwner = d.oldOwner \ {p}, !.mine = d.mine \cup {p}]
  <2>1. doing'[j] = IF d.op = "reset" /\ d.acc = a THEN y ELSE d
    BY <1>1, <1>6 DEF SinceOwnerPut
  <2>2. Sound(d) /\ Fits(d, convAt, ownerAt, ownSet, torn)
    BY TypesSound DEF RedisInv, AllFit
  <2>3. d \in Doing /\ (d.op = Nothing \/ d.acc \in Accounts)
    BY <2>2 DEF Sound
  <2>4. d.hurt = FALSE
    BY <2>2, <2>3 DEF Fits, Doing
  <2> HIDE DEF d
  <2>5. CASE d.op = "reset" /\ d.acc = a
    <3>1. /\ y \in Doing /\ y.op = d.op /\ y.acc = d.acc /\ y.fp = d.fp /\ y.at = d.at /\ y.conv = d.conv
          /\ y.oldConv = d.oldConv /\ y.oldOwner = d.oldOwner \ {p} /\ y.mine = d.mine \cup {p}
          /\ y.dead = d.dead /\ y.seen = d.seen /\ y.hurt = d.hurt
          /\ y.failed = d.failed
      BY <2>3 DEF Doing
    <3> HIDE DEF y
    <3>2. Sound(y)
      BY <2>2, <3>1 DEF Sound
    <3>3. ResetFits(d, convAt, ownerAt, ownSet, torn)
      BY <2>2, <2>5 DEF Fits
    <3>4. Owned(store, a) = Owned(ownerAt, a) \cup {p}
      BY <1>3 DEF Owned
    <3>5. y.oldOwner \cap Owned(store, a) \subseteq d.oldOwner \cap Owned(ownerAt, a)
      BY <3>1, <3>4
    <3>a. ConvsFit(d, convAt) => ConvsFit(y, convAt)
      BY <3>1 DEF ConvsFit
    <3>b. Left(y, store, torn) \subseteq Left(d, ownerAt, torn)
      BY <2>5, <3>1, <3>5 DEF Left
    <3>c. OwnersFit(d, ownerAt, ownSet, torn) => OwnersFit(y, store, ownSet, torn)
      BY <3>1, <3>b DEF OwnersFit
    <3>6. ResetFits(y, convAt, store, ownSet, torn)
      BY <2>5, <3>1, <3>3, <3>4, <3>a, <3>c DEF ResetFits
    <3>7. Fits(y, convAt, store, ownSet, torn)
      BY <2>4, <2>5, <3>1, <3>6, SweepFits
    <3> QED
      BY <2>1, <2>5, <3>1, <3>2, <3>7 DEF d
  <2>6. CASE d.op = "reset" /\ d.acc # a
    <3>1. ResetFits(d, convAt, ownerAt, ownSet, torn) /\ d.acc \in Accounts
      BY <2>2, <2>3, <2>6 DEF Fits, Nothing
    <3>2. Owned(store, d.acc) \subseteq Owned(ownerAt, d.acc)
      BY <1>3, <2>6, <3>1 DEF Owned
    <3>a. Left(d, store, torn) \subseteq Left(d, ownerAt, torn)
      BY <3>2 DEF Left
    <3>b. OwnersFit(d, ownerAt, ownSet, torn) => OwnersFit(d, store, ownSet, torn)
      BY <3>a DEF OwnersFit
    <3>3. ResetFits(d, convAt, store, ownSet, torn)
      BY <3>1, <3>2, <3>b DEF ResetFits
    <3>4. Fits(d, convAt, store, ownSet, torn)
      BY <2>4, <2>6, <3>3, SweepFits
    <3> QED
      BY <2>1, <2>2, <2>3, <2>6, <3>4 DEF d
  <2>7. CASE d.op # "reset"
    <3>1. Fits(d, convAt, store, ownSet, torn)
      BY <2>2, <2>7 DEF Fits
    <3> QED
      BY <2>1, <2>2, <2>3, <2>7, <3>1 DEF d
  <2> QED
    BY <2>5, <2>6, <2>7
<1>7. doing'[i] = putting
  BY <1>1 DEF SinceOwnerPut, putting
<1>8. doing' \in [Instances -> Doing] /\ \A j \in Instances : Sound(doing'[j])
  <2>1. \A j \in Instances : doing'[j] \in Doing
    BY <1>4, <1>6, <1>7
  <2>2. DOMAIN doing' = Instances /\ doing' = [j \in Instances |-> doing'[j]]
    BY <1>1 DEF SinceOwnerPut
  <2> QED
    BY <1>5, <1>6, <1>7, <2>1, <2>2
<1>9. AllFit'
  BY <1>1, <1>5, <1>6, <1>7 DEF AllFit
<1>10. RedisTypeOK'
  BY <1>1, <1>3, <1>8, TypesSound, SoundTypes DEF RedisInv
<1>11. ASSUME NEW b \in Accounts
       PROVE  OwnedBy(b)' \subseteq ownSet[b] \cup BeingPut(b)' \cup torn[b]
  <2>1. OwnedBy(b) \subseteq ownSet[b] \cup BeingPut(b) \cup torn[b]
    BY DEF RedisInv, Indexed
  <2>2. BeingPut(b) \subseteq BeingPut(b)'
    <3> SUFFICES ASSUME NEW k \in Instances, doing[k].op = "owner", doing[k].acc = b
                 PROVE  doing[k].fp \in BeingPut(b)'
      BY DEF BeingPut
    <3>1. k # i
      BY <1>1 DEF AtRest, Nothing
    <3>2. doing'[k].op = "owner" /\ doing'[k].acc = b /\ doing'[k].fp = doing[k].fp
      BY <1>6, <3>1
    <3> QED
      BY <3>2 DEF BeingPut
  <2>3. b = a => p \in BeingPut(b)'
    BY <1>4, <1>7 DEF BeingPut
  <2>4. OwnedBy(b)' \subseteq IF b = a THEN OwnedBy(b) \cup {p} ELSE OwnedBy(b)
    BY <1>1, <1>3 DEF OwnedBy
  <2> QED
    BY <2>1, <2>2, <2>3, <2>4
<1>12. Indexed'
  BY <1>1, <1>11 DEF Indexed
<1> QED
  BY <1>9, <1>10, <1>12 DEF RedisInv

\* An instance that puts no owner any more leaves the others' where they are.
LEMMA BeingPutLeaves ==
  ASSUME RedisTypeOK, NEW i \in Instances, NEW y, Does(i, y), NEW a, NEW p \in BeingPut(a)
  PROVE  p \in BeingPut(a)' \/ (doing[i].op = "owner" /\ doing[i].acc = a /\ doing[i].fp = p)
<1>1. doing \in [Instances -> Doing]
  BY DEF RedisTypeOK
<1>2. \A j \in Instances : doing'[j] = IF j = i THEN y ELSE doing[j]
  BY <1>1 DEF Does
<1>3. PICK k \in Instances : doing[k].op = "owner" /\ doing[k].acc = a /\ doing[k].fp = p
  BY DEF BeingPut
<1>4. CASE k = i
  BY <1>3, <1>4
<1>5. CASE k # i
  <2>1. doing'[k].op = "owner" /\ doing'[k].acc = a /\ doing'[k].fp = p
    BY <1>2, <1>3, <1>5
  <2> QED
    BY <2>1 DEF BeingPut
<1> QED
  BY <1>4, <1>5

\* The index gets the fingerprint in the same step as the put is over.
LEMMA IndexesOwnerKeeps ==
  ASSUME RedisInv, NEW i \in Instances, IndexesOwner(i)
  PROVE  RedisInv'
<1> DEFINE d == doing[i]
           indexes == [ownSet EXCEPT ![d.acc] = ownSet[d.acc] \cup {d.fp}]
<1>1. /\ d.op = "owner" /\ ownSet' = indexes /\ Does(i, Rest)
      /\ UNCHANGED <<convAt, ownerAt, torn, puts, sweeps>>
  BY DEF IndexesOwner
<1>2. ownSet \in Indexes /\ d.acc \in Accounts /\ d.fp \in Prints
  BY <1>1, TypesSound DEF RedisInv, Sound, Nothing
<1>3. /\ indexes \in Indexes
      /\ \A b \in Accounts : indexes[b] = IF b = d.acc THEN ownSet[b] \cup {d.fp} ELSE ownSet[b]
  BY <1>2 DEF Indexes
<1> HIDE DEF d, indexes
<1>4. Fading
  BY <1>1, <1>3 DEF Fading, Fades
<1>5. Sound(Rest) /\ Fits(Rest, convAt', ownerAt', ownSet', torn')
  BY RestFits DEF Sound, Nothing
<1>6. /\ doing' \in [Instances -> Doing] /\ \A j \in Instances : Sound(doing'[j])
      /\ AllFit'
  BY <1>1, <1>4, <1>5, DoesKeeps
<1>7. RedisTypeOK'
  <2>1. puts \in 0..MaxPuts /\ sweeps \in 0..MaxSweeps
    BY DEF RedisInv, RedisTypeOK
  <2> QED
    BY <1>1, <1>3, <1>6, <2>1, TypesSound, SoundTypes DEF RedisInv
<1>8. ASSUME NEW b \in Accounts
      PROVE  OwnedBy(b) \subseteq indexes[b] \cup BeingPut(b)' \cup torn[b]
  <2>1. OwnedBy(b) \subseteq ownSet[b] \cup BeingPut(b) \cup torn[b]
    BY DEF RedisInv, Indexed
  <2>2. \A p \in BeingPut(b) : p \in BeingPut(b)' \/ (d.acc = b /\ d.fp = p)
    BY <1>1, BeingPutLeaves DEF RedisInv, d
  <2> QED
    BY <1>3, <2>1, <2>2
<1>9. Indexed'
  BY <1>1, <1>8 DEF Indexed, OwnedBy
<1> QED
  BY <1>6, <1>7, <1>9 DEF RedisInv

\* A put that breaks off half-way tears its fingerprint out of the account's index.
LEMMA BreaksKeeps ==
  ASSUME RedisInv, NEW i \in Instances, Breaks(i)
  PROVE  RedisInv'
<1> DEFINE d == doing[i]
<1>1. /\ Does(i, Rest) /\ d.op # Nothing
      /\ IF d.op = "owner" THEN Tears(d.acc, {d.fp}) ELSE UNCHANGED torn
      /\ UNCHANGED <<convAt, ownerAt, ownSet, puts, sweeps>>
  BY DEF Breaks, AtRest
<1>2. /\ torn' \in Indexes /\ \A b \in Accounts : torn[b] \subseteq torn'[b]
      /\ d.op = "owner" => d.fp \in torn'[d.acc]
  <2>1. torn \in Indexes /\ Sound(d)
    BY TypesSound DEF RedisInv
  <2>2. CASE d.op = "owner"
    <3>1. d.fp \in Prints /\ d.acc \in Accounts
      BY <2>1, <2>2 DEF Sound, Nothing
    <3>2. torn' = [torn EXCEPT ![d.acc] = torn[d.acc] \cup {d.fp}]
      BY <1>1, <2>2 DEF Tears
    <3> HIDE DEF d
    <3> QED
      BY <2>1, <3>1, <3>2 DEF Indexes
  <2>3. CASE d.op # "owner"
    BY <1>1, <2>1, <2>3
  <2> QED
    BY <2>2, <2>3
<1>3. Fading
  BY <1>1, <1>2 DEF Fading, Fades
<1>4. Sound(Rest) /\ Fits(Rest, convAt', ownerAt', ownSet', torn')
  BY RestFits DEF Sound, Nothing
<1>5. /\ doing' \in [Instances -> Doing] /\ \A j \in Instances : Sound(doing'[j])
      /\ AllFit'
  BY <1>1, <1>3, <1>4, DoesKeeps
<1>6. RedisTypeOK'
  <2>1. puts \in 0..MaxPuts /\ sweeps \in 0..MaxSweeps
    BY DEF RedisInv, RedisTypeOK
  <2> QED
    BY <1>1, <1>2, <1>5, <2>1, TypesSound, SoundTypes DEF RedisInv
<1>7. ASSUME NEW b \in Accounts
      PROVE  OwnedBy(b) \subseteq ownSet[b] \cup BeingPut(b)' \cup torn'[b]
  <2>1. OwnedBy(b) \subseteq ownSet[b] \cup BeingPut(b) \cup torn'[b]
    BY <1>2 DEF RedisInv, Indexed
  <2>2. \A p \in BeingPut(b) : p \in BeingPut(b)' \/ (d.op = "owner" /\ d.acc = b /\ d.fp = p)
    BY <1>1, BeingPutLeaves DEF RedisInv
  <2> QED
    BY <1>2, <2>1, <2>2
<1>8. Indexed'
  BY <1>1, <1>7 DEF Indexed, OwnedBy
<1> QED
  BY <1>5, <1>6, <1>8 DEF RedisInv

\* A conversation that a sweep deletes lies behind its cursor from now on.
LEMMA DeletesConversationKeeps ==
  ASSUME RedisInv, NEW i \in Instances, DeletesConversation(i)
  PROVE  RedisInv'
<1> DEFINE d == doing[i]
           without == [convAt EXCEPT ![d.acc][d.fp] = Nothing]
           hurts == d.op = "invalidate" /\ d.fp \notin d.mine
           past == [Past(i) EXCEPT !.hurt = d.hurt \/ hurts]
           over == IF d.op = "reset" THEN [past EXCEPT !.at = "members"] ELSE past
<1>1. /\ d.at = "delete" /\ convAt' \in {convAt, without}
      /\ \/ convAt' = without /\ Does(i, past)
         \/ Does(i, [over EXCEPT !.failed = TRUE])
      /\ UNCHANGED <<ownerAt, ownSet, torn, puts, sweeps>>
  <2>1. Sound(d)
    BY TypesSound DEF RedisInv
  <2>2. [Past(i) EXCEPT !.hurt = Past(i).hurt \/ hurts] = past
    BY <2>1 DEF Past, Sound, Doing
  <2> QED
    BY <2>2 DEF DeletesConversation, Stumbles
<1>2. convAt \in Convs /\ Sound(d) /\ Fits(d, convAt, ownerAt, ownSet, torn)
  BY TypesSound DEF RedisInv, AllFit
<1>3. /\ d \in Doing /\ d.acc \in Accounts /\ d.fp \in Prints /\ d.op \in {"reset", "invalidate"}
  <2>1. d.op \in {"reset", "invalidate"} /\ d \in Doing /\ d.fp \in Prints
    BY <1>1, <1>2 DEF Fits, Sound, Doing, Nothing
  <2> QED
    BY <1>2, <2>1 DEF Sound, Nothing
<1>4. /\ without \in Convs
      /\ \A b \in Accounts, q \in Prints :
           without[b][q] = IF b = d.acc /\ q = d.fp THEN Nothing ELSE convAt[b][q]
  BY <1>2, <1>3 DEF Convs
<1>5. (d.hurt \/ hurts) = FALSE
  BY <1>1, <1>2, <1>3 DEF Fits, InvalidationFits, Doing
<1>6. d.fp \in Nat \ {0} /\ d.fp + 1 \in Nat \ {0}
  <2>1. d.fp \in Nat \ {0}
    BY <1>3, PrintsAre
  <2> HIDE DEF d
  <2> QED
    BY <2>1
<1>7. past = [d EXCEPT !.at = "scan", !.fp = d.fp + 1, !.hurt = FALSE]
  BY <1>3, <1>5 DEF Past, Doing
<1> HIDE DEF without, hurts, past
<1>8. convAt' \in Convs /\ Fading
  BY <1>1, <1>2, <1>4 DEF Fading, Fades
<1>9. ASSUME NEW y, Does(i, y), y.op = d.op, Sound(y), Fits(y, convAt', ownerAt, ownSet, torn)
      PROVE  RedisInv'
  <2>1. /\ doing' \in [Instances -> Doing] /\ \A j \in Instances : Sound(doing'[j])
        /\ AllFit'
    BY <1>1, <1>8, <1>9, DoesKeeps
  <2>2. RedisTypeOK'
    <3>1. puts \in 0..MaxPuts /\ sweeps \in 0..MaxSweeps
      BY DEF RedisInv, RedisTypeOK
    <3> QED
      BY <1>1, <1>8, <2>1, <3>1, TypesSound, SoundTypes DEF RedisInv
  <2>3. \A a \in Accounts : BeingPut(a)' = BeingPut(a)
    BY <1>3, <1>9, BeingPutStays DEF RedisInv
  <2>4. Indexed'
    BY <1>1, <2>3 DEF RedisInv, Indexed, OwnedBy
  <2> QED
    BY <2>1, <2>2, <2>4 DEF RedisInv
<1>10. CASE convAt' = without /\ Does(i, past)
  <2> DEFINE y == past
  <2>0. Does(i, y)
    BY <1>10
  <2> HIDE DEF d
  <2>1. /\ y \in Doing /\ y.op = d.op /\ y.acc = d.acc /\ y.fp = d.fp + 1 /\ y.at = "scan"
        /\ y.conv = d.conv /\ y.oldConv = d.oldConv /\ y.oldOwner = d.oldOwner /\ y.mine = d.mine
        /\ y.dead = d.dead /\ y.seen = d.seen /\ y.hurt = FALSE /\ y.failed = d.failed
    BY <1>3, <1>6, <1>7 DEF Doing
  <2> HIDE DEF y
  <2>2. Sound(y)
    BY <1>3, <2>1 DEF Sound
  <2>3. CASE d.op = "reset"
    <3>1. ResetFits(d, convAt, ownerAt, ownSet, torn)
      BY <1>2, <2>3 DEF Fits
    <3>2. ASSUME ~d.failed
          PROVE  ConvsFit(y, without) /\ OwnersFit(y, ownerAt, ownSet, torn)
      <4>1. ConvsFit(d, convAt) /\ OwnersFit(d, ownerAt, ownSet, torn)
        BY <3>1, <3>2 DEF ResetFits
      <4>2. \A q \in d.oldConv \cap Held(without, d.acc) : q \in Prints /\ q >= d.fp /\ q # d.fp
        BY <1>3, <1>4, <4>1 DEF ConvsFit, Held
      <4>3. \A q \in Prints : q >= d.fp /\ q # d.fp => q >= d.fp + 1
        BY <1>6, PrintsAre
      <4>4. ConvsFit(y, without)
        BY <2>1, <4>2, <4>3 DEF ConvsFit
      <4>5. OwnersFit(y, ownerAt, ownSet, torn)
        BY <1>1, <2>1, <4>1 DEF OwnersFit, Left
      <4> QED
        BY <4>4, <4>5
    <3>3. ResetFits(y, without, ownerAt, ownSet, torn)
      BY <1>6, <2>1, <3>1, <3>2 DEF ResetFits
    <3> QED
      BY <1>9, <1>10, <2>0, <2>1, <2>2, <2>3, <3>3, SweepFits
  <2>4. CASE d.op = "invalidate"
    <3>1. InvalidationFits(d, convAt)
      BY <1>2, <2>4 DEF Fits
    <3>2. d.conv # Nothing
      BY <3>1, RedisAssumption DEF InvalidationFits
    <3>3. InvalidationFits(y, without)
      BY <1>3, <1>4, <2>1, <3>1, <3>2 DEF InvalidationFits
    <3> QED
      BY <1>9, <1>10, <2>0, <2>1, <2>2, <2>4, <3>3, SweepFits
  <2> QED
    BY <1>3, <2>3, <2>4
<1>11. CASE Does(i, [over EXCEPT !.failed = TRUE])
  <2> DEFINE to == IF d.op = "reset" THEN "members" ELSE "scan"
             y == [over EXCEPT !.failed = TRUE]
  <2>0. Does(i, y)
    BY <1>11
  <2>1. y = [d EXCEPT !.at = to, !.fp = d.fp + 1, !.hurt = FALSE, !.failed = TRUE]
    BY <1>3, <1>7 DEF Doing
  <2>2. to \in {"members", "scan"} /\ (d.op = "invalidate" => to = "scan")
    OBVIOUS
  <2> HIDE DEF d, to, over
  <2>3. /\ y \in Doing /\ y.op = d.op /\ y.acc = d.acc /\ y.fp = d.fp + 1 /\ y.at = to
        /\ y.conv = d.conv /\ y.mine = d.mine /\ y.dead = d.dead /\ y.hurt = FALSE /\ y.failed = TRUE
    BY <1>3, <1>6, <2>1, <2>2 DEF Doing
  <2> HIDE DEF y
  <2>4. Sound(y)
    BY <1>3, <2>2, <2>3 DEF Sound
  <2>5. CASE d.op = "reset"
    <3>1. ResetFits(d, convAt, ownerAt, ownSet, torn)
      BY <1>2, <2>5 DEF Fits
    <3>2. ResetFits(y, convAt', ownerAt, ownSet, torn)
      BY <1>6, <2>2, <2>3, <3>1 DEF ResetFits
    <3> QED
      BY <1>9, <2>0, <2>3, <2>4, <2>5, <3>2, SweepFits
  <2>6. CASE d.op = "invalidate"
    <3>1. InvalidationFits(d, convAt)
      BY <1>2, <2>6 DEF Fits
    <3>2. d.conv # Nothing
      BY <3>1, RedisAssumption DEF InvalidationFits
    <3>3. \A q \in Prints : convAt'[d.acc][q] = d.conv => convAt[d.acc][q] = d.conv
      BY <1>1, <1>3, <1>4, <3>2
    <3>4. InvalidationFits(y, convAt')
      BY <2>2, <2>3, <2>6, <3>1, <3>3 DEF InvalidationFits
    <3> QED
      BY <1>9, <2>0, <2>3, <2>4, <2>6, <3>4, SweepFits
  <2> QED
    BY <1>3, <2>5, <2>6
<1> QED
  BY <1>1, <1>10, <1>11

\* A reset deletes the owners it found and the whole index: what that held and
\* the account still owned is either deleted with it, or torn.
LEMMA DeletesOwnersKeeps ==
  ASSUME RedisInv, NEW i \in Instances, DeletesOwners(i)
  PROVE  RedisInv'
<1> DEFINE d == doing[i]
           owners == [p \in Prints |-> IF p \in d.dead THEN Nothing ELSE ownerAt[p]]
           indexes == [ownSet EXCEPT ![d.acc] = {}]
           lost == (OwnedBy(d.acc) \cap ownSet[d.acc]) \ d.dead
           hurt == d.hurt \/ d.dead \ d.mine # {}
           done == [d EXCEPT !.at = "end", !.hurt = hurt]
<1>1. /\ d.op = "reset" /\ d.at = "owners" /\ d.seen = {}
      /\ \/ /\ ownerAt' = owners /\ ownSet' = indexes
            /\ torn' = [torn EXCEPT ![d.acc] = torn[d.acc] \cup lost]
            /\ Does(i, done) \/ Does(i, [done EXCEPT !.failed = TRUE])
         \/ UNCHANGED <<ownerAt, ownSet, torn>> /\ Does(i, [done EXCEPT !.failed = TRUE])
      /\ UNCHANGED <<convAt, puts, sweeps>>
  BY DEF DeletesOwners, Is, Tears, Stumbles
<1>2. /\ ownerAt \in Owners /\ ownSet \in Indexes /\ torn \in Indexes
      /\ Sound(d) /\ Fits(d, convAt, ownerAt, ownSet, torn)
  BY TypesSound DEF RedisInv, AllFit
<1>3. d \in Doing /\ d.acc \in Accounts /\ d.acc # Nothing
  BY <1>1, <1>2, RedisAssumption DEF Sound, Nothing
<1>4. ResetFits(d, convAt, ownerAt, ownSet, torn)
  BY <1>1, <1>2 DEF Fits
<1>5. hurt = FALSE
  BY <1>2, <1>3, <1>4 DEF Fits, ResetFits, Doing
<1>6. /\ owners \in Owners
      /\ \A p \in Prints : owners[p] = IF p \in d.dead THEN Nothing ELSE ownerAt[p]
  BY <1>2 DEF Owners
<1>7. /\ indexes \in Indexes
      /\ \A b \in Accounts : indexes[b] = IF b = d.acc THEN {} ELSE ownSet[b]
  BY <1>2, <1>3 DEF Indexes
<1>8. lost \in SUBSET Prints /\ OwnedBy(d.acc) \cap ownSet[d.acc] \subseteq d.dead \cup lost
  BY DEF OwnedBy
<1> HIDE DEF d, owners, indexes, lost, hurt
<1>9. /\ torn' \in Indexes /\ \A b \in Accounts : torn[b] \subseteq torn'[b]
      /\ ownSet' = indexes => lost \subseteq torn'[d.acc] \/ ownSet' = ownSet
  BY <1>1, <1>2, <1>3, <1>8 DEF Indexes
<1>10. \A b \in Accounts : Owned(owners, b) \subseteq Owned(ownerAt, b) \ (IF b = d.acc THEN d.dead ELSE {})
  <2>1. \A b \in Accounts : b # Nothing
    BY RedisAssumption
  <2> QED
    BY <1>3, <1>6, <2>1 DEF Owned
<1>11. /\ ownerAt' \in Owners /\ ownSet' \in Indexes
       /\ \A b \in Accounts : Owned(ownerAt', b) \subseteq Owned(ownerAt, b)
       /\ \A b \in Accounts : Owned(ownerAt', b) \cap ownSet[b] \subseteq ownSet'[b] \cup torn'[b]
  <2>1. CASE UNCHANGED <<ownerAt, ownSet, torn>>
    BY <1>2, <2>1
  <2>2. CASE /\ ownerAt' = owners /\ ownSet' = indexes
             /\ torn' = [torn EXCEPT ![d.acc] = torn[d.acc] \cup lost]
    <3>1. \A b \in Accounts : torn'[b] = IF b = d.acc THEN torn[b] \cup lost ELSE torn[b]
      BY <1>2, <2>2 DEF Indexes
    <3>2. OwnedBy(d.acc) = Owned(ownerAt, d.acc)
      BY DEF OwnedBy, Owned
    <3>3. ASSUME NEW b \in Accounts
          PROVE  Owned(ownerAt', b) \cap ownSet[b] \subseteq ownSet'[b] \cup torn'[b]
      <4>1. CASE b = d.acc
        BY <1>8, <1>10, <2>2, <3>1, <3>2, <4>1
      <4>2. CASE b # d.acc
        BY <1>7, <2>2, <4>2
      <4> QED
        BY <4>1, <4>2
    <3>4. \A b \in Accounts : Owned(ownerAt', b) \subseteq Owned(ownerAt, b)
      BY <1>10, <2>2
    <3> QED
      BY <1>6, <1>7, <2>2, <3>3, <3>4
  <2> QED
    BY <1>1, <2>1, <2>2
<1>12. Fading
  <2>1. \A p \in Prints : ownerAt'[p] \in {ownerAt[p], Nothing}
    BY <1>1, <1>6
  <2> QED
    BY <1>1, <1>9, <1>11, <2>1 DEF Fading, Fades
<1>13. ASSUME NEW failed \in BOOLEAN, Does(i, [done EXCEPT !.failed = failed]),
              failed \/ (failed = d.failed /\ ownerAt' = owners)
       PROVE  RedisInv'
  <2> DEFINE y == [done EXCEPT !.failed = failed]
  <2>0. Does(i, y)
    BY <1>13
  <2>1. /\ y \in Doing /\ y.op = d.op /\ y.acc = d.acc /\ y.fp = d.fp /\ y.at = "end"
        /\ y.oldConv = d.oldConv /\ y.oldOwner = d.oldOwner /\ y.mine = d.mine
        /\ y.dead = d.dead /\ y.hurt = FALSE /\ y.failed = failed
    BY <1>3, <1>5 DEF Doing
  <2> HIDE DEF y, done
  <2>2. Sound(y)
    BY <1>1, <1>3, <2>1 DEF Sound
  <2>3. ASSUME ~failed
        PROVE  ConvsFit(y, convAt) /\ OwnersFit(y, ownerAt', ownSet', torn')
    <3>1. ConvsFit(d, convAt) /\ OwnersFit(d, ownerAt, ownSet, torn) /\ ownerAt' = owners
      BY <1>4, <1>13, <2>3 DEF ResetFits
    <3>2. ConvsFit(y, convAt)
      BY <1>1, <2>1, <3>1 DEF ConvsFit
    <3>3. Left(d, ownerAt, torn) \subseteq d.dead
      BY <1>1, <3>1 DEF OwnersFit
    <3>4. Left(y, ownerAt', torn') \subseteq Left(d, ownerAt, torn) \ d.dead
      BY <1>3, <1>9, <1>10, <2>1, <3>1 DEF Left
    <3> QED
      BY <2>1, <3>2, <3>3, <3>4 DEF OwnersFit
  <2>4. ResetFits(y, convAt, ownerAt', ownSet', torn')
    BY <1>3, <1>4, <1>11, <2>1, <2>3 DEF ResetFits
  <2>5. Fits(y, convAt', ownerAt', ownSet', torn')
    BY <1>1, <2>1, <2>4, SweepFits
  <2>6. /\ doing' \in [Instances -> Doing] /\ \A j \in Instances : Sound(doing'[j])
        /\ AllFit'
    BY <1>12, <2>0, <2>2, <2>5, DoesKeeps
  <2>7. RedisTypeOK'
    <3>1. puts \in 0..MaxPuts /\ sweeps \in 0..MaxSweeps
      BY DEF RedisInv, RedisTypeOK
    <3> QED
      BY <1>1, <1>9, <1>11, <2>6, <3>1, TypesSound, SoundTypes DEF RedisInv
  <2>8. \A b \in Accounts : BeingPut(b)' = BeingPut(b)
    BY <1>1, <2>0, <2>1, BeingPutStays DEF RedisInv, d
  <2>9. ASSUME NEW b \in Accounts
        PROVE  Owned(ownerAt', b) \subseteq ownSet'[b] \cup BeingPut(b) \cup torn'[b]
    <3>1. Owned(ownerAt, b) \subseteq ownSet[b] \cup BeingPut(b) \cup torn[b]
      BY DEF RedisInv, Indexed, OwnedBy, Owned
    <3> QED
      BY <1>9, <1>11, <3>1
  <2>10. Indexed'
    BY <2>8, <2>9 DEF Indexed, OwnedBy, Owned
  <2> QED
    BY <2>6, <2>7, <2>10 DEF RedisInv
<1>14. done = [done EXCEPT !.failed = d.failed] /\ d.failed \in BOOLEAN
  BY <1>3 DEF Doing
<1> QED
  BY <1>1, <1>13, <1>14

\* A key whose time is over.
LEMMA ForgetsKeeps ==
  ASSUME RedisInv, Forgets
  PROVE  RedisInv'
<1>1. /\ convAt \in Convs /\ ownerAt \in Owners /\ ownSet \in Indexes
      /\ UNCHANGED <<doing, torn, puts, sweeps>>
  BY TypesSound DEF RedisInv, Forgets, ForgetsConversation, ForgetsOwner, ForgetsIndex
<1>2. ASSUME convAt' \in Convs, ownerAt' \in Owners, ownSet' \in Indexes, Fading,
             \A a \in Accounts : OwnedBy(a)' \subseteq OwnedBy(a),
             \A a \in Accounts : OwnedBy(a)' \cap ownSet[a] \subseteq ownSet'[a]
      PROVE  RedisInv'
  <2>1. AllFit'
    <3> SUFFICES ASSUME NEW j \in Instances
                 PROVE  Fits(doing[j], convAt', ownerAt', ownSet', torn')
      BY <1>1 DEF AllFit
    <3> QED
      BY <1>2, FitsFading, TypesSound DEF RedisInv, AllFit, Fading, Sound
  <2>2. RedisTypeOK'
    <3>1. puts \in 0..MaxPuts /\ sweeps \in 0..MaxSweeps
      BY DEF RedisInv, RedisTypeOK
    <3> QED
      BY <1>1, <1>2, <3>1, TypesSound, SoundTypes DEF RedisInv
  <2>3. \A a \in Accounts : BeingPut(a)' = BeingPut(a)
    BY <1>1 DEF BeingPut
  <2>4. Indexed'
    BY <1>1, <1>2, <2>3 DEF RedisInv, Indexed
  <2> QED
    BY <2>1, <2>2, <2>4 DEF RedisInv
<1>3. ASSUME NEW a \in Accounts, NEW p \in Prints, ForgetsConversation(a, p)
      PROVE  RedisInv'
  <2>1. /\ convAt' = [convAt EXCEPT ![a][p] = Nothing] /\ UNCHANGED <<ownerAt, ownSet, torn>>
    BY <1>1, <1>3 DEF ForgetsConversation
  <2>2. /\ convAt' \in Convs
        /\ \A b \in Accounts, q \in Prints :
             convAt'[b][q] = IF b = a /\ q = p THEN Nothing ELSE convAt[b][q]
    BY <1>1, <2>1 DEF Convs
  <2>3. Fading
    BY <2>1, <2>2 DEF Fading, Fades
  <2> QED
    BY <1>1, <1>2, <2>1, <2>2, <2>3 DEF OwnedBy
<1>4. ASSUME NEW p \in Prints, ForgetsOwner(p)
      PROVE  RedisInv'
  <2>1. /\ ownerAt' = [ownerAt EXCEPT ![p] = Nothing] /\ UNCHANGED <<convAt, ownSet, torn>>
    BY <1>1, <1>4 DEF ForgetsOwner
  <2>2. /\ ownerAt' \in Owners
        /\ \A q \in Prints : ownerAt'[q] = IF q = p THEN Nothing ELSE ownerAt[q]
    BY <1>1, <2>1 DEF Owners
  <2>3. Fading
    BY <2>1, <2>2 DEF Fading, Fades
  <2>4. \A a \in Accounts : a # Nothing
    BY RedisAssumption
  <2> QED
    BY <1>1, <1>2, <2>1, <2>2, <2>3, <2>4 DEF OwnedBy
<1>5. ASSUME NEW a \in Accounts, ForgetsIndex(a)
      PROVE  RedisInv'
  <2>1. /\ OwnedBy(a) = {} /\ ownSet' = [ownSet EXCEPT ![a] = {}]
        /\ UNCHANGED <<convAt, ownerAt, torn>>
    BY <1>1, <1>5 DEF ForgetsIndex
  <2>2. /\ ownSet' \in Indexes
        /\ \A b \in Accounts : ownSet'[b] = IF b = a THEN {} ELSE ownSet[b]
    BY <1>1, <2>1 DEF Indexes
  <2>3. Fading
    BY <2>1, <2>2 DEF Fading, Fades, OwnedBy, Owned
  <2> QED
    BY <1>1, <1>2, <2>1, <2>2, <2>3 DEF OwnedBy
<1> QED
  BY <1>3, <1>4, <1>5 DEF Forgets

\* Every command, expiry and failure keeps the invariant.
LEMMA RedisNextKeeps == RedisInv /\ [RedisNext]_redisVars => RedisInv'
<1> SUFFICES ASSUME RedisInv, [RedisNext]_redisVars
             PROVE  RedisInv'
  OBVIOUS
<1>1. CASE Forgets
  BY <1>1, ForgetsKeeps
<1>2. ASSUME NEW i \in Instances, Operation(i)
      PROVE  RedisInv'
  <2>1. ASSUME NEW a \in Accounts, NEW p \in Prints,
               PutOwner(i, p, a) \/ \E c \in ConvIds : PutConversation(i, a, p, c)
        PROVE  RedisInv'
    BY <2>1, PutOwnerKeeps, PutConversationKeeps
  <2>2. ASSUME NEW a \in Accounts,
               StartsReset(i, a) \/ \E c \in ConvIds : StartsInvalidation(i, a, c)
        PROVE  RedisInv'
    BY <2>2, StartsKeep
  <2>3. CASE IndexesOwner(i)
    BY <2>3, IndexesOwnerKeeps
  <2>4. CASE Scans(i) \/ ReadsIndex(i) \/ (\E p \in Prints : ReadsOwner(i, p)) \/ Returns(i)
    BY <2>4, ReadsKeep
  <2>5. CASE DeletesConversation(i)
    BY <2>5, DeletesConversationKeeps
  <2>6. CASE DeletesOwners(i)
    BY <2>6, DeletesOwnersKeeps
  <2>7. CASE Breaks(i)
    BY <2>7, BreaksKeeps
  <2> QED
    BY <1>2, <2>1, <2>2, <2>3, <2>4, <2>5, <2>6, <2>7 DEF Operation
<1>3. CASE UNCHANGED redisVars
  BY <1>3 DEF redisVars, RedisInv, RedisTypeOK, AllFit, Indexed, OwnedBy, BeingPut
<1> QED
  BY <1>1, <1>2, <1>3 DEF RedisNext

\* An empty store fits every instance at rest.
LEMMA RedisInitKeeps == RedisInit => RedisInv
<1> SUFFICES ASSUME RedisInit
             PROVE  RedisInv
  OBVIOUS
<1>1. \A i \in Instances : doing[i] = Rest
  BY DEF RedisInit
<1>2. RedisTypeOK
  BY <1>1, RestFits, RedisAssumption DEF RedisInit, RedisTypeOK, Nothing
<1>3. AllFit
  BY <1>1, RestFits DEF AllFit
<1>4. Indexed
  <2>1. \A a \in Accounts : a # Nothing
    BY RedisAssumption
  <2> QED
    BY <2>1 DEF RedisInit, Indexed, OwnedBy
<1> QED
  BY <1>2, <1>3, <1>4 DEF RedisInv

\* RedisInv holds in every state of the store.
THEOREM RedisSpecInv == RedisSpec => []RedisInv
BY RedisInitKeeps, RedisNextKeeps, PTL DEF RedisSpec

\* The store's tables, indexes and operations keep their types.
THEOREM RedisSpecTypeOK == RedisSpec => []RedisTypeOK
<1>1. RedisInv => RedisTypeOK
  BY DEF RedisInv
<1> QED
  BY <1>1, RedisSpecInv, PTL

\* A reset none of whose commands failed has forgotten what it found, and neither
\* a reset nor an invalidation ever deletes what was not its own since it began.
THEOREM RedisSpecSweepsAreExact == RedisSpec => []SweepsAreExact
<1>1. RedisInv => SweepsAreExact
  <2> SUFFICES ASSUME RedisInv, NEW i \in Instances
               PROVE  ResetForgets(i) /\ SweepSpares(i)
    BY DEF SweepsAreExact
  <2>1. Fits(doing[i], convAt, ownerAt, ownSet, torn)
    BY DEF RedisInv, AllFit
  <2>2. SweepSpares(i)
    BY <2>1 DEF Fits, SweepSpares
  <2>3. ASSUME Is(i, "reset", "end"), ~doing[i].failed
        PROVE  /\ doing[i].oldConv \cap ConvsOf(doing[i].acc) = {}
               /\ doing[i].oldOwner \cap OwnedBy(doing[i].acc) \subseteq torn[doing[i].acc]
    <3>1. /\ doing[i].at = "end"
          /\ ConvsFit(doing[i], convAt) /\ OwnersFit(doing[i], ownerAt, ownSet, torn)
      BY <2>1, <2>3 DEF Fits, Is, ResetFits
    <3>2. /\ ConvsOf(doing[i].acc) = Held(convAt, doing[i].acc)
          /\ OwnedBy(doing[i].acc) = Owned(ownerAt, doing[i].acc)
      BY DEF ConvsOf, Held, OwnedBy, Owned
    <3> QED
      BY <3>1, <3>2 DEF ConvsFit, OwnersFit, Left
  <2> QED
    BY <2>2, <2>3 DEF ResetForgets
<1> QED
  BY <1>1, RedisSpecInv, PTL

-----------------------------------------------------------------------------
(***************************************************************************)
(* Toolsets.  A request is in a round with one account more than the       *)
(* rounds before it ruled out, and every name in the table comes from a    *)
(* tool some request declared or has in its history.                       *)
(***************************************************************************)

\* The accounts request y has asked: those it ruled out and, while it is with
\* one, that one, which it had not ruled out.
AskedFits(y) ==
  /\ IsFiniteSet(y.excluded)
  /\ y.at \in {"pick", "prepare", "post", "body", "judge"} => Cardinality(y.excluded) = y.round
  /\ y.at = "pick" => y.asked = y.excluded
  /\ y.at \in {"prepare", "post", "body", "judge"} =>
       y.acc \in TsAccounts \ y.excluded /\ y.asked = y.excluded \cup {y.acc}

\* What request y has been told fits the stream it was sent.
TurnFits(y) ==
  /\ y.started => y.at \in {"body", "judge", "over"}
  /\ y.started /\ y.at = "over" => y.said # "error"
  /\ y.said = "brokenOff" => y.started
  /\ y.at = "judge" => y.failure # Unset

\* Request r posts under a name that is its tool's own or is in the table n.
NameFits(r, y, n) ==
  /\ y.at \in {"post", "body"} =>
       Sent(Declares[r]) = Declares[r] \/ Sent(Declares[r]) \in DOMAIN n
  /\ y.tool # Unset /\ ~Confused(r) => y.tool = Declares[r]

\* Every name in the table n was made of a tool some request mentions.
TableFits(n) ==
  \A u \in DOMAIN n : \E q \in TsRequests : n[u] \in Mentions[q] /\ Sent(n[u]) = u

TsInv ==
  /\ ToolsetsTypeOK
  /\ TableFits(nameMap)
  /\ \A r \in TsRequests : AskedFits(ts[r]) /\ TurnFits(ts[r]) /\ NameFits(r, ts[r], nameMap)

\* The fields of a request are read off its record type.
LEMMA TsFields ==
  ASSUME NEW y \in TsRequestSet
  PROVE  /\ y.at \in {"pick", "prepare", "post", "body", "judge", "over"}
         /\ y.stream \in BOOLEAN /\ y.started \in BOOLEAN
         /\ y.round \in 0..Rounds /\ y.posts \in 0..PostTries
         /\ y.excluded \subseteq TsAccounts /\ y.asked \subseteq TsAccounts
         /\ y.acc \in TsAccounts \cup {Unset}
         /\ y.failure \in Failures \cup {Unset, "none"}
         /\ y.said \in {Unset, "answer", "error", "brokenOff"}
         /\ y.tool \in Tools \cup {Unset}
  BY DEF TsRequestSet

\* One account more than those that were ruled out.
LEMMA OneMore ==
  ASSUME NEW y, AskedFits(y), y.at \in {"prepare", "post", "body", "judge"}
  PROVE  IsFiniteSet(y.asked) /\ Cardinality(y.asked) = y.round + 1
  <1> DEFINE S == y.excluded
             x == y.acc
  <1>1. IsFiniteSet(S) /\ x \notin S /\ y.asked = S \cup {x} /\ Cardinality(S) = y.round
    BY DEF AskedFits
  <1> HIDE DEF S, x
  <1>2. IsFiniteSet(S \cup {x}) /\ Cardinality(S \cup {x}) = Cardinality(S) + 1
    BY <1>1, FS_AddElement
  <1> QED  BY <1>1, <1>2

\* One request's turn keeps the invariant if what it becomes fits, and if the
\* table loses no name.
LEMMA TurnKeeps ==
  ASSUME TsInv, NEW r \in TsRequests, NEW z \in TsRequestSet, Turns(r, z),
         AskedFits(z), TurnFits(z), NameFits(r, z, nameMap'),
         online' \subseteq TsAccounts,
         DOMAIN nameMap \subseteq DOMAIN nameMap',
         \A u \in DOMAIN nameMap' : nameMap'[u] \in Tools /\ Sent(nameMap'[u]) = u,
         TableFits(nameMap')
  PROVE  TsInv'
  <1>1. ToolsetsTypeOK'
    BY DEF TsInv, ToolsetsTypeOK, Turns
  <1>2. ASSUME NEW q \in TsRequests
        PROVE  AskedFits(ts'[q]) /\ TurnFits(ts'[q]) /\ NameFits(q, ts'[q], nameMap')
    <2>1. CASE q = r
      <3>1. ts'[q] = z  BY <2>1 DEF Turns, TsInv, ToolsetsTypeOK
      <3> QED  BY <3>1, <2>1
    <2>2. CASE q # r
      <3>1. ts'[q] = ts[q]  BY <2>2 DEF Turns, TsInv, ToolsetsTypeOK
      <3>2. AskedFits(ts[q]) /\ TurnFits(ts[q]) /\ NameFits(q, ts[q], nameMap)
        BY DEF TsInv
      <3>3. NameFits(q, ts[q], nameMap')  BY <3>2 DEF NameFits
      <3> QED  BY <3>1, <3>2, <3>3
    <2> QED  BY <2>1, <2>2
  <1>3. TableFits(nameMap)'  BY DEF TableFits
  <1> QED  BY <1>1, <1>2, <1>3 DEF TsInv, Confused, AskedFits, TurnFits, NameFits

\* The same when the table stays as it is.
LEMMA QuietTurn ==
  ASSUME TsInv, NEW r \in TsRequests, NEW z \in TsRequestSet, Turns(r, z),
         AskedFits(z), TurnFits(z), NameFits(r, z, nameMap),
         online' \subseteq TsAccounts, UNCHANGED nameMap
  PROVE  TsInv'
  <1>1. NameFits(r, z, nameMap')  BY DEF NameFits
  <1>2. \A u \in DOMAIN nameMap' : nameMap'[u] \in Tools /\ Sent(nameMap'[u]) = u
    BY DEF TsInv, ToolsetsTypeOK
  <1>3. TableFits(nameMap')  BY DEF TsInv, TableFits
  <1> QED  BY <1>1, <1>2, <1>3, TurnKeeps

\* A request that is over fits once it has been told what its stream allows.
LEMMA ToldFits ==
  ASSUME TsInv, NEW r \in TsRequests, NEW said \in {"answer", "error", "brokenOff"},
         said = "error" => ~ts[r].started, said = "brokenOff" => ts[r].started
  PROVE  /\ Tells(r, said) \in TsRequestSet
         /\ AskedFits(Tells(r, said)) /\ TurnFits(Tells(r, said))
         /\ NameFits(r, Tells(r, said), nameMap)
  <1> DEFINE y == ts[r]
             z == Tells(r, said)
  <1>0. y \in TsRequestSet /\ NameFits(r, y, nameMap)
    BY DEF TsInv, ToolsetsTypeOK
  <1>1. z \in TsRequestSet
    <2>1. TsRequest(y.stream) \in TsRequestSet
      <3>1. 0 \in 0..Rounds /\ 0 \in 0..PostTries  BY ToolsetsAssumption
      <3> QED  BY <1>0, <3>1 DEF TsRequest, TsRequestSet, Unset
    <2>2. \A w \in TsRequestSet : [w EXCEPT !.at = "over", !.said = said,
            !.started = y.started, !.tool = y.tool] \in TsRequestSet
      BY <1>0, ZenonT(60) DEF TsRequestSet
    <2>3. [TsRequest(y.stream) EXCEPT !.at = "over", !.said = said,
            !.started = y.started, !.tool = y.tool] \in TsRequestSet
      BY <2>1, <2>2
    <2> QED  BY <2>3 DEF Tells
  <1>2. /\ z.at = "over" /\ z.said = said /\ z.started = y.started /\ z.tool = y.tool
        /\ z.excluded = {}
    BY DEF Tells, TsRequest
  <1>3. AskedFits(z)  BY <1>2, FS_EmptySet DEF AskedFits
  <1>4. TurnFits(z)  BY <1>2 DEF TurnFits
  <1>5. NameFits(r, z, nameMap)  BY <1>0, <1>2 DEF NameFits
  <1> QED  BY <1>1, <1>3, <1>4, <1>5

\* An attempt that fails leaves the request with the account it had.
LEMMA FailureFits ==
  ASSUME TsInv, NEW r \in TsRequests, NEW kind \in Failures,
         ts[r].at \in {"prepare", "post", "body"}
  PROVE  /\ FailsAs(r, kind) \in TsRequestSet
         /\ AskedFits(FailsAs(r, kind)) /\ TurnFits(FailsAs(r, kind))
         /\ NameFits(r, FailsAs(r, kind), nameMap)
  <1> DEFINE y == ts[r]
             z == FailsAs(r, kind)
  <1>0. /\ y \in TsRequestSet /\ NameFits(r, y, nameMap)
        /\ AskedFits(y) /\ TurnFits(y)
    BY DEF TsInv, ToolsetsTypeOK
  <1>1. z \in TsRequestSet
    <2>1. 0 \in 0..PostTries  BY ToolsetsAssumption
    <2> QED  BY <1>0, <2>1 DEF FailsAs, TsRequestSet
  <1>2. /\ z.at = "judge" /\ z.said = y.said /\ z.started = y.started /\ z.tool = y.tool
        /\ z.excluded = y.excluded /\ z.asked = y.asked /\ z.acc = y.acc
        /\ z.round = y.round /\ z.failure = kind
    BY <1>0 DEF FailsAs, TsRequestSet
  <1>3. AskedFits(z)  BY <1>0, <1>2 DEF AskedFits
  <1>4. TurnFits(z)  BY <1>0, <1>2 DEF TurnFits, Failures, Unset
  <1>5. NameFits(r, z, nameMap)  BY <1>0, <1>2 DEF NameFits
  <1> QED  BY <1>1, <1>3, <1>4, <1>5

\* The name the upstream used leads back to the tool the client declared, unless
\* another tool that is mentioned has the same clean form.
LEMMA NameLeadsBack ==
  ASSUME TsInv, NEW r \in TsRequests, ts[r].at = "body"
  PROVE  /\ ToolSeen(r) \in Tools
         /\ ~Confused(r) => ToolSeen(r) = Declares[r]
  <1> DEFINE u == Sent(Declares[r])
  <1>0. Declares[r] \in Tools  BY ToolsetsAssumption
  <1>1. u = Declares[r] \/ u \in DOMAIN nameMap  BY DEF TsInv, NameFits
  <1>2. CASE u \in DOMAIN nameMap
    <2>1. PICK q \in TsRequests : nameMap[u] \in Mentions[q] /\ Sent(nameMap[u]) = u
      BY <1>2 DEF TsInv, TableFits
    <2>2. ToolSeen(r) = nameMap[u]  BY <1>2 DEF ToolSeen, MappedBack
    <2>3. nameMap[u] \in Tools  BY <1>2 DEF TsInv, ToolsetsTypeOK
    <2> QED  BY <2>1, <2>2, <2>3 DEF Confused
  <1>3. CASE u \notin DOMAIN nameMap
    <2>1. ToolSeen(r) = u  BY <1>3 DEF ToolSeen, MappedBack
    <2> QED  BY <1>0, <1>1, <1>3, <2>1
  <1> QED  BY <1>2, <1>3

\* Every step of a request, and every account that comes back, keeps the invariant.
LEMMA ToolsetsNextKeeps == TsInv /\ [ToolsetsNext]_tsVars => TsInv'
  <1> SUFFICES ASSUME TsInv, [ToolsetsNext]_tsVars PROVE TsInv'
    OBVIOUS
  <1> USE DEF Failures
  <1>0. CASE UNCHANGED tsVars
    BY <1>0 DEF tsVars, TsInv, ToolsetsTypeOK, TableFits, AskedFits, TurnFits, NameFits, Confused
  <1>a. CASE \E a \in TsAccounts : ComesBack(a)
    BY <1>a DEF ComesBack, TsInv, ToolsetsTypeOK, TableFits, AskedFits, TurnFits, NameFits, Confused
  <1>r. ASSUME NEW r \in TsRequests,
               \/ PicksAccount(r) \/ Prepares(r)
               \/ (\E busy \in BOOLEAN : NoAnswer(r, busy)) \/ GivesUpPosting(r) \/ StatusArrives(r)
               \/ BodyRead(r) \/ EventArrives(r) \/ (\E broken \in BOOLEAN : StreamStops(r, broken))
               \/ Answered(r) \/ BreaksOff(r) \/ Rejects(r) \/ NextRound(r)
        PROVE  TsInv'
    <2> DEFINE y == ts[r]
    <2>0. /\ y \in TsRequestSet /\ AskedFits(y) /\ TurnFits(y) /\ NameFits(r, y, nameMap)
          /\ online \subseteq TsAccounts /\ TableFits(nameMap)
      BY DEF TsInv, ToolsetsTypeOK
    <2>f. ASSUME NEW kind \in Failures, Turns(r, FailsAs(r, kind)), UNCHANGED <<online, nameMap>>,
                 y.at \in {"prepare", "post", "body"}
          PROVE  TsInv'
      <3>1. /\ FailsAs(r, kind) \in TsRequestSet
            /\ AskedFits(FailsAs(r, kind)) /\ TurnFits(FailsAs(r, kind))
            /\ NameFits(r, FailsAs(r, kind), nameMap)
        BY <2>f, FailureFits
      <3> QED  BY <2>0, <2>f, <3>1, QuietTurn
    <2>t. ASSUME NEW said \in {"answer", "error", "brokenOff"}, Turns(r, Tells(r, said)),
                 online' \subseteq TsAccounts, UNCHANGED nameMap,
                 said = "error" => ~y.started, said = "brokenOff" => y.started
          PROVE  TsInv'
      <3>1. /\ Tells(r, said) \in TsRequestSet
            /\ AskedFits(Tells(r, said)) /\ TurnFits(Tells(r, said))
            /\ NameFits(r, Tells(r, said), nameMap)
        BY <2>t, ToldFits
      <3> QED  BY <2>t, <3>1, QuietTurn
    <2>1. CASE PicksAccount(r)
      <3>1. CASE Turns(r, Tells(r, "error"))
        BY <2>0, <2>1, <2>t, <3>1 DEF PicksAccount, TurnFits
      <3>2. ASSUME NEW a \in online \ y.excluded,
                   Turns(r, [y EXCEPT !.at = "prepare", !.acc = a, !.asked = @ \cup {a}])
            PROVE  TsInv'
        <4> DEFINE z == [y EXCEPT !.at = "prepare", !.acc = a, !.asked = @ \cup {a}]
        <4>1. y.at = "pick" /\ a \in TsAccounts  BY <2>0, <2>1, <3>2 DEF PicksAccount
        <4>2. z \in TsRequestSet  BY <2>0, <4>1 DEF TsRequestSet
        <4>3. /\ z.at = "prepare" /\ z.said = y.said /\ z.started = y.started /\ z.tool = y.tool
              /\ z.excluded = y.excluded /\ z.asked = y.asked \cup {a} /\ z.acc = a
              /\ z.round = y.round
          BY <2>0 DEF TsRequestSet
        <4>4. AskedFits(z)  BY <2>0, <4>1, <4>3, <3>2 DEF AskedFits
        <4>5. TurnFits(z)  BY <2>0, <4>1, <4>3 DEF TurnFits
        <4>6. NameFits(r, z, nameMap)  BY <2>0, <4>3 DEF NameFits
        <4> QED  BY <2>0, <2>1, <3>2, <4>2, <4>4, <4>5, <4>6, QuietTurn DEF PicksAccount
      <3> QED  BY <2>1, <3>1, <3>2 DEF PicksAccount
    <2>2. CASE Prepares(r)
      <3>1. CASE UNCHANGED nameMap /\ \E kind \in {"auth", "rejected"} : Turns(r, FailsAs(r, kind))
        BY <2>2, <2>f, <3>1 DEF Prepares
      <3>2. ASSUME Turns(r, [y EXCEPT !.at = "post"]),
                   NEW from \in [Rewritten(r) -> Unfit(r)],
                   \A u \in Rewritten(r) : Sent(from[u]) = u,
                   nameMap' = [u \in DOMAIN nameMap \cup Rewritten(r) |->
                                 IF u \in Rewritten(r) THEN from[u] ELSE nameMap[u]]
            PROVE  TsInv'
        <4> DEFINE z == [y EXCEPT !.at = "post"]
                   d == Declares[r]
        <4>1. y.at = "prepare" /\ online' = online  BY <2>2 DEF Prepares
        <4>2. z \in TsRequestSet  BY <2>0 DEF TsRequestSet
        <4>3. /\ z.at = "post" /\ z.said = y.said /\ z.started = y.started /\ z.tool = y.tool
              /\ z.excluded = y.excluded /\ z.asked = y.asked /\ z.acc = y.acc
              /\ z.round = y.round
          BY <2>0 DEF TsRequestSet
        <4>4. AskedFits(z)  BY <2>0, <4>1, <4>3 DEF AskedFits
        <4>5. TurnFits(z)  BY <2>0, <4>1, <4>3 DEF TurnFits
        <4>6. Mentions[r] \subseteq Tools /\ d \in Mentions[r]  BY ToolsetsAssumption
        <4>7. /\ DOMAIN nameMap' = DOMAIN nameMap \cup Rewritten(r)
              /\ \A u \in Rewritten(r) : nameMap'[u] = from[u]
              /\ \A u \in DOMAIN nameMap \ Rewritten(r) : nameMap'[u] = nameMap[u]
          BY <3>2
        <4>8. \A u \in Rewritten(r) : from[u] \in Mentions[r]  BY <3>2 DEF Unfit
        <4>9. Sent(d) = d \/ Sent(d) \in DOMAIN nameMap'
          BY <4>6, <4>7 DEF Rewritten, Unfit
        <4>10. NameFits(r, z, nameMap')  BY <2>0, <4>3, <4>9 DEF NameFits
        <4>11. \A u \in DOMAIN nameMap' : nameMap'[u] \in Tools /\ Sent(nameMap'[u]) = u
          BY <3>2, <4>6, <4>7, <4>8 DEF TsInv, ToolsetsTypeOK
        <4>12. TableFits(nameMap')  BY <2>0, <3>2, <4>7, <4>8 DEF TableFits
        <4> QED  BY <2>0, <3>2, <4>1, <4>2, <4>4, <4>5, <4>7, <4>10, <4>11, <4>12, TurnKeeps
      <3> QED  BY <2>2, <3>1, <3>2 DEF Prepares
    <2>3. ASSUME NEW busy \in BOOLEAN, NoAnswer(r, busy)
          PROVE  TsInv'
      <3>1. CASE y.posts + 1 < PostTries
        <4> DEFINE z == [y EXCEPT !.posts = @ + 1]
        <4>1. z \in TsRequestSet  BY <2>0, <3>1, ToolsetsAssumption DEF TsRequestSet
        <4>2. /\ z.at = y.at /\ z.said = y.said /\ z.started = y.started /\ z.tool = y.tool
              /\ z.excluded = y.excluded /\ z.asked = y.asked /\ z.acc = y.acc
              /\ z.round = y.round /\ z.failure = y.failure
          BY <2>0 DEF TsRequestSet
        <4>3. AskedFits(z) /\ TurnFits(z) /\ NameFits(r, z, nameMap)
          BY <2>0, <4>2 DEF AskedFits, TurnFits, NameFits
        <4> QED  BY <2>0, <2>3, <3>1, <4>1, <4>3, QuietTurn DEF NoAnswer
      <3>2. CASE ~(y.posts + 1 < PostTries)
        <4> DEFINE kind == IF busy THEN "limited" ELSE "other"
        <4>1. kind \in Failures /\ Turns(r, FailsAs(r, kind))  BY <2>3, <3>2 DEF NoAnswer
        <4> QED  BY <2>3, <2>f, <4>1 DEF NoAnswer
      <3> QED  BY <3>1, <3>2
    <2>4. CASE GivesUpPosting(r)
      BY <2>4, <2>f DEF GivesUpPosting
    <2>5. CASE StatusArrives(r)
      <3>1. CASE \E kind \in {"auth", "rejected", "other"} : Turns(r, FailsAs(r, kind))
        BY <2>5, <2>f, <3>1 DEF StatusArrives
      <3>2. CASE Turns(r, [y EXCEPT !.at = "body"])
        <4> DEFINE z == [y EXCEPT !.at = "body"]
        <4>1. y.at = "post" /\ UNCHANGED <<online, nameMap>>  BY <2>5 DEF StatusArrives
        <4>2. z \in TsRequestSet  BY <2>0 DEF TsRequestSet
        <4>3. /\ z.at = "body" /\ z.said = y.said /\ z.started = y.started /\ z.tool = y.tool
              /\ z.excluded = y.excluded /\ z.asked = y.asked /\ z.acc = y.acc
              /\ z.round = y.round
          BY <2>0 DEF TsRequestSet
        <4>4. AskedFits(z) /\ TurnFits(z) /\ NameFits(r, z, nameMap)
          BY <2>0, <4>1, <4>3 DEF AskedFits, TurnFits, NameFits
        <4> QED  BY <2>0, <3>2, <4>1, <4>2, <4>4, QuietTurn
      <3> QED  BY <2>5, <3>1, <3>2 DEF StatusArrives
    <2>6. CASE BodyRead(r)
      <3>1. CASE Turns(r, [y EXCEPT !.at = "judge", !.failure = "none", !.tool = ToolSeen(r)])
        <4> DEFINE seen == ToolSeen(r)
        <4> DEFINE z == [y EXCEPT !.at = "judge", !.failure = "none", !.tool = seen]
        <4>1. y.at = "body" /\ UNCHANGED <<online, nameMap>>  BY <2>6 DEF BodyRead
        <4>2. seen \in Tools /\ (~Confused(r) => seen = Declares[r])  BY <4>1, NameLeadsBack
        <4> HIDE DEF seen
        <4>3. z \in TsRequestSet  BY <2>0, <4>2 DEF TsRequestSet
        <4>4. /\ z.at = "judge" /\ z.said = y.said /\ z.started = y.started /\ z.tool = seen
              /\ z.excluded = y.excluded /\ z.asked = y.asked /\ z.acc = y.acc
              /\ z.round = y.round /\ z.failure = "none"
          BY <2>0 DEF TsRequestSet
        <4>5. AskedFits(z) /\ TurnFits(z) /\ NameFits(r, z, nameMap)
          BY <2>0, <4>1, <4>2, <4>4 DEF AskedFits, TurnFits, NameFits, Unset
        <4> QED  BY <2>0, <3>1, <4>1, <4>3, <4>5, QuietTurn DEF seen
      <3>2. CASE \E kind \in {"limited", "rejected", "other"} : Turns(r, FailsAs(r, kind))
        BY <2>6, <2>f, <3>2 DEF BodyRead
      <3> QED  BY <2>6, <3>1, <3>2 DEF BodyRead
    <2>7. CASE EventArrives(r)
      <3>0. y.at = "body" /\ UNCHANGED <<online, nameMap>>  BY <2>7 DEF EventArrives
      <3>1. ASSUME NEW seen \in Tools \cup {Unset}, seen # Unset /\ ~Confused(r) => seen = Declares[r],
                   Turns(r, [y EXCEPT !.started = TRUE, !.tool = seen])
            PROVE  TsInv'
        <4> DEFINE z == [y EXCEPT !.started = TRUE, !.tool = seen]
        <4>3. z \in TsRequestSet  BY <2>0, <3>1 DEF TsRequestSet
        <4>4. /\ z.at = y.at /\ z.said = y.said /\ z.started = TRUE /\ z.tool = seen
              /\ z.excluded = y.excluded /\ z.asked = y.asked /\ z.acc = y.acc
              /\ z.round = y.round /\ z.failure = y.failure
          BY <2>0 DEF TsRequestSet
        <4>5. AskedFits(z) /\ TurnFits(z) /\ NameFits(r, z, nameMap)
          BY <2>0, <3>0, <3>1, <4>4 DEF AskedFits, TurnFits, NameFits
        <4> QED  BY <2>0, <3>0, <3>1, <4>3, <4>5, QuietTurn
      <3>2. CASE Turns(r, [y EXCEPT !.started = TRUE, !.tool = ToolSeen(r)])
        BY <3>0, <3>1, <3>2, NameLeadsBack
      <3>3. CASE Turns(r, [y EXCEPT !.started = TRUE])
        <4>1. [y EXCEPT !.started = TRUE] = [y EXCEPT !.started = TRUE, !.tool = y.tool]
          BY <2>0 DEF TsRequestSet
        <4>2. y.tool \in Tools \cup {Unset} /\ (y.tool # Unset /\ ~Confused(r) => y.tool = Declares[r])
          BY <2>0, TsFields DEF NameFits
        <4> QED  BY <3>1, <3>3, <4>1, <4>2
      <3> QED  BY <2>7, <3>2, <3>3 DEF EventArrives
    <2>8. ASSUME NEW broken \in BOOLEAN, StreamStops(r, broken)
          PROVE  TsInv'
      <3>0. y.at = "body" /\ UNCHANGED <<online, nameMap>>  BY <2>8 DEF StreamStops
      <3>1. CASE Turns(r, [y EXCEPT !.at = "judge", !.failure = "none"])
        <4> DEFINE z == [y EXCEPT !.at = "judge", !.failure = "none"]
        <4>3. z \in TsRequestSet  BY <2>0 DEF TsRequestSet
        <4>4. /\ z.at = "judge" /\ z.said = y.said /\ z.started = y.started /\ z.tool = y.tool
              /\ z.excluded = y.excluded /\ z.asked = y.asked /\ z.acc = y.acc
              /\ z.round = y.round /\ z.failure = "none"
          BY <2>0 DEF TsRequestSet
        <4>5. AskedFits(z) /\ TurnFits(z) /\ NameFits(r, z, nameMap)
          BY <2>0, <3>0, <4>4 DEF AskedFits, TurnFits, NameFits, Unset
        <4> QED  BY <2>0, <3>0, <3>1, <4>3, <4>5, QuietTurn
      <3>2. CASE \E kind \in {"limited", "other"} : Turns(r, FailsAs(r, kind))
        BY <3>0, <2>f, <3>2
      <3> QED
        <4>1. CASE broken  BY <2>8, <3>2, <4>1 DEF StreamStops
        <4>2. CASE ~broken /\ y.started  BY <2>8, <3>1, <4>2 DEF StreamStops
        <4>3. CASE ~broken /\ ~y.started  BY <2>8, <3>2, <4>3 DEF StreamStops
        <4> QED  BY <4>1, <4>2, <4>3
    <2>9. CASE Answered(r)
      BY <2>0, <2>9, <2>t DEF Answered
    <2>10. CASE BreaksOff(r)
      BY <2>0, <2>10, <2>t DEF BreaksOff
    <2>11. CASE Rejects(r)
      BY <2>0, <2>11, <2>t DEF Rejects
    <2>12. CASE NextRound(r)
      <3>1. /\ y.at = "judge" /\ ~y.started /\ online' \subseteq TsAccounts /\ nameMap' = nameMap
        BY <2>0, <2>12 DEF NextRound, JudgedAs, MayTurn
      <3>2. CASE y.round + 1 < Rounds
        <4> DEFINE z == [y EXCEPT !.at = "pick", !.round = @ + 1, !.excluded = NowExcluded(r)]
        <4>1. Turns(r, z)  BY <2>12, <3>2 DEF NextRound
        <4>2. /\ y.acc \in TsAccounts \ y.excluded /\ y.asked = y.excluded \cup {y.acc}
              /\ IsFiniteSet(y.excluded) /\ Cardinality(y.excluded) = y.round
          BY <2>0, <3>1 DEF AskedFits
        <4>3. NowExcluded(r) = y.asked  BY <4>2 DEF NowExcluded
        <4>4. /\ IsFiniteSet(y.asked) /\ Cardinality(y.asked) = y.round + 1
          BY <2>0, <3>1, OneMore
        <4>5. z \in TsRequestSet
          <5>1. y.round + 1 \in 0..Rounds  BY <2>0, <3>2, ToolsetsAssumption DEF TsRequestSet
          <5> QED  BY <2>0, <4>3, <5>1 DEF TsRequestSet
        <4>6. /\ z.at = "pick" /\ z.said = y.said /\ z.started = y.started /\ z.tool = y.tool
              /\ z.excluded = y.asked /\ z.asked = y.asked /\ z.acc = y.acc
              /\ z.round = y.round + 1
          BY <2>0, <4>3 DEF TsRequestSet
        <4>7. AskedFits(z)  BY <4>4, <4>6 DEF AskedFits
        <4>8. TurnFits(z)  BY <2>0, <3>1, <4>6 DEF TurnFits
        <4>9. NameFits(r, z, nameMap)  BY <2>0, <4>6 DEF NameFits
        <4> QED  BY <3>1, <4>1, <4>5, <4>7, <4>8, <4>9, QuietTurn
      <3>3. CASE ~(y.round + 1 < Rounds)
        <4>1. Turns(r, Tells(r, "error"))  BY <2>12, <3>3 DEF NextRound
        <4> QED  BY <2>t, <3>1, <4>1
      <3> QED  BY <3>2, <3>3
    <2> QED
      BY <1>r, <2>1, <2>2, <2>3, <2>4, <2>5, <2>6, <2>7, <2>8, <2>9, <2>10, <2>11, <2>12
  <1> QED  BY <1>0, <1>a, <1>r DEF ToolsetsNext

\* The invariant holds at the start: nobody has asked and the table is empty.
LEMMA ToolsetsInitKeeps == ToolsetsInit => TsInv
  <1> SUFFICES ASSUME ToolsetsInit PROVE TsInv
    OBVIOUS
  <1>1. DOMAIN nameMap = {}  BY DEF ToolsetsInit
  <1>2. ASSUME NEW r \in TsRequests
        PROVE  /\ ts[r] \in TsRequestSet
               /\ AskedFits(ts[r]) /\ TurnFits(ts[r]) /\ NameFits(r, ts[r], nameMap)
    <2>1. PICK stream \in BOOLEAN : ts[r] = TsRequest(stream)  BY DEF ToolsetsInit
    <2>2. 0 \in 0..Rounds /\ 0 \in 0..PostTries  BY ToolsetsAssumption
    <2>3. ts[r] \in TsRequestSet  BY <2>1, <2>2 DEF TsRequest, TsRequestSet, Unset
    <2>4. AskedFits(ts[r])  BY <2>1, FS_EmptySet DEF TsRequest, AskedFits
    <2>5. TurnFits(ts[r]) /\ NameFits(r, ts[r], nameMap)
      BY <2>1 DEF TsRequest, TurnFits, NameFits, Unset
    <2> QED  BY <2>3, <2>4, <2>5
  <1>3. ToolsetsTypeOK
    <2>1. ts \in [TsRequests -> TsRequestSet]  BY <1>2 DEF ToolsetsInit
    <2> QED  BY <1>1, <2>1 DEF ToolsetsInit, ToolsetsTypeOK
  <1> QED  BY <1>1, <1>2, <1>3 DEF TsInv, TableFits

\* The invariant holds throughout.
THEOREM ToolsetsSpecInv == ToolsetsSpec => []TsInv
  BY ToolsetsInitKeeps, ToolsetsNextKeeps, PTL DEF ToolsetsSpec

\* The requests, the accounts and the table keep their types (toolNameMap,
\* toolsets_shared.go).
THEOREM ToolsetsTypesCorrect == ToolsetsSpec => []ToolsetsTypeOK
  <1>1. TsInv => ToolsetsTypeOK  BY DEF TsInv
  <1> QED  BY <1>1, ToolsetsSpecInv, PTL

\* A request through the pass-through is asked of no account twice, its stream
\* begins once, and the tool its client is shown is the one it declared
\* (runToolsetsStream, unmapToolName), for any accounts, rounds and tools.
THEOREM ToolsetsKeepTheirPromise == ToolsetsSpec => []ToolsetsAnswer
  <1>1. TsInv => ToolsetsAnswer
    <2> SUFFICES ASSUME TsInv PROVE ToolsetsAnswer
      OBVIOUS
    <2>1. StreamIsOneTurn  BY DEF TsInv, TurnFits, StreamIsOneTurn
    <2>2. NamesReturn  BY DEF TsInv, NameFits, NamesReturn
    <2>3. ASSUME NEW r \in TsRequests, ts[r].at \in {"prepare", "post", "body"}
          PROVE  Cardinality(ts[r].asked) = ts[r].round + 1
      <3>1. AskedFits(ts[r])  BY DEF TsInv
      <3> QED  BY <2>3, <3>1, OneMore
    <2> QED  BY <2>1, <2>2, <2>3 DEF NoAccountTwice, ToolsetsAnswer
  <1> QED  BY <1>1, ToolsetsSpecInv, PTL

-----------------------------------------------------------------------------
(***************************************************************************)
(* WafProbe.  What a job has learned is judged by the lines that trip the  *)
(* firewall, which do not change: in fair weather a repetition tells the   *)
(* truth, and a job that was cancelled concludes nothing.                  *)
(***************************************************************************)

\* Where job y is among its requests: a request in the air is the running job's,
\* and only a job that was cancelled has stopped running before it is over.
StepFits(y) ==
  /\ y.live => y.step = "sending" /\ y.status = "running"
  /\ y.step = "sending" => y.live \/ y.cancelled
  /\ y.phase # "over" /\ ~y.cancelled => y.status = "running"
  /\ y.phase = "over" => y.step # "sending"
  /\ y.phase = "pick" => y.step = "pause"
  /\ y.status = "done" => y.phase = "over" /\ ~y.cancelled
  /\ y.step # "judge" /\ y.phase # "over" => y.rep < Reps
  /\ y.step = "judge" => y.cancelled \/ y.rep > 0

\* Where job y is among the leaves and their lines.
PlaceFits(y) ==
  /\ y.phase = "control" => y.hits = <<>>
  /\ y.phase = "leaf" => y.leaf \in LeafNos /\ \A i \in DOMAIN y.hits : y.hits[i] < y.leaf
  /\ y.phase = "pick" => y.found \in 1..Len(y.hits) + 1
  /\ y.phase \in {"left", "right"} =>
       /\ y.found \in DOMAIN y.hits /\ y.leaf = y.hits[y.found]
       /\ y.lo + 1 < y.hi /\ y.hi <= LineCounts[y.leaf]
  /\ IsInjective(y.hits)

\* The hits hs among the first m leaves are those the triggers t are in.
HitsFit(hs, m, t) ==
  /\ \A i \in DOMAIN hs : hs[i] \in 1..m /\ t[hs[i]] # {}
  /\ \A l \in 1..m : t[l] # {} => \E i \in DOMAIN hs : hs[i] = l

RightConclusion(c, t) ==
  /\ t[c.leaf] \subseteq c.lo..c.hi - 1
  /\ ~c.ambiguous => c.hi = c.lo + 1
  /\ c.ambiguous => Cardinality(t[c.leaf]) > 1

\* The conclusions cs are right, and they are about the first n hits.
ConcludedFits(cs, hs, n, t) ==
  /\ \A k \in DOMAIN cs : RightConclusion(cs[k], t) /\ \E i \in 1..n : cs[k].leaf = hs[i]
  /\ \A i \in 1..n : \E k \in DOMAIN cs : cs[k].leaf = hs[i]

Tripped(y, t) == y.phase # "control" /\ t[y.leaf] # {} /\ t[y.leaf] \subseteq SentLines(y)

Fair(y) == ~y.dirty /\ ~y.cancelled

\* What job y knows when no request was refused for another reason.
Knows(y, t) == Fair(y) =>
  /\ y.phase \in {"control", "leaf", "left", "right"} =>
       (y.blocked <=> y.rep > 0 /\ Tripped(y, t))
  /\ y.phase \in {"control", "leaf"} => y.concluded = <<>>
  /\ y.phase = "leaf" => HitsFit(y.hits, y.leaf - 1, t)
  /\ y.phase \in {"pick", "left", "right"} =>
       /\ HitsFit(y.hits, Len(LineCounts), t)
       /\ ConcludedFits(y.concluded, y.hits, y.found - 1, t)
  /\ y.phase \in {"left", "right"} => t[y.leaf] \subseteq y.lo..y.hi - 1
  /\ y.phase = "right" => ~(t[y.leaf] \subseteq y.lo..Mid(y) - 1)
  /\ y.status = "done" =>
       /\ HitsFit(y.hits, Len(LineCounts), t)
       /\ ConcludedFits(y.concluded, y.hits, Len(y.hits), t)

JobFits(y, t) == StepFits(y) /\ PlaceFits(y) /\ Knows(y, t)

ProbeInv ==
  /\ ProbeTypeOK
  /\ \A l \in LeafNos : trigger[l] \subseteq LinesOf(l)
  /\ \A j \in 1..current : job[j].status = "running" => j = current
  /\ \A j \in 1..current : JobFits(job[j], trigger)

-----------------------------------------------------------------------------

\* The leaves are numbered from one, and each has a line.
LEMMA LeavesAre ==
  /\ Len(LineCounts) \in Nat /\ LeafNos = 1..Len(LineCounts) /\ 1 \in LeafNos
  /\ \A l \in LeafNos : LineCounts[l] \in Nat /\ LineCounts[l] > 0
  BY ProbeAssumption DEF LeafNos

\* The fields of a job are read off its record type.
LEMMA JobFields ==
  ASSUME NEW y \in ProbeJobs
  PROVE  /\ y.status \in Status /\ y.phase \in Phase
         /\ y.leaf \in Nat /\ y.lo \in Nat /\ y.hi \in Nat /\ y.rep \in 0..Reps
         /\ y.step \in {"pause", "sending", "judge"} /\ y.found \in Nat
         /\ y.blocked \in BOOLEAN /\ y.dirty \in BOOLEAN /\ y.cancelled \in BOOLEAN
         /\ y.live \in BOOLEAN /\ y.hits \in Seq(LeafNos)
         /\ y.concluded \in Seq([leaf : LeafNos, lo : Nat, hi : Nat, ambiguous : BOOLEAN])
  BY DEF ProbeJobs

\* A new job has sent nothing and found nothing.
LEMMA NewJobFits ==
  NewJob \in ProbeJobs /\ Unseen \in ProbeJobs
  /\ \A t : JobFits(NewJob, t) /\ JobFits(Unseen, t)
  <1>1. NewJob \in ProbeJobs /\ Unseen \in ProbeJobs
    <2>1. \A S : <<>> \in Seq(S)  OBVIOUS
    <2>2. 0 \in 0..Reps  BY ProbeAssumption
    <2>3. NewJob \in ProbeJobs  BY <2>1, <2>2 DEF NewJob, ProbeJobs, Status, Phase
    <2>4. ASSUME NEW y \in ProbeJobs
          PROVE  [y EXCEPT !.phase = "over", !.status = "aborted"] \in ProbeJobs
      BY DEF ProbeJobs, Status, Phase
    <2> QED  BY <2>3, <2>4 DEF Unseen
  <1>2. PlaceFits(NewJob) /\ PlaceFits(Unseen)
    BY DEF PlaceFits, NewJob, Unseen, IsInjective
  <1>3. StepFits(NewJob) /\ StepFits(Unseen)
    BY ProbeAssumption DEF StepFits, NewJob, Unseen
  <1>4. ASSUME NEW t PROVE Knows(NewJob, t) /\ Knows(Unseen, t)
    BY DEF Knows, NewJob, Unseen
  <1> QED  BY <1>1, <1>2, <1>3, <1>4 DEF JobFits

\* The middle of two lines or more is a proper cut.
LEMMA MidIsBetween ==
  ASSUME NEW lo \in Nat, NEW hi \in Nat, lo + 1 < hi
  PROVE  (lo + hi) \div 2 \in Nat /\ lo < (lo + hi) \div 2 /\ (lo + hi) \div 2 < hi
  OBVIOUS

\* A set of lines that is in neither half has two lines.
LEMMA AcrossTheHalves ==
  ASSUME NEW T, NEW lo \in Int, NEW mid \in Int, NEW hi \in Int,
         T \subseteq lo..hi - 1, ~(T \subseteq lo..mid - 1), ~(T \subseteq mid..hi - 1)
  PROVE  Cardinality(T) > 1
  <1>1. PICK a \in T : a >= mid  OBVIOUS
  <1>2. PICK b \in T : b < mid  OBVIOUS
  <1>3. IsFiniteSet(T)
    <2>1. IsFiniteSet(lo..hi - 1)  BY FS_Interval
    <2> QED  BY <2>1, FS_Subset
  <1>4. a # b  BY <1>1, <1>2
  <1>5. IsFiniteSet({a}) /\ Cardinality({a}) = 1  BY FS_Singleton
  <1>6. Cardinality({a} \cup {b}) = 2  BY <1>4, <1>5, FS_AddElement
  <1>7. {a} \cup {b} \subseteq T  OBVIOUS
  <1>8. Cardinality({a} \cup {b}) <= Cardinality(T)  BY <1>3, <1>7, FS_Subset
  <1>9. Cardinality(T) \in Nat  BY <1>3, FS_CardinalityType
  <1> QED  BY <1>6, <1>8, <1>9

\* A leaf noted after those before it leaves the hits injective and true.
LEMMA HitNoted ==
  ASSUME NEW hs \in Seq(LeafNos), NEW l \in LeafNos, \A i \in DOMAIN hs : hs[i] < l,
         IsInjective(hs)
  PROVE  LET new == Append(hs, l) IN
         /\ new \in Seq(LeafNos) /\ IsInjective(new) /\ new # <<>>
         /\ \A i \in DOMAIN new : new[i] < l + 1
         /\ \A t : HitsFit(hs, l - 1, t) /\ t[l] # {} => HitsFit(new, l, t)
  <1> DEFINE new == Append(hs, l)
  <1>1. /\ new \in Seq(LeafNos) /\ Len(new) = Len(hs) + 1 /\ Len(hs) \in Nat
        /\ DOMAIN new = 1..Len(hs) + 1 /\ DOMAIN hs = 1..Len(hs)
        /\ \A i \in DOMAIN hs : new[i] = hs[i]
        /\ new[Len(hs) + 1] = l
    OBVIOUS
  <1> HIDE DEF new
  <1>2. l \in Nat /\ \A i \in DOMAIN hs : hs[i] \in Nat  BY LeavesAre
  <1>3. IsInjective(new)
    <2> SUFFICES ASSUME NEW a \in DOMAIN new, NEW b \in DOMAIN new, new[a] = new[b]
                 PROVE  a = b
      BY DEF IsInjective
    <2>1. a \in DOMAIN hs \/ a = Len(hs) + 1  BY <1>1
    <2>2. b \in DOMAIN hs \/ b = Len(hs) + 1  BY <1>1
    <2> QED  BY <1>1, <1>2, <2>1, <2>2 DEF IsInjective
  <1>4. \A i \in DOMAIN new : new[i] < l + 1
    <2> SUFFICES ASSUME NEW i \in DOMAIN new PROVE new[i] < l + 1
      OBVIOUS
    <2>1. i \in DOMAIN hs \/ i = Len(hs) + 1  BY <1>1
    <2> QED  BY <1>1, <1>2, <2>1
  <1>5. new # <<>>  BY <1>1
  <1>6. ASSUME NEW t, HitsFit(hs, l - 1, t), t[l] # {}
        PROVE  HitsFit(new, l, t)
    <2>1. ASSUME NEW i \in DOMAIN new PROVE new[i] \in 1..l /\ t[new[i]] # {}
      <3>1. i \in DOMAIN hs \/ i = Len(hs) + 1  BY <1>1
      <3>2. 1 <= l  BY LeavesAre
      <3> QED  BY <1>1, <1>2, <1>6, <3>1, <3>2 DEF HitsFit
    <2>2. ASSUME NEW m \in 1..l, t[m] # {} PROVE \E i \in DOMAIN new : new[i] = m
      <3>1. CASE m = l  BY <1>1, <3>1
      <3>2. CASE m # l
        <4>1. m \in 1..l - 1  BY <1>2, <3>2
        <4>2. PICK i \in DOMAIN hs : hs[i] = m  BY <1>6, <2>2, <4>1 DEF HitsFit
        <4> QED  BY <1>1, <4>2
      <3> QED  BY <3>1, <3>2
    <2> QED  BY <2>1, <2>2 DEF HitsFit
  <1> QED  BY <1>1, <1>3, <1>4, <1>5, <1>6 DEF new

\* A leaf that was not blocked adds nothing to the hits.
LEMMA HitPassed ==
  ASSUME NEW hs, NEW l \in LeafNos, NEW t, HitsFit(hs, l - 1, t), t[l] = {}
  PROVE  HitsFit(hs, l, t)
  <1>1. l \in Nat /\ l > 0  BY LeavesAre
  <1>2. \A m \in 1..l : m = l \/ m \in 1..l - 1  BY <1>1
  <1>3. \A m \in 1..l - 1 : m \in 1..l  BY <1>1
  <1> QED  BY <1>2, <1>3 DEF HitsFit

\* One more conclusion, about the next hit.
LEMMA ConclusionNoted ==
  ASSUME NEW S, NEW cs \in Seq(S), NEW hs, NEW n \in Nat \ {0}, NEW t, NEW c \in S,
         ConcludedFits(cs, hs, n - 1, t), RightConclusion(c, t), c.leaf = hs[n]
  PROVE  ConcludedFits(Append(cs, c), hs, n, t)
  <1> DEFINE new == Append(cs, c)
  <1>1. /\ DOMAIN new = 1..Len(cs) + 1 /\ DOMAIN cs = 1..Len(cs) /\ Len(cs) \in Nat
        /\ \A i \in DOMAIN cs : new[i] = cs[i]
        /\ new[Len(cs) + 1] = c
    OBVIOUS
  <1> HIDE DEF new
  <1>2. ASSUME NEW k \in DOMAIN new
        PROVE  RightConclusion(new[k], t) /\ \E i \in 1..n : new[k].leaf = hs[i]
    <2>1. CASE k \in DOMAIN cs
      <3>1. RightConclusion(cs[k], t) /\ \E i \in 1..n - 1 : cs[k].leaf = hs[i]
        BY <2>1 DEF ConcludedFits
      <3>2. \A i \in 1..n - 1 : i \in 1..n  OBVIOUS
      <3> QED  BY <1>1, <2>1, <3>1, <3>2
    <2>2. CASE k = Len(cs) + 1
      <3>1. n \in 1..n  OBVIOUS
      <3> QED  BY <1>1, <2>2, <3>1
    <2> QED  BY <1>1, <2>1, <2>2
  <1>3. ASSUME NEW i \in 1..n
        PROVE  \E k \in DOMAIN new : new[k].leaf = hs[i]
    <2>1. CASE i = n  BY <1>1, <2>1
    <2>2. CASE i # n
      <3>1. i \in 1..n - 1  BY <2>2
      <3>2. PICK k \in DOMAIN cs : cs[k].leaf = hs[i]  BY <3>1 DEF ConcludedFits
      <3> QED  BY <1>1, <3>2
    <2> QED  BY <2>1, <2>2
  <1> QED  BY <1>2, <1>3 DEF new, ConcludedFits

-----------------------------------------------------------------------------
\* What each judgement makes of a job that fits. t are the triggers.

\* A job that stops for good.
LEMMA EndsFits ==
  ASSUME NEW y \in ProbeJobs, NEW t, StepFits(y), PlaceFits(y), y.step # "sending",
         NEW status \in {"aborted", "done"},
         status = "done" => ~y.cancelled,
         status = "done" /\ Fair(y) =>
           /\ HitsFit(y.hits, Len(LineCounts), t)
           /\ ConcludedFits(y.concluded, y.hits, Len(y.hits), t)
  PROVE  Ends(y, status) \in ProbeJobs /\ JobFits(Ends(y, status), t)
  <1> DEFINE z == Ends(y, status)
  <1>1. z \in ProbeJobs  BY DEF Ends, ProbeJobs, Status, Phase
  <1>2. /\ z.phase = "over" /\ z.status = status /\ z.step = y.step /\ z.live = y.live
        /\ z.cancelled = y.cancelled /\ z.dirty = y.dirty /\ z.rep = y.rep
        /\ z.hits = y.hits /\ z.concluded = y.concluded
    BY DEF Ends, ProbeJobs
  <1> HIDE DEF z
  <1>3. StepFits(z)  BY <1>2 DEF StepFits
  <1>4. PlaceFits(z)  BY <1>2 DEF PlaceFits
  <1>5. Knows(z, t)  BY <1>2 DEF Knows, Fair
  <1> QED  BY <1>1, <1>3, <1>4, <1>5 DEF JobFits, z

\* A conclusion is noted unless the job was cancelled; the lines it gives are
\* those that tripped the firewall if the weather was fair.
LEMMA ConcludesFits ==
  ASSUME NEW y \in ProbeJobs, NEW t, JobFits(y, t), y.phase \in {"left", "right"},
         y.step = "judge",
         NEW lo \in Nat, NEW hi \in Nat, NEW ambiguous \in BOOLEAN,
         Fair(y) => RightConclusion(Conclusion(y.leaf, lo, hi, ambiguous), t)
  PROVE  /\ Concludes(y, lo, hi, ambiguous) \in ProbeJobs
         /\ JobFits(Concludes(y, lo, hi, ambiguous), t)
         /\ Concludes(y, lo, hi, ambiguous).status = "running" => y.status = "running"
  <1> DEFINE c == Conclusion(y.leaf, lo, hi, ambiguous)
             z == Variant(Noted(y, c), "pick")
             C == [leaf : LeafNos, lo : Nat, hi : Nat, ambiguous : BOOLEAN]
  <1>0. /\ y.hits \in Seq(LeafNos) /\ y.found \in DOMAIN y.hits /\ y.leaf = y.hits[y.found]
        /\ y.concluded \in Seq(C)
        /\ StepFits(y) /\ PlaceFits(y) /\ Knows(y, t) /\ y.found \in Nat
    BY JobFields DEF JobFits, PlaceFits
  <1>1. y.leaf \in LeafNos  BY <1>0
  <1>2. c \in C /\ c.leaf = y.leaf  BY <1>1 DEF Conclusion
  <1> HIDE DEF c
  <1>3. CASE y.cancelled
    <2>1. Ends(y, "aborted") \in ProbeJobs /\ JobFits(Ends(y, "aborted"), t)
      BY <1>0, EndsFits
    <2>2. Ends(y, "aborted").status = "aborted"  BY DEF Ends, ProbeJobs
    <2> QED  BY <1>3, <2>1, <2>2 DEF Concludes, StopOr
  <1>4. CASE ~y.cancelled
    <2>1. Append(y.concluded, c) \in Seq(C)  BY <1>0, <1>2
    <2>2. z \in ProbeJobs
      <3>1. Noted(y, c) \in ProbeJobs
        <4> DEFINE cs == Append(y.concluded, c)
                   n == y.found + 1
        <4>1. cs \in Seq(C) /\ n \in Nat  BY <1>0, <2>1
        <4> HIDE DEF cs, n
        <4>2. [y EXCEPT !.concluded = cs, !.found = n] \in ProbeJobs  BY <4>1 DEF ProbeJobs
        <4>3. Noted(y, c) = [y EXCEPT !.concluded = cs, !.found = n]  BY DEF Noted, cs, n
        <4> QED  BY <4>2, <4>3
      <3>2. 0 \in 0..Reps  BY ProbeAssumption
      <3> QED  BY <3>1, <3>2 DEF Variant, ProbeJobs, Phase
    <2>3. /\ z.phase = "pick" /\ z.status = y.status /\ z.step = "pause" /\ z.live = y.live
          /\ z.cancelled = y.cancelled /\ z.dirty = y.dirty /\ z.rep = 0 /\ ~z.blocked
          /\ z.hits = y.hits /\ z.concluded = Append(y.concluded, c) /\ z.found = y.found + 1
      BY DEF Variant, Noted, ProbeJobs
    <2> HIDE DEF z
    <2>4. StepFits(z)
      <3>1. ~y.live /\ y.status = "running"  BY <1>0, <1>4 DEF StepFits
      <3> QED  BY <1>4, <2>3, <3>1, ProbeAssumption DEF StepFits
    <2>5. PlaceFits(z)
      <3>1. y.found + 1 \in 1..Len(y.hits) + 1  BY <1>0
      <3> QED  BY <1>0, <2>3, <3>1 DEF PlaceFits
    <2>6. Knows(z, t)
      <3>1. z.status # "done"  BY <1>0, <2>3 DEF StepFits
      <3>2. ASSUME Fair(y)
            PROVE  /\ HitsFit(z.hits, Len(LineCounts), t)
                   /\ ConcludedFits(z.concluded, z.hits, z.found - 1, t)
        <4>1. /\ HitsFit(y.hits, Len(LineCounts), t)
              /\ ConcludedFits(y.concluded, y.hits, y.found - 1, t)
          BY <1>0, <3>2 DEF Knows
        <4>2. RightConclusion(c, t) /\ c.leaf = y.hits[y.found]
          BY <1>0, <1>2, <3>2 DEF c
        <4>3. y.found \in Nat \ {0} /\ z.found - 1 = y.found
          <5>1. DOMAIN y.hits = 1..Len(y.hits)  BY <1>0
          <5> QED  BY <1>0, <2>3, <5>1
        <4>4. ConcludedFits(Append(y.concluded, c), y.hits, y.found, t)
          BY <1>0, <1>2, <4>1, <4>2, <4>3, ConclusionNoted
        <4> QED  BY <2>3, <4>1, <4>3, <4>4
      <3> QED  BY <2>3, <3>1, <3>2 DEF Knows, Fair
    <2>7. Concludes(y, lo, hi, ambiguous) = z  BY <1>4 DEF Concludes, StopOr, z, c
    <2> QED  BY <2>2, <2>3, <2>4, <2>5, <2>6, <2>7 DEF JobFits, z
  <1> QED  BY <1>3, <1>4

\* The lines that are left: another bisection, or a conclusion.
LEMMA NarrowedFits ==
  ASSUME NEW y \in ProbeJobs, NEW t, JobFits(y, t), y.phase \in {"left", "right"},
         y.step = "judge",
         NEW lo \in Nat, NEW hi \in Nat, lo < hi, hi <= LineCounts[y.leaf],
         Fair(y) => t[y.leaf] \subseteq lo..hi - 1
  PROVE  /\ Narrowed(y, lo, hi) \in ProbeJobs /\ JobFits(Narrowed(y, lo, hi), t)
         /\ Narrowed(y, lo, hi).status = "running" => y.status = "running"
  <1>0. /\ StepFits(y) /\ PlaceFits(y) /\ Knows(y, t) /\ 0 \in 0..Reps /\ Reps > 0
    BY ProbeAssumption DEF JobFits
  <1>1. CASE hi - lo > 1
    <2> DEFINE z == Variant([y EXCEPT !.lo = lo, !.hi = hi], "left")
    <2>1. z \in ProbeJobs  BY <1>0 DEF Variant, ProbeJobs, Phase
    <2>2. /\ z.phase = "left" /\ z.status = y.status /\ z.step = "pause" /\ z.live = y.live
          /\ z.cancelled = y.cancelled /\ z.dirty = y.dirty /\ z.rep = 0 /\ z.blocked = FALSE
          /\ z.hits = y.hits /\ z.concluded = y.concluded /\ z.found = y.found
          /\ z.leaf = y.leaf /\ z.lo = lo /\ z.hi = hi
      BY DEF Variant, ProbeJobs
    <2> HIDE DEF z
    <2>3. StepFits(z)  BY <1>0, <2>2 DEF StepFits
    <2>4. PlaceFits(z)  BY <1>0, <1>1, <2>2 DEF PlaceFits
    <2>5. Knows(z, t)
      <3>1. z.status # "done"  BY <1>0, <2>2 DEF StepFits
      <3>2. Fair(z) => Fair(y)  BY <2>2 DEF Fair
      <3>3. Fair(y) => /\ HitsFit(y.hits, Len(LineCounts), t)
                       /\ ConcludedFits(y.concluded, y.hits, y.found - 1, t)
        BY <1>0 DEF Knows
      <3> QED  BY <2>2, <3>1, <3>2, <3>3 DEF Knows
    <2>6. Narrowed(y, lo, hi) = z  BY <1>1 DEF Narrowed, z
    <2> QED  BY <2>1, <2>2, <2>3, <2>4, <2>5, <2>6 DEF JobFits, z
  <1>2. CASE ~(hi - lo > 1)
    <2> DEFINE c == Conclusion(y.leaf, lo, hi, FALSE)
    <2>1. hi = lo + 1  BY <1>2
    <2>2. c.leaf = y.leaf /\ c.lo = lo /\ c.hi = hi /\ c.ambiguous = FALSE  BY DEF Conclusion
    <2>3. Fair(y) => RightConclusion(c, t)  BY <2>1, <2>2 DEF RightConclusion
    <2> QED  BY <1>2, <2>3, ConcludesFits DEF Narrowed
  <1> QED  BY <1>1, <1>2

-----------------------------------------------------------------------------
\* The steps.

\* A step of one job keeps the invariant if what it becomes fits, and if it does
\* not start to run.
LEMMA JobStep ==
  ASSUME ProbeInv, NEW j \in 1..current, NEW z \in ProbeJobs, Becomes(j, z),
         UNCHANGED <<trigger, current>>, JobFits(z, trigger),
         z.status = "running" => job[j].status = "running"
  PROVE  ProbeInv'
  <1>1. current' \in 0..Jobs /\ job' \in [1..current' -> ProbeJobs]
    BY DEF ProbeInv, ProbeTypeOK, Becomes
  <1>2. job'[j] = z /\ \A q \in 1..current : q # j => job'[q] = job[q]
    BY DEF ProbeInv, ProbeTypeOK, Becomes
  <1>3. \A q \in 1..current' : JobFits(job'[q], trigger')
    BY <1>2 DEF ProbeInv
  <1>4. \A q \in 1..current' : job'[q].status = "running" => q = current'
    BY <1>2 DEF ProbeInv
  <1>5. ProbeTypeOK'
    BY <1>1, <1>3 DEF ProbeTypeOK, JobFits, PlaceFits
  <1> QED  BY <1>3, <1>4, <1>5 DEF ProbeInv, JobFits, StepFits, PlaceFits, Knows, Fair

\* What the invariant says of one job.
LEMMA OfJob ==
  ASSUME ProbeInv, NEW j \in 1..current
  PROVE  /\ job[j] \in ProbeJobs /\ JobFits(job[j], trigger)
         /\ StepFits(job[j]) /\ PlaceFits(job[j]) /\ Knows(job[j], trigger)
  BY DEF ProbeInv, ProbeTypeOK, JobFits

\* wafProbeStart: a new job claims nothing yet, and no other is at work.
LEMMA StartsJobKeeps ==
  ASSUME ProbeInv, StartsJob
  PROVE  ProbeInv'
  <1> DEFINE old == [q \in 1..current |-> IF job[q].phase = "over" THEN Unseen ELSE job[q]]
  <1>1. /\ current < Jobs /\ ~Busy /\ current' = current + 1 /\ job' = Append(old, NewJob)
        /\ trigger' = trigger /\ current \in 0..Jobs /\ job \in [1..current -> ProbeJobs]
    BY DEF StartsJob, ProbeInv, ProbeTypeOK
  <1>2. old \in [1..current -> ProbeJobs]  BY <1>1, NewJobFits
  <1>3. \A q \in 1..current : old[q] = Unseen \/ old[q] = job[q]  OBVIOUS
  <1> HIDE DEF old
  <1>4. old \in Seq(ProbeJobs) /\ Len(old) = current /\ current \in Nat
    BY <1>1, <1>2, ProbeAssumption
  <1>5. /\ job' \in [1..current + 1 -> ProbeJobs] /\ job'[current + 1] = NewJob
        /\ \A q \in 1..current : job'[q] = old[q]
    <2>1. NewJob \in ProbeJobs  BY NewJobFits
    <2> DEFINE new == Append(old, NewJob)
    <2>2. new \in Seq(ProbeJobs) /\ Len(new) = current + 1  BY <1>4, <2>1
    <2>3. new[current + 1] = NewJob /\ \A q \in 1..current : new[q] = old[q]  BY <1>4, <2>1
    <2> HIDE DEF new
    <2>4. new \in [1..current + 1 -> ProbeJobs]  BY <2>2
    <2> QED  BY <1>1, <2>3, <2>4 DEF new
  <1>6. \A q \in 1..current' : q \in 1..current \/ q = current + 1
    BY <1>1, <1>4
  <1>7. ASSUME NEW q \in 1..current'
        PROVE  JobFits(job'[q], trigger') /\ (job'[q].status = "running" => q = current')
    <2>1. CASE q = current + 1
      BY <1>1, <1>5, <2>1, NewJobFits
    <2>2. CASE q \in 1..current
      <3>1. job[q].status # "running"  BY <1>1, <2>2 DEF ProbeInv, Busy
      <3>2. Unseen.status = "aborted"  BY DEF Unseen, NewJob
      <3>3. JobFits(job[q], trigger) /\ JobFits(Unseen, trigger)
        BY <2>2, NewJobFits DEF ProbeInv
      <3> QED  BY <1>1, <1>3, <1>5, <2>2, <3>1, <3>2, <3>3
    <2> QED  BY <1>6, <2>1, <2>2
  <1>8. current' \in 0..Jobs  BY <1>1, ProbeAssumption
  <1>9. ProbeTypeOK'  BY <1>1, <1>5, <1>7, <1>8 DEF ProbeTypeOK, JobFits, PlaceFits
  <1>10. \A l \in LeafNos : trigger'[l] \subseteq LinesOf(l)  BY <1>1 DEF ProbeInv
  <1> QED  BY <1>7, <1>9, <1>10 DEF ProbeInv, JobFits, StepFits, PlaceFits, Knows, Fair

\* wafProbeAbort only cancels; what the job has concluded stays true.
LEMMA AbortsJobKeeps ==
  ASSUME ProbeInv, AbortsJob
  PROVE  ProbeInv'
  <1> DEFINE y == job[current]
             z == Aborted(current)
  <1>1. /\ current \in 1..current /\ y.status = "running" /\ Becomes(current, z)
        /\ UNCHANGED <<trigger, current>>
    BY ProbeAssumption DEF AbortsJob, Busy, ProbeInv, ProbeTypeOK
  <1>2. y \in ProbeJobs /\ StepFits(y) /\ PlaceFits(y)  BY <1>1, OfJob
  <1>3. z \in ProbeJobs  BY <1>2 DEF Aborted, ProbeJobs
  <1>4. /\ z.phase = y.phase /\ z.status = y.status /\ z.step = y.step /\ z.live = y.live
        /\ z.cancelled = TRUE /\ z.dirty = y.dirty /\ z.rep = y.rep
        /\ z.hits = y.hits /\ z.found = y.found /\ z.leaf = y.leaf /\ z.lo = y.lo /\ z.hi = y.hi
    BY <1>2 DEF Aborted, ProbeJobs
  <1> HIDE DEF z
  <1>5. StepFits(z)  BY <1>1, <1>2, <1>4 DEF StepFits
  <1>6. PlaceFits(z)  BY <1>2, <1>4 DEF PlaceFits
  <1>7. Knows(z, trigger)  BY <1>4 DEF Knows, Fair
  <1> QED  BY <1>1, <1>3, <1>5, <1>6, <1>7, JobStep DEF JobFits

\* A job cancelled in its pause is aborted and claims no more than before.
LEMMA GivesUpSendKeeps ==
  ASSUME ProbeInv, NEW j \in 1..current, GivesUpSend(j)
  PROVE  ProbeInv'
  <1> DEFINE y == job[j]
             z == [y EXCEPT !.status = "aborted", !.step = "judge", !.blocked = FALSE]
  <1>1. /\ y.phase \notin {"pick", "over"} /\ y.step = "pause" /\ y.cancelled /\ Becomes(j, z)
        /\ UNCHANGED <<trigger, current>>
    BY DEF GivesUpSend, Waits
  <1>2. y \in ProbeJobs /\ StepFits(y) /\ PlaceFits(y)  BY OfJob
  <1>3. z \in ProbeJobs  BY <1>2 DEF ProbeJobs, Status
  <1>4. /\ z.phase = y.phase /\ z.status = "aborted" /\ z.step = "judge" /\ z.live = y.live
        /\ z.cancelled = y.cancelled /\ z.dirty = y.dirty /\ z.rep = y.rep
        /\ z.hits = y.hits /\ z.found = y.found /\ z.leaf = y.leaf /\ z.lo = y.lo /\ z.hi = y.hi
    BY <1>2 DEF ProbeJobs
  <1> HIDE DEF z
  <1>5. StepFits(z)  BY <1>1, <1>2, <1>4 DEF StepFits
  <1>6. PlaceFits(z)  BY <1>2, <1>4 DEF PlaceFits
  <1>7. Knows(z, trigger)  BY <1>1, <1>4 DEF Knows, Fair
  <1> QED  BY <1>1, <1>3, <1>4, <1>5, <1>6, <1>7, JobStep DEF JobFits

\* A request is sent with the lines of the phase it belongs to.
LEMMA SendsKeeps ==
  ASSUME ProbeInv, NEW j \in 1..current, Sends(j)
  PROVE  ProbeInv'
  <1> DEFINE y == job[j]
             z == [y EXCEPT !.step = "sending", !.live = ~y.cancelled]
  <1>1. /\ y.phase \notin {"pick", "over"} /\ y.step = "pause" /\ Becomes(j, z)
        /\ UNCHANGED <<trigger, current>>
    BY DEF Sends, Waits
  <1>2. /\ y \in ProbeJobs /\ StepFits(y) /\ PlaceFits(y) /\ Knows(y, trigger)
        /\ y.cancelled \in BOOLEAN
    BY OfJob, JobFields
  <1>3. z \in ProbeJobs  BY <1>2 DEF ProbeJobs
  <1>4. /\ z.phase = y.phase /\ z.status = y.status /\ z.step = "sending" /\ z.live = ~y.cancelled
        /\ z.cancelled = y.cancelled /\ z.dirty = y.dirty /\ z.rep = y.rep /\ z.blocked = y.blocked
        /\ z.hits = y.hits /\ z.found = y.found /\ z.leaf = y.leaf /\ z.lo = y.lo /\ z.hi = y.hi
        /\ z.concluded = y.concluded
    BY <1>2 DEF ProbeJobs
  <1> HIDE DEF z
  <1>5. StepFits(z)  BY <1>1, <1>2, <1>4 DEF StepFits
  <1>6. PlaceFits(z)  BY <1>2, <1>4 DEF PlaceFits
  <1>7. Knows(z, trigger)
    BY <1>2, <1>4 DEF Knows, Fair, Tripped, SentLines, Mid
  <1> QED  BY <1>1, <1>3, <1>4, <1>5, <1>6, <1>7, JobStep DEF JobFits

\* A request that came back: in fair weather it was blocked as its lines say.
LEMMA SendReturnsKeeps ==
  ASSUME ProbeInv, NEW j \in 1..current, NEW label \in {"403", "pass", "other"},
         NEW dirty \in BOOLEAN, SendReturns(j, label, dirty),
         Fair(job[j]) /\ ~dirty => (label = "403" <=> TripsTheWall(job[j]))
  PROVE  ProbeInv'
  <1> DEFINE y == job[j]
             step == IF y.rep + 1 = Reps THEN "judge" ELSE "pause"
             blocked == y.blocked \/ label = "403"
             storm == y.dirty \/ dirty
             z == [y EXCEPT !.step = step, !.rep = @ + 1, !.live = FALSE,
                            !.blocked = blocked, !.dirty = storm]
  <1>1. y.step = "sending" /\ Becomes(j, z) /\ UNCHANGED <<trigger, current>>
    BY DEF SendReturns
  <1>2. /\ y \in ProbeJobs /\ StepFits(y) /\ PlaceFits(y) /\ Knows(y, trigger)
        /\ y.rep \in 0..Reps /\ Reps \in Nat /\ y.phase \in Phase
    BY OfJob, JobFields, ProbeAssumption
  <1>3. y.phase \in {"control", "leaf", "left", "right"} /\ y.rep < Reps /\ y.rep + 1 \in 0..Reps
    BY <1>1, <1>2 DEF StepFits, Phase
  <1>4. step \in {"pause", "judge"} /\ blocked \in BOOLEAN /\ storm \in BOOLEAN
        /\ (step = "judge" <=> y.rep + 1 = Reps)
        /\ (storm <=> y.dirty \/ dirty) /\ (blocked <=> y.blocked \/ label = "403")
    BY <1>2, JobFields
  <1> HIDE DEF step, blocked, storm
  <1>5. z \in ProbeJobs  BY <1>2, <1>3, <1>4 DEF ProbeJobs
  <1>6. /\ z.phase = y.phase /\ z.status = y.status /\ z.step = step /\ z.live = FALSE
        /\ z.cancelled = y.cancelled /\ z.dirty = storm /\ z.rep = y.rep + 1 /\ z.blocked = blocked
        /\ z.hits = y.hits /\ z.found = y.found /\ z.leaf = y.leaf /\ z.lo = y.lo /\ z.hi = y.hi
        /\ z.concluded = y.concluded
    BY <1>2 DEF ProbeJobs
  <1> HIDE DEF z
  <1>7. StepFits(z)  BY <1>1, <1>2, <1>3, <1>4, <1>6 DEF StepFits
  <1>8. PlaceFits(z)  BY <1>2, <1>6 DEF PlaceFits
  <1>9. Knows(z, trigger)
    <2>1. CASE ~Fair(z)  BY <2>1 DEF Knows
    <2>2. CASE Fair(z)
      <3>1. Fair(y) /\ ~dirty  BY <1>4, <1>6, <2>2 DEF Fair
      <3>2. blocked <=> Tripped(y, trigger)
        <4>1. label = "403" <=> Tripped(y, trigger)
          BY <3>1 DEF TripsTheWall, Tripped
        <4>2. y.blocked => Tripped(y, trigger)  BY <1>2, <1>3, <3>1 DEF Knows
        <4> QED  BY <1>4, <4>1, <4>2
      <3>3. Tripped(z, trigger) <=> Tripped(y, trigger)
        BY <1>6 DEF Tripped, SentLines, Mid
      <3>4. z.rep > 0  BY <1>2, <1>6
      <3>5. Mid(z) = Mid(y)  BY <1>6 DEF Mid
      <3> QED  BY <1>2, <1>6, <3>1, <3>2, <3>3, <3>4, <3>5 DEF Knows
    <2> QED  BY <2>1, <2>2
  <1> QED  BY <1>1, <1>5, <1>6, <1>7, <1>8, <1>9, JobStep DEF JobFits, z

\* In fair weather the repetitions agree with the wall, and so does the outcome.
LEMMA OutcomeKeeps ==
  ASSUME ProbeInv, NEW j \in 1..current, Outcome(j)
  PROVE  ProbeInv'
  <1>1. CASE SendReturns(j, IF TripsTheWall(job[j]) THEN "403" ELSE "pass", FALSE)
    <2>1. CASE TripsTheWall(job[j])  BY <1>1, <2>1, SendReturnsKeeps
    <2>2. CASE ~TripsTheWall(job[j])  BY <1>1, <2>2, SendReturnsKeeps
    <2> QED  BY <2>1, <2>2
  <1>2. CASE \E label \in {"403", "other"} : SendReturns(j, label, TRUE)
    BY <1>2, SendReturnsKeeps
  <1>3. CASE job[j].cancelled /\ SendReturns(j, "other", FALSE)
    BY <1>3, SendReturnsKeeps DEF Fair
  <1> QED  BY <1>1, <1>2, <1>3 DEF Outcome

\* What has been judged: the job and what a repetition has told.
LEMMA OfJudged ==
  ASSUME ProbeInv, NEW j \in 1..current, NEW phase \in {"control", "leaf", "left", "right"},
         Judged(j, phase)
  PROVE  /\ job[j].phase = phase /\ job[j].step = "judge" /\ UNCHANGED <<trigger, current>>
         /\ Fair(job[j]) => (job[j].blocked <=> Tripped(job[j], trigger))
         /\ ~job[j].live
         /\ ~job[j].cancelled => job[j].status = "running"
  BY OfJob DEF Judged, StepFits, Knows, Fair

\* The next variant of a job that keeps its hits and its place.
LEMMA VariantFields ==
  ASSUME NEW y \in ProbeJobs, NEW phase \in Phase
  PROVE  LET z == Variant(y, phase) IN
         /\ z \in ProbeJobs
         /\ z.phase = phase /\ z.status = y.status /\ z.step = "pause" /\ z.live = y.live
         /\ z.cancelled = y.cancelled /\ z.dirty = y.dirty /\ z.rep = 0 /\ z.blocked = FALSE
         /\ z.hits = y.hits /\ z.found = y.found /\ z.leaf = y.leaf /\ z.lo = y.lo /\ z.hi = y.hi
         /\ z.concluded = y.concluded
  <1>1. 0 \in 0..Reps  BY ProbeAssumption
  <1> QED  BY <1>1 DEF Variant, ProbeJobs

\* The control only decides whether the job goes on.
LEMMA JudgesControlKeeps ==
  ASSUME ProbeInv, NEW j \in 1..current, JudgesControl(j)
  PROVE  ProbeInv'
  <1> DEFINE y == job[j]
  <1>1. Judged(j, "control")  BY DEF JudgesControl
  <1>2. /\ y.phase = "control" /\ y.step = "judge" /\ UNCHANGED <<trigger, current>>
        /\ ~y.live /\ (~y.cancelled => y.status = "running")
    BY <1>1, OfJudged
  <1>3. y \in ProbeJobs /\ StepFits(y) /\ PlaceFits(y) /\ Knows(y, trigger)  BY OfJob
  <1>4. CASE Becomes(j, Ends(y, "aborted"))
    <2>1. Ends(y, "aborted") \in ProbeJobs /\ JobFits(Ends(y, "aborted"), trigger)
      BY <1>2, <1>3, EndsFits
    <2>2. Ends(y, "aborted").status = "aborted"  BY <1>3 DEF Ends, ProbeJobs
    <2> QED  BY <1>2, <1>4, <2>1, <2>2, JobStep
  <1>5. CASE ~y.cancelled /\ Becomes(j, Variant([y EXCEPT !.leaf = 1], "leaf"))
    <2> DEFINE w == [y EXCEPT !.leaf = 1]
               z == Variant(w, "leaf")
    <2>1. w \in ProbeJobs  BY <1>3 DEF ProbeJobs
    <2>2. /\ w.status = y.status /\ w.live = y.live /\ w.cancelled = y.cancelled
          /\ w.dirty = y.dirty /\ w.hits = y.hits /\ w.leaf = 1 /\ w.concluded = y.concluded
      BY <1>3 DEF ProbeJobs
    <2> HIDE DEF w
    <2>0. "leaf" \in Phase  BY DEF Phase
    <2>3. /\ z \in ProbeJobs /\ z.phase = "leaf" /\ z.status = y.status /\ z.step = "pause"
          /\ z.live = y.live /\ z.cancelled = y.cancelled /\ z.dirty = y.dirty /\ z.rep = 0
          /\ z.blocked = FALSE /\ z.hits = y.hits /\ z.leaf = 1 /\ z.concluded = y.concluded
      BY <2>0, <2>1, <2>2, VariantFields
    <2> HIDE DEF z
    <2>4. StepFits(z)  BY <1>2, <1>3, <1>5, <2>3, ProbeAssumption DEF StepFits
    <2>5. z.hits = <<>> /\ DOMAIN z.hits = {}  BY <1>2, <1>3, <2>3 DEF PlaceFits
    <2>6. PlaceFits(z)  BY <2>3, <2>5, LeavesAre DEF PlaceFits, IsInjective
    <2>7. Knows(z, trigger)
      <3>1. HitsFit(z.hits, z.leaf - 1, trigger)
        <4>1. 1..z.leaf - 1 = {}  BY <2>3
        <4> QED  BY <2>5, <4>1 DEF HitsFit
      <3>2. Fair(z) => y.concluded = <<>>  BY <1>2, <1>3, <2>3 DEF Knows, Fair
      <3>3. z.status # "done"  BY <1>2, <1>5, <2>3
      <3> QED  BY <2>3, <3>1, <3>2, <3>3 DEF Knows
    <2> QED  BY <1>2, <1>5, <2>3, <2>4, <2>6, <2>7, JobStep DEF JobFits, z, w
  <1> QED  BY <1>4, <1>5 DEF JudgesControl, StopOr

\* A left half that trips holds the trigger; the interval shrinks around it.
LEMMA JudgesLeftKeeps ==
  ASSUME ProbeInv, NEW j \in 1..current, JudgesLeft(j)
  PROVE  ProbeInv'
  <1> DEFINE y == job[j]
  <1>1. Judged(j, "left")  BY DEF JudgesLeft
  <1>2. /\ y.phase = "left" /\ y.step = "judge" /\ UNCHANGED <<trigger, current>>
        /\ ~y.live /\ (~y.cancelled => y.status = "running")
        /\ Fair(y) => (y.blocked <=> Tripped(y, trigger))
    BY <1>1, OfJudged
  <1>3. /\ y \in ProbeJobs /\ JobFits(y, trigger)
        /\ StepFits(y) /\ PlaceFits(y) /\ Knows(y, trigger)
    BY OfJob
  <1>4. /\ y.lo \in Nat /\ y.hi \in Nat /\ Mid(y) \in Nat /\ y.lo < Mid(y) /\ Mid(y) < y.hi
        /\ y.hi <= LineCounts[y.leaf] /\ LineCounts[y.leaf] \in Nat
        /\ y.found \in DOMAIN y.hits /\ y.leaf = y.hits[y.found]
    <2>1. y.lo \in Nat /\ y.hi \in Nat /\ y.hits \in Seq(LeafNos)  BY <1>3, JobFields
    <2>2. y.lo + 1 < y.hi  BY <1>2, <1>3 DEF PlaceFits
    <2>3. Mid(y) \in Nat /\ y.lo < Mid(y) /\ Mid(y) < y.hi  BY <2>1, <2>2, MidIsBetween DEF Mid
    <2>4. y.found \in DOMAIN y.hits /\ y.leaf = y.hits[y.found] /\ y.hi <= LineCounts[y.leaf]
      BY <1>2, <1>3 DEF PlaceFits
    <2>5. y.leaf \in LeafNos  BY <2>1, <2>4
    <2> QED  BY <2>1, <2>3, <2>4, <2>5, LeavesAre
  <1>5. CASE y.blocked
    <2> DEFINE z == Narrowed(y, y.lo, Mid(y))
    <2>1. Fair(y) => trigger[y.leaf] \subseteq y.lo..Mid(y) - 1
      BY <1>2, <1>5 DEF Tripped, SentLines
    <2>2. Mid(y) <= LineCounts[y.leaf]  BY <1>4
    <2>3. z \in ProbeJobs /\ JobFits(z, trigger) /\ (z.status = "running" => y.status = "running")
      BY <1>2, <1>3, <1>4, <2>1, <2>2, NarrowedFits
    <2>4. Becomes(j, z)  BY <1>5 DEF JudgesLeft
    <2> QED  BY <1>2, <2>3, <2>4, JobStep
  <1>6. CASE ~y.blocked
    <2> DEFINE z == Variant(y, "right")
    <2>0. "right" \in Phase  BY DEF Phase
    <2>1. /\ z \in ProbeJobs /\ z.phase = "right" /\ z.status = y.status /\ z.step = "pause"
          /\ z.live = y.live /\ z.cancelled = y.cancelled /\ z.dirty = y.dirty /\ z.rep = 0
          /\ z.blocked = FALSE /\ z.hits = y.hits /\ z.found = y.found /\ z.leaf = y.leaf
          /\ z.lo = y.lo /\ z.hi = y.hi /\ z.concluded = y.concluded
      BY <1>3, <2>0, VariantFields
    <2>2. Becomes(j, z)  BY <1>6 DEF JudgesLeft
    <2> HIDE DEF z
    <2>3. StepFits(z)  BY <1>2, <1>3, <2>1, ProbeAssumption DEF StepFits
    <2>4. PlaceFits(z)  BY <1>2, <1>3, <2>1 DEF PlaceFits
    <2>5. Knows(z, trigger)
      <3>1. Fair(z) => Fair(y)  BY <2>1 DEF Fair
      <3>2. Fair(y) => /\ HitsFit(y.hits, Len(LineCounts), trigger)
                       /\ ConcludedFits(y.concluded, y.hits, y.found - 1, trigger)
                       /\ trigger[y.leaf] \subseteq y.lo..y.hi - 1
        BY <1>2, <1>3 DEF Knows
      <3>3. Fair(y) => ~(trigger[y.leaf] \subseteq y.lo..Mid(y) - 1)
        <4> SUFFICES ASSUME Fair(y) PROVE ~(trigger[y.leaf] \subseteq y.lo..Mid(y) - 1)
          OBVIOUS
        <4>1. trigger[y.leaf] # {}
          BY <1>4, <3>2 DEF HitsFit
        <4>2. ~Tripped(y, trigger)  BY <1>2, <1>6
        <4> QED  BY <1>2, <4>1, <4>2 DEF Tripped, SentLines
      <3>4. Mid(z) = Mid(y)  BY <2>1 DEF Mid
      <3>5. z.status # "done"  BY <1>2, <1>3, <2>1 DEF StepFits
      <3> QED  BY <2>1, <3>1, <3>2, <3>3, <3>4, <3>5 DEF Knows
    <2> QED  BY <1>2, <2>1, <2>2, <2>3, <2>4, <2>5, JobStep DEF JobFits
  <1> QED  BY <1>5, <1>6

\* With both halves judged the lines left still hold what trips the leaf.
LEMMA JudgesRightKeeps ==
  ASSUME ProbeInv, NEW j \in 1..current, JudgesRight(j)
  PROVE  ProbeInv'
  <1> DEFINE y == job[j]
  <1>1. Judged(j, "right")  BY DEF JudgesRight
  <1>2. /\ y.phase = "right" /\ y.step = "judge" /\ UNCHANGED <<trigger, current>>
        /\ Fair(y) => (y.blocked <=> Tripped(y, trigger))
    BY <1>1, OfJudged
  <1>3. /\ y \in ProbeJobs /\ JobFits(y, trigger) /\ PlaceFits(y) /\ Knows(y, trigger)
    BY OfJob
  <1>4. /\ y.lo \in Nat /\ y.hi \in Nat /\ Mid(y) \in Nat /\ y.lo < Mid(y) /\ Mid(y) < y.hi
        /\ y.hi <= LineCounts[y.leaf] /\ y.found \in DOMAIN y.hits /\ y.leaf = y.hits[y.found]
    <2>1. y.lo \in Nat /\ y.hi \in Nat  BY <1>3, JobFields
    <2>2. y.lo + 1 < y.hi  BY <1>2, <1>3 DEF PlaceFits
    <2>3. Mid(y) \in Nat /\ y.lo < Mid(y) /\ Mid(y) < y.hi  BY <2>1, <2>2, MidIsBetween DEF Mid
    <2> QED  BY <1>2, <1>3, <2>1, <2>3 DEF PlaceFits
  <1>5. CASE y.blocked
    <2> DEFINE z == Narrowed(y, Mid(y), y.hi)
    <2>1. Fair(y) => trigger[y.leaf] \subseteq Mid(y)..y.hi - 1
      BY <1>2, <1>5 DEF Tripped, SentLines
    <2>2. z \in ProbeJobs /\ JobFits(z, trigger) /\ (z.status = "running" => y.status = "running")
      BY <1>2, <1>3, <1>4, <2>1, NarrowedFits
    <2>3. Becomes(j, z)  BY <1>5 DEF JudgesRight
    <2> QED  BY <1>2, <2>2, <2>3, JobStep
  <1>6. CASE ~y.blocked
    <2> DEFINE z == Concludes(y, y.lo, y.hi, TRUE)
               c == Conclusion(y.leaf, y.lo, y.hi, TRUE)
    <2>1. ASSUME Fair(y) PROVE RightConclusion(c, trigger)
      <3>1. /\ HitsFit(y.hits, Len(LineCounts), trigger)
            /\ trigger[y.leaf] \subseteq y.lo..y.hi - 1
            /\ ~(trigger[y.leaf] \subseteq y.lo..Mid(y) - 1)
        BY <1>2, <1>3, <2>1 DEF Knows
      <3>2. trigger[y.leaf] # {}  BY <1>4, <3>1 DEF HitsFit
      <3>3. ~Tripped(y, trigger)  BY <1>2, <1>6, <2>1
      <3>4. ~(trigger[y.leaf] \subseteq Mid(y)..y.hi - 1)
        BY <1>2, <3>2, <3>3 DEF Tripped, SentLines
      <3>5. Cardinality(trigger[y.leaf]) > 1
        <4> DEFINE T == trigger[y.leaf]
                   lo == y.lo
                   mid == Mid(y)
                   hi == y.hi
        <4>1. lo \in Int /\ mid \in Int /\ hi \in Int  BY <1>4
        <4>2. T \subseteq lo..hi - 1 /\ ~(T \subseteq lo..mid - 1) /\ ~(T \subseteq mid..hi - 1)
          BY <3>1, <3>4
        <4> HIDE DEF T, lo, mid, hi
        <4>3. Cardinality(T) > 1  BY <4>1, <4>2, AcrossTheHalves
        <4> QED  BY <4>3 DEF T
      <3>6. c.leaf = y.leaf /\ c.lo = y.lo /\ c.hi = y.hi /\ c.ambiguous = TRUE
        BY DEF Conclusion
      <3> QED  BY <3>1, <3>5, <3>6 DEF RightConclusion
    <2>2. z \in ProbeJobs /\ JobFits(z, trigger) /\ (z.status = "running" => y.status = "running")
      BY <1>2, <1>3, <1>4, <2>1, ConcludesFits
    <2>3. Becomes(j, z)  BY <1>6 DEF JudgesRight
    <2> QED  BY <1>2, <2>2, <2>3, JobStep
  <1> QED  BY <1>5, <1>6

\* A leaf joins the hits exactly if it trips the wall.
LEMMA JudgesLeafKeeps ==
  ASSUME ProbeInv, NEW j \in 1..current, JudgesLeaf(j)
  PROVE  ProbeInv'
  <1> DEFINE x == job[j]
             y == LeafNoted(x)
  <1>1. Judged(j, "leaf")  BY DEF JudgesLeaf
  <1>2. /\ x.phase = "leaf" /\ x.step = "judge" /\ UNCHANGED <<trigger, current>>
        /\ ~x.live /\ (~x.cancelled => x.status = "running")
        /\ Fair(x) => (x.blocked <=> Tripped(x, trigger))
    BY <1>1, OfJudged
  <1>3. /\ x \in ProbeJobs /\ StepFits(x) /\ PlaceFits(x) /\ Knows(x, trigger)
        /\ x.hits \in Seq(LeafNos)
    BY OfJob, JobFields
  <1>4. x.leaf \in LeafNos /\ (\A i \in DOMAIN x.hits : x.hits[i] < x.leaf) /\ IsInjective(x.hits)
    BY <1>2, <1>3 DEF PlaceFits
  <1>5. Fair(x) => (x.blocked <=> trigger[x.leaf] # {})
    <2>1. trigger[x.leaf] \subseteq LinesOf(x.leaf)  BY <1>4 DEF ProbeInv
    <2> QED  BY <1>2, <2>1 DEF Tripped, SentLines
  <1>6. /\ y \in ProbeJobs
        /\ y.phase = "leaf" /\ y.status = x.status /\ y.step = "judge" /\ y.live = x.live
        /\ y.cancelled = x.cancelled /\ y.dirty = x.dirty /\ y.rep = x.rep
        /\ y.leaf = x.leaf /\ y.concluded = x.concluded
        /\ IsInjective(y.hits) /\ y.hits \in Seq(LeafNos)
        /\ \A i \in DOMAIN y.hits : y.hits[i] < y.leaf + 1
        /\ Fair(y) => HitsFit(y.hits, y.leaf, trigger) /\ y.concluded = <<>>
    <2>0. Fair(x) => HitsFit(x.hits, x.leaf - 1, trigger) /\ x.concluded = <<>>
      BY <1>2, <1>3 DEF Knows
    <2>1. CASE x.blocked
      <3> DEFINE new == Append(x.hits, x.leaf)
      <3>1. /\ new \in Seq(LeafNos) /\ IsInjective(new)
            /\ \A i \in DOMAIN new : new[i] < x.leaf + 1
            /\ HitsFit(x.hits, x.leaf - 1, trigger) /\ trigger[x.leaf] # {}
                 => HitsFit(new, x.leaf, trigger)
        BY <1>3, <1>4, HitNoted
      <3> HIDE DEF new
      <3>2. y = [x EXCEPT !.hits = new]  BY <2>1 DEF LeafNoted, new
      <3>3. y \in ProbeJobs  BY <1>3, <3>1, <3>2 DEF ProbeJobs
      <3>4. /\ y.phase = x.phase /\ y.status = x.status /\ y.step = x.step /\ y.live = x.live
            /\ y.cancelled = x.cancelled /\ y.dirty = x.dirty /\ y.rep = x.rep
            /\ y.leaf = x.leaf /\ y.concluded = x.concluded /\ y.hits = new
        BY <1>3, <3>2 DEF ProbeJobs
      <3> HIDE DEF y
      <3> QED  BY <1>2, <1>5, <2>0, <2>1, <3>1, <3>3, <3>4 DEF Fair
    <2>2. CASE ~x.blocked
      <3>1. y = x  BY <2>2 DEF LeafNoted
      <3>2. \A i \in DOMAIN x.hits : x.hits[i] < x.leaf + 1
        <4>1. x.leaf \in Nat /\ \A i \in DOMAIN x.hits : x.hits[i] \in Nat
          BY <1>3, <1>4, LeavesAre
        <4> QED  BY <1>4, <4>1
      <3>3. Fair(x) => HitsFit(x.hits, x.leaf, trigger)
        BY <1>4, <1>5, <2>0, <2>2, HitPassed
      <3> QED  BY <1>2, <1>3, <1>4, <2>0, <3>1, <3>2, <3>3
    <2> QED  BY <2>1, <2>2
  <1> HIDE DEF y
  <1>7. StepFits(y)  BY <1>3, <1>2, <1>6 DEF StepFits
  <1>8. Becomes(j, StopOr(y, AfterLeaf(y)))  BY DEF JudgesLeaf, y
  <1>9. y.leaf \in Nat /\ y.leaf <= Len(LineCounts) /\ Len(LineCounts) \in Nat /\ y.leaf >= 1
    BY <1>4, <1>6, LeavesAre
  <1>10. ASSUME NEW status \in {"aborted", "done"}, Becomes(j, Ends(y, status)),
                status = "done" => ~y.cancelled /\ y.hits = <<>> /\ y.leaf = Len(LineCounts)
         PROVE  ProbeInv'
    <2> DEFINE z == Ends(y, status)
    <2>1. /\ z \in ProbeJobs /\ z.phase = "over" /\ z.status = status /\ z.step = y.step
          /\ z.live = y.live /\ z.cancelled = y.cancelled /\ z.dirty = y.dirty /\ z.rep = y.rep
          /\ z.hits = y.hits /\ z.concluded = y.concluded
      BY <1>6 DEF Ends, ProbeJobs, Status, Phase
    <2> HIDE DEF z
    <2>2. StepFits(z)  BY <1>2, <1>6, <1>7, <1>10, <2>1 DEF StepFits
    <2>3. PlaceFits(z)  BY <1>6, <2>1 DEF PlaceFits
    <2>4. ASSUME Fair(z), status = "done"
          PROVE  /\ HitsFit(z.hits, Len(LineCounts), trigger)
                 /\ ConcludedFits(z.concluded, z.hits, Len(z.hits), trigger)
      <3>1. Fair(y)  BY <2>1, <2>4 DEF Fair
      <3>2. z.hits = <<>> /\ z.concluded = <<>> /\ HitsFit(z.hits, Len(LineCounts), trigger)
        BY <1>6, <1>10, <2>1, <2>4, <3>1
      <3>3. Len(z.hits) = 0 /\ DOMAIN z.concluded = {} /\ 1..0 = {}  BY <3>2
      <3> QED  BY <3>2, <3>3 DEF ConcludedFits
    <2>5. Knows(z, trigger)  BY <2>1, <2>4 DEF Knows
    <2> QED  BY <1>2, <1>10, <2>1, <2>2, <2>3, <2>5, JobStep DEF JobFits, z
  <1>11. ASSUME ~y.cancelled, y.leaf < Len(LineCounts),
                Becomes(j, Variant([y EXCEPT !.leaf = @ + 1], "leaf"))
         PROVE  ProbeInv'
    <2> DEFINE w == [y EXCEPT !.leaf = @ + 1]
               z == Variant(w, "leaf")
    <2>0. "leaf" \in Phase  BY DEF Phase
    <2>1. w \in ProbeJobs
      <3>1. y \in ProbeJobs  BY <1>6
      <3>2. y.leaf + 1 \in Nat  BY <1>9
      <3> QED  BY <3>1, <3>2 DEF ProbeJobs
    <2>2. /\ w.status = y.status /\ w.live = y.live /\ w.cancelled = y.cancelled
          /\ w.dirty = y.dirty /\ w.hits = y.hits /\ w.leaf = y.leaf + 1
          /\ w.concluded = y.concluded
      BY <1>6 DEF ProbeJobs
    <2> HIDE DEF w
    <2>3. /\ z \in ProbeJobs /\ z.phase = "leaf" /\ z.status = y.status /\ z.step = "pause"
          /\ z.live = y.live /\ z.cancelled = y.cancelled /\ z.dirty = y.dirty /\ z.rep = 0
          /\ z.blocked = FALSE /\ z.hits = y.hits /\ z.leaf = y.leaf + 1
          /\ z.concluded = y.concluded
      BY <2>0, <2>1, <2>2, VariantFields
    <2> HIDE DEF z
    <2>4. StepFits(z)  BY <1>2, <1>6, <1>7, <1>11, <2>3, ProbeAssumption DEF StepFits
    <2>5. PlaceFits(z)
      <3>1. y.leaf + 1 \in LeafNos  BY <1>9, <1>11, LeavesAre
      <3> QED  BY <1>6, <2>3, <3>1 DEF PlaceFits
    <2>6. Knows(z, trigger)
      <3>1. Fair(z) => Fair(y)  BY <2>3 DEF Fair
      <3>2. z.leaf - 1 = y.leaf  BY <1>9, <2>3
      <3>3. z.status # "done"  BY <1>2, <1>6, <1>11, <2>3
      <3> QED  BY <1>6, <2>3, <3>1, <3>2, <3>3 DEF Knows
    <2> QED  BY <1>2, <1>6, <1>11, <2>3, <2>4, <2>5, <2>6, JobStep DEF JobFits, z, w
  <1>12. ASSUME ~y.cancelled, ~(y.leaf < Len(LineCounts)),
                Becomes(j, Variant([y EXCEPT !.found = 1], "pick"))
         PROVE  ProbeInv'
    <2> DEFINE w == [y EXCEPT !.found = 1]
               z == Variant(w, "pick")
    <2>0. "pick" \in Phase  BY DEF Phase
    <2>1. w \in ProbeJobs  BY <1>6 DEF ProbeJobs
    <2>2. /\ w.status = y.status /\ w.live = y.live /\ w.cancelled = y.cancelled
          /\ w.dirty = y.dirty /\ w.hits = y.hits /\ w.found = 1
          /\ w.concluded = y.concluded
      BY <1>6 DEF ProbeJobs
    <2> HIDE DEF w
    <2>3. /\ z \in ProbeJobs /\ z.phase = "pick" /\ z.status = y.status /\ z.step = "pause"
          /\ z.live = y.live /\ z.cancelled = y.cancelled /\ z.dirty = y.dirty /\ z.rep = 0
          /\ z.blocked = FALSE /\ z.hits = y.hits /\ z.found = 1
          /\ z.concluded = y.concluded
      BY <2>0, <2>1, <2>2, VariantFields
    <2> HIDE DEF z
    <2>4. StepFits(z)  BY <1>2, <1>6, <1>7, <1>12, <2>3, ProbeAssumption DEF StepFits
    <2>5. PlaceFits(z)
      <3>1. 1 \in 1..Len(y.hits) + 1  BY <1>6
      <3> QED  BY <1>6, <2>3, <3>1 DEF PlaceFits
    <2>6. Knows(z, trigger)
      <3>1. Fair(z) => Fair(y)  BY <2>3 DEF Fair
      <3>2. y.leaf = Len(LineCounts)  BY <1>9, <1>12
      <3>3. z.status # "done"  BY <1>2, <1>6, <1>12, <2>3
      <3>4. Fair(y) => ConcludedFits(z.concluded, z.hits, z.found - 1, trigger)
        <4> SUFFICES ASSUME Fair(y) PROVE ConcludedFits(z.concluded, z.hits, z.found - 1, trigger)
          OBVIOUS
        <4>1. z.concluded = <<>>  BY <1>6, <2>3
        <4>2. 1..z.found - 1 = {} /\ DOMAIN z.concluded = {}  BY <2>3, <4>1
        <4> QED  BY <4>2 DEF ConcludedFits
      <3> QED  BY <1>6, <2>3, <3>1, <3>2, <3>3, <3>4 DEF Knows
    <2> QED  BY <1>2, <1>6, <1>12, <2>3, <2>4, <2>5, <2>6, JobStep DEF JobFits, z, w
  <1>13. CASE y.cancelled  BY <1>8, <1>10, <1>13 DEF StopOr
  <1>14. CASE ~y.cancelled
    <2>1. Becomes(j, AfterLeaf(y))  BY <1>8, <1>14 DEF StopOr
    <2>2. CASE y.leaf < Len(LineCounts)  BY <1>11, <1>14, <2>1, <2>2 DEF AfterLeaf
    <2>3. CASE ~(y.leaf < Len(LineCounts)) /\ y.hits = <<>>
      <3>1. y.leaf = Len(LineCounts)  BY <1>9, <2>3
      <3> QED  BY <1>10, <1>14, <2>1, <2>3, <3>1 DEF AfterLeaf
    <2>4. CASE ~(y.leaf < Len(LineCounts)) /\ y.hits # <<>>
      BY <1>12, <1>14, <2>1, <2>4 DEF AfterLeaf
    <2> QED  BY <2>2, <2>3, <2>4
  <1> QED  BY <1>13, <1>14

\* The next hit is opened at its full length, or the job ends with all concluded.
LEMMA PicksKeeps ==
  ASSUME ProbeInv, NEW j \in 1..current, Picks(j)
  PROVE  ProbeInv'
  <1> DEFINE y == job[j]
             l == y.hits[y.found]
             C == [leaf : LeafNos, lo : Nat, hi : Nat, ambiguous : BOOLEAN]
  <1>1. /\ y.phase = "pick" /\ Becomes(j, StopOr(y, NextHit(y))) /\ UNCHANGED <<trigger, current>>
    BY DEF Picks
  <1>2. /\ y \in ProbeJobs /\ StepFits(y) /\ PlaceFits(y) /\ Knows(y, trigger)
        /\ y.hits \in Seq(LeafNos) /\ y.concluded \in Seq(C) /\ y.found \in Nat
    BY OfJob, JobFields
  <1>3. /\ y.step = "pause" /\ ~y.live /\ y.found \in 1..Len(y.hits) + 1 /\ IsInjective(y.hits)
        /\ Len(y.hits) \in Nat /\ y.rep < Reps /\ (~y.cancelled => y.status = "running")
    BY <1>1, <1>2 DEF StepFits, PlaceFits
  <1>4. Fair(y) => /\ HitsFit(y.hits, Len(LineCounts), trigger)
                   /\ ConcludedFits(y.concluded, y.hits, y.found - 1, trigger)
    BY <1>1, <1>2 DEF Knows
  <1>5. ASSUME NEW status \in {"aborted", "done"}, Becomes(j, Ends(y, status)),
               status = "done" => ~y.cancelled /\ y.found > Len(y.hits)
        PROVE  ProbeInv'
    <2>1. status = "done" => y.found - 1 = Len(y.hits)  BY <1>3, <1>5
    <2>2. Ends(y, status) \in ProbeJobs /\ JobFits(Ends(y, status), trigger)
      BY <1>2, <1>3, <1>4, <1>5, <2>1, EndsFits
    <2>3. Ends(y, status).status = status  BY <1>2 DEF Ends, ProbeJobs
    <2> QED  BY <1>1, <1>5, <2>2, <2>3, JobStep
  <1>6. ASSUME ~y.cancelled, y.found <= Len(y.hits), LineCounts[l] = 1,
               Becomes(j, Noted(y, Conclusion(l, 0, 1, FALSE)))
        PROVE  ProbeInv'
    <2> DEFINE c == Conclusion(l, 0, 1, FALSE)
               cs == Append(y.concluded, c)
               n == y.found + 1
               z == [y EXCEPT !.concluded = cs, !.found = n]
    <2>0. y.found \in DOMAIN y.hits /\ l \in LeafNos  BY <1>2, <1>3, <1>6
    <2>1. c \in C /\ c.leaf = l /\ c.lo = 0 /\ c.hi = 1 /\ c.ambiguous = FALSE
      BY <2>0 DEF Conclusion
    <2>2. Noted(y, c) = z  BY DEF Noted
    <2>3. RightConclusion(c, trigger)
      <3>1. trigger[l] \subseteq LinesOf(l)  BY <2>0 DEF ProbeInv
      <3>2. LinesOf(l) = 0..1 - 1  BY <1>6 DEF LinesOf
      <3> HIDE DEF c, l
      <3>3. trigger[c.leaf] \subseteq c.lo..c.hi - 1  BY <2>1, <3>1, <3>2
      <3> QED  BY <2>1, <3>3 DEF RightConclusion
    <2> HIDE DEF c
    <2>4. cs \in Seq(C) /\ n \in Nat /\ n - 1 = y.found /\ n \in 1..Len(y.hits) + 1
      <3>1. cs \in Seq(C)  BY <1>2, <2>1
      <3>2. n \in Nat /\ n - 1 = y.found  BY <1>2
      <3>3. y.found >= 1 /\ y.found <= Len(y.hits) /\ Len(y.hits) \in Nat  BY <1>3, <1>6
      <3>4. n \in 1..Len(y.hits) + 1  BY <1>2, <3>3
      <3> QED  BY <3>1, <3>2, <3>4
    <2>5. Fair(y) => ConcludedFits(cs, y.hits, y.found, trigger)
      <3>1. y.found \in Nat \ {0} /\ y.concluded \in Seq(C) /\ c \in C /\ c.leaf = y.hits[y.found]
        BY <1>2, <1>3, <2>1
      <3> HIDE DEF C
      <3> QED  BY <1>4, <2>3, <3>1, ConclusionNoted
    <2> HIDE DEF cs, n
    <2>6. z \in ProbeJobs  BY <1>2, <2>4 DEF ProbeJobs
    <2>7. /\ z.phase = y.phase /\ z.status = y.status /\ z.step = y.step /\ z.live = y.live
          /\ z.cancelled = y.cancelled /\ z.dirty = y.dirty /\ z.rep = y.rep
          /\ z.hits = y.hits /\ z.found = n /\ z.concluded = cs
      BY <1>2 DEF ProbeJobs
    <2> HIDE DEF z
    <2>8. StepFits(z)  BY <1>2, <2>7 DEF StepFits
    <2>9. PlaceFits(z)  BY <1>1, <1>3, <2>4, <2>7 DEF PlaceFits
    <2>10. Knows(z, trigger)
      <3>1. Fair(z) => Fair(y)  BY <2>7 DEF Fair
      <3>2. z.status # "done"  BY <1>3, <1>6, <2>7
      <3> QED  BY <1>1, <1>4, <2>4, <2>5, <2>7, <3>1, <3>2 DEF Knows
    <2>11. Becomes(j, z)  BY <1>6, <2>2 DEF c
    <2> QED  BY <1>1, <2>6, <2>7, <2>8, <2>9, <2>10, <2>11, JobStep DEF JobFits
  <1>7. ASSUME ~y.cancelled, y.found <= Len(y.hits), LineCounts[l] # 1,
               Becomes(j, Variant([y EXCEPT !.leaf = l, !.lo = 0, !.hi = LineCounts[l]], "left"))
        PROVE  ProbeInv'
    <2> DEFINE hi == LineCounts[l]
               w == [y EXCEPT !.leaf = l, !.lo = 0, !.hi = hi]
               z == Variant(w, "left")
    <2>0. y.found \in DOMAIN y.hits /\ l \in LeafNos  BY <1>2, <1>3, <1>7
    <2>1. hi \in Nat /\ hi > 1 /\ l \in Nat  BY <1>7, <2>0, LeavesAre
    <2>2. "left" \in Phase  BY DEF Phase
    <2>3. w \in ProbeJobs  BY <1>2, <2>1 DEF ProbeJobs
    <2>4. /\ w.status = y.status /\ w.live = y.live /\ w.cancelled = y.cancelled
          /\ w.dirty = y.dirty /\ w.hits = y.hits /\ w.found = y.found
          /\ w.concluded = y.concluded /\ w.leaf = l /\ w.lo = 0 /\ w.hi = hi
      BY <1>2 DEF ProbeJobs
    <2> HIDE DEF w
    <2>5. /\ z \in ProbeJobs /\ z.phase = "left" /\ z.status = y.status /\ z.step = "pause"
          /\ z.live = y.live /\ z.cancelled = y.cancelled /\ z.dirty = y.dirty /\ z.rep = 0
          /\ z.blocked = FALSE /\ z.hits = y.hits /\ z.found = y.found
          /\ z.concluded = y.concluded /\ z.leaf = l /\ z.lo = 0 /\ z.hi = hi
      BY <2>2, <2>3, <2>4, VariantFields
    <2> HIDE DEF z
    <2>6. StepFits(z)  BY <1>2, <1>3, <1>7, <2>5, ProbeAssumption DEF StepFits
    <2>7. PlaceFits(z)  BY <1>3, <2>0, <2>1, <2>5 DEF PlaceFits
    <2>8. Knows(z, trigger)
      <3>1. Fair(z) => Fair(y)  BY <2>5 DEF Fair
      <3>2. z.status # "done"  BY <1>3, <1>7, <2>5
      <3>3. trigger[l] \subseteq 0..hi - 1  BY <2>0 DEF ProbeInv, LinesOf
      <3> HIDE DEF l, hi
      <3> QED  BY <1>4, <2>5, <3>1, <3>2, <3>3 DEF Knows
    <2> QED  BY <1>1, <1>7, <2>5, <2>6, <2>7, <2>8, JobStep DEF JobFits, z, w
  <1>8. CASE y.cancelled  BY <1>1, <1>5, <1>8 DEF StopOr
  <1>9. CASE ~y.cancelled
    <2>1. Becomes(j, NextHit(y))  BY <1>1, <1>9 DEF StopOr
    <2>2. CASE y.found > Len(y.hits)  BY <1>5, <1>9, <2>1, <2>2 DEF NextHit
    <2>3. CASE y.found <= Len(y.hits)
      <3>1. ~(y.found > Len(y.hits))  BY <1>2, <1>3, <2>3
      <3> QED  BY <1>6, <1>7, <1>9, <2>1, <2>3, <3>1 DEF NextHit
    <2> QED  BY <1>2, <1>3, <2>2, <2>3
  <1> QED  BY <1>8, <1>9

\* Every step of the jobs, and of those who start and abort them, keeps the invariant.
LEMMA ProbeNextKeeps == ProbeInv /\ [ProbeNext]_probeVars => ProbeInv'
  <1> SUFFICES ASSUME ProbeInv, [ProbeNext]_probeVars PROVE ProbeInv'
    OBVIOUS
  <1>1. CASE UNCHANGED probeVars
    BY <1>1 DEF probeVars, ProbeInv, ProbeTypeOK, JobFits, StepFits, PlaceFits, Knows, Fair
  <1>2. CASE StartsJob  BY <1>2, StartsJobKeeps
  <1>3. CASE AbortsJob  BY <1>3, AbortsJobKeeps
  <1>4. ASSUME NEW j \in 1..current, Works(j) PROVE ProbeInv'
    BY <1>4, GivesUpSendKeeps, SendsKeeps, OutcomeKeeps, JudgesControlKeeps, JudgesLeafKeeps,
       PicksKeeps, JudgesLeftKeeps, JudgesRightKeeps DEF Works
  <1> QED  BY <1>1, <1>2, <1>3, <1>4 DEF ProbeNext

\* Before the first job there is nothing to be true.
LEMMA ProbeInitKeeps == ProbeInit => ProbeInv
  <1> SUFFICES ASSUME ProbeInit PROVE ProbeInv
    OBVIOUS
  <1>1. current = 0 /\ job = <<>> /\ 1..current = {}  BY DEF ProbeInit
  <1>2. job \in [1..current -> ProbeJobs]  BY <1>1
  <1>3. current \in 0..Jobs  BY <1>1, ProbeAssumption
  <1>4. \A l \in LeafNos : trigger[l] \subseteq LinesOf(l)  BY DEF ProbeInit
  <1> QED  BY <1>1, <1>2, <1>3, <1>4 DEF ProbeInv, ProbeTypeOK

\* The invariant holds throughout.
THEOREM ProbeSpecInv == ProbeSpec => []ProbeInv
  BY ProbeInitKeeps, ProbeNextKeeps, PTL DEF ProbeSpec

\* The jobs keep their types, the halves have lines in them and no leaf is a hit
\* twice (probeJob, bisectDescend).
THEOREM ProbeTypesCorrect == ProbeSpec => []ProbeTypeOK
  <1>1. ProbeInv => ProbeTypeOK  BY DEF ProbeInv
  <1> QED  BY <1>1, ProbeSpecInv, PTL

\* At most one request of the probe is at the upstream (wafProbeStart refuses a
\* second job), however many jobs were aborted and are still unwinding.
THEOREM ProbesOneAtATime == ProbeSpec => []OneProbeAtATime
  <1>1. ProbeInv => OneProbeAtATime
    <2> SUFFICES ASSUME ProbeInv PROVE OneProbeAtATime
      OBVIOUS
    <2> DEFINE InTheAir == {j \in 1..current : job[j].live}
    <2>1. \A j \in InTheAir : j = current  BY OfJob DEF StepFits, ProbeInv
    <2>2. InTheAir = {} \/ InTheAir = {current}  BY <2>1
    <2>3. IsFiniteSet({}) /\ Cardinality({}) = 0  BY FS_EmptySet
    <2>4. Cardinality({current}) = 1  BY FS_Singleton
    <2> HIDE DEF InTheAir
    <2>5. Cardinality(InTheAir) <= 1  BY <2>2, <2>3, <2>4
    <2> QED  BY <2>5 DEF InTheAir, OneProbeAtATime
  <1> QED  BY <1>1, ProbeSpecInv, PTL

\* A job that ended done in fair weather has named the leaves that trip the
\* firewall and the lines that do (runProbeJob, bisectDescend), for any number
\* of leaves and lines and wherever an abort falls.
THEOREM DoneJobsAreTrue == ProbeSpec => []DoneIsTrue
  <1>1. ProbeInv => DoneIsTrue
    <2> SUFFICES ASSUME ProbeInv, NEW j \in 1..current, Done(j), ~job[j].dirty
                 PROVE
        /\ ToSet(job[j].hits) = {l \in LeafNos : trigger[l] # {}}
        /\ {c.leaf : c \in ToSet(job[j].concluded)} = ToSet(job[j].hits)
        /\ \A c \in ToSet(job[j].concluded) :
             /\ trigger[c.leaf] \subseteq c.lo..c.hi - 1
             /\ ~c.ambiguous => c.hi = c.lo + 1
             /\ c.ambiguous => Cardinality(trigger[c.leaf]) > 1
      BY DEF DoneIsTrue
    <2> DEFINE y == job[j]
    <2>1. /\ y \in ProbeJobs /\ StepFits(y) /\ Knows(y, trigger) /\ y.hits \in Seq(LeafNos)
      BY OfJob, JobFields
    <2>2. Fair(y) /\ y.status = "done"  BY <2>1 DEF Fair, StepFits, Done
    <2>3. /\ HitsFit(y.hits, Len(LineCounts), trigger)
          /\ ConcludedFits(y.concluded, y.hits, Len(y.hits), trigger)
      BY <2>1, <2>2 DEF Knows
    <2>4. LeafNos = 1..Len(LineCounts)  BY LeavesAre
    <2>5. DOMAIN y.hits = 1..Len(y.hits)  BY <2>1
    <2>6. ToSet(y.hits) = {l \in LeafNos : trigger[l] # {}}
      BY <2>3, <2>4 DEF HitsFit, ToSet
    <2>7. {c.leaf : c \in ToSet(y.concluded)} = ToSet(y.hits)
      <3>1. ASSUME NEW c \in ToSet(y.concluded) PROVE c.leaf \in ToSet(y.hits)
        <4>1. PICK k \in DOMAIN y.concluded : c = y.concluded[k]  BY <3>1 DEF ToSet
        <4>2. PICK i \in 1..Len(y.hits) : c.leaf = y.hits[i]  BY <2>3, <4>1 DEF ConcludedFits
        <4> QED  BY <2>5, <4>2 DEF ToSet
      <3>2. ASSUME NEW l \in ToSet(y.hits) PROVE \E c \in ToSet(y.concluded) : c.leaf = l
        <4>1. PICK i \in 1..Len(y.hits) : l = y.hits[i]  BY <2>5 DEF ToSet
        <4>2. PICK k \in DOMAIN y.concluded : y.concluded[k].leaf = y.hits[i]
          BY <2>3 DEF ConcludedFits
        <4> QED  BY <4>1, <4>2 DEF ToSet
      <3> QED  BY <3>1, <3>2
    <2>8. \A c \in ToSet(y.concluded) : RightConclusion(c, trigger)
      BY <2>3 DEF ConcludedFits, ToSet
    <2> QED  BY <2>6, <2>7, <2>8 DEF RightConclusion
  <1> QED  BY <1>1, ProbeSpecInv, PTL

-----------------------------------------------------------------------------
(***************************************************************************)
(* Gateway.  For any keys, limits, quotas and requests: a key's counter is *)
(* the number of its requests that hold a slot, and a quota is overrun by  *)
(* no more than one answer for each slot.                                  *)
(*                                                                         *)
(* The counter is right because all requests of a key agree on whether     *)
(* they are counted (Agree); the overrun is bounded because what has been  *)
(* charged and what the admitted requests may yet cost stay below the      *)
(* bound together (Budgeted).                                              *)
(***************************************************************************)

VisitSet ==
  [at : Stage, pk : Presents \cup {"none"}, fp : Fps \cup {NoFp}, tail : BOOLEAN,
   key : KeyIds \cup {NoFp}, limit : Nat, probed : BOOLEAN, credits : 0..MaxCredits]

\* The types the proof needs; of a request with a key, the key is the one it
\* presents, and was made.
Types ==
  /\ keyRow \in [KeyIds -> Key \cup {NoKey}]
  /\ slots \in [KeyIds -> Nat]
  /\ visit \in [Visits -> VisitSet]
  /\ Keys \subseteq everMade
  /\ edited \subseteq everMade
  /\ switched \subseteq edited
  /\ \A v \in Visits : visit[v].key # NoFp => visit[v].key = visit[v].pk /\ visit[v].key \in everMade
  /\ \A v \in Visits : visit[v].at = "door" => visit[v].key = NoFp
  /\ \A v \in Visits : visit[v].at = "slot" => visit[v].key # NoFp
  /\ \A v \in Visits : visit[v].at = "gone" => visit[v].key = NoFp

\* The requests of a key whose limit nobody set or lifted around them are all
\* counted or none is, as the row says.
Agree ==
  \A k \in KeyIds \ switched : \A v \in Visits : visit[v].key = k =>
    /\ keyRow[k].made => (visit[v].limit > 0 <=> keyRow[k].limit > 0)
    /\ \A w \in Visits : visit[w].key = k => (visit[v].limit > 0 <=> visit[w].limit > 0)

\* The requests of a key that may still be charged to it.
Admitted(k) ==
  {v \in Visits : visit[v].key = k /\ visit[v].at \in {"probe", "cache", "upstream", "charge"}}

\* The limit of a key nobody edits is the one its requests read, and bounds its
\* counter; what it has used and what its admitted requests may cost is bounded.
Budget(k) ==
  /\ \A v \in Visits : visit[v].key = k => visit[v].limit = keyRow[k].limit
  /\ keyRow[k].limit > 0 => slots[k] <= keyRow[k].limit
  /\ keyRow[k].quota > 0 /\ keyRow[k].limit > 0 =>
       keyRow[k].used + Cardinality(Admitted(k)) * MaxCredits
         < keyRow[k].quota + keyRow[k].limit * MaxCredits

Budgeted == \A k \in Keys \ edited : Budget(k)

\* No fingerprint is twice in the list c; none is fp.
Distinct(c) == \A i, j \in 1..Len(c) : c[i] = c[j] => i = j
Lacks(c, fp) == \A i \in 1..Len(c) : c[i] # fp

\* An answer of a bounded price.
KeptAnswer == [credits : 0..MaxCredits, age : 0..TTL + 1]

\* List and index have the same keys, once each, and what the index keeps for a
\* key is the answer stored last for it.
CacheHolds ==
  /\ ll \in Seq(Fps) /\ Distinct(ll) /\ Len(ll) <= MaxEntries
  /\ DOMAIN entries = ToSet(ll)
  /\ latest \in [Fps -> KeptAnswer]
  /\ \A f \in DOMAIN entries : entries[f] = latest[f]

\* A request that is not over has a fingerprint.
Printed == \A v \in Visits : visit[v].at # "gone" => visit[v].fp \in Fps

GInv == Types /\ CacheHolds /\ Agree /\ SlotsAreHolders /\ Budgeted

-----------------------------------------------------------------------------
(***************************************************************************)
(* The cache: its list and its index stay one, and keep the answer stored  *)
(* last for each of their keys.                                            *)
(***************************************************************************)

\* The list without a fingerprint has the others once each.
LEMMA OthersDistinct ==
  ASSUME CacheHolds, NEW fp
  PROVE  /\ Others(fp) \in Seq(Fps) /\ Distinct(Others(fp)) /\ Lacks(Others(fp), fp)
         /\ Len(Others(fp)) \in Nat /\ Len(Others(fp)) <= MaxEntries
         /\ fp \in ToSet(ll) => Len(Others(fp)) + 1 <= MaxEntries
         /\ ToSet(Others(fp)) = ToSet(ll) \ {fp}
<1>1. ll \in Seq(Fps) /\ Len(ll) \in Nat /\ DOMAIN ll = 1..Len(ll)
      BY DEF CacheHolds
<1>2. CASE fp \notin ToSet(ll)
  <2>1. Others(fp) = ll BY <1>2 DEF Others
  <2>2. Lacks(ll, fp) BY <1>1, <1>2 DEF ToSet, Lacks
  <2> QED BY <1>1, <1>2, <2>1, <2>2 DEF CacheHolds
<1>3. CASE fp \in ToSet(ll)
  <2> DEFINE i == CHOOSE i \in DOMAIN ll : ll[i] = fp
             o == Others(fp)
             n == Len(ll)
  <2>1. i \in 1..n /\ ll[i] = fp BY <1>1, <1>3 DEF ToSet
  <2>2. o = SubSeq(ll, 1, i - 1) \o SubSeq(ll, i + 1, n)
        BY <1>3 DEF Others, RemoveAt
  <2> HIDE DEF i
  <2>3. /\ SubSeq(ll, 1, i - 1) \in Seq(Fps) /\ Len(SubSeq(ll, 1, i - 1)) = i - 1
        /\ \A k \in 1..i - 1 : SubSeq(ll, 1, i - 1)[k] = ll[k]
        BY <1>1, <2>1
  <2>4. /\ SubSeq(ll, i + 1, n) \in Seq(Fps) /\ Len(SubSeq(ll, i + 1, n)) = n - i
        /\ \A k \in 1..n - i : SubSeq(ll, i + 1, n)[k] = ll[k + i]
    <3>1. i + 1 \in 1..n + 1 /\ n \in Nat /\ i \in Nat BY <1>1, <2>1
    <3>2. SubSeq(ll, i + 1, n) \in Seq(Fps) BY <1>1, <3>1
    <3>3. SubSeq(ll, i + 1, n) = [k \in 1..(n + 1) - (i + 1) |-> ll[k + (i + 1) - 1]]
          BY <1>1, <3>1
    <3>4. (n + 1) - (i + 1) = n - i /\ n - i \in Nat BY <2>1, <3>1
    <3>5. \A k \in 1..n - i : k + (i + 1) - 1 = k + i BY <3>1
    <3> QED BY <3>2, <3>3, <3>4, <3>5
  <2> HIDE DEF o
  <2>5. o \in Seq(Fps) /\ Len(o) = n - 1
    <3>1. o \in Seq(Fps) BY <2>2, <2>3, <2>4
    <3>2. Len(o) = (i - 1) + (n - i) BY <2>2, <2>3, <2>4
    <3> QED BY <1>1, <2>1, <3>1, <3>2
  <2>6. ASSUME NEW k \in 1..n - 1 PROVE o[k] = ll[IF k < i THEN k ELSE k + 1]
    <3>1. CASE k < i
      <4>1. k \in 1..i - 1 BY <1>1, <2>1, <3>1
      <4>2. o[k] = SubSeq(ll, 1, i - 1)[k] BY <2>2, <2>3, <2>4, <2>5, <4>1
      <4> QED BY <2>3, <3>1, <4>1, <4>2
    <3>2. CASE ~(k < i)
      <4>2. k - (i - 1) \in 1..n - i /\ k > i - 1 BY <1>1, <2>1, <3>2
      <4>1. o[k] = SubSeq(ll, i + 1, n)[k - (i - 1)]
        <5> DEFINE a == SubSeq(ll, 1, i - 1)
                   b == SubSeq(ll, i + 1, n)
        <5>1. /\ a \in Seq(Fps) /\ b \in Seq(Fps) /\ o = a \o b
              /\ Len(a) = i - 1 /\ Len(b) = n - i
              BY <2>2, <2>3, <2>4
        <5>0. (i - 1) + (n - i) = n - 1 /\ k > i - 1 BY <1>1, <2>1, <4>2
        <5>2. k \in 1..Len(a) + Len(b) /\ k > Len(a)
          <6>1. Len(a) = i - 1 /\ Len(b) = n - i BY <5>1
          <6> HIDE DEF a, b
          <6>2. Len(a) + Len(b) = n - 1 /\ k > Len(a) BY <5>0, <6>1
          <6> QED BY <6>2
        <5> HIDE DEF a, b
        <5>3. o[k] = b[k - Len(a)] BY <5>1, <5>2
        <5> QED BY <5>1, <5>3 DEF b
      <4>3. o[k] = ll[(k - (i - 1)) + i] BY <2>4, <4>1, <4>2
      <4>4. (k - (i - 1)) + i = k + 1 BY <1>1, <2>1
      <4> QED BY <3>2, <4>3, <4>4
    <3> QED BY <3>1, <3>2
  <2>7. ASSUME NEW k \in 1..n - 1
        PROVE  (IF k < i THEN k ELSE k + 1) \in 1..n \ {i}
        BY <1>1, <2>1
  <2>8. Distinct(ll) /\ n <= MaxEntries BY DEF CacheHolds
  <2>9. Lacks(o, fp) BY <1>1, <2>1, <2>5, <2>6, <2>7, <2>8 DEF Lacks, Distinct
  <2>10. Distinct(o)
    <3> SUFFICES ASSUME NEW j \in 1..n - 1, NEW k \in 1..n - 1, o[j] = o[k]
                 PROVE  j = k
        BY <2>5 DEF Distinct
    <3>1. (IF j < i THEN j ELSE j + 1) = (IF k < i THEN k ELSE k + 1)
          BY <2>6, <2>7, <2>8 DEF Distinct
    <3> QED BY <1>1, <2>1, <3>1
  <2>11. Len(o) + 1 <= MaxEntries BY <1>1, <2>5, <2>8
  <2>12. Len(o) \in Nat /\ Len(o) <= MaxEntries BY <1>1, <2>1, <2>5, <2>11, CacheAssumption
  <2>13. ToSet(o) = ToSet(ll) \ {fp}
    <3>1. DOMAIN o = 1..n - 1 BY <2>5
    <3>2. ASSUME NEW x \in ToSet(o) PROVE x \in ToSet(ll) \ {fp}
      <4>1. PICK k \in 1..n - 1 : x = o[k] BY <3>1 DEF ToSet
      <4>2. x = ll[IF k < i THEN k ELSE k + 1] BY <2>6, <4>1
      <4>3. x \in ToSet(ll) BY <1>1, <2>7, <4>2 DEF ToSet
      <4>4. x # fp BY <2>5, <2>9, <4>1 DEF Lacks
      <4> QED BY <4>3, <4>4
    <3>3. ASSUME NEW x \in ToSet(ll) \ {fp} PROVE x \in ToSet(o)
      <4>1. PICK j \in 1..n : x = ll[j] BY <1>1 DEF ToSet
      <4>2. j # i BY <2>1, <4>1
      <4>3. CASE j < i
        <5>1. j \in 1..n - 1 BY <1>1, <2>1, <4>3
        <5>2. o[j] = x BY <2>6, <4>1, <4>3, <5>1
        <5> QED BY <3>1, <5>1, <5>2 DEF ToSet
      <4>4. CASE ~(j < i)
        <5>1. j - 1 \in 1..n - 1 /\ ~(j - 1 < i) /\ (j - 1) + 1 = j BY <1>1, <2>1, <4>2, <4>4
        <5>2. o[j - 1] = x BY <2>6, <4>1, <5>1
        <5> QED BY <3>1, <5>1, <5>2 DEF ToSet
      <4> QED BY <4>3, <4>4
    <3> QED BY <3>2, <3>3
  <2> QED BY <1>3, <2>5, <2>9, <2>10, <2>11, <2>12, <2>13 DEF o
<1> QED BY <1>2, <1>3

\* A key put in front of a list that lacks it.
LEMMA InFront ==
  ASSUME NEW c \in Seq(Fps), Distinct(c), NEW e \in Fps, Lacks(c, e)
  PROVE  <<e>> \o c \in Seq(Fps) /\ Distinct(<<e>> \o c) /\ Len(<<e>> \o c) = Len(c) + 1
         /\ ToSet(<<e>> \o c) = ToSet(c) \cup {e}
<1> DEFINE all == <<e>> \o c
<1>1. <<e>> \in Seq(Fps) /\ Len(<<e>>) = 1 /\ <<e>>[1] = e /\ Len(c) \in Nat OBVIOUS
<1>2. all \in Seq(Fps) /\ Len(all) = Len(c) + 1 BY <1>1
<1>3. all[1] = e /\ \A i \in 2..Len(c) + 1 : all[i] = c[i - 1] BY <1>1
<1> HIDE DEF all
<1>4. ASSUME NEW i \in 1..Len(all), NEW j \in 1..Len(all), all[i] = all[j]
      PROVE  i = j
  <2>1. \A k \in 2..Len(c) + 1 : k - 1 \in 1..Len(c) BY <1>1
  <2>2. CASE i = 1 /\ j # 1
    <3>1. j \in 2..Len(c) + 1 BY <1>1, <1>2, <2>2
    <3> QED BY <1>3, <1>4, <2>1, <2>2, <3>1 DEF Lacks
  <2>3. CASE i # 1 /\ j = 1
    <3>1. i \in 2..Len(c) + 1 BY <1>1, <1>2, <2>3
    <3> QED BY <1>3, <1>4, <2>1, <2>3, <3>1 DEF Lacks
  <2>4. CASE i # 1 /\ j # 1
    <3>1. i \in 2..Len(c) + 1 /\ j \in 2..Len(c) + 1 BY <1>1, <1>2, <2>4
    <3>2. i - 1 = j - 1 BY <1>3, <1>4, <2>1, <3>1 DEF Distinct
    <3> QED BY <3>1, <3>2
  <2> QED BY <2>2, <2>3, <2>4
<1>5. Distinct(all) BY <1>4 DEF Distinct
<1>6. ToSet(all) = ToSet(c) \cup {e}
  <2>1. DOMAIN all = 1..Len(c) + 1 /\ DOMAIN c = 1..Len(c) BY <1>2
  <2>2. ASSUME NEW x \in ToSet(all) PROVE x \in ToSet(c) \cup {e}
    <3>1. PICK i \in 1..Len(c) + 1 : x = all[i] BY <2>1 DEF ToSet
    <3>2. CASE i = 1 BY <1>3, <3>1, <3>2
    <3>3. CASE i # 1
      <4>1. i \in 2..Len(c) + 1 /\ i - 1 \in 1..Len(c) BY <1>1, <3>1, <3>3
      <4>2. x = c[i - 1] BY <1>3, <3>1, <4>1
      <4> QED BY <2>1, <4>1, <4>2 DEF ToSet
    <3> QED BY <3>2, <3>3
  <2>3. ASSUME NEW x \in ToSet(c) PROVE x \in ToSet(all)
    <3>1. PICK i \in 1..Len(c) : x = c[i] BY <2>1 DEF ToSet
    <3>2. i + 1 \in 2..Len(c) + 1 /\ i + 1 \in 1..Len(c) + 1 /\ (i + 1) - 1 = i BY <1>1
    <3>3. all[i + 1] = x BY <1>3, <3>1, <3>2
    <3> QED BY <2>1, <3>2, <3>3 DEF ToSet
  <2>4. e \in ToSet(all)
    <3>1. 1 \in 1..Len(c) + 1 BY <1>1
    <3> QED BY <1>3, <2>1, <3>1 DEF ToSet
  <2> QED BY <2>2, <2>3, <2>4
<1> QED BY <1>2, <1>5, <1>6 DEF all

\* A get drops an expired answer, or moves a live one to the front.
LEMMA GetHolds ==
  ASSUME CacheHolds, NEW fp \in Fps, CacheGet(fp), UNCHANGED latest
  PROVE  CacheHolds'
<1>1. /\ Others(fp) \in Seq(Fps) /\ Distinct(Others(fp)) /\ Lacks(Others(fp), fp)
      /\ Len(Others(fp)) \in Nat /\ Len(Others(fp)) <= MaxEntries
      /\ fp \in ToSet(ll) => Len(Others(fp)) + 1 <= MaxEntries
      /\ ToSet(Others(fp)) = ToSet(ll) \ {fp}
      BY OthersDistinct
<1>2. CASE Hit(fp)
  <2>1. ll' = <<fp>> \o Others(fp) /\ entries' = entries BY <1>2 DEF CacheGet
  <2>2. fp \in ToSet(ll) BY <1>2 DEF Hit, CacheHolds
  <2>3. /\ <<fp>> \o Others(fp) \in Seq(Fps) /\ Distinct(<<fp>> \o Others(fp))
        /\ Len(<<fp>> \o Others(fp)) = Len(Others(fp)) + 1
        /\ ToSet(<<fp>> \o Others(fp)) = ToSet(Others(fp)) \cup {fp}
        BY <1>1, InFront
  <2>4. ToSet(ll') = ToSet(ll) BY <1>1, <2>1, <2>2, <2>3
  <2> QED BY <1>1, <2>1, <2>2, <2>3, <2>4 DEF CacheHolds
<1>3. CASE ~Hit(fp)
  <2>1. ll' = Others(fp) /\ entries' = Unindexed(fp) BY <1>3 DEF CacheGet
  <2>2. /\ DOMAIN entries' = DOMAIN entries \ {fp}
        /\ \A f \in DOMAIN entries' : entries'[f] = entries[f]
        BY <2>1 DEF Unindexed
  <2> QED BY <1>1, <2>1, <2>2 DEF CacheHolds
<1> QED BY <1>2, <1>3

\* A put replaces what the key had and cuts the list at its length.
LEMMA PutHolds ==
  ASSUME CacheHolds, NEW fp \in Fps, NEW credits \in 0..MaxCredits, CachePut(fp, credits)
  PROVE  CacheHolds'
<1> DEFINE new == [credits |-> credits, age |-> 0]
           all == <<fp>> \o Others(fp)
           n == IF Len(all) > MaxEntries THEN MaxEntries ELSE Len(all)
           kept == SubSeq(all, 1, n)
<1>1. /\ ll' = kept /\ entries' = [f \in ToSet(kept) |-> IF f = fp THEN new ELSE entries[f]]
      /\ latest' = [latest EXCEPT ![fp] = new]
      BY DEF CachePut
<1>2. new \in KeptAnswer
  <2>1. 0 \in 0..TTL + 1 BY CacheAssumption
  <2> QED BY <2>1 DEF KeptAnswer
<1> HIDE DEF new
<1>3. /\ Others(fp) \in Seq(Fps) /\ Distinct(Others(fp)) /\ Lacks(Others(fp), fp)
      /\ ToSet(Others(fp)) = ToSet(ll) \ {fp}
      BY OthersDistinct
<1>4. all \in Seq(Fps) /\ Distinct(all) /\ ToSet(all) = ToSet(Others(fp)) \cup {fp}
      BY <1>3, InFront
<1> HIDE DEF all
<1>5. n \in Nat /\ n <= Len(all) /\ n <= MaxEntries /\ Len(all) \in Nat
      BY <1>4, CacheAssumption
<1> HIDE DEF n
<1>6. kept \in Seq(Fps) /\ Len(kept) = n /\ \A i \in 1..n : kept[i] = all[i]
      BY <1>4, <1>5
<1>7. \A i \in 1..n : i \in 1..Len(all) BY <1>5
<1> HIDE DEF kept
<1>8. Distinct(kept) BY <1>4, <1>6, <1>7 DEF Distinct
<1>9. ToSet(kept) \subseteq ToSet(all)
  <2>1. DOMAIN kept = 1..n /\ DOMAIN all = 1..Len(all) BY <1>4, <1>6
  <2> QED BY <1>6, <1>7, <2>1 DEF ToSet
<1>10. \A f \in ToSet(kept) : f # fp => f \in DOMAIN entries
      BY <1>3, <1>4, <1>9 DEF CacheHolds
<1>11. /\ latest \in [Fps -> KeptAnswer] /\ latest' \in [Fps -> KeptAnswer]
       /\ latest'[fp] = new /\ \A f \in Fps : f # fp => latest'[f] = latest[f]
      BY <1>1, <1>2 DEF CacheHolds
<1>12. ToSet(kept) \subseteq Fps BY <1>6 DEF ToSet
<1>13. \A f \in DOMAIN entries' : entries'[f] = latest'[f]
      BY <1>1, <1>10, <1>11, <1>12 DEF CacheHolds
<1>14. DOMAIN entries' = ToSet(ll') BY <1>1
<1> QED BY <1>1, <1>5, <1>6, <1>8, <1>11, <1>13, <1>14 DEF CacheHolds

\* The clock makes an answer older, in the index and in the history alike.
LEMMA TicksHold ==
  ASSUME CacheHolds, Ticks
  PROVE  CacheHolds'
<1>1. ASSUME NEW e \in KeptAnswer PROVE Older(e) \in KeptAnswer
  <2>1. CASE Live(e)
    <3> DEFINE a == e.age + 1
    <3>1. a \in 0..TTL + 1 BY <1>1, <2>1, CacheAssumption DEF Live, KeptAnswer
    <3>2. Older(e) = [e EXCEPT !.age = a] BY <2>1 DEF Older
    <3> HIDE DEF a
    <3> QED BY <1>1, <3>1, <3>2 DEF KeptAnswer
  <2>2. CASE ~Live(e) BY <1>1, <2>2 DEF Older
  <2> QED BY <2>1, <2>2
<1>2. /\ entries' = [f \in DOMAIN entries |-> Older(entries[f])] /\ ll' = ll
      /\ latest' = [f \in Fps |-> Older(latest[f])]
      BY DEF Ticks
<1>3. /\ ll \in Seq(Fps) /\ DOMAIN entries = ToSet(ll) /\ latest \in [Fps -> KeptAnswer]
      /\ \A f \in DOMAIN entries : entries[f] = latest[f]
      BY DEF CacheHolds
<1>4. \A f \in Fps : latest[f] \in KeptAnswer BY <1>3
<1>5. latest' \in [Fps -> KeptAnswer] BY <1>1, <1>2, <1>4
<1>6. DOMAIN entries \subseteq Fps BY <1>3 DEF ToSet
<1>7. \A f \in DOMAIN entries' : entries'[f] = latest'[f] BY <1>2, <1>3, <1>6
<1> QED BY <1>2, <1>3, <1>5, <1>7 DEF CacheHolds

\* The rest of the gateway leaves the cache alone.
LEMMA CacheStays == CacheHolds /\ UNCHANGED <<ll, entries, latest>> => CacheHolds'
BY DEF CacheHolds

-----------------------------------------------------------------------------
(***************************************************************************)
(* Counting requests.                                                      *)
(***************************************************************************)

\* Credits are numbers.
LEMMA PriceNat == MaxCredits \in Nat /\ \A c \in 0..MaxCredits : c \in Nat /\ c <= MaxCredits
<1>1. MaxCredits \in Nat BY GatewayAssumption
<1> QED BY <1>1

\* What n answers may cost grows with n.
LEMMA Scaled ==
  ASSUME NEW a \in Nat, NEW b \in Nat, NEW m \in Nat, a <= b
  PROVE  a * m \in Nat /\ b * m \in Nat /\ a * m <= b * m
<1>1. PICK d \in Nat : b = a + d
  <2>1. b - a \in Nat /\ b = a + (b - a) OBVIOUS
  <2> QED BY <2>1
<1>2. (a + d) * m = a * m + d * m BY SMT
<1>3. a * m \in Nat /\ d * m \in Nat BY SMT
<1> QED BY <1>1, <1>2, <1>3

\* One answer more costs no more than the dearest.
LEMMA ScaledSucc ==
  ASSUME NEW a \in Nat, NEW m \in Nat
  PROVE  (a + 1) * m = a * m + m /\ a * m \in Nat
BY SMT

\* The requests counted for a key and those admitted are finitely many.
LEMMA FinitelyMany ==
  ASSUME NEW k
  PROVE  /\ IsFiniteSet(CountedFor(k)) /\ Cardinality(CountedFor(k)) \in Nat
         /\ IsFiniteSet(Admitted(k)) /\ Cardinality(Admitted(k)) \in Nat
<1>1. IsFiniteSet(Visits) BY GatewayAssumption
<1>2. CountedFor(k) \subseteq Visits /\ Admitted(k) \subseteq Visits
      BY DEF CountedFor, Holding, Admitted
<1> QED BY <1>1, <1>2, FS_Subset, FS_CardinalityType

\* The numbers in a key's row, and what its admitted requests may cost.
LEMMA RowNumbers ==
  ASSUME Types, NEW k \in Keys
  PROVE  /\ k \in KeyIds /\ k # NoFp /\ keyRow[k] \in Key /\ slots[k] \in Nat
         /\ keyRow[k].used \in Nat /\ keyRow[k].quota \in Nat /\ keyRow[k].limit \in Nat
         /\ keyRow[k].limit * MaxCredits \in Nat
         /\ Cardinality(Admitted(k)) * MaxCredits \in Nat
<1>1. k \in KeyIds /\ k # NoFp /\ keyRow[k] \in Key /\ slots[k] \in Nat
  <2>1. k \in KeyIds /\ keyRow[k].made BY DEF Keys
  <2>2. ~NoKey.made BY DEF NoKey
  <2>3. k # NoFp BY <2>1, GatewayAssumption DEF NoFp
  <2>4. keyRow[k] \in Key \cup {NoKey} /\ slots[k] \in Nat BY <2>1 DEF Types
  <2>5. keyRow[k] # NoKey BY <2>1, <2>2
  <2> QED BY <2>1, <2>3, <2>4, <2>5
<1>2. keyRow[k].used \in Nat /\ keyRow[k].quota \in Nat /\ keyRow[k].limit \in Nat
      BY <1>1, KeysAssumption DEF Key
<1> QED BY <1>1, <1>2, FinitelyMany, ScaledSucc, GatewayAssumption

\* A key's budget holds on when its row stays, none of its requests is admitted
\* and no slot is taken.
LEMMA BudgetStays ==
  ASSUME Types, NEW k \in Keys, Budget(k), slots'[k] \in Nat,
         keyRow'[k] = keyRow[k], slots'[k] <= slots[k],
         \A w \in Visits : visit'[w].key = k => visit'[w].limit = keyRow[k].limit,
         Admitted(k)' \subseteq Admitted(k)
  PROVE  Budget(k)'
<1> DEFINE n == Cardinality(Admitted(k))
           m == Cardinality(Admitted(k)')
<1>1. m \in Nat /\ n \in Nat /\ m <= n
      BY FinitelyMany, FS_Subset, FS_CardinalityType
<1>2. m * MaxCredits \in Nat /\ n * MaxCredits \in Nat /\ m * MaxCredits <= n * MaxCredits
      BY <1>1, Scaled, GatewayAssumption
<1>3. keyRow[k].quota > 0 /\ keyRow[k].limit > 0 =>
        keyRow[k].used + n * MaxCredits < keyRow[k].quota + keyRow[k].limit * MaxCredits
      BY DEF Budget
<1>4. keyRow[k].limit > 0 => slots[k] <= keyRow[k].limit BY DEF Budget
<1> HIDE DEF n, m
<1>5. keyRow[k].quota > 0 /\ keyRow[k].limit > 0 =>
        keyRow[k].used + m * MaxCredits < keyRow[k].quota + keyRow[k].limit * MaxCredits
      BY <1>2, <1>3, RowNumbers
<1>6. keyRow[k].limit > 0 => slots'[k] <= keyRow[k].limit BY <1>4, RowNumbers
<1> QED BY <1>5, <1>6 DEF Budget, m

-----------------------------------------------------------------------------

InHand == {"auth", "probe", "cache", "upstream", "charge", "release"}
MayCost == {"probe", "cache", "upstream", "charge"}

\* Only one request moves, with the key and the limit it has, and no further
\* into what may cost: nothing the invariant counts grows.
LEMMA MovesInv ==
  ASSUME GInv, NEW v \in Visits, NEW new \in VisitSet, Goes(v, new),
         UNCHANGED <<keyRow, slots, everMade, edited, switched>>,
         CacheHolds',
         new.key = visit[v].key, new.pk = visit[v].pk, new.limit = visit[v].limit,
         new.at \in InHand,
         visit[v].at \in InHand \/ visit[v].key = NoFp,
         new.at \in MayCost /\ visit[v].key # NoFp => visit[v].at \in MayCost
  PROVE  GInv'
<1>1. visit'[v] = new /\ \A w \in Visits : w # v => visit'[w] = visit[w]
      BY DEF GInv, Types, Goes
<1>2. \A w \in Visits : visit'[w].key = visit[w].key /\ visit'[w].limit = visit[w].limit
                       /\ visit'[w].pk = visit[w].pk
      BY <1>1
<1>3. Types' BY <1>1, <1>2 DEF GInv, Types, Goes, InHand, Keys
<1>4. Agree' BY <1>2 DEF GInv, Agree
<1>5. ASSUME NEW k \in KeyIds PROVE CountedFor(k)' = CountedFor(k)
  <2>1. k # NoFp BY GatewayAssumption DEF NoFp
  <2> QED BY <1>1, <1>2, <2>1 DEF CountedFor, Holding, InHand
<1>6. SlotsAreHolders' BY <1>5 DEF GInv, SlotsAreHolders
<1>7. ASSUME NEW k \in Keys' \ edited' PROVE Budget(k)'
  <2>1. k \in Keys /\ k \notin edited /\ Budget(k) /\ k # NoFp /\ slots'[k] \in Nat
        BY <1>7, RowNumbers DEF GInv, Budgeted, Keys
  <2>2. Admitted(k)' \subseteq Admitted(k)
        BY <1>1, <2>1 DEF Admitted, MayCost
  <2>3. \A w \in Visits : visit'[w].key = k => visit'[w].limit = keyRow[k].limit
        BY <1>2, <2>1 DEF Budget
  <2> QED BY <2>1, <2>2, <2>3, BudgetStays DEF GInv
<1>8. Budgeted' BY <1>7 DEF Budgeted
<1> QED BY <1>3, <1>4, <1>6, <1>8 DEF GInv

\* traceChat resolves the key: nothing is counted yet.
LEMMA ResolvesKeyInv ==
  ASSUME GInv, NEW v \in Visits, ResolvesKey(v)
  PROVE  GInv'
<1>1. /\ visit[v].at = "door" /\ visit[v].key = NoFp /\ visit[v] \in VisitSet
      /\ UNCHANGED <<keyRow, slots, everMade, edited, switched>>
      /\ CacheHolds'
      BY CacheStays DEF ResolvesKey, GInv, Types, keyVars, cacheVars
<1>2. CASE Goes(v, Onward(v, "auth"))
  <2> DEFINE new == Onward(v, "auth")
  <2>1. /\ new \in VisitSet /\ new.key = NoFp /\ new.at = "auth"
        /\ new.pk = visit[v].pk /\ new.limit = visit[v].limit
        BY <1>1 DEF Onward, VisitSet, Stage
  <2> HIDE DEF new
  <2>2. Goes(v, new) BY <1>2 DEF new
  <2> QED BY <1>1, <2>1, <2>2, MovesInv DEF InHand, MayCost
<1>3. CASE Resolve(visit[v].pk) = "keyed"
  <2> DEFINE k == visit[v].pk
             new == [Onward(v, "slot") EXCEPT !.key = k, !.limit = keyRow[k].limit]
  <2>1. k \in Keys BY <1>3 DEF Resolve
  <2>2. keyRow[k].limit \in Nat /\ k \in KeyIds /\ k # NoFp BY <2>1, RowNumbers DEF GInv
  <2>3. /\ new \in VisitSet /\ new.key = k /\ new.at = "slot"
        /\ new.pk = k /\ new.limit = keyRow[k].limit
        BY <1>1, <2>2 DEF Onward, VisitSet, Stage
  <2>4. Goes(v, new) BY <1>1, <1>3 DEF ResolvesKey
  <2> HIDE DEF new
  <2>5. visit'[v] = new /\ \A w \in Visits : w # v => visit'[w] = visit[w]
        BY <2>4 DEF GInv, Types, Goes
  <2> HIDE DEF k
  <2>6. Types'
        BY <1>1, <2>1, <2>2, <2>3, <2>4, <2>5 DEF GInv, Types, Goes, Keys
  <2>7. Agree'
    <3> SUFFICES ASSUME NEW j \in KeyIds \ switched, NEW w \in Visits, visit'[w].key = j
                 PROVE  /\ keyRow[j].made => (visit'[w].limit > 0 <=> keyRow[j].limit > 0)
                        /\ \A x \in Visits : visit'[x].key = j =>
                             (visit'[w].limit > 0 <=> visit'[x].limit > 0)
        BY <1>1 DEF Agree
    <3>1. keyRow[k].made BY <2>1 DEF Keys
    <3>2. \A x \in Visits \ {v} : visit'[x].key = j =>
            /\ keyRow[j].made => (visit[x].limit > 0 <=> keyRow[j].limit > 0)
            /\ \A y \in Visits : visit[y].key = j => (visit[x].limit > 0 <=> visit[y].limit > 0)
          BY <2>5 DEF GInv, Agree
    <3> QED BY <2>3, <2>5, <3>1, <3>2
  <2>8. ASSUME NEW j \in KeyIds
        PROVE  CountedFor(j)' = CountedFor(j) /\ Admitted(j)' = Admitted(j)
    <3>1. j # NoFp BY GatewayAssumption DEF NoFp
    <3> QED BY <1>1, <2>3, <2>5, <3>1 DEF CountedFor, Holding, Admitted
  <2>9. SlotsAreHolders' BY <1>1, <2>8 DEF GInv, SlotsAreHolders
  <2>10. ASSUME NEW j \in Keys' \ edited' PROVE Budget(j)'
    <3>1. j \in Keys /\ j \notin edited /\ Budget(j) /\ j \in KeyIds /\ slots'[j] \in Nat
          BY <1>1, <2>10, RowNumbers DEF GInv, Budgeted, Keys
    <3>2. \A w \in Visits : visit'[w].key = j => visit'[w].limit = keyRow[j].limit
          BY <2>3, <2>5, <3>1 DEF Budget
    <3> QED BY <1>1, <2>8, <3>1, <3>2, BudgetStays DEF GInv
  <2> QED BY <1>1, <2>6, <2>7, <2>9, <2>10 DEF GInv, Budgeted
<1> QED BY <1>2, <1>3 DEF ResolvesKey

\* What is left of a request that is over has no key.
LEMMA GoneVisit == Gone \in VisitSet /\ Gone.key = NoFp /\ Gone.at = "gone"
<1> DEFINE first == Visit("none", NoFp, FALSE)
<1>1. first = [at |-> "door", pk |-> "none", fp |-> NoFp, tail |-> FALSE, key |-> NoFp,
               limit |-> 0, probed |-> FALSE, credits |-> 0]
      BY DEF Visit
<1>2. 0 \in 0..MaxCredits /\ 0 \in Nat BY PriceNat
<1> HIDE DEF first
<1>3. first \in VisitSet /\ first.key = NoFp BY <1>1, <1>2 DEF VisitSet, Stage
<1>4. Gone = [first EXCEPT !.at = "gone"] BY DEF Gone, first
<1> QED BY <1>3, <1>4 DEF VisitSet, Stage

\* A request that is over leaves the others of its key as they were.
LEMMA GoneKeeps ==
  ASSUME Types, Agree, NEW v \in Visits, visit' = [visit EXCEPT ![v] = Gone],
         UNCHANGED <<keyRow, everMade, edited, switched>>,
         slots' \in [KeyIds -> Nat], \A k \in KeyIds : slots'[k] <= slots[k],
         Budgeted
  PROVE  Types' /\ Agree' /\ Budgeted'
<1>1. visit'[v] = Gone /\ \A w \in Visits : w # v => visit'[w] = visit[w]
      BY DEF Types
<1>2. Types' BY <1>1, GoneVisit DEF Types, Keys
<1>3. \A w \in Visits, k \in KeyIds : visit'[w].key = k =>
        visit[w].key = k /\ visit'[w].limit = visit[w].limit
      BY <1>1, GoneVisit, GatewayAssumption DEF NoFp
<1>4. Agree' BY <1>3 DEF Agree
<1>5. ASSUME NEW k \in Keys' \ edited' PROVE Budget(k)'
  <2>1. k \in Keys /\ k \notin edited /\ k \in KeyIds /\ Budget(k) /\ slots'[k] \in Nat
        BY <1>5, RowNumbers DEF Keys, Budgeted
  <2>2. Admitted(k)' \subseteq Admitted(k)
        BY <1>1, GoneVisit DEF Admitted
  <2>3. \A w \in Visits : visit'[w].key = k => visit'[w].limit = keyRow[k].limit
        BY <1>3, <2>1 DEF Budget
  <2> QED BY <2>1, <2>2, <2>3, BudgetStays
<1> QED BY <1>2, <1>4, <1>5 DEF Budgeted

\* traceChat takes a slot, if the key has a limit and a slot is left.
LEMMA TakesSlotInv ==
  ASSUME GInv, NEW v \in Visits, TakesSlot(v)
  PROVE  GInv'
<1> DEFINE k == visit[v].key
           L == visit[v].limit
<1>1. /\ visit[v].at = "slot" /\ visit[v] \in VisitSet
      /\ UNCHANGED <<keyRow, everMade, edited, switched>>
      /\ CacheHolds'
      BY CacheStays DEF TakesSlot, GInv, Types, cacheVars
<1>2. CASE visit' = [visit EXCEPT ![v] = Gone] /\ UNCHANGED slots
  <2>1. slots' \in [KeyIds -> Nat] /\ \A j \in KeyIds : slots'[j] <= slots[j]
        BY <1>2 DEF GInv, Types
  <2>2. Types' /\ Agree' /\ Budgeted' BY <1>1, <1>2, <2>1, GoneKeeps DEF GInv
  <2>3. visit'[v] = Gone /\ \A w \in Visits : w # v => visit'[w] = visit[w]
        BY <1>2 DEF GInv, Types
  <2>4. \A j \in KeyIds : CountedFor(j)' = CountedFor(j)
        BY <1>1, <2>3, GoneVisit DEF CountedFor, Holding
  <2>5. SlotsAreHolders' BY <1>1, <1>2, <2>4 DEF GInv, SlotsAreHolders
  <2> QED BY <1>1, <2>2, <2>5 DEF GInv
<1>3. CASE MayAcquire(k, L) /\ slots' = Acquired(k, L) /\ Goes(v, Onward(v, "auth"))
  <2> DEFINE new == Onward(v, "auth")
  <2>1. /\ new \in VisitSet /\ new.key = k /\ new.at = "auth"
        /\ new.pk = visit[v].pk /\ new.limit = L /\ L \in Nat
        BY <1>1 DEF Onward, VisitSet, Stage
  <2>2. Goes(v, new) BY <1>3
  <2> HIDE DEF new
  <2>3. visit'[v] = new /\ \A w \in Visits : w # v => visit'[w] = visit[w]
        BY <2>2 DEF GInv, Types, Goes
  <2>4. \A w \in Visits : visit'[w].key = visit[w].key /\ visit'[w].limit = visit[w].limit
                         /\ visit'[w].pk = visit[w].pk
        BY <2>1, <2>3
  <2>5. /\ slots' \in [KeyIds -> Nat]
        /\ \A j \in KeyIds : slots'[j] = IF j = k /\ L > 0 THEN slots[j] + 1 ELSE slots[j]
    <3>1. slots \in [KeyIds -> Nat] /\ k \in KeyIds BY <1>1 DEF GInv, Types, VisitSet
    <3>2. slots' = IF L <= 0 THEN slots ELSE [slots EXCEPT ![k] = slots[k] + 1]
          BY <1>3 DEF Acquired
    <3> HIDE DEF k, L
    <3> QED BY <2>1, <3>1, <3>2
  <2>6. Types' BY <1>1, <2>1, <2>2, <2>3, <2>4, <2>5 DEF GInv, Types, Goes, Keys
  <2>7. Agree' BY <1>1, <2>4 DEF GInv, Agree
  <2>8. ASSUME NEW j \in KeyIds
        PROVE  CountedFor(j)' = IF j = k /\ L > 0 THEN CountedFor(j) \cup {v} ELSE CountedFor(j)
    <3>1. \A w \in Visits : w # v => (w \in CountedFor(j)' <=> w \in CountedFor(j))
          BY <2>3 DEF CountedFor, Holding
    <3>2. v \notin CountedFor(j) BY <1>1 DEF CountedFor, Holding
    <3>3. v \in CountedFor(j)' <=> j = k /\ L > 0
          BY <2>1, <2>3 DEF CountedFor, Holding
    <3>4. CountedFor(j)' \subseteq Visits /\ CountedFor(j) \subseteq Visits
          BY DEF CountedFor, Holding
    <3> QED BY <3>1, <3>2, <3>3, <3>4
  <2>9. SlotsAreHolders'
    <3> SUFFICES ASSUME NEW j \in KeyIds \ switched
                 PROVE  slots'[j] = Cardinality(CountedFor(j)')
        BY <1>1 DEF SlotsAreHolders
    <3>1. slots[j] = Cardinality(CountedFor(j)) BY DEF GInv, SlotsAreHolders
    <3>2. v \notin CountedFor(j) BY <1>1 DEF CountedFor, Holding
    <3>3. Cardinality(CountedFor(j) \cup {v}) = Cardinality(CountedFor(j)) + 1
          BY <3>2, FinitelyMany, FS_AddElement
    <3> QED BY <2>5, <2>8, <3>1, <3>3
  <2>10. ASSUME NEW j \in Keys' \ edited' PROVE Budget(j)'
    <3>1. j \in Keys /\ j \notin edited /\ Budget(j) /\ keyRow'[j] = keyRow[j] /\ j \in KeyIds
          BY <1>1, <2>10, RowNumbers DEF GInv, Budgeted, Keys
    <3>2. Admitted(j)' = Admitted(j)
          BY <1>1, <2>1, <2>3 DEF Admitted
    <3>3. \A w \in Visits : visit'[w].key = j => visit'[w].limit = keyRow[j].limit
          BY <2>4, <3>1 DEF Budget
    <3>4. keyRow[j].limit > 0 => slots'[j] <= keyRow[j].limit
      <4>1. CASE j = k /\ L > 0
        <5>1. L = keyRow[j].limit BY <4>1, <3>1 DEF Budget
        <5>2. slots[j] < L BY <1>3, <2>1, <4>1 DEF MayAcquire
        <5>3. slots'[j] = slots[j] + 1 /\ slots[j] \in Nat
              BY <2>5, <3>1, <4>1 DEF GInv, Types
        <5> QED BY <2>1, <5>1, <5>2, <5>3
      <4>2. CASE ~(j = k /\ L > 0) BY <2>5, <3>1, <4>2 DEF Budget
      <4> QED BY <4>1, <4>2
    <3> QED BY <3>1, <3>2, <3>3, <3>4 DEF Budget
  <2> QED BY <1>1, <2>6, <2>7, <2>9, <2>10 DEF GInv, Budgeted
<1> QED BY <1>2, <1>3 DEF TakesSlot

\* A request that leaves gives back the slot it took, after its charge.
LEMMA LeavesInv ==
  ASSUME GInv, NEW v \in Visits, Leaves(v)
  PROVE  GInv'
<1> DEFINE k == visit[v].key
           L == visit[v].limit
<1>1. /\ visit[v].at = "release" /\ visit' = [visit EXCEPT ![v] = Gone]
      /\ slots' = IF k = NoFp THEN slots ELSE Released(k)
      /\ UNCHANGED <<keyRow, everMade, edited, switched>>
      /\ CacheHolds'
      BY CacheStays DEF Leaves, GInv, cacheVars
<1>2. /\ slots' \in [KeyIds -> Nat]
      /\ \A j \in KeyIds : slots'[j] = IF j = k /\ k # NoFp /\ slots[j] > 0 THEN slots[j] - 1
                                                                         ELSE slots[j]
  <2>1. slots \in [KeyIds -> Nat] /\ k \in KeyIds \cup {NoFp} BY DEF GInv, Types, VisitSet
  <2>2. slots' = IF k = NoFp THEN slots
                 ELSE [slots EXCEPT ![k] = IF slots[k] > 0 THEN slots[k] - 1 ELSE 0]
        BY <1>1 DEF Released
  <2> HIDE DEF k
  <2>3. CASE k = NoFp BY <2>1, <2>2, <2>3
  <2>4. CASE k # NoFp
    <3>1. slots[k] \in Nat /\ k \in KeyIds BY <2>1, <2>4
    <3> QED BY <2>1, <2>2, <2>4, <3>1
  <2> QED BY <2>3, <2>4
<1>3. \A j \in KeyIds : slots'[j] <= slots[j] BY <1>2 DEF GInv, Types
<1>4. Types' /\ Agree' /\ Budgeted' BY <1>1, <1>2, <1>3, GoneKeeps DEF GInv
<1>5. visit'[v] = Gone /\ \A w \in Visits : w # v => visit'[w] = visit[w]
      BY <1>1 DEF GInv, Types
<1>6. SlotsAreHolders'
  <2> SUFFICES ASSUME NEW j \in KeyIds \ switched
               PROVE  slots'[j] = Cardinality(CountedFor(j)')
      BY <1>1 DEF SlotsAreHolders
  <2>1. slots[j] = Cardinality(CountedFor(j)) /\ slots[j] \in Nat
        BY DEF GInv, SlotsAreHolders, Types
  <2>2. j # NoFp BY GatewayAssumption DEF NoFp
  <2>3. CountedFor(j)' = CountedFor(j) \ {v}
        BY <1>5, <2>2, GoneVisit DEF CountedFor, Holding
  <2>4. CASE j # k
    <3>1. v \notin CountedFor(j) BY <2>4 DEF CountedFor, Holding
    <3> QED BY <1>2, <2>1, <2>3, <2>4, <3>1
  <2>5. CASE j = k /\ L > 0
    <3>1. v \in CountedFor(j) BY <1>1, <2>5 DEF CountedFor, Holding
    <3>2. Cardinality(CountedFor(j) \ {v}) = Cardinality(CountedFor(j)) - 1
          BY <3>1, FinitelyMany, FS_RemoveElement
    <3>3. Cardinality(CountedFor(j)) # 0 BY <3>1, FinitelyMany, FS_EmptySet
    <3> QED BY <1>2, <2>1, <2>2, <2>3, <2>5, <3>2, <3>3
  <2>6. CASE j = k /\ ~(L > 0)
    <3>1. CountedFor(j) = {}
          BY <2>6 DEF GInv, Agree, CountedFor, Holding
    <3> QED BY <1>2, <2>1, <2>3, <3>1, FS_EmptySet
  <2> QED BY <2>4, <2>5, <2>6
<1> QED BY <1>1, <1>4, <1>6 DEF GInv

\* auth lets a request through that a key's quota still admits; it is then one of
\* at most as many as the key has slots.
LEMMA ChecksKeyInv ==
  ASSUME GInv, NEW v \in Visits, ChecksKey(v)
  PROVE  GInv'
<1> DEFINE k == visit[v].key
           new == Onward(v, IF Passes(v) THEN "probe" ELSE "release")
<1>1. /\ visit[v].at = "auth" /\ visit[v] \in VisitSet
      /\ UNCHANGED <<keyRow, slots, everMade, edited, switched>>
      /\ Goes(v, new) /\ CacheHolds'
      BY CacheStays DEF ChecksKey, GInv, Types, keyVars, cacheVars
<1>2. /\ new \in VisitSet /\ new.key = k /\ new.pk = visit[v].pk
      /\ new.limit = visit[v].limit
      /\ new.at = IF Passes(v) THEN "probe" ELSE "release"
      BY <1>1 DEF Onward, VisitSet, Stage
<1> HIDE DEF new
<1>4. CASE ~Passes(v) \/ k = NoFp
      BY <1>1, <1>2, <1>4, MovesInv DEF InHand, MayCost
<1>5. CASE Passes(v) /\ k # NoFp
  <2>1. visit'[v] = new /\ \A w \in Visits : w # v => visit'[w] = visit[w]
        BY <1>1 DEF GInv, Types, Goes
  <2>2. \A w \in Visits : visit'[w].key = visit[w].key /\ visit'[w].limit = visit[w].limit
                         /\ visit'[w].pk = visit[w].pk
        BY <1>2, <2>1
  <2>3. Types' BY <1>1, <1>2, <1>5, <2>1, <2>2 DEF GInv, Types, Goes, Keys
  <2>4. Agree' BY <1>1, <2>2 DEF GInv, Agree
  <2>5. ASSUME NEW j \in KeyIds PROVE CountedFor(j)' = CountedFor(j)
        BY <1>1, <1>2, <2>1, <2>2 DEF CountedFor, Holding
  <2>6. SlotsAreHolders' BY <1>1, <2>5 DEF GInv, SlotsAreHolders
  <2>7. ASSUME NEW j \in Keys' \ edited' PROVE Budget(j)'
    <3>1. /\ j \in Keys /\ j \notin edited /\ Budget(j) /\ keyRow'[j] = keyRow[j] /\ j \in KeyIds
          /\ slots'[j] = slots[j]
          BY <1>1, <2>7, RowNumbers DEF GInv, Budgeted, Keys
    <3>2. \A w \in Visits : visit'[w].key = j => visit'[w].limit = keyRow[j].limit
          BY <2>2, <3>1 DEF Budget
    <3>3. CASE j # k
      <4>1. Admitted(j)' \subseteq Admitted(j) BY <2>1, <1>2, <3>3 DEF Admitted
      <4> QED BY <1>1, <3>1, <3>2, <4>1, RowNumbers, BudgetStays DEF GInv
    <3>4. CASE j = k
      <4> DEFINE row == keyRow[j]
                 n == Cardinality(Admitted(j))
      <4>1. SUFFICES ASSUME row.quota > 0, row.limit > 0
                     PROVE  row.used + Cardinality(Admitted(j)') * MaxCredits
                              < row.quota + row.limit * MaxCredits
            BY <3>1, <3>2 DEF Budget
      <4>2. /\ row.used \in Nat /\ row.quota \in Nat /\ row.limit \in Nat
            /\ slots[j] \in Nat
            BY <3>1, RowNumbers DEF GInv
      <4>3. row.used < row.quota
        <5>1. visit[v].pk = j BY <1>5, <3>4 DEF GInv, Types
        <5>2. j # "service" BY <3>1, KeysAssumption
        <5> QED BY <1>5, <3>1, <4>1, <4>2, <5>1, <5>2 DEF Passes, Resolve
      <4>4. /\ v \in CountedFor(j) /\ v \notin Admitted(j)
            /\ Admitted(j) \subseteq CountedFor(j)
        <5>1. \A w \in Visits : visit[w].key = j => visit[w].limit > 0
              BY <3>1, <4>1 DEF Budget
        <5> QED BY <1>1, <3>4, <5>1 DEF CountedFor, Holding, Admitted
      <4>5. Admitted(j)' = Admitted(j) \cup {v}
            BY <1>2, <1>5, <2>1, <3>4 DEF Admitted
      <4>6. /\ n \in Nat /\ Cardinality(Admitted(j)') = n + 1
            /\ IsFiniteSet(Admitted(j) \cup {v})
            BY <4>4, <4>5, FinitelyMany, FS_AddElement
      <4>7. n + 1 <= Cardinality(CountedFor(j))
        <5>1. Admitted(j) \cup {v} \in SUBSET CountedFor(j) BY <4>4
        <5> QED BY <4>5, <4>6, <5>1, FinitelyMany, FS_Subset
      <4>8. Cardinality(CountedFor(j)) = slots[j] /\ slots[j] <= row.limit
            BY <3>1, <4>1 DEF GInv, SlotsAreHolders, Types, Budget
      <4> HIDE DEF n, row
      <4>9. n + 1 <= row.limit BY <4>2, <4>6, <4>7, <4>8
      <4>10. /\ (n + 1) * MaxCredits <= row.limit * MaxCredits
             /\ (n + 1) * MaxCredits \in Nat /\ row.limit * MaxCredits \in Nat
        <5> DEFINE a == n + 1
        <5>1. a \in Nat /\ row.limit \in Nat /\ MaxCredits \in Nat /\ a <= row.limit
              BY <4>2, <4>6, <4>9, PriceNat
        <5> HIDE DEF a
        <5>2. /\ a * MaxCredits \in Nat /\ row.limit * MaxCredits \in Nat
              /\ a * MaxCredits <= row.limit * MaxCredits
              BY <5>1, Scaled
        <5> QED BY <5>2 DEF a
      <4> QED BY <4>2, <4>3, <4>6, <4>10
    <3> QED BY <3>3, <3>4
  <2> QED BY <1>1, <2>3, <2>4, <2>6, <2>7 DEF GInv, Budgeted
<1> QED BY <1>4, <1>5

\* The cache probe admits, charges and releases nothing.
LEMMA ProbesInv ==
  ASSUME GInv, NEW v \in Visits, Probes(v)
  PROVE  GInv'
<1>1. /\ visit[v].at = "probe" /\ visit[v] \in VisitSet
      /\ UNCHANGED <<keyRow, slots, everMade, edited, switched>>
      /\ CacheHolds'
      BY CacheStays DEF Probes, GInv, Types, keyVars
<1>2. PICK new : Goes(v, new) /\ new \in {Onward(v, "cache"),
                                       [Onward(v, "cache") EXCEPT !.probed = TRUE]}
      BY DEF Probes
<1>3. /\ new \in VisitSet /\ new.key = visit[v].key /\ new.pk = visit[v].pk
      /\ new.limit = visit[v].limit /\ new.at = "cache"
  <2>1. CASE new = Onward(v, "cache") BY <1>1, <2>1 DEF Onward, VisitSet, Stage
  <2>2. CASE new = [Onward(v, "cache") EXCEPT !.probed = TRUE]
        BY <1>1, <2>2 DEF Onward, VisitSet, Stage
  <2> QED BY <1>2, <2>1, <2>2
<1>4. new.at \in InHand /\ visit[v].at \in InHand /\ visit[v].at \in MayCost
      BY <1>1, <1>3 DEF InHand, MayCost
<1> QED BY <1>1, <1>2, <1>3, <1>4, MovesInv

\* A hit is checked for its expiry when it is read.
LEMMA LooksInCacheInv ==
  ASSUME GInv, Printed, NEW v \in Visits, LooksInCache(v)
  PROVE  GInv'
<1> DEFINE fp == visit[v].fp
           replay == [Onward(v, "charge") EXCEPT !.credits = entries[fp].credits, !.probed = FALSE]
<1>1. /\ visit[v].at = "cache" /\ visit[v] \in VisitSet
      /\ UNCHANGED <<keyRow, slots, everMade, edited, switched>>
      BY DEF LooksInCache, GInv, Types, keyVars
<1>2. fp \in Fps BY <1>1 DEF Printed
<1>3. CacheHolds'
  <2>1. UNCHANGED latest /\ (CacheGet(fp) \/ UNCHANGED <<ll, entries>>) BY DEF LooksInCache
  <2>2. CASE CacheGet(fp) BY <1>2, <2>1, <2>2, GetHolds DEF GInv
  <2>3. CASE UNCHANGED <<ll, entries>> BY <2>1, <2>3, CacheStays DEF GInv
  <2> QED BY <2>1, <2>2, <2>3
<1>4. CASE Goes(v, Onward(v, "upstream"))
  <2> DEFINE new == Onward(v, "upstream")
  <2>1. /\ new \in VisitSet /\ new.key = visit[v].key /\ new.pk = visit[v].pk
        /\ new.limit = visit[v].limit /\ new.at = "upstream"
        BY <1>1 DEF Onward, VisitSet, Stage
  <2> HIDE DEF new
  <2>2. Goes(v, new) BY <1>4 DEF new
  <2> QED BY <1>1, <1>3, <2>1, <2>2, MovesInv DEF InHand, MayCost
<1>5. CASE Hit(fp) /\ Goes(v, replay)
  <2> DEFINE new == replay
             c == entries[fp].credits
  <2>1. c \in 0..MaxCredits
    <3>1. fp \in DOMAIN entries /\ entries[fp] = latest[fp] BY <1>5 DEF Hit, GInv, CacheHolds
    <3>2. latest[fp] \in KeptAnswer BY <1>2 DEF GInv, CacheHolds
    <3> QED BY <3>1, <3>2 DEF KeptAnswer
  <2>2. Goes(v, new) BY <1>5
  <2> HIDE DEF c
  <2>3. new = [Onward(v, "charge") EXCEPT !.credits = c, !.probed = FALSE] BY DEF c
  <2> HIDE DEF new
  <2>4. /\ new \in VisitSet /\ new.key = visit[v].key /\ new.pk = visit[v].pk
        /\ new.limit = visit[v].limit /\ new.at = "charge"
        BY <1>1, <2>1, <2>3 DEF Onward, VisitSet, Stage
  <2> QED BY <1>1, <1>3, <2>2, <2>4, MovesInv DEF InHand, MayCost
<1> QED BY <1>4, <1>5 DEF LooksInCache

\* The answer is charged: its cost moves from what may come to what was used.
LEMMA AnswersInv ==
  ASSUME GInv, Printed, NEW v \in Visits, NEW credits \in Costs, Answers(v, credits)
  PROVE  GInv'
<1> DEFINE new == [Onward(v, "charge") EXCEPT !.credits = credits, !.probed = FALSE]
<1>1. /\ visit[v].at = "upstream" /\ visit[v] \in VisitSet /\ credits \in 0..MaxCredits
      /\ UNCHANGED <<keyRow, slots, everMade, edited, switched>>
      /\ Goes(v, new)
      /\ CachePut(visit[v].fp, credits) \/ UNCHANGED <<ll, entries, latest>>
      BY GatewayAssumption DEF Answers, GInv, Types, keyVars
<1>2. visit[v].fp \in Fps BY <1>1 DEF Printed
<1>3. CacheHolds' BY <1>1, <1>2, PutHolds, CacheStays DEF GInv
<1>4. /\ new \in VisitSet /\ new.key = visit[v].key /\ new.pk = visit[v].pk
      /\ new.limit = visit[v].limit /\ new.at = "charge"
      BY <1>1 DEF Onward, VisitSet, Stage
<1> HIDE DEF new
<1> QED BY <1>1, <1>3, <1>4, MovesInv DEF InHand, MayCost

\* What is charged was allowed for when the request was admitted.
LEMMA ChargesInv ==
  ASSUME GInv, NEW v \in Visits, Charges(v)
  PROVE  GInv'
<1> DEFINE k == visit[v].key
           cost == visit[v].credits
           new == Onward(v, "release")
<1>1. /\ visit[v].at = "charge" /\ visit[v] \in VisitSet
      /\ UNCHANGED <<slots, everMade, edited, switched>>
      /\ Goes(v, new) /\ CacheHolds'
      BY CacheStays DEF Charges, GInv, Types, cacheVars
<1>2. /\ new \in VisitSet /\ new.key = k /\ new.pk = visit[v].pk
      /\ new.limit = visit[v].limit /\ new.at = "release" /\ cost \in 0..MaxCredits
      BY <1>1 DEF Onward, VisitSet, Stage
<1> HIDE DEF new
<1>4. CASE keyRow' = keyRow
      BY <1>1, <1>2, <1>4, MovesInv DEF InHand, MayCost
<1>5. CASE k # NoFp /\ keyRow[k].made /\ keyRow' = [keyRow EXCEPT ![k].used = @ + cost]
  <2> DEFINE row == [keyRow[k] EXCEPT !.used = @ + cost]
  <2>1. k \in KeyIds /\ k \in Keys BY <1>1, <1>5 DEF VisitSet, Keys
  <2>2. keyRow[k] \in Key /\ keyRow[k].used \in Nat BY <2>1, RowNumbers DEF GInv
  <2> DEFINE after == keyRow[k].used + cost
  <2>2a. cost \in Nat /\ cost <= MaxCredits BY <1>2, PriceNat
  <2>2b. after \in Nat BY <2>2, <2>2a
  <2>2c. row = [keyRow[k] EXCEPT !.used = after] OBVIOUS
  <2>3. /\ row \in Key /\ row.used = keyRow[k].used + cost /\ row.made
        /\ row.limit = keyRow[k].limit /\ row.quota = keyRow[k].quota
    <3> HIDE DEF row, after
    <3>1. /\ row \in Key /\ row.used = after /\ row.made
          /\ row.limit = keyRow[k].limit /\ row.quota = keyRow[k].quota
          BY <2>2, <2>2b, <2>2c DEF Key
    <3> QED BY <3>1 DEF after
  <2>4. /\ keyRow'[k] = row /\ \A j \in KeyIds : j # k => keyRow'[j] = keyRow[j]
        BY <1>5, <2>1 DEF GInv, Types
  <2> HIDE DEF row
  <2>5. keyRow' \in [KeyIds -> Key \cup {NoKey}]
    <3>1. \A j \in KeyIds : keyRow'[j] \in Key \cup {NoKey}
          BY <2>3, <2>4 DEF GInv, Types
    <3>2. keyRow' = [j \in KeyIds |-> keyRow'[j]] BY <1>5 DEF GInv, Types
    <3> QED BY <3>1, <3>2
  <2>6. Keys' = Keys
    <3>1. \A j \in KeyIds : keyRow'[j].made <=> keyRow[j].made BY <1>5, <2>3, <2>4
    <3> QED BY <3>1 DEF Keys
  <2>7. visit'[v] = new /\ \A w \in Visits : w # v => visit'[w] = visit[w]
        BY <1>1 DEF GInv, Types, Goes
  <2>8. \A w \in Visits : visit'[w].key = visit[w].key /\ visit'[w].limit = visit[w].limit
                         /\ visit'[w].pk = visit[w].pk
        BY <1>2, <2>7
  <2>9. visit' \in [Visits -> VisitSet] BY <1>1, <1>2 DEF GInv, Types, Goes
  <2>10. Types'
    <3>1. \A w \in Visits : visit'[w].at \in {visit[w].at, "release"}
          BY <1>2, <2>7
    <3>2. \A w \in Visits :
            /\ visit'[w].at = "door" => visit'[w].key = NoFp
            /\ visit'[w].at = "slot" => visit'[w].key # NoFp
            /\ visit'[w].at = "gone" => visit'[w].key = NoFp
          BY <2>8, <3>1 DEF GInv, Types
    <3>3. \A w \in Visits : visit'[w].key # NoFp =>
            visit'[w].key = visit'[w].pk /\ visit'[w].key \in everMade
          BY <2>8 DEF GInv, Types
    <3>4. /\ slots \in [KeyIds -> Nat] /\ Keys \subseteq everMade
          /\ edited \subseteq everMade /\ switched \subseteq edited
          BY DEF GInv, Types
    <3> QED BY <1>1, <2>5, <2>6, <2>9, <3>2, <3>3, <3>4 DEF Types
  <2>11. Agree'
    <3>1. \A j \in KeyIds : /\ keyRow'[j].limit = keyRow[j].limit
                            /\ keyRow'[j].made <=> keyRow[j].made
          BY <1>5, <2>3, <2>4
    <3> QED BY <1>1, <2>8, <3>1 DEF GInv, Agree
  <2>12. ASSUME NEW j \in KeyIds PROVE CountedFor(j)' = CountedFor(j)
         BY <1>1, <1>2, <2>7, <2>8 DEF CountedFor, Holding
  <2>13. SlotsAreHolders' BY <1>1, <2>12 DEF GInv, SlotsAreHolders
  <2>14. ASSUME NEW j \in Keys' \ edited' PROVE Budget(j)'
    <3>1. /\ j \in Keys /\ j \notin edited /\ Budget(j) /\ j \in KeyIds
          /\ slots'[j] = slots[j] /\ slots[j] \in Nat
          BY <1>1, <2>6, <2>14, RowNumbers DEF GInv, Budgeted
    <3>2. CASE j # k
      <4>1. Admitted(j)' \subseteq Admitted(j) BY <1>2, <2>7, <3>2 DEF Admitted
      <4>2. \A w \in Visits : visit'[w].key = j => visit'[w].limit = keyRow[j].limit
            BY <2>8, <3>1 DEF Budget
      <4> QED BY <2>4, <3>1, <3>2, <4>1, <4>2, BudgetStays DEF GInv
    <3>3. CASE j = k
      <4> DEFINE n == Cardinality(Admitted(j))
                 m == Cardinality(Admitted(j)')
                 M == MaxCredits
      <4>1. /\ v \in Admitted(j) /\ Admitted(j)' = Admitted(j) \ {v}
            BY <1>1, <1>2, <2>7, <3>3 DEF Admitted
      <4>2. n \in Nat /\ m \in Nat /\ n = m + 1 /\ M \in Nat /\ cost <= M /\ cost \in Nat
        <5>1. n \in Nat /\ m = n - 1 /\ n # 0
          <6>1. IsFiniteSet(Admitted(j)) /\ n \in Nat BY FinitelyMany
          <6>2. m = n - 1 BY <4>1, <6>1, FS_RemoveElement
          <6>3. n # 0 BY <4>1, <6>1, FS_EmptySet
          <6> QED BY <6>1, <6>2, <6>3
        <5>2. n - 1 \in Nat BY <5>1
        <5> QED BY <2>2a, <5>1, <5>2, PriceNat
      <4> HIDE DEF n, m, cost
      <4>3. n * M = m * M + M /\ m * M \in Nat BY <4>2, ScaledSucc
      <4>4. /\ keyRow[k].used \in Nat /\ keyRow[k].quota \in Nat
            /\ keyRow[k].limit * M \in Nat
            BY <2>1, RowNumbers DEF GInv
      <4>5. keyRow[k].quota > 0 /\ keyRow[k].limit > 0 =>
              keyRow[k].used + n * M < keyRow[k].quota + keyRow[k].limit * M
            BY <3>1, <3>3 DEF Budget, n
      <4>6. row.quota > 0 /\ row.limit > 0 => row.used + m * M < row.quota + row.limit * M
            BY <2>3, <4>2, <4>3, <4>4, <4>5
      <4>7. /\ \A w \in Visits : visit'[w].key = j => visit'[w].limit = row.limit
            /\ row.limit > 0 => slots'[j] <= row.limit
            BY <2>3, <2>8, <3>1, <3>3 DEF Budget
      <4> QED BY <2>4, <3>3, <4>6, <4>7 DEF Budget, m
    <3> QED BY <3>2, <3>3
  <2> QED BY <1>1, <2>10, <2>11, <2>13, <2>14 DEF GInv, Budgeted
<1> QED BY <1>1, <1>4, <1>5 DEF Charges, Charged

-----------------------------------------------------------------------------
(***************************************************************************)
(* The dashboard.                                                          *)
(***************************************************************************)

\* One row is changed: an unmade one, of which there are no requests, is made, or
\* a made one is deleted, edited, or keeps its limit, its quota and its use.
LEMMA RowChangesInv ==
  ASSUME GInv, NEW k \in KeyIds, NEW row \in Key \cup {NoKey},
         keyRow' = [keyRow EXCEPT ![k] = row],
         UNCHANGED <<slots, visit>>, CacheHolds', switched' = switched \cup Crossed,
         k \in Keys \/ k \notin everMade,
         everMade \subseteq everMade', row.made => k \in everMade',
         edited \subseteq edited', edited' \subseteq edited \cup {k}, edited' \subseteq everMade',
         row.made /\ k \notin edited' =>
           \/ /\ k \in Keys /\ row.limit = keyRow[k].limit
              /\ row.quota = keyRow[k].quota /\ row.used = keyRow[k].used
           \/ k \notin everMade /\ row.used = 0
  PROVE  GInv'
<1>1. keyRow'[k] = row /\ \A j \in KeyIds : j # k => keyRow'[j] = keyRow[j]
      BY DEF GInv, Types
<1>2. \A j \in Keys' : j \in KeyIds /\ (j # k => j \in Keys) /\ (j = k => row.made)
      BY <1>1 DEF Keys
<1>3. ASSUME k \notin everMade
      PROVE  k \notin Keys /\ k \notin switched /\ \A v \in Visits : visit[v].key # k
  <2>1. k # NoFp BY GatewayAssumption DEF NoFp
  <2> QED BY <1>3, <2>1 DEF GInv, Types
<1>4. Crossed \subseteq {k} /\ (k \in Crossed => k \in Keys /\ row.made /\
                                              ((keyRow[k].limit > 0) # (row.limit > 0)))
      BY <1>1 DEF Crossed, Keys
<1>5. Types'
  <2>1. keyRow' \in [KeyIds -> Key \cup {NoKey}] BY DEF GInv, Types
  <2>2. Keys' \subseteq everMade' BY <1>2 DEF GInv, Types
  <2>3. switched' \subseteq edited'
        BY <1>3, <1>4 DEF GInv, Types
  <2> QED BY <2>1, <2>2, <2>3 DEF GInv, Types
<1>6. Agree'
  <2> SUFFICES ASSUME NEW j \in KeyIds \ switched', NEW v \in Visits, visit[v].key = j,
                      keyRow'[j].made
               PROVE  visit[v].limit > 0 <=> keyRow'[j].limit > 0
      BY DEF GInv, Agree
  <2>1. j \in KeyIds \ switched OBVIOUS
  <2>2. CASE j # k BY <1>1, <2>1, <2>2 DEF GInv, Agree
  <2>3. CASE j = k
    <3>1. k \in Keys BY <1>3, <2>3
    <3>2. visit[v].at # "gone"
      <4>1. k # NoFp BY GatewayAssumption DEF NoFp
      <4> QED BY <2>3, <4>1 DEF GInv, Types
    <3>3. keyRow[k].limit > 0 <=> row.limit > 0
          BY <1>1, <2>3, <3>1, <3>2 DEF Crossed, Keys
    <3> QED BY <1>1, <2>1, <2>3, <3>1, <3>3 DEF GInv, Agree, Keys
  <2> QED BY <2>2, <2>3
<1>7. \A j : CountedFor(j)' = CountedFor(j) /\ Admitted(j)' = Admitted(j)
      BY DEF CountedFor, Holding, Admitted
<1>8. SlotsAreHolders' BY <1>7 DEF GInv, SlotsAreHolders
<1>9. ASSUME NEW j \in Keys' \ edited' PROVE Budget(j)'
  <2>1. j \in KeyIds /\ j \notin edited /\ slots'[j] = slots[j] /\ slots[j] \in Nat
        BY <1>2, <1>9 DEF GInv, Types
  <2>2. CASE j # k
    <3>1. j \in Keys /\ Budget(j) BY <1>2, <1>9, <2>1, <2>2 DEF GInv, Budgeted
    <3>2. \A w \in Visits : visit'[w].key = j => visit'[w].limit = keyRow[j].limit
          BY <3>1 DEF Budget
    <3> QED BY <1>1, <1>7, <2>1, <2>2, <3>1, <3>2, BudgetStays DEF GInv
  <2>3. CASE j = k /\ k \in Keys
    <3>1. Budget(k) BY <2>1, <2>3 DEF GInv, Budgeted
    <3>2. row.limit = keyRow[k].limit /\ row.quota = keyRow[k].quota /\ row.used = keyRow[k].used
          BY <1>2, <1>9, <2>3 DEF GInv, Types
    <3> QED BY <1>1, <1>7, <2>3, <3>1, <3>2 DEF Budget
  <2>4. CASE j = k /\ k \notin everMade
    <3>1. row.used = 0 /\ row \in Key
      <4>1. row.made BY <1>2, <1>9, <2>4
      <4>2. ~NoKey.made BY DEF NoKey
      <4> QED BY <1>3, <1>9, <2>4, <4>1, <4>2
    <3>2. row.quota \in Nat /\ row.limit \in Nat BY <3>1, KeysAssumption DEF Key
    <3>3. CountedFor(k) = {} /\ Admitted(k)' = {}
          BY <1>3, <1>7, <2>4 DEF CountedFor, Holding, Admitted
    <3>4. slots[k] = 0 BY <1>3, <2>4, <3>3, FS_EmptySet DEF GInv, SlotsAreHolders
    <3>5. Cardinality(Admitted(k)') = 0 BY <3>3, FS_EmptySet
    <3>6. 0 * MaxCredits = 0 /\ row.limit * MaxCredits \in Nat
          BY <3>2, PriceNat, ScaledSucc
    <3>7. row.quota > 0 => 0 + 0 < row.quota + row.limit * MaxCredits BY <3>2, <3>6
    <3>8. \A w \in Visits : visit'[w].key # k BY <1>3, <2>4
    <3> QED BY <1>1, <2>4, <3>1, <3>2, <3>4, <3>5, <3>6, <3>7, <3>8 DEF Budget
  <2> QED BY <2>2, <2>3, <2>4
<1> QED BY <1>5, <1>6, <1>8, <1>9 DEF GInv, Budgeted

\* An edit keeps the counts; one that sets or lifts the limit excuses its key.
LEMMA AdministersInv ==
  ASSUME GInv, Administers, switched' = switched \cup Crossed, UNCHANGED <<cacheVars, visit>>
  PROVE  GInv'
<1>0. CacheHolds' BY CacheStays DEF GInv, cacheVars
<1>1. PICK k \in KeyIds :
        \/ \E limit \in Limits, quota \in Quotas : CreateKey(k, limit, quota)
        \/ \E limit \in Limits, quota \in Quotas, on \in BOOLEAN : UpdateKey(k, limit, quota, on)
        \/ DeleteKey(k)
        \/ ExpiresKey(k)
      BY DEF Administers
<1>2. CASE \E limit \in Limits, quota \in Quotas : CreateKey(k, limit, quota)
  <2>1. PICK limit \in Limits, quota \in Quotas : CreateKey(k, limit, quota) BY <1>2
  <2> DEFINE row == NewKey(limit, quota)
  <2>2. row \in Key /\ row.made /\ row.used = 0 BY DEF NewKey, Key
  <2>3. /\ keyRow' = [keyRow EXCEPT ![k] = row] /\ k \notin everMade
        /\ everMade' = everMade \cup {k} /\ edited' = edited /\ slots' = slots
        BY <2>1 DEF CreateKey
  <2> HIDE DEF row
  <2>4. edited' \subseteq everMade' BY <2>3 DEF GInv, Types
  <2> QED BY <1>0, <2>2, <2>3, <2>4, RowChangesInv
<1>3. CASE \E limit \in Limits, quota \in Quotas, on \in BOOLEAN : UpdateKey(k, limit, quota, on)
  <2>1. PICK limit \in Limits, quota \in Quotas, on \in BOOLEAN : UpdateKey(k, limit, quota, on)
        BY <1>3
  <2> DEFINE row == [keyRow[k] EXCEPT !.limit = limit, !.quota = quota,
                                      !.enabled = on, !.expired = FALSE]
  <2>2. k \in Keys /\ k \in everMade /\ keyRow[k] \in Key
        BY <2>1, RowNumbers DEF UpdateKey, GInv, Types
  <2>3. row \in Key BY <2>2 DEF Key
  <2>4. /\ keyRow' = [keyRow EXCEPT ![k] = row] /\ edited' = edited \cup {k}
        /\ everMade' = everMade /\ slots' = slots
        BY <2>1 DEF UpdateKey
  <2> HIDE DEF row
  <2>5. edited' \subseteq everMade' BY <2>2, <2>4 DEF GInv, Types
  <2> QED BY <1>0, <2>2, <2>3, <2>4, <2>5, RowChangesInv
<1>4. CASE DeleteKey(k)
  <2>1. /\ keyRow' = [keyRow EXCEPT ![k] = NoKey] /\ k \in Keys
        /\ UNCHANGED <<slots, everMade, edited>>
        BY <1>4 DEF DeleteKey
  <2>2. ~NoKey.made BY DEF NoKey
  <2>3. edited' \subseteq everMade' BY <2>1 DEF GInv, Types
  <2> QED BY <1>0, <2>1, <2>2, <2>3, RowChangesInv
<1>5. CASE ExpiresKey(k)
  <2> DEFINE row == [keyRow[k] EXCEPT !.expired = TRUE]
  <2>1. k \in Keys /\ k \in everMade /\ keyRow[k] \in Key
        BY <1>5, RowNumbers DEF ExpiresKey, GInv, Types
  <2>2. /\ row \in Key /\ row.limit = keyRow[k].limit /\ row.quota = keyRow[k].quota
        /\ row.used = keyRow[k].used
        BY <2>1 DEF Key
  <2>3. keyRow' = [keyRow EXCEPT ![k] = row] /\ UNCHANGED <<slots, everMade, edited>>
        BY <1>5 DEF ExpiresKey
  <2> HIDE DEF row
  <2>4. edited' \subseteq everMade' BY <2>3 DEF GInv, Types
  <2> QED BY <1>0, <2>1, <2>2, <2>3, <2>4, RowChangesInv
<1> QED BY <1>1, <1>2, <1>3, <1>4, <1>5

\* What neither a row nor a request is changed by.
LEMMA RestInv ==
  ASSUME GInv, UNCHANGED <<keyRow, slots, everMade, edited, switched, visit>>,
         CacheHolds'
  PROVE  GInv'
<1>1. Types' BY DEF GInv, Types, Keys
<1>2. Agree' /\ SlotsAreHolders'
      BY DEF GInv, Agree, SlotsAreHolders, CountedFor, Holding
<1>3. Budgeted' BY DEF GInv, Budgeted, Budget, Keys, Admitted
<1> QED BY <1>1, <1>2, <1>3 DEF GInv

\* The dashboard and the expiry of keys, between any two steps.
LEMMA DashboardInv ==
  ASSUME GInv, Dashboard
  PROVE  GInv'
<1>1. CASE Administers /\ switched' = switched \cup Crossed /\ UNCHANGED <<cacheVars, visit>>
      BY <1>1, AdministersInv
<1>2. CASE (SetsCache \/ SetsProbe) /\ UNCHANGED <<keyRow, slots, everMade, edited, visit, switched>>
      BY <1>2, RestInv, CacheStays DEF SetsCache, SetsProbe, GInv
<1>3. CASE Ticks /\ UNCHANGED <<keyVars, visit, switched>>
      BY <1>3, RestInv, TicksHold DEF keyVars, GInv
<1> QED BY <1>1, <1>2, <1>3 DEF Dashboard

-----------------------------------------------------------------------------

\* Nobody is inside, and the cache is empty.
LEMMA InitGInv == GatewayInit => GInv
<1> SUFFICES ASSUME GatewayInit PROVE GInv
    OBVIOUS
<1>1. /\ keyRow \in [KeyIds -> Key \cup {NoKey}] /\ slots \in [KeyIds -> Nat]
      /\ \A k \in KeyIds : slots[k] = 0
      /\ \A k \in Keys : keyRow[k].used = 0
      /\ everMade = Keys /\ edited = {} /\ switched = {}
  <2>0. KeysInit BY DEF GatewayInit
  <2>1. keyRow \in [KeyIds -> NewKeys \cup {NoKey}] BY <2>0 DEF KeysInit
  <2>2. ASSUME NEW k \in KeyIds
        PROVE  keyRow[k] \in Key \cup {NoKey} /\ (keyRow[k].made => keyRow[k].used = 0)
    <3>1. ~NoKey.made BY DEF NoKey
    <3>2. ASSUME NEW r \in NewKeys PROVE r \in Key /\ r.used = 0
      <4>1. PICK limit \in Limits, quota \in Quotas : r = NewKey(limit, quota) BY DEF NewKeys
      <4> QED BY <4>1 DEF NewKey, Key
    <3>3. keyRow[k] \in NewKeys \cup {NoKey} BY <2>1
    <3> QED BY <3>1, <3>2, <3>3
  <2>3. keyRow \in [KeyIds -> Key \cup {NoKey}] BY <2>1, <2>2
  <2> QED BY <2>2, <2>3 DEF GatewayInit, KeysInit, CacheInit, Keys
<1>2. ASSUME NEW v \in Visits
      PROVE  visit[v] \in VisitSet /\ visit[v].at \in {"door", "gone"} /\ visit[v].key = NoFp
  <2>1. 0 \in 0..MaxCredits BY PriceNat
  <2>2. CASE visit[v] = Gone BY <2>2, GoneVisit
  <2>3. CASE visit[v] # Gone
    <3>1. PICK pk \in Presents, fp \in Fps, tail \in BOOLEAN : visit[v] = Visit(pk, fp, tail)
          BY <2>3 DEF GatewayInit
    <3> QED BY <2>1, <3>1 DEF Visit, VisitSet, Stage
  <2> QED BY <2>2, <2>3
<1>3. visit \in [Visits -> VisitSet] BY <1>2 DEF GatewayInit
<1>4. Types BY <1>1, <1>2, <1>3 DEF Types
<1>5. \A k \in KeyIds : /\ \A v \in Visits : visit[v].key # k
                       /\ CountedFor(k) = {} /\ Admitted(k) = {}
      BY <1>2, GatewayAssumption DEF CountedFor, Holding, Admitted, NoFp
<1>6. Agree BY <1>5 DEF Agree
<1>7. SlotsAreHolders BY <1>1, <1>5, FS_EmptySet DEF SlotsAreHolders
<1>8. ASSUME NEW k \in Keys PROVE Budget(k)
  <2>1. /\ k \in KeyIds /\ keyRow[k].quota \in Nat /\ keyRow[k].limit \in Nat
        /\ keyRow[k].limit * MaxCredits \in Nat
        BY <1>4, RowNumbers
  <2>2. Cardinality(Admitted(k)) = 0 BY <1>5, <2>1, FS_EmptySet
  <2>3. 0 * MaxCredits = 0 BY PriceNat, ScaledSucc
  <2> QED BY <1>1, <1>5, <2>1, <2>2, <2>3 DEF Budget
<1>9. CacheHolds
  <2>1. ll = <<>> /\ entries = <<>> /\ latest = [f \in Fps |-> NeverStored]
        BY DEF GatewayInit, CacheInit
  <2>2. NeverStored \in KeptAnswer
    <3>1. 0 \in 0..MaxCredits /\ TTL + 1 \in 0..TTL + 1 BY PriceNat, CacheAssumption
    <3> QED BY <3>1 DEF NeverStored, KeptAnswer
  <2>3. <<>> \in Seq(Fps) /\ Len(<<>>) = 0 /\ DOMAIN <<>> = {} OBVIOUS
  <2>4. ToSet(<<>>) = {} BY <2>3 DEF ToSet
  <2> QED BY <2>1, <2>2, <2>3, <2>4, CacheAssumption DEF CacheHolds, Distinct
<1> QED BY <1>4, <1>6, <1>7, <1>8, <1>9 DEF GInv, Budgeted

\* Every step of a visit, of the dashboard or of the clock keeps the invariant.
LEMMA StepGInv == GInv /\ Printed /\ [GatewayNext]_gatewayVars => GInv'
<1> SUFFICES ASSUME GInv, Printed, [GatewayNext]_gatewayVars PROVE GInv'
    OBVIOUS
<1>1. ASSUME NEW v \in Visits,
             \/ ResolvesKey(v) \/ TakesSlot(v) \/ ChecksKey(v)
             \/ Probes(v) \/ LooksInCache(v)
             \/ \E credits \in Costs : Answers(v, credits)
             \/ Charges(v) \/ Leaves(v)
      PROVE  GInv'
      BY <1>1, ResolvesKeyInv, TakesSlotInv, ChecksKeyInv, ProbesInv, LooksInCacheInv,
         AnswersInv, ChargesInv, LeavesInv
<1>2. CASE Dashboard BY <1>2, DashboardInv
<1>3. CASE UNCHANGED gatewayVars
      BY <1>3, RestInv, CacheStays DEF gatewayVars, keyVars, cacheVars, GInv
<1> QED BY <1>1, <1>2, <1>3 DEF GatewayNext

-----------------------------------------------------------------------------
(***************************************************************************)
(* The probe's counters.                                                   *)
(***************************************************************************)

\* The requests between the probe's entry and its exit.
InProbe(f) == {v \in Visits : visit[v].fp = f /\ visit[v].probed}

\* A request that is not over has a fingerprint; it leaves the probe with its
\* answer; the probe counts those in it.
Counted ==
  /\ \A v \in Visits : visit[v].at # "gone" => visit[v].fp \in Fps
  /\ \A v \in Visits : visit[v].probed => visit[v].at \in {"cache", "upstream"}
  /\ inflightFor \in [Fps -> Nat]
  /\ \A f \in Fps : inflightFor[f] = Cardinality(InProbe(f))

Settings == cacheOn \in BOOLEAN /\ probeOn \in BOOLEAN

Ledger == edits \in 0..MaxEdits /\ everMade \subseteq KeyIds

GTInv == GInv /\ Counted /\ Settings /\ Ledger

\* The requests in the probe are finitely many.
LEMMA InProbeFinite == \A f : IsFiniteSet(InProbe(f)) /\ Cardinality(InProbe(f)) \in Nat
<1> SUFFICES ASSUME NEW f PROVE IsFiniteSet(InProbe(f)) /\ Cardinality(InProbe(f)) \in Nat
    OBVIOUS
<1>1. IsFiniteSet(Visits) /\ InProbe(f) \subseteq Visits BY GatewayAssumption DEF InProbe
<1> QED BY <1>1, FS_Subset, FS_CardinalityType

\* A request that neither enters nor leaves the probe.
LEMMA MovesCount ==
  ASSUME Types, Counted, NEW v \in Visits, NEW new, Goes(v, new), UNCHANGED inflightFor,
         new.at # "gone" => new.fp \in Fps,
         \/ new.fp = visit[v].fp /\ new.probed = visit[v].probed
         \/ ~new.probed /\ ~visit[v].probed,
         new.probed => new.at \in {"cache", "upstream"}
  PROVE  Counted'
<1>1. visit'[v] = new /\ \A w \in Visits : w # v => visit'[w] = visit[w]
      BY DEF Types, Goes
<1>2. \A f \in Fps : InProbe(f)' = InProbe(f) BY <1>1 DEF InProbe
<1> QED BY <1>1, <1>2 DEF Counted

\* A request that enters the probe is counted.
LEMMA EntersCount ==
  ASSUME Types, Counted, NEW v \in Visits, NEW new, Goes(v, new),
         visit[v].at = "probe", new.fp = visit[v].fp, new.probed, new.at = "cache",
         inflightFor' = ProbedIn(visit[v].fp)
  PROVE  Counted'
<1> DEFINE fp == visit[v].fp
<1>1. visit'[v] = new /\ \A w \in Visits : w # v => visit'[w] = visit[w]
      BY DEF Types, Goes
<1>2. fp \in Fps /\ ~visit[v].probed BY DEF Counted
<1>3. /\ inflightFor' \in [Fps -> Nat]
      /\ \A f \in Fps : inflightFor'[f] = IF f = fp THEN inflightFor[f] + 1 ELSE inflightFor[f]
      BY <1>2 DEF ProbedIn, Counted
<1>4. \A f \in Fps : InProbe(f)' = IF f = fp THEN InProbe(f) \cup {v} ELSE InProbe(f)
      BY <1>1, <1>2 DEF InProbe
<1>5. Cardinality(InProbe(fp) \cup {v}) = Cardinality(InProbe(fp)) + 1
  <2>1. v \notin InProbe(fp) BY <1>2 DEF InProbe
  <2> QED BY <2>1, InProbeFinite, FS_AddElement
<1>6. ASSUME NEW f \in Fps PROVE inflightFor'[f] = Cardinality(InProbe(f)')
  <2>1. inflightFor[f] = Cardinality(InProbe(f)) BY DEF Counted
  <2> HIDE DEF fp
  <2>2. CASE f = fp BY <1>3, <1>4, <1>5, <2>1, <2>2
  <2>3. CASE f # fp BY <1>3, <1>4, <2>1, <2>3
  <2> QED BY <2>2, <2>3
<1>7. \A w \in Visits : visit'[w].at # "gone" => visit'[w].fp \in Fps
      BY <1>1, <1>2 DEF Counted
<1> QED BY <1>1, <1>3, <1>6, <1>7 DEF Counted

\* A request that has its answer leaves the probe, if it was in it.
LEMMA ExitsCount ==
  ASSUME Types, Counted, NEW v \in Visits, NEW new, Goes(v, new), ExitProbe(v),
         visit[v].at # "gone", new.fp = visit[v].fp, ~new.probed
  PROVE  Counted'
<1> DEFINE fp == visit[v].fp
<1>0. fp \in Fps BY DEF Counted
<1>1. visit'[v] = new /\ \A w \in Visits : w # v => visit'[w] = visit[w]
      BY DEF Types, Goes
<1>2. CASE ~visit[v].probed BY <1>0, <1>2, MovesCount DEF ExitProbe
<1>3. CASE visit[v].probed
  <2>1. Cardinality(InProbe(fp) \ {v}) = Cardinality(InProbe(fp)) - 1
        /\ Cardinality(InProbe(fp)) # 0
    <3>1. v \in InProbe(fp) BY <1>3 DEF InProbe
    <3> QED BY <3>1, InProbeFinite, FS_RemoveElement, FS_EmptySet
  <2>2. inflightFor[fp] = Cardinality(InProbe(fp)) /\ inflightFor \in [Fps -> Nat]
        BY <1>0 DEF Counted
  <2>3. inflightFor' = [inflightFor EXCEPT ![fp] = inflightFor[fp] - 1]
        BY <1>3 DEF ExitProbe, ProbedOut
  <2> HIDE DEF fp
  <2>4. inflightFor[fp] - 1 \in Nat BY <1>0, <2>1, <2>2
  <2>5. /\ inflightFor' \in [Fps -> Nat]
        /\ \A f \in Fps : inflightFor'[f] = IF f = fp THEN inflightFor[f] - 1 ELSE inflightFor[f]
        BY <1>0, <2>2, <2>3, <2>4
  <2>6. \A f \in Fps : InProbe(f)' = IF f = fp THEN InProbe(f) \ {v} ELSE InProbe(f)
        BY <1>1, <1>3 DEF InProbe, fp
  <2>7. \A f \in Fps : inflightFor'[f] = Cardinality(InProbe(f)')
        BY <1>0, <2>1, <2>2, <2>5, <2>6 DEF Counted
  <2>8. \A w \in Visits : visit'[w].at # "gone" => visit'[w].fp \in Fps
        BY <1>0, <1>1 DEF Counted, fp
  <2>9. \A w \in Visits : visit'[w].probed => visit'[w].at \in {"cache", "upstream"}
        BY <1>1 DEF Counted
  <2> QED BY <2>5, <2>7, <2>8, <2>9 DEF Counted
<1> QED BY <1>2, <1>3

\* Every step keeps the counters and the list.
LEMMA StepGTInv == GTInv /\ [GatewayNext]_gatewayVars => GTInv'
<1> SUFFICES ASSUME GTInv, [GatewayNext]_gatewayVars PROVE GTInv'
    OBVIOUS
<1>0. /\ GInv /\ GInv' /\ Types /\ Counted /\ Settings /\ Ledger
      BY StepGInv DEF GTInv, GInv, Printed, Counted
<1>1. ASSUME NEW v \in Visits,
             \/ ResolvesKey(v) \/ TakesSlot(v) \/ ChecksKey(v)
             \/ Probes(v) \/ LooksInCache(v)
             \/ \E credits \in Costs : Answers(v, credits)
             \/ Charges(v) \/ Leaves(v)
      PROVE  Counted' /\ Settings' /\ Ledger'
  <2>0. visit[v] \in VisitSet BY <1>0 DEF Types
  <2>1. Settings' /\ Ledger'
        BY <1>0, <1>1 DEF Settings, Ledger, ResolvesKey, TakesSlot, ChecksKey, Probes,
           LooksInCache, Answers, Charges, Leaves, keyVars, cacheVars
  <2>2. ASSUME NEW new, Goes(v, new), UNCHANGED inflightFor, new.fp = visit[v].fp,
               new.probed = visit[v].probed, new.at # "gone", visit[v].at # "gone",
               visit[v].at \in {"cache", "upstream"} => new.at \in {"cache", "upstream"}
        PROVE  Counted'
    <3>1. new.fp \in Fps BY <1>0, <2>2 DEF Counted
    <3>2. new.probed => new.at \in {"cache", "upstream"} BY <1>0, <2>2 DEF Counted
    <3> QED BY <1>0, <2>2, <3>1, <3>2, MovesCount
  <2>3. ASSUME NEW stage \in Stage, Goes(v, Onward(v, stage)), UNCHANGED inflightFor,
               stage # "gone", visit[v].at # "gone",
               visit[v].at \in {"cache", "upstream"} => stage \in {"cache", "upstream"}
        PROVE  Counted'
    <3> DEFINE new == Onward(v, stage)
    <3>1. new.fp = visit[v].fp /\ new.probed = visit[v].probed /\ new.at = stage
          BY <2>0 DEF Onward, VisitSet
    <3>2. Goes(v, new) BY <2>3
    <3> HIDE DEF new
    <3> QED BY <2>2, <2>3, <3>1, <3>2
  <2>4. ASSUME visit' = [visit EXCEPT ![v] = Gone], UNCHANGED inflightFor,
               visit[v].at \notin {"cache", "upstream"}
        PROVE  Counted'
    <3>1. ~Gone.probed /\ Gone.at = "gone"
      <4> DEFINE first == Visit("none", NoFp, FALSE)
      <4>1. first =
              [at |-> "door", pk |-> "none", fp |-> NoFp, tail |-> FALSE, key |-> NoFp,
               limit |-> 0, probed |-> FALSE, credits |-> 0]
            BY DEF Visit
      <4>2. Gone = [first EXCEPT !.at = "gone"] BY DEF Gone
      <4> HIDE DEF first
      <4> QED BY <4>1, <4>2
    <3>2. ~visit[v].probed BY <1>0, <2>4 DEF Counted
    <3>3. visit'[v] = Gone /\ \A w \in Visits : w # v => visit'[w] = visit[w]
          BY <1>0, <2>4 DEF Types
    <3>4. \A f \in Fps : InProbe(f)' = InProbe(f) BY <3>1, <3>2, <3>3 DEF InProbe
    <3> QED BY <1>0, <2>4, <3>1, <3>3, <3>4 DEF Counted
  <2>5. CASE ResolvesKey(v)
    <3>1. /\ visit[v].at = "door" /\ UNCHANGED inflightFor
          BY <2>5 DEF ResolvesKey, cacheVars
    <3>2. CASE Goes(v, Onward(v, "auth")) BY <1>0, <2>1, <2>3, <3>1, <3>2 DEF Stage
    <3>3. CASE Goes(v, [Onward(v, "slot") EXCEPT !.key = visit[v].pk,
                                                 !.limit = keyRow[visit[v].pk].limit])
      <4> DEFINE new == [Onward(v, "slot") EXCEPT !.key = visit[v].pk,
                                                  !.limit = keyRow[visit[v].pk].limit]
      <4>1. new.fp = visit[v].fp /\ new.probed = visit[v].probed /\ new.at = "slot"
            BY <2>0 DEF Onward, VisitSet
      <4>2. Goes(v, new) BY <3>3
      <4> HIDE DEF new
      <4>3. Counted' BY <2>2, <3>1, <4>1, <4>2
      <4> QED BY <1>0, <2>1, <3>1, <4>3
    <3> QED BY <2>5, <3>2, <3>3 DEF ResolvesKey
  <2>6. CASE TakesSlot(v)
    <3>1. visit[v].at = "slot" /\ UNCHANGED inflightFor
          BY <2>6 DEF TakesSlot, cacheVars
    <3>2. CASE Goes(v, Onward(v, "auth")) BY <1>0, <2>1, <2>3, <3>1, <3>2 DEF Stage
    <3>3. CASE visit' = [visit EXCEPT ![v] = Gone] BY <1>0, <2>1, <2>4, <3>1, <3>3
    <3> QED BY <2>6, <3>2, <3>3 DEF TakesSlot
  <2>7. CASE ChecksKey(v)
    <3>1. visit[v].at = "auth" /\ UNCHANGED inflightFor
          BY <2>7 DEF ChecksKey, cacheVars
    <3>2. Goes(v, Onward(v, "probe")) \/ Goes(v, Onward(v, "release")) BY <2>7 DEF ChecksKey
    <3> QED BY <1>0, <2>1, <2>3, <3>1, <3>2 DEF Stage
  <2>8. CASE Probes(v)
    <3>1. visit[v].at = "probe" BY <2>8 DEF Probes
    <3>2. CASE Goes(v, Onward(v, "cache")) /\ UNCHANGED inflightFor
          BY <1>0, <2>1, <2>3, <3>1, <3>2 DEF Stage
    <3>3. CASE inflightFor' = ProbedIn(visit[v].fp)
               /\ Goes(v, [Onward(v, "cache") EXCEPT !.probed = TRUE])
      <4> DEFINE new == [Onward(v, "cache") EXCEPT !.probed = TRUE]
      <4>1. new.fp = visit[v].fp /\ new.probed /\ new.at = "cache"
            BY <2>0 DEF Onward, VisitSet
      <4>2. Goes(v, new) BY <3>3
      <4> HIDE DEF new
      <4>3. Counted' BY <1>0, <3>1, <3>3, <4>1, <4>2, EntersCount
      <4> QED BY <1>0, <2>1, <3>1, <4>3
    <3> QED BY <2>8, <3>2, <3>3 DEF Probes
  <2>9. CASE LooksInCache(v)
    <3> DEFINE new == [Onward(v, "charge") EXCEPT !.credits = entries[visit[v].fp].credits,
                                                  !.probed = FALSE]
    <3>1. visit[v].at = "cache" BY <2>9 DEF LooksInCache
    <3>2. CASE Goes(v, Onward(v, "upstream")) /\ UNCHANGED inflightFor
          BY <1>0, <2>1, <2>3, <3>1, <3>2 DEF Stage
    <3>3. CASE ExitProbe(v) /\ Goes(v, new)
      <4>1. new.fp = visit[v].fp /\ ~new.probed BY <2>0 DEF Onward, VisitSet
      <4>2. Goes(v, new) BY <3>3
      <4> HIDE DEF new
      <4>3. Counted' BY <1>0, <3>1, <3>3, <4>1, <4>2, ExitsCount
      <4> QED BY <2>1, <4>3
    <3> QED BY <2>9, <3>2, <3>3 DEF LooksInCache
  <2>10. CASE \E credits \in Costs : Answers(v, credits)
    <3>1. PICK credits \in Costs : Answers(v, credits) BY <2>10
    <3> DEFINE new == [Onward(v, "charge") EXCEPT !.credits = credits, !.probed = FALSE]
    <3>2. new.fp = visit[v].fp /\ ~new.probed BY <2>0 DEF Onward, VisitSet
    <3>3. Goes(v, new) /\ ExitProbe(v) /\ visit[v].at = "upstream"
          BY <3>1 DEF Answers
    <3> HIDE DEF new
    <3>4. Counted' BY <1>0, <3>2, <3>3, ExitsCount
    <3> QED BY <2>1, <3>4
  <2>11. CASE Charges(v)
    <3>1. visit[v].at = "charge" /\ UNCHANGED inflightFor
          /\ Goes(v, Onward(v, "release"))
          BY <2>11 DEF Charges, cacheVars
    <3> QED BY <1>0, <2>1, <2>3, <3>1 DEF Stage
  <2>12. CASE Leaves(v)
    <3>1. visit[v].at = "release" /\ UNCHANGED inflightFor
          /\ visit' = [visit EXCEPT ![v] = Gone]
          BY <2>12 DEF Leaves, cacheVars
    <3> QED BY <1>0, <2>1, <2>4, <3>1
  <2> QED BY <1>1, <2>5, <2>6, <2>7, <2>8, <2>9, <2>10, <2>11, <2>12
<1>2. CASE Dashboard
  <2>1. UNCHANGED <<visit, inflightFor>> BY <1>2 DEF Dashboard, cacheVars, SetsCache, SetsProbe, Ticks
  <2>2. Counted' BY <1>0, <2>1 DEF Counted, InProbe
  <2>4. Settings' BY <1>0, <1>2 DEF Dashboard, cacheVars, SetsCache, SetsProbe, Ticks, Settings
  <2>5. Ledger'
    <3>1. edits' \in 0..MaxEdits
      <4>1. Edits \/ UNCHANGED edits
            BY <1>2 DEF Dashboard, Administers, CreateKey, UpdateKey, DeleteKey, ExpiresKey, keyVars
      <4> QED BY <1>0, <4>1, KeysAssumption DEF Edits, Ledger
    <3>2. everMade' \subseteq KeyIds
      <4>1. UNCHANGED everMade \/ \E k \in KeyIds : everMade' = everMade \cup {k}
            BY <1>2 DEF Dashboard, Administers, CreateKey, UpdateKey, DeleteKey, ExpiresKey, keyVars
      <4> QED BY <1>0, <4>1 DEF Ledger
    <3> QED BY <3>1, <3>2 DEF Ledger
  <2> QED BY <1>0, <2>2, <2>4, <2>5 DEF GTInv
<1>3. CASE UNCHANGED gatewayVars
  <2>1. /\ Counted' /\ Settings' /\ Ledger'
        BY <1>0, <1>3 DEF gatewayVars, keyVars, cacheVars, Counted, InProbe, Settings, Ledger
  <2> QED BY <1>0, <2>1 DEF GTInv
<1> QED BY <1>0, <1>1, <1>2, <1>3 DEF GatewayNext, GTInv

\* Nobody is in the probe.
LEMMA InitGTInv == GatewayInit => GTInv
<1> SUFFICES ASSUME GatewayInit PROVE GTInv
    OBVIOUS
<1>1. ASSUME NEW v \in Visits
      PROVE  ~visit[v].probed /\ (visit[v].at # "gone" => visit[v].fp \in Fps)
  <2>1. CASE visit[v] = Gone BY <2>1 DEF Gone, Visit
  <2>2. CASE visit[v] # Gone
    <3>1. PICK pk \in Presents, fp \in Fps, tail \in BOOLEAN : visit[v] = Visit(pk, fp, tail)
          BY <2>2 DEF GatewayInit
    <3> QED BY <3>1 DEF Visit
  <2> QED BY <2>1, <2>2
<1>2. \A f \in Fps : InProbe(f) = {} BY <1>1 DEF InProbe
<1>3. Counted BY <1>1, <1>2, FS_EmptySet DEF Counted, GatewayInit, CacheInit
<1>5. Settings /\ Ledger
      BY KeysAssumption DEF Settings, Ledger, GatewayInit, CacheInit, KeysInit, Keys
<1> QED BY <1>3, <1>5, InitGInv DEF GTInv

\* The invariant holds of every behaviour of the gateway.
LEMMA AlwaysGInv == GatewaySpec => []GTInv
BY InitGTInv, StepGTInv, PTL DEF GatewaySpec

\* However requests, edits, deletions and expiries interleave, a key's counter is
\* the number of its requests in flight that took a slot, unless its limit was set
\* or lifted while it had requests (keySlots.acquire and release).
THEOREM SlotsAlwaysHolders == GatewaySpec => []SlotsAreHolders
<1>1. GTInv => SlotsAreHolders BY DEF GTInv, GInv
<1> QED BY <1>1, AlwaysGInv, PTL

\* For any number of requests, keys and prices: a quota nobody edits is overrun by
\* less than one dearest answer for each of the key's slots, although no request
\* knows what the others are about to be charged.
THEOREM OverrunAlwaysBounded == GatewaySpec => []OverrunBounded
<1>1. ASSUME GTInv PROVE OverrunBounded
  <2> SUFFICES ASSUME NEW k \in Keys \ edited, keyRow[k].quota > 0, keyRow[k].limit > 0
               PROVE  keyRow[k].used < keyRow[k].quota + keyRow[k].limit * MaxCredits
      BY DEF OverrunBounded
  <2>1. Budget(k) BY <1>1 DEF GTInv, GInv, Budgeted
  <2>2. /\ keyRow[k].used \in Nat /\ keyRow[k].quota \in Nat
        /\ keyRow[k].limit * MaxCredits \in Nat
        /\ Cardinality(Admitted(k)) * MaxCredits \in Nat
        BY <1>1, RowNumbers DEF GTInv, GInv
  <2> QED BY <2>1, <2>2 DEF Budget
<1> QED BY <1>1, AlwaysGInv, PTL

\* A request that looks in the cache waits while another one moves.
LEMMA OthersWait ==
  ASSUME Types, NEW v \in Visits, NEW w \in Visits, NEW new, visit' = [visit EXCEPT ![w] = new],
         visit[v].at = "cache", visit[w].at # "cache"
  PROVE  visit'[v].at = "cache"
BY DEF Types

\* For any cache and any settings: what is replayed is the answer stored last for
\* the request's fingerprint, no longer ago than the TTL, although list and index
\* are changed by every other request (responseCache.get and put).
THEOREM ReplayAlwaysFresh == GatewaySpec => ReplayIsFresh
<1> DEFINE Fresh == \A v \in Visits : visit[v].at = "cache" /\ visit'[v].at = "charge" =>
                      LET last == latest[visit[v].fp] IN
                      last.age <= TTL /\ visit'[v].credits = last.credits
<1>1. ASSUME GTInv, [GatewayNext]_gatewayVars PROVE Fresh \/ UNCHANGED gatewayVars
  <2>1. SUFFICES ASSUME GatewayNext, NEW v \in Visits,
                        visit[v].at = "cache", visit'[v].at = "charge"
                 PROVE  latest[visit[v].fp].age <= TTL
                        /\ visit'[v].credits = latest[visit[v].fp].credits
        BY <1>1
  <2>2. Types /\ CacheHolds BY <1>1 DEF GTInv, GInv
  <2>3. CASE LooksInCache(v)
    <3> DEFINE fp == visit[v].fp
               new == [Onward(v, "charge") EXCEPT !.credits = entries[fp].credits,
                                                  !.probed = FALSE]
    <3>1. CASE Goes(v, Onward(v, "upstream"))
      <4>1. visit'[v] = [visit[v] EXCEPT !.at = "upstream"] BY <2>2, <3>1 DEF Types, Goes, Onward
      <4>2. visit[v] \in VisitSet BY <2>2 DEF Types
      <4>3. visit'[v].at = "upstream" BY <4>1, <4>2 DEF VisitSet
      <4> QED BY <2>1, <4>3
    <3>2. CASE Hit(fp) /\ Goes(v, new)
      <4>1. visit'[v] = new /\ visit[v] \in VisitSet BY <2>2, <3>2 DEF Types, Goes
      <4>2. new.credits = entries[fp].credits BY <4>1 DEF Onward, VisitSet
      <4>3. entries[fp] = latest[fp] /\ entries[fp].age <= TTL
            BY <2>2, <3>2 DEF Hit, Live, CacheHolds
      <4> QED BY <4>1, <4>2, <4>3
    <3> QED BY <2>3, <3>1, <3>2 DEF LooksInCache
  <2>4. CASE \E w \in Visits : LooksInCache(w) /\ w # v
    <3>1. PICK w \in Visits : LooksInCache(w) /\ w # v BY <2>4
    <3>2. PICK new : visit' = [visit EXCEPT ![w] = new] BY <3>1 DEF LooksInCache, Goes
    <3>3. visit'[v] = visit[v] BY <2>2, <3>1, <3>2 DEF Types
    <3> QED BY <2>1, <3>3
  <2>5. CASE \E w \in Visits : \/ ResolvesKey(w) \/ TakesSlot(w) \/ ChecksKey(w)
                             \/ Probes(w) \/ (\E credits \in Costs : Answers(w, credits))
                             \/ Charges(w) \/ Leaves(w)
    <3>1. PICK w \in Visits : \/ ResolvesKey(w) \/ TakesSlot(w) \/ ChecksKey(w)
                              \/ Probes(w) \/ (\E credits \in Costs : Answers(w, credits))
                              \/ Charges(w) \/ Leaves(w)
          BY <2>5
    <3>2. /\ visit[w].at # "cache"
          /\ \E new : visit' = [visit EXCEPT ![w] = new]
          BY <3>1 DEF ResolvesKey, TakesSlot, ChecksKey, Probes, Answers, Charges, Leaves, Goes
    <3>3. visit'[v].at = "cache" BY <2>1, <2>2, <3>2, OthersWait
    <3> QED BY <2>1, <3>3
  <2>6. CASE Dashboard
    <3>1. UNCHANGED visit BY <2>6 DEF Dashboard
    <3> QED BY <2>1, <3>1
  <2> QED BY <2>1, <2>3, <2>4, <2>5, <2>6 DEF GatewayNext
<1> QED BY <1>1, AlwaysGInv, PTL DEF GatewaySpec, ReplayIsFresh

\* The gateway's types: the list names a fingerprint once and is never
\* longer than its bound (responseCache.put), and the probe's counter of a
\* fingerprint is the number of its requests between entry and exit
\* (shadowProbe), whatever setting is switched meanwhile.
THEOREM GatewayTypesOK == GatewaySpec => []GatewayTypeOK
<1>1. ASSUME GTInv PROVE GatewayTypeOK
  <2>1. Types /\ Counted /\ CacheHolds /\ Settings /\ Ledger BY <1>1 DEF GTInv, GInv
  <2>2. KeysTypeOK BY <2>1 DEF KeysTypeOK, Types, Ledger, Keys
  <2>3. CacheTypeOK
    <3>1. IsInjective(ll)
      <4>1. DOMAIN ll = 1..Len(ll) BY <2>1 DEF CacheHolds
      <4> QED BY <2>1, <4>1 DEF CacheHolds, Distinct, IsInjective
    <3>2. latest \in [Fps -> Answer]
      <4>1. KeptAnswer \subseteq Answer BY PriceNat DEF KeptAnswer, Answer
      <4> QED BY <2>1, <4>1 DEF CacheHolds
    <3>3. \A fp \in DOMAIN entries : entries[fp] \in Answer
      <4>1. DOMAIN entries \subseteq Fps BY <2>1 DEF CacheHolds, ToSet
      <4> QED BY <2>1, <3>2, <4>1 DEF CacheHolds
    <3> QED BY <2>1, <3>1, <3>2, <3>3 DEF CacheTypeOK, CacheHolds, Settings, Counted
  <2>4. \A v \in Visits :
          /\ visit[v].at \in Stage
          /\ visit[v].pk \in Presents \cup {"none"} /\ visit[v].key \in KeyIds \cup {NoFp}
          /\ visit[v].credits \in 0..MaxCredits
          /\ visit[v].at = "slot" => visit[v].key # NoFp
        BY <2>1 DEF Types, VisitSet
  <2>5. switched \subseteq KeyIds BY <2>1 DEF Types, Ledger
  <2> QED BY <2>1, <2>2, <2>3, <2>4, <2>5 DEF GatewayTypeOK, Counted, InProbe
<1> QED BY <1>1, AlwaysGInv, PTL

-----------------------------------------------------------------------------
(***************************************************************************)
(* A behaviour of the parts side by side is a behaviour of each.           *)
(***************************************************************************)

\* What moves one part leaves the others alone: the run of the parts together
\* checks each against its own specification (StreamReader, keySlots and
\* responseCache, probeManager, redisStore, toolNameMap).
THEOREM ServicesAreTheirParts ==
  ServicesSpec => AnswerSpec /\ GatewaySpec /\ ProbeSpec /\ RedisSpec /\ ToolsetsSpec
  <1>1. ServicesInit => AnswerInit /\ GatewayInit /\ ProbeInit /\ RedisInit /\ ToolsetsInit
    BY DEF ServicesInit
  <1>2. ASSUME [ServicesNext]_<<part, answerVars, gatewayVars, probeVars, redisVars, tsVars>>
        PROVE  /\ [AnswerNext]_answerVars /\ [GatewayNext]_gatewayVars
               /\ [ProbeNext]_probeVars /\ [RedisNext]_redisVars /\ [ToolsetsNext]_tsVars
    <2>1. CASE UNCHANGED <<part, answerVars, gatewayVars, probeVars, redisVars, tsVars>>
      BY <2>1
    <2>2. CASE AnswerMoves  BY <2>2 DEF AnswerMoves
    <2>3. CASE GatewayMoves  BY <2>3 DEF GatewayMoves
    <2>7. CASE CacheMoves  BY <2>7 DEF CacheMoves
    <2>4. CASE ProbeMoves  BY <2>4 DEF ProbeMoves
    <2>5. CASE RedisMoves  BY <2>5 DEF RedisMoves
    <2>6. CASE ToolsetsMove  BY <2>6 DEF ToolsetsMove
    <2> QED  BY <1>2, <2>1, <2>2, <2>3, <2>4, <2>5, <2>6, <2>7 DEF ServicesNext
  <1> QED
    BY <1>1, <1>2, PTL DEF ServicesSpec, AnswerSpec, GatewaySpec, ProbeSpec, RedisSpec, ToolsetsSpec

\* The types of all five parts, throughout (StreamReader, keySlots and
\* responseCache, probeManager, redisStore, toolNameMap).
THEOREM ServicesTypesOK == ServicesSpec => []ServicesTypeOK
  <1>1. AnswerTypeOK /\ GatewayTypeOK /\ ProbeTypeOK /\ RedisTypeOK /\ ToolsetsTypeOK
          => ServicesTypeOK
    BY DEF ServicesTypeOK
  <1> QED
    BY <1>1, ServicesAreTheirParts, AnswerTypesOK, GatewayTypesOK, ProbeTypesCorrect,
       RedisSpecTypeOK, ToolsetsTypesCorrect, PTL

\* What the run checks holds for every value of the constants: the client reads the
\* answer (StreamReader, the front ends), counters and cache are right (keySlots,
\* responseCache), the probe's verdict is true (probeJob), sweeps remove what they
\* should (redisStore) and tools get their names back (toolNameMap).
THEOREM ServicesKeepTheirPromises ==
  ServicesSpec => /\ []WellFormed /\ []ClientSeesTheAnswer
                  /\ []SlotsAreHolders /\ []OverrunBounded /\ ReplayIsFresh
                  /\ []OneProbeAtATime /\ []DoneIsTrue
                  /\ []SweepsAreExact /\ []ToolsetsAnswer
  <1>1. AnswerSpec => []WellFormed /\ []ClientSeesTheAnswer
    BY AlwaysWellFormed, ClientAlwaysSeesTheAnswer
  <1>2. GatewaySpec => []SlotsAreHolders /\ []OverrunBounded /\ ReplayIsFresh
    BY SlotsAlwaysHolders, OverrunAlwaysBounded, ReplayAlwaysFresh
  <1>3. ProbeSpec => []OneProbeAtATime /\ []DoneIsTrue
    BY ProbesOneAtATime, DoneJobsAreTrue
  <1>4. RedisSpec => []SweepsAreExact
    BY RedisSpecSweepsAreExact
  <1>5. ToolsetsSpec => []ToolsetsAnswer
    BY ToolsetsKeepTheirPromise
  <1> QED
    BY <1>1, <1>2, <1>3, <1>4, <1>5, ServicesAreTheirParts
=============================================================================

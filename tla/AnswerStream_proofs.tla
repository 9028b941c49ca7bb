------------------------ MODULE AnswerStream_proofs -------------------------
(***************************************************************************)
(* Theorems about the streamed answer, for any number of events, attempts, *)
(* calls and pieces: what a front end writes is a well-formed stream of    *)
(* its protocol, and a client told that its answer is complete has read    *)
(* the answer a client without streaming gets.                             *)
(*                                                                         *)
(* The invariant (AInv) relates three parties.  The reader: its ids are    *)
(* distinct and number the calls, and what was received is what was sent   *)
(* followed by what is held back, where no marker lies across the two      *)
(* (Reading, TextHeld).  The front end: whatever it has open, shut or      *)
(* still owes, what it wrote is a prefix of a well-formed stream (FrontInv *)
(* for the two protocols with items, ChunksInv for the third).  And what a *)
(* client would make of what was written, with what is owed at the end, is *)
(* what the reader has received (Shows, Streaming).                        *)
(*                                                                         *)
(* One Delta keeps the last two (BlocksShow, OnDeltaShows); a sequence of  *)
(* them by induction over the intermediate results of the fold, which the  *)
(* first lemmas construct.  At the end the calls are closed one after the  *)
(* other (ClosedTo), and nothing is owed any more.                         *)
(***************************************************************************)
EXTENDS AnswerStream, FiniteSetTheorems, WellFoundedInduction, TLAPS

(***************************************************************************)
(* Natural numbers.                                                        *)
(***************************************************************************)

\* A set of numbers that is not empty has a least member.
LEMMA LeastOf ==
  ASSUME NEW T, T \subseteq Nat, T # {}
  PROVE  \E x \in T : \A y \in T : x <= y
<1> DEFINE R == {ss \in Nat \X Nat : ss[1] < ss[2]}
<1>1. IsWellFoundedOn(R, Nat)
  BY NatLessThanWellFounded DEF OpToRel
<1> HIDE DEF R
<1>2. PICK x \in T : \A y \in T : <<y, x>> \notin R
  BY <1>1, WFMin
<1>3. \A y \in T : ~(y < x)
  BY <1>2 DEF R
<1> QED
  BY <1>3

\* Induction up to n, with the property as a set.
LEMMA UpTo ==
  ASSUME NEW n \in Nat, NEW T, 0 \in T, \A i \in 0 .. n - 1 : i \in T => i + 1 \in T
  PROVE  \A i \in 0 .. n : i \in T
<1> DEFINE U == {i \in 0 .. n : i \notin T}
<1> SUFFICES ASSUME U # {} PROVE FALSE
  OBVIOUS
<1>1. U \subseteq Nat
  OBVIOUS
<1>2. PICK x \in U : \A y \in U : x <= y
  <2> HIDE DEF U
  <2> QED BY <1>1, LeastOf
<1>3. x # 0 /\ x \in 1 .. n /\ x \notin T
  OBVIOUS
<1>4. x - 1 \in 0 .. n - 1 /\ x - 1 \notin U
  BY <1>2, <1>3
<1>5. x - 1 \in T
  BY <1>4
<1>6. (x - 1) + 1 \in T
  BY <1>4, <1>5
<1> QED
  BY <1>3, <1>6

\* The greatest number of 1 .. n, which FoldLeft takes first.
LEMMA MaxUpTo ==
  ASSUME NEW n \in Nat, NEW s, s \in SUBSET (1 .. n + 1), n + 1 \in s
  PROVE  Max(s) = n + 1 /\ s \ {Max(s)} \in SUBSET (1 .. n)
<1>1. \A y \in s : y <= n + 1
  OBVIOUS
<1>2. \A x \in s : (\A y \in s : x >= y) => x = n + 1
  OBVIOUS
<1>3. Max(s) = n + 1
  BY <1>1, <1>2 DEF Max
<1> QED
  BY <1>3

\* Nothing is left out when the greatest is not there.
LEMMA WithoutLast ==
  ASSUME NEW n \in Nat, NEW s, s \in SUBSET (1 .. n + 1), n + 1 \notin s
  PROVE  s \in SUBSET (1 .. n)
OBVIOUS

(***************************************************************************)
(* FoldLeft with each of its three operators, as the sequence of its       *)
(* intermediate results.                                                   *)
(***************************************************************************)

\* What FoldLeft does with the Deltas: one after another.
AfterDeltas(b, ds) == FoldLeft(OnDelta, b, ds)

DeltaRun(b, n, ds, g) ==
  /\ g[0] = b /\ g[n] = AfterDeltas(b, ds)
  /\ \A i \in 0 .. n - 1 : g[i + 1] = OnDelta(g[i], ds[i + 1])

\* The fold over Deltas has intermediate results, one after each Delta: a function
\* of the sets 1..m, defined by recursion on their greatest member.
LEMMA DeltasInTurn ==
  ASSUME NEW b, NEW n \in Nat, NEW ds, DOMAIN ds = 1 .. n
  PROVE  \E g : DeltaRun(b, n, ds, g)
<1> DEFINE Is(h, m) ==
      h = [s \in SUBSET (1 .. m) |->
             IF s = {} THEN b ELSE OnDelta(h[s \ {Max(s)}], ds[Max(s)])]
    T == {m \in Nat : \E h : Is(h, m)}
    it == CHOOSE h : Is(h, n)
<1>1. 0 \in T
  <2> DEFINE h == [s \in SUBSET (1 .. 0) |-> b]
  <2>1. SUBSET (1 .. 0) = {{}}
    OBVIOUS
  <2>2. Is(h, 0)
    BY <2>1
  <2> QED
    BY <2>2
<1>2. \A m \in 0 .. n - 1 : m \in T => m + 1 \in T
  <2> HIDE DEF Is
  <2> SUFFICES ASSUME NEW m \in 0 .. n - 1, NEW h, Is(h, m) PROVE \E k : Is(k, m + 1)
    OBVIOUS
  <2> USE DEF Is
  <2> m \in Nat
    OBVIOUS
  <2> DEFINE k == [s \in SUBSET (1 .. m + 1) |->
                     IF m + 1 \in s THEN OnDelta(h[s \ {m + 1}], ds[m + 1]) ELSE h[s]]
  <2>1. \A s \in SUBSET (1 .. m) : k[s] = h[s]
    OBVIOUS
  <2>2. ASSUME NEW s \in SUBSET (1 .. m + 1)
        PROVE  k[s] = IF s = {} THEN b ELSE OnDelta(k[s \ {Max(s)}], ds[Max(s)])
    <3>1. CASE m + 1 \in s
      <4>1. Max(s) = m + 1 /\ s \ {Max(s)} \in SUBSET (1 .. m)
        BY <3>1, MaxUpTo
      <4>2. k[s \ {Max(s)}] = h[s \ {Max(s)}]
        BY <2>1, <4>1
      <4> QED
        BY <3>1, <4>1, <4>2
    <3>2. CASE m + 1 \notin s /\ s # {}
      <4>1. s \in SUBSET (1 .. m)
        BY <3>2, WithoutLast
      <4>2. s \ {Max(s)} \in SUBSET (1 .. m)
        BY <4>1
      <4>3. h[s] = OnDelta(h[s \ {Max(s)}], ds[Max(s)])
        BY <3>2, <4>1
      <4> HIDE DEF k
      <4> QED
        BY <2>1, <3>2, <4>1, <4>2, <4>3
    <3>3. CASE s = {}
      BY <3>3
    <3> QED
      BY <3>1, <3>2, <3>3
  <2>3. Is(k, m + 1)
    BY <2>2
  <2> QED
    BY <2>3
<1>3. n \in T
  <2> HIDE DEF T
  <2>1. \A i \in 0 .. n : i \in T
    BY <1>1, <1>2, UpTo
  <2> QED
    BY <2>1
<1>4. Is(it, n)
  BY <1>3
<1>5. FoldLeft(OnDelta, b, ds) = it[1 .. n]
  BY DEF FoldLeft, MapThenFoldSet
<1> HIDE DEF it
<1> DEFINE g == [i \in 0 .. n |-> it[1 .. i]]
<1>6. g[0] = b
  <2>1. it[{}] = b
    BY <1>4
  <2>2. 1 .. 0 = {}
    OBVIOUS
  <2> QED
    BY <2>1, <2>2
<1>7. ASSUME NEW i \in 0 .. n - 1 PROVE g[i + 1] = OnDelta(g[i], ds[i + 1])
  <2>1. /\ 1 .. i + 1 \in SUBSET (1 .. n) /\ 1 .. i + 1 # {}
        /\ Max(1 .. i + 1) = i + 1 /\ (1 .. i + 1) \ {i + 1} = 1 .. i
    <3>1. i \in Nat /\ 1 .. i + 1 \in SUBSET (1 .. n) /\ i + 1 \in 1 .. i + 1
      OBVIOUS
    <3>2. Max(1 .. i + 1) = i + 1
      BY <3>1, MaxUpTo
    <3> QED
      BY <3>1, <3>2
  <2>2. it[1 .. i + 1] = OnDelta(it[1 .. i], ds[i + 1])
    BY <1>4, <2>1
  <2> QED
    BY <2>2
<1>8. g[n] = AfterDeltas(b, ds)
  BY <1>5 DEF AfterDeltas
<1> HIDE DEF g
<1> QED
  BY <1>6, <1>7, <1>8 DEF DeltaRun

\* What FoldLeft does with the tools of an answer that ends: one after another.
AfterTools(b, ts) == FoldLeft(CloseTool, b, ts)

\* The same of the fold that closes the tools.
LEMMA ToolsInTurn ==
  ASSUME NEW b, NEW n \in Nat, NEW ts, DOMAIN ts = 1 .. n
  PROVE  \E g : /\ g[0] = b /\ g[n] = AfterTools(b, ts)
                /\ \A i \in 0 .. n - 1 : g[i + 1] = CloseTool(g[i], ts[i + 1])
<1> DEFINE Is(h, m) ==
      h = [s \in SUBSET (1 .. m) |->
             IF s = {} THEN b ELSE CloseTool(h[s \ {Max(s)}], ts[Max(s)])]
    T == {m \in Nat : \E h : Is(h, m)}
    it == CHOOSE h : Is(h, n)
<1>1. 0 \in T
  <2> DEFINE h == [s \in SUBSET (1 .. 0) |-> b]
  <2>1. SUBSET (1 .. 0) = {{}}
    OBVIOUS
  <2>2. Is(h, 0)
    BY <2>1
  <2> QED
    BY <2>2
<1>2. \A m \in 0 .. n - 1 : m \in T => m + 1 \in T
  <2> HIDE DEF Is
  <2> SUFFICES ASSUME NEW m \in 0 .. n - 1, NEW h, Is(h, m) PROVE \E k : Is(k, m + 1)
    OBVIOUS
  <2> USE DEF Is
  <2> m \in Nat
    OBVIOUS
  <2> DEFINE k == [s \in SUBSET (1 .. m + 1) |->
                     IF m + 1 \in s THEN CloseTool(h[s \ {m + 1}], ts[m + 1]) ELSE h[s]]
  <2>1. \A s \in SUBSET (1 .. m) : k[s] = h[s]
    OBVIOUS
  <2>2. ASSUME NEW s \in SUBSET (1 .. m + 1)
        PROVE  k[s] = IF s = {} THEN b ELSE CloseTool(k[s \ {Max(s)}], ts[Max(s)])
    <3>1. CASE m + 1 \in s
      <4>1. Max(s) = m + 1 /\ s \ {Max(s)} \in SUBSET (1 .. m)
        BY <3>1, MaxUpTo
      <4>2. k[s \ {Max(s)}] = h[s \ {Max(s)}]
        BY <2>1, <4>1
      <4> QED
        BY <3>1, <4>1, <4>2
    <3>2. CASE m + 1 \notin s /\ s # {}
      <4>1. s \in SUBSET (1 .. m)
        BY <3>2, WithoutLast
      <4>2. s \ {Max(s)} \in SUBSET (1 .. m)
        BY <4>1
      <4>3. h[s] = CloseTool(h[s \ {Max(s)}], ts[Max(s)])
        BY <3>2, <4>1
      <4> HIDE DEF k
      <4> QED
        BY <2>1, <3>2, <4>1, <4>2, <4>3
    <3>3. CASE s = {}
      BY <3>3
    <3> QED
      BY <3>1, <3>2, <3>3
  <2>3. Is(k, m + 1)
    BY <2>2
  <2> QED
    BY <2>3
<1>3. n \in T
  <2> HIDE DEF T
  <2>1. \A i \in 0 .. n : i \in T
    BY <1>1, <1>2, UpTo
  <2> QED
    BY <2>1
<1>4. Is(it, n)
  BY <1>3
<1>5. FoldLeft(CloseTool, b, ts) = it[1 .. n]
  BY DEF FoldLeft, MapThenFoldSet
<1> HIDE DEF it
<1> DEFINE g == [i \in 0 .. n |-> it[1 .. i]]
<1>6. g[0] = b
  <2>1. it[{}] = b
    BY <1>4
  <2>2. 1 .. 0 = {}
    OBVIOUS
  <2> QED
    BY <2>1, <2>2
<1>7. ASSUME NEW i \in 0 .. n - 1 PROVE g[i + 1] = CloseTool(g[i], ts[i + 1])
  <2>1. /\ 1 .. i + 1 \in SUBSET (1 .. n) /\ 1 .. i + 1 # {}
        /\ Max(1 .. i + 1) = i + 1 /\ (1 .. i + 1) \ {i + 1} = 1 .. i
    <3>1. i \in Nat /\ 1 .. i + 1 \in SUBSET (1 .. n) /\ i + 1 \in 1 .. i + 1
      OBVIOUS
    <3>2. Max(1 .. i + 1) = i + 1
      BY <3>1, MaxUpTo
    <3> QED
      BY <3>1, <3>2
  <2>2. it[1 .. i + 1] = CloseTool(it[1 .. i], ts[i + 1])
    BY <1>4, <2>1
  <2> QED
    BY <2>2
<1>8. g[n] = AfterTools(b, ts)
  BY <1>5 DEF AfterTools
<1> QED
  BY <1>6, <1>7, <1>8

\* What FoldLeft does with pieces of text: one after another.
LEMMA PiecesInTurn ==
  ASSUME NEW n \in Nat, NEW ds, DOMAIN ds = 1 .. n
  PROVE  \E g : /\ g[0] = <<>> /\ g[n] = Concat(ds)
                /\ \A i \in 0 .. n - 1 : g[i + 1] = g[i] \o ds[i + 1]
<1> DEFINE Is(h, m) ==
      h = [s \in SUBSET (1 .. m) |->
             IF s = {} THEN <<>> ELSE h[s \ {Max(s)}] \o ds[Max(s)]]
    T == {m \in Nat : \E h : Is(h, m)}
    it == CHOOSE h : Is(h, n)
<1>1. 0 \in T
  <2> DEFINE h == [s \in SUBSET (1 .. 0) |-> <<>>]
  <2>1. SUBSET (1 .. 0) = {{}}
    OBVIOUS
  <2>2. Is(h, 0)
    BY <2>1
  <2> QED
    BY <2>2
<1>2. \A m \in 0 .. n - 1 : m \in T => m + 1 \in T
  <2> HIDE DEF Is
  <2> SUFFICES ASSUME NEW m \in 0 .. n - 1, NEW h, Is(h, m) PROVE \E k : Is(k, m + 1)
    OBVIOUS
  <2> USE DEF Is
  <2> m \in Nat
    OBVIOUS
  <2> DEFINE k == [s \in SUBSET (1 .. m + 1) |->
                     IF m + 1 \in s THEN h[s \ {m + 1}] \o ds[m + 1] ELSE h[s]]
  <2>1. ASSUME NEW s \in SUBSET (1 .. m) PROVE k[s] = h[s]
    <3>1. m + 1 \notin 1 .. m /\ \A i \in 1 .. m : i \in 1 .. m + 1
      OBVIOUS
    <3>2. s \in SUBSET (1 .. m + 1) /\ m + 1 \notin s
      BY <3>1
    <3> QED
      BY <3>2
  <2>2. ASSUME NEW s \in SUBSET (1 .. m + 1)
        PROVE  k[s] = IF s = {} THEN <<>> ELSE k[s \ {Max(s)}] \o ds[Max(s)]
    <3>1. CASE m + 1 \in s
      <4>1. Max(s) = m + 1 /\ s \ {Max(s)} \in SUBSET (1 .. m)
        BY <3>1, MaxUpTo
      <4>2. k[s \ {Max(s)}] = h[s \ {Max(s)}]
        BY <2>1, <4>1
      <4> QED
        BY <3>1, <4>1, <4>2
    <3>2. CASE m + 1 \notin s /\ s # {}
      <4>1. s \in SUBSET (1 .. m)
        BY <3>2, WithoutLast
      <4>2. s \ {Max(s)} \in SUBSET (1 .. m)
        BY <4>1
      <4>3. h[s] = h[s \ {Max(s)}] \o ds[Max(s)]
        BY <3>2, <4>1
      <4> HIDE DEF k
      <4> QED
        BY <2>1, <3>2, <4>1, <4>2, <4>3
    <3>3. CASE s = {}
      BY <3>3
    <3> QED
      BY <3>1, <3>2, <3>3
  <2>3. Is(k, m + 1)
    BY <2>2
  <2> QED
    BY <2>3
<1>3. n \in T
  <2> HIDE DEF T
  <2>1. \A i \in 0 .. n : i \in T
    BY <1>1, <1>2, UpTo
  <2> QED
    BY <2>1
<1>4. Is(it, n)
  BY <1>3
<1>5. Concat(ds) = it[1 .. n]
  BY DEF Concat, FoldLeft, MapThenFoldSet
<1> HIDE DEF it
<1> DEFINE g == [i \in 0 .. n |-> it[1 .. i]]
<1>6. g[0] = <<>>
  <2>1. it[{}] = <<>>
    BY <1>4
  <2>2. 1 .. 0 = {}
    OBVIOUS
  <2> QED
    BY <2>1, <2>2
<1>7. ASSUME NEW i \in 0 .. n - 1 PROVE g[i + 1] = g[i] \o ds[i + 1]
  <2>1. /\ 1 .. i + 1 \in SUBSET (1 .. n) /\ 1 .. i + 1 # {}
        /\ Max(1 .. i + 1) = i + 1 /\ (1 .. i + 1) \ {i + 1} = 1 .. i
    <3>1. i \in Nat /\ 1 .. i + 1 \in SUBSET (1 .. n) /\ i + 1 \in 1 .. i + 1
      OBVIOUS
    <3>2. Max(1 .. i + 1) = i + 1
      BY <3>1, MaxUpTo
    <3> QED
      BY <3>1, <3>2
  <2>2. it[1 .. i + 1] = it[1 .. i] \o ds[i + 1]
    BY <1>4, <2>1
  <2>3. g[i] = it[1 .. i] /\ g[i + 1] = it[1 .. i + 1]
    OBVIOUS
  <2> QED
    BY <2>2, <2>3
<1>8. g[n] = Concat(ds)
  BY <1>5
<1> QED
  BY <1>6, <1>7, <1>8

\* Intermediate results that begin with nothing and add one piece each are those
\* of Concat.
LEMMA ConcatIs ==
  ASSUME NEW n \in Nat, NEW s, DOMAIN s = 1 .. n, NEW g, g[0] = <<>>,
         \A i \in 0 .. n - 1 : g[i + 1] = g[i] \o s[i + 1]
  PROVE  Concat(s) = g[n]
<1>1. PICK h : /\ h[0] = <<>> /\ h[n] = Concat(s)
               /\ \A i \in 0 .. n - 1 : h[i + 1] = h[i] \o s[i + 1]
  BY PiecesInTurn
<1> DEFINE T == {i \in Nat : g[i] = h[i]}
<1>2. 0 \in T
  BY <1>1
<1>3. ASSUME NEW i \in 0 .. n - 1, g[i] = h[i] PROVE g[i + 1] = h[i + 1]
  <2>1. g[i + 1] = g[i] \o s[i + 1] /\ h[i + 1] = h[i] \o s[i + 1]
    BY <1>1
  <2> QED
    BY <1>3, <2>1
<1>4. \A i \in 0 .. n - 1 : i \in T => i + 1 \in T
  BY <1>3
<1> HIDE DEF T
<1>5. \A i \in 0 .. n : i \in T
  BY <1>2, <1>4, UpTo
<1>6. n \in T
  BY <1>5
<1> QED
  BY <1>1, <1>6 DEF T

\* Sequences of n texts.
Pieces(T, n) == [1 .. n -> Seq(T)]

\* g has the n intermediate results of Concat for s.
IsTrace(T, n, s, g) ==
  /\ g[0] = <<>> /\ g[n] = Concat(s)
  /\ \A i \in 0 .. n - 1 : g[i + 1] = g[i] \o s[i + 1]
  /\ \A i \in 0 .. n : g[i] \in Seq(T)

\* The intermediate results are sequences.
LEMMA ConcatTrace ==
  ASSUME NEW T, NEW n \in Nat, NEW s \in Pieces(T, n)
  PROVE  \E g : IsTrace(T, n, s, g)
<1>1. PICK g : /\ g[0] = <<>> /\ g[n] = Concat(s)
               /\ \A i \in 0 .. n - 1 : g[i + 1] = g[i] \o s[i + 1]
  <2>1. DOMAIN s = 1 .. n
    BY DEF Pieces
  <2> QED
    BY <2>1, PiecesInTurn
<1> DEFINE U == {i \in Nat : g[i] \in Seq(T)}
<1>2. 0 \in U
  <2>1. <<>> \in Seq(T)
    OBVIOUS
  <2> QED
    BY <1>1, <2>1
<1>3. ASSUME NEW i \in 0 .. n - 1, g[i] \in Seq(T) PROVE g[i + 1] \in Seq(T)
  <2>1. g[i + 1] = g[i] \o s[i + 1]
    BY <1>1
  <2>2. s[i + 1] \in Seq(T)
    <3>1. i + 1 \in 1 .. n
      OBVIOUS
    <3> QED
      BY <3>1 DEF Pieces
  <2>3. g[i] \o s[i + 1] \in Seq(T)
    BY <1>3, <2>2
  <2> QED
    BY <2>1, <2>3
<1>4. \A i \in 0 .. n - 1 : i \in U => i + 1 \in U
  BY <1>3
<1> HIDE DEF U
<1>5. \A i \in 0 .. n : i \in U
  BY <1>2, <1>4, UpTo
<1>6. \A i \in 0 .. n : g[i] \in Seq(T)
  BY <1>5 DEF U
<1> QED
  BY <1>1, <1>6 DEF IsTrace

\* Pieces of text make a text.
LEMMA ConcatTyped ==
  ASSUME NEW T, NEW n \in Nat, NEW s \in Pieces(T, n)
  PROVE  Concat(s) \in Seq(T)
<1>1. n \in 0 .. n
  OBVIOUS
<1>2. PICK g : IsTrace(T, n, s, g)
  BY ConcatTrace
<1> QED
  BY <1>1, <1>2 DEF IsTrace

\* Nothing is put together from nothing.
LEMMA ConcatNothing == Concat(<<>>) = <<>>
<1>1. DOMAIN <<>> = 1 .. 0
  OBVIOUS
<1>2. \E g : g[0] = <<>> /\ g[0] = Concat(<<>>)
  BY <1>1, PiecesInTurn
<1> QED
  BY <1>2

\* One more piece comes last.
LEMMA ConcatMore ==
  ASSUME NEW T, NEW n \in Nat, NEW s \in Pieces(T, n), NEW x \in Seq(T),
         NEW t, DOMAIN t = 1 .. n + 1, t[n + 1] = x, \A i \in 1 .. n : t[i] = s[i]
  PROVE  Concat(t) = Concat(s) \o x
<1>1. PICK g : /\ g[0] = <<>> /\ g[n + 1] = Concat(t)
               /\ \A i \in 0 .. (n + 1) - 1 : g[i + 1] = g[i] \o t[i + 1]
  <2>1. n + 1 \in Nat
    OBVIOUS
  <2> QED
    BY <2>1, PiecesInTurn
<1>2. \A i \in 0 .. n - 1 : g[i + 1] = g[i] \o s[i + 1]
  <2> TAKE i \in 0 .. n - 1
  <2>1. i \in 0 .. (n + 1) - 1 /\ i + 1 \in 1 .. n
    OBVIOUS
  <2>2. t[i + 1] = s[i + 1]
    BY <2>1
  <2> QED
    BY <1>1, <2>1, <2>2
<1>3. Concat(s) = g[n]
  <2>1. DOMAIN s = 1 .. n /\ g[0] = <<>>
    BY <1>1 DEF Pieces
  <2> QED
    BY <1>2, <2>1, ConcatIs, ZenonT(60)
<1>4. n \in 0 .. (n + 1) - 1
  OBVIOUS
<1>5. g[n + 1] = g[n] \o t[n + 1]
  BY <1>1, <1>4
<1> QED
  BY <1>1, <1>3, <1>5

\* Sums may be reordered.
LEMMA Sums == \A a, b, c \in Nat : a + (b + c) = (a + b) + c
OBVIOUS

\* The same, the other way round.
LEMMA SumsSwapped == \A a, b, c \in Nat : (a + b) + c = (a + c) + b
OBVIOUS

\* A piece that grows makes the text as much longer.
LEMMA ConcatLonger ==
  ASSUME NEW T, NEW n \in Nat, NEW s \in Pieces(T, n), NEW j \in 1 .. n, NEW x \in Seq(T),
         NEW t \in Pieces(T, n), Len(t[j]) = Len(s[j]) + Len(x),
         \A i \in 1 .. n : i # j => t[i] = s[i]
  PROVE  Len(Concat(t)) = Len(Concat(s)) + Len(x)
<1>1. PICK g : IsTrace(T, n, s, g)
  BY ConcatTrace
<1>2. PICK h : IsTrace(T, n, t, h)
  BY ConcatTrace
<1> DEFINE more == [i \in Nat |-> IF i < j THEN 0 ELSE Len(x)]
           U == {i \in Nat : Len(h[i]) = Len(g[i]) + more[i]}
<1>3. 0 \in U
  <2>1. more[0] = 0 /\ Len(<<>>) = 0
    OBVIOUS
  <2>2. Len(h[0]) = Len(g[0]) + more[0]
    BY <1>1, <1>2, <2>1 DEF IsTrace
  <2> HIDE DEF more
  <2> QED
    BY <2>2
<1> HIDE DEF U
<1>4. ASSUME NEW i \in 0 .. n - 1, Len(h[i]) = Len(g[i]) + more[i]
      PROVE  Len(h[i + 1]) = Len(g[i + 1]) + more[i + 1]
  <2>1. /\ h[i + 1] = h[i] \o t[i + 1] /\ g[i + 1] = g[i] \o s[i + 1]
        /\ h[i] \in Seq(T) /\ g[i] \in Seq(T) /\ s[i + 1] \in Seq(T) /\ t[i + 1] \in Seq(T)
    <3>1. i + 1 \in 1 .. n /\ i \in 0 .. n
      OBVIOUS
    <3>2. s[i + 1] \in Seq(T) /\ t[i + 1] \in Seq(T)
      BY <3>1 DEF Pieces
    <3> QED
      BY <1>1, <1>2, <3>1, <3>2 DEF IsTrace
  <2>2. Len(h[i + 1]) = Len(h[i]) + Len(t[i + 1]) /\ Len(g[i + 1]) = Len(g[i]) + Len(s[i + 1])
    BY <2>1
  <2>3. /\ Len(g[i]) \in Nat /\ Len(x) \in Nat /\ Len(s[i + 1]) \in Nat
        /\ Len(h[i]) \in Nat /\ Len(t[i + 1]) \in Nat
    BY <2>1, SMTT(60)
  <2>4. CASE i + 1 = j
    <3>1. more[i] = 0 /\ more[i + 1] = Len(x) /\ Len(t[i + 1]) = Len(s[i + 1]) + Len(x)
      BY <2>4
    <3> HIDE DEF more
    <3>2. Len(h[i]) = Len(g[i])
      BY <1>4, <2>3, <3>1
    <3>3. Len(h[i + 1]) = Len(g[i]) + (Len(s[i + 1]) + Len(x))
      BY <2>2, <3>1, <3>2
    <3>4. Len(g[i]) + (Len(s[i + 1]) + Len(x)) = (Len(g[i]) + Len(s[i + 1])) + Len(x)
      <4>1. Len(g[i]) \in Nat
        BY <2>3
      <4>2. Len(s[i + 1]) \in Nat
        BY <2>3
      <4>3. Len(x) \in Nat
        BY <2>3
      <4> QED
        BY <4>1, <4>2, <4>3, Sums
    <3> QED
      BY <2>2, <3>1, <3>3, <3>4
  <2>5. CASE i + 1 # j
    <3>1. t[i + 1] = s[i + 1] /\ more[i + 1] = more[i]
      BY <2>5
    <3>2. more[i] \in Nat
      BY <2>3
    <3> HIDE DEF more
    <3>3. Len(h[i + 1]) = (Len(g[i]) + more[i]) + Len(s[i + 1])
      BY <1>4, <2>2, <3>1
    <3>4. (Len(g[i]) + more[i]) + Len(s[i + 1]) = (Len(g[i]) + Len(s[i + 1])) + more[i]
      <4>1. Len(g[i]) \in Nat
        BY <2>3
      <4>2. Len(s[i + 1]) \in Nat
        BY <2>3
      <4> QED
        BY <4>1, <4>2, <3>2, SumsSwapped, ZenonT(60)
    <3> QED
      BY <2>2, <3>1, <3>3, <3>4
  <2> QED
    BY <2>4, <2>5
<1>5. \A i \in 0 .. n - 1 : i \in U => i + 1 \in U
  <2> HIDE DEF more
  <2> QED
    BY <1>4 DEF U
<1>6. \A i \in 0 .. n : i \in U
  BY <1>3, <1>5, UpTo
<1>7. n \in U
  BY <1>6
<1>8. Len(h[n]) = Len(g[n]) + more[n]
  BY <1>7 DEF U
<1> QED
  BY <1>1, <1>2, <1>8 DEF IsTrace

\* The order in which three texts are joined does not matter.
LEMMA JoinJoin ==
  ASSUME NEW T, NEW a \in Seq(T), NEW b \in Seq(T), NEW c \in Seq(T)
  PROVE  (a \o b) \o c = a \o (b \o c)
<1> DEFINE l == (a \o b) \o c
           r == a \o (b \o c)
<1>1. a \o b \in Seq(T) /\ b \o c \in Seq(T) /\ Len(a \o b) = Len(a) + Len(b)
      /\ Len(b \o c) = Len(b) + Len(c)
  OBVIOUS
<1>2. l \in Seq(T) /\ r \in Seq(T) /\ Len(l) = Len(a) + Len(b) + Len(c) /\ Len(r) = Len(l)
  BY <1>1
<1>3. ASSUME NEW i \in 1 .. Len(a) + Len(b) + Len(c) PROVE l[i] = r[i]
  <2>1. CASE i \in 1 .. Len(a)
    BY <1>1, <2>1
  <2>2. CASE i \in Len(a) + 1 .. Len(a) + Len(b)
    BY <1>1, <2>2
  <2>3. CASE i \in Len(a) + Len(b) + 1 .. Len(a) + Len(b) + Len(c)
    <3>1. l[i] = c[i - (Len(a) + Len(b))]
      BY <1>1, <2>3
    <3>2. r[i] = (b \o c)[i - Len(a)]
      BY <1>1, <2>3
    <3>3. (b \o c)[i - Len(a)] = c[(i - Len(a)) - Len(b)]
      BY <2>3
    <3> QED
      BY <3>1, <3>2, <3>3
  <2> QED
    BY <2>1, <2>2, <2>3
<1> HIDE DEF l, r
<1> QED
  BY <1>2, <1>3, SMTT(60) DEF l, r

\* t is the n pieces of a and then the m of b.
IsJoin(t, m, a, n, b) ==
  DOMAIN t = 1 .. m + n /\ (\A i \in 1 .. m : t[i] = a[i]) /\ \A i \in 1 .. n : t[m + i] = b[i]

\* Pieces may be put together in two parts.
LEMMA ConcatJoin ==
  ASSUME NEW T, NEW m \in Nat, NEW n \in Nat, NEW a \in Pieces(T, m),
         NEW b \in Pieces(T, n), NEW t, IsJoin(t, m, a, n, b)
  PROVE  Concat(t) = Concat(a) \o Concat(b)
<1>1. PICK g : /\ g[0] = <<>> /\ g[m + n] = Concat(t)
               /\ \A i \in 0 .. (m + n) - 1 : g[i + 1] = g[i] \o t[i + 1]
  <2>1. m + n \in Nat
    OBVIOUS
  <2> QED
    BY <2>1, PiecesInTurn DEF IsJoin
<1>2. PICK h : IsTrace(T, n, b, h)
  BY ConcatTrace
<1>3. Concat(a) = g[m]
  <2>0. DOMAIN a = 1 .. m
    BY DEF Pieces
  <2>1. \A i \in 0 .. m - 1 : g[i + 1] = g[i] \o a[i + 1]
    <3> TAKE i \in 0 .. m - 1
    <3>1. i \in 0 .. (m + n) - 1 /\ i + 1 \in 1 .. m
      OBVIOUS
    <3> QED
      BY <1>1, <3>1 DEF IsJoin
  <2> QED
    BY <1>1, <2>0, <2>1, ConcatIs
<1>4. g[m] \in Seq(T)
  BY <1>3, ConcatTyped
<1> DEFINE U == {i \in Nat : g[m + i] = g[m] \o h[i]}
<1>5. 0 \in U
  <2>1. g[m + 0] = g[m] /\ g[m] \o <<>> = g[m]
    BY <1>4
  <2> QED
    BY <1>2, <2>1 DEF IsTrace
<1>6. ASSUME NEW i \in 0 .. n - 1, g[m + i] = g[m] \o h[i]
      PROVE  g[m + (i + 1)] = g[m] \o h[i + 1]
  <2>1. m + i \in 0 .. (m + n) - 1 /\ i + 1 \in 1 .. n /\ (m + i) + 1 = m + (i + 1)
    OBVIOUS
  <2>2. g[m + (i + 1)] = g[m + i] \o t[m + (i + 1)]
    BY <1>1, <2>1
  <2>3. t[m + (i + 1)] = b[i + 1]
    BY <2>1 DEF IsJoin
  <2>4. h[i + 1] = h[i] \o b[i + 1]
    BY <1>2 DEF IsTrace
  <2>5. h[i] \in Seq(T) /\ b[i + 1] \in Seq(T)
    BY <1>2, <2>1 DEF Pieces, IsTrace
  <2>6. \A u, v, w \in Seq(T) : (u \o v) \o w = u \o (v \o w)
    BY JoinJoin, SMTT(60)
  <2>7. (g[m] \o h[i]) \o b[i + 1] = g[m] \o (h[i] \o b[i + 1])
    BY <1>4, <2>5, <2>6
  <2> QED
    BY <1>6, <2>2, <2>3, <2>4, <2>7
<1>7. \A i \in 0 .. n - 1 : i \in U => i + 1 \in U
  <2> TAKE i \in 0 .. n - 1
  <2>1. i \in Nat /\ i + 1 \in Nat
    OBVIOUS
  <2>2. g[m + i] = g[m] \o h[i] => g[m + (i + 1)] = g[m] \o h[i + 1]
    BY <1>6
  <2> QED
    BY <2>1, <2>2
<1> HIDE DEF U
<1>8. \A i \in 0 .. n : i \in U
  BY <1>5, <1>7, UpTo
<1>9. n \in U
  BY <1>8
<1>10. g[m + n] = g[m] \o h[n]
  BY <1>9 DEF U
<1> QED
  BY <1>1, <1>2, <1>3, <1>10 DEF IsTrace

(***************************************************************************)
(* The front ends: types, and what each of their operators does to the     *)
(* fields of the record.                                                   *)
(***************************************************************************)
Sorts == {"thinking", "text"}

Kinds == {"function", "custom", "unreadable"}

Word == Piece \cup {"none", "thought", "arg", "call"}

Words == Seq(Word)

What == {"start", "open", "delta", "close", "finish", "end", "error"}

EvSort == Sorts \cup {"tool", "finish", "answer"}

EvSet == [what : What, at : Int, sort : EvSort, data : Words]

ToolSet == [key : Nat, at : Nat, kind : Kinds, args : Words]

FrontSet ==
  [proto : Protocol, started : BOOLEAN, http : BOOLEAN, open : [Sorts -> Nat \cup {Shut}],
   next : Nat, tools : Seq(ToolSet), written : Seq(EvSet),
   buf : [Sorts -> Words], output : Seq([at : Int, sort : EvSort, data : Words])]

DeltaSet ==
  [kind : {"thinking", "text", "tool", "finish"}, key : Nat, tool : Kinds, data : Words]

\* g is f with the event e written, and these blocks open, numbers handed out
\* and tools seen.
Wrote(f, g, e, open, next, tools) ==
  /\ g \in FrontSet
  /\ g.written = Append(f.written, e) /\ g.started
  /\ g.open = open /\ g.next = next /\ g.tools = tools
  /\ g.proto = f.proto /\ g.http = f.http

\* An event is one, and has its four parts.
LEMMA EvIs ==
  ASSUME NEW what \in What, NEW at \in Int, NEW sort \in EvSort, NEW data \in Words
  PROVE  /\ Ev(what, at, sort, data) \in EvSet
         /\ Ev(what, at, sort, data).what = what /\ Ev(what, at, sort, data).at = at
         /\ Ev(what, at, sort, data).sort = sort /\ Ev(what, at, sort, data).data = data
BY DEF Ev, EvSet

\* An event may carry nothing.
LEMMA NoWords == <<>> \in Words
BY DEF Words

\* The two sorts of blocks are sorts, and the events have kinds.
LEMMA SortsAre ==
  /\ \A s \in Sorts : s \in EvSort
  /\ "open" \in What /\ "close" \in What /\ "delta" \in What
BY DEF Sorts, EvSort, What

\* Put writes the event and marks the stream as started.
LEMMA PutIs ==
  ASSUME NEW f \in FrontSet, NEW e \in EvSet
  PROVE  /\ Wrote(f, Put(f, e), e, f.open, f.next, f.tools)
         /\ Put(f, e).buf = f.buf /\ Put(f, e).output = f.output
<1> DEFINE w == Append(f.written, e)
           p == Put(f, e)
<1>1. w \in Seq(EvSet)
  BY DEF FrontSet
<1> HIDE DEF w
<1>2. p = [f EXCEPT !.started = TRUE, !.written = w]
  BY DEF Put, w
<1> HIDE DEF p
<1>3. /\ p.written = w /\ p.started /\ p.open = f.open /\ p.next = f.next /\ p.tools = f.tools
      /\ p.proto = f.proto /\ p.http = f.http /\ p.buf = f.buf /\ p.output = f.output
  BY <1>2 DEF FrontSet
<1>4. p \in FrontSet
  BY <1>1, <1>2 DEF FrontSet
<1> QED
  BY <1>3, <1>4 DEF Wrote, p, w

\* OpenItem gives the block the next number.
LEMMA OpenItemIs ==
  ASSUME NEW f \in FrontSet, NEW sort \in Sorts, f.open[sort] = Shut
  PROVE  Wrote(f, OpenItem(f, sort), Ev("open", f.next, sort, <<>>),
               [f.open EXCEPT ![sort] = f.next], f.next + 1, f.tools)
<1> DEFINE e == Ev("open", f.next, sort, <<>>)
           p == Put(f, e)
<1>1. e \in EvSet
  <2>1. f.next \in Int
    BY DEF FrontSet
  <2> QED
    BY <2>1, NoWords, SortsAre, EvIs
<1>2. Wrote(f, p, e, f.open, f.next, f.tools)
  BY <1>1, PutIs
<1>3. OpenItem(f, sort) = [p EXCEPT !.open[sort] = f.next, !.next = @ + 1]
  BY DEF OpenItem
<1> DEFINE g == OpenItem(f, sort)
           o == [f.open EXCEPT ![sort] = f.next]
<1>4. o \in [Sorts -> Nat \cup {Shut}] /\ f.next + 1 \in Nat
  BY DEF FrontSet
<1> HIDE DEF e, p, o
<1>5. p.open = f.open /\ p.next = f.next /\ p \in FrontSet
  BY <1>2 DEF Wrote
<1>6. g = [p EXCEPT !.open = o, !.next = f.next + 1]
  BY <1>3, <1>5 DEF o, FrontSet
<1> HIDE DEF g
<1>7. /\ g.written = p.written /\ g.started = p.started /\ g.open = o /\ g.next = f.next + 1
      /\ g.tools = p.tools /\ g.proto = p.proto /\ g.http = p.http
  BY <1>5, <1>6 DEF FrontSet
<1>8. g \in FrontSet
  BY <1>4, <1>5, <1>6 DEF FrontSet
<1> QED
  BY <1>2, <1>7, <1>8 DEF Wrote, g, e, o

\* CloseItem ends the block, and the Responses API keeps its text.
LEMMA CloseItemIs ==
  ASSUME NEW f \in FrontSet, NEW sort \in Sorts, f.open[sort] # Shut
  PROVE  Wrote(f, CloseItem(f, sort), Ev("close", f.open[sort], sort, <<>>),
               [f.open EXCEPT ![sort] = Shut], f.next, f.tools)
<1> DEFINE e == Ev("close", f.open[sort], sort, <<>>)
           p == Put(f, e)
           o == [at |-> f.open[sort], sort |-> sort, data |-> f.buf[sort]]
<1>1. e \in EvSet
  <2>1. f.open[sort] \in Int
    BY DEF FrontSet, Shut
  <2> QED
    BY <2>1, NoWords, SortsAre, EvIs
<1>2. Wrote(f, p, e, f.open, f.next, f.tools)
  BY <1>1, PutIs
<1>3. CloseItem(f, sort) = [p EXCEPT !.open[sort] = Shut, !.output = Append(@, o)]
  BY DEF CloseItem
<1> DEFINE g == CloseItem(f, sort)
           b == [f.open EXCEPT ![sort] = Shut]
           u == Append(f.output, o)
<1>4. b \in [Sorts -> Nat \cup {Shut}]
  BY DEF FrontSet
<1>5. u \in Seq([at : Int, sort : EvSort, data : Words])
  <2>1. f.open[sort] \in Int /\ f.buf[sort] \in Words
    BY DEF FrontSet, Shut
  <2>2. o \in [at : Int, sort : EvSort, data : Words]
    BY <2>1, SortsAre
  <2> HIDE DEF o
  <2> QED
    BY <2>2 DEF FrontSet
<1> HIDE DEF e, p, o, b, u
<1>6. p.open = f.open /\ p.output = f.output /\ p \in FrontSet
  BY <1>1, <1>2, PutIs DEF Wrote, p
<1>7. g = [p EXCEPT !.open = b, !.output = u]
  BY <1>3, <1>6 DEF b, u, FrontSet
<1> HIDE DEF g
<1>8. /\ g.written = p.written /\ g.started = p.started /\ g.open = b /\ g.next = p.next
      /\ g.tools = p.tools /\ g.proto = p.proto /\ g.http = p.http
  BY <1>6, <1>7 DEF FrontSet
<1>9. g \in FrontSet
  BY <1>4, <1>5, <1>6, <1>7 DEF FrontSet
<1> QED
  BY <1>2, <1>8, <1>9 DEF Wrote, g, e, b

\* Say writes a delta of the open block.
LEMMA SayIs ==
  ASSUME NEW f \in FrontSet, NEW sort \in Sorts, NEW data \in Words
  PROVE  Wrote(f, Say(f, sort, data), Ev("delta", f.open[sort], sort, data), f.open, f.next, f.tools)
<1> DEFINE e == Ev("delta", f.open[sort], sort, data)
           p == Put(f, e)
<1>1. e \in EvSet
  <2>1. f.open[sort] \in Int
    BY DEF FrontSet, Shut
  <2> QED
    BY <2>1, SortsAre, EvIs
<1>2. Wrote(f, p, e, f.open, f.next, f.tools) /\ p.buf = f.buf
  BY <1>1, PutIs
<1>3. Say(f, sort, data) = [p EXCEPT !.buf[sort] = @ \o data]
  BY DEF Say
<1> DEFINE g == Say(f, sort, data)
           b == [f.buf EXCEPT ![sort] = @ \o data]
<1>4. b \in [Sorts -> Words]
  <2>1. f.buf[sort] \o data \in Words
    BY DEF FrontSet, Words
  <2> QED
    BY <2>1 DEF FrontSet
<1> HIDE DEF e, p, b
<1>5. p \in FrontSet
  BY <1>2 DEF Wrote
<1>6. g = [p EXCEPT !.buf = b]
  BY <1>2, <1>3, <1>5 DEF b, FrontSet
<1> HIDE DEF g
<1>7. /\ g.written = p.written /\ g.started = p.started /\ g.open = p.open /\ g.next = p.next
      /\ g.tools = p.tools /\ g.proto = p.proto /\ g.http = p.http
  BY <1>5, <1>6 DEF FrontSet
<1>8. g \in FrontSet
  BY <1>4, <1>5, <1>6 DEF FrontSet
<1> QED
  BY <1>2, <1>7, <1>8 DEF Wrote, g, e

(***************************************************************************)
(* The stages of an item in what is written.                               *)
(***************************************************************************)

\* No event of item i is written.
Untouched(w, i) == \A k \in DOMAIN w : w[k].at # i

\* Item i was opened, and since then only deltas of it are written.
Opened(w, i) ==
  \E o \in DOMAIN w :
    /\ w[o].what = "open" /\ w[o].at = i
    /\ \A k \in DOMAIN w : w[k].at = i => k = o \/ (o < k /\ w[k].what = "delta")

\* Item i was opened and closed, and all its other events are deltas in between.
Closed(w, i) ==
  \E o, c \in DOMAIN w :
    /\ o < c /\ w[o].what = "open" /\ w[o].at = i /\ w[c].what = "close" /\ w[c].at = i
    /\ \A k \in DOMAIN w :
         w[k].at = i => k = o \/ k = c \/ (o < k /\ k < c /\ w[k].what = "delta")

\* The events before an appended one, and the appended one.
LEMMA AppendedIs ==
  ASSUME NEW w \in Seq(EvSet), NEW e \in EvSet
  PROVE  /\ Append(w, e) \in Seq(EvSet) /\ Len(w) \in Nat
         /\ DOMAIN w = 1 .. Len(w) /\ DOMAIN Append(w, e) = 1 .. Len(w) + 1
         /\ Append(w, e)[Len(w) + 1] = e
         /\ \A k \in 1 .. Len(w) : Append(w, e)[k] = w[k] /\ w[k] \in EvSet
OBVIOUS

\* An event of another item leaves the item where it is.
LEMMA StageKept ==
  ASSUME NEW w \in Seq(EvSet), NEW e \in EvSet, NEW i, e.at # i
  PROVE  /\ Untouched(w, i) => Untouched(Append(w, e), i)
         /\ Opened(w, i) => Opened(Append(w, e), i)
         /\ Closed(w, i) => Closed(Append(w, e), i)
<1> DEFINE v == Append(w, e)
           n == Len(w)
<1>1. /\ n \in Nat /\ DOMAIN w = 1 .. n /\ DOMAIN v = 1 .. n + 1
      /\ v[n + 1] = e /\ \A k \in 1 .. n : v[k] = w[k]
  BY AppendedIs
<1> HIDE DEF v, n
<1>2. \A k \in DOMAIN v : v[k].at = i => k \in DOMAIN w /\ v[k] = w[k]
  BY <1>1
<1>3. \A k \in DOMAIN w : k \in DOMAIN v /\ v[k] = w[k]
  BY <1>1
<1>4. Untouched(w, i) => Untouched(v, i)
  BY <1>2 DEF Untouched
<1>5. Opened(w, i) => Opened(v, i)
  BY <1>2, <1>3 DEF Opened
<1>6. Closed(w, i) => Closed(v, i)
  BY <1>2, <1>3 DEF Closed
<1> QED
  BY <1>4, <1>5, <1>6 DEF v

\* Opening an untouched item, saying something of an open one and closing it.
LEMMA StageMoves ==
  ASSUME NEW w \in Seq(EvSet), NEW e \in EvSet
  PROVE  /\ Untouched(w, e.at) /\ e.what = "open" => Opened(Append(w, e), e.at)
         /\ Opened(w, e.at) /\ e.what = "delta" => Opened(Append(w, e), e.at)
         /\ Opened(w, e.at) /\ e.what = "close" => Closed(Append(w, e), e.at)
<1> DEFINE v == Append(w, e)
           n == Len(w)
<1>1. /\ n \in Nat /\ DOMAIN w = 1 .. n /\ DOMAIN v = 1 .. n + 1
      /\ v[n + 1] = e /\ \A k \in 1 .. n : v[k] = w[k]
  BY AppendedIs
<1> HIDE DEF v, n
<1>2. \A k \in DOMAIN v : k = n + 1 \/ (k \in DOMAIN w /\ v[k] = w[k])
  BY <1>1
<1>3. n + 1 \in DOMAIN v /\ v[n + 1] = e
  BY <1>1
<1>4. \A k \in DOMAIN w : k < n + 1 /\ k \in DOMAIN v /\ v[k] = w[k]
  BY <1>1
<1>5. Untouched(w, e.at) /\ e.what = "open" => Opened(v, e.at)
  BY <1>2, <1>3 DEF Untouched, Opened
<1>6. ASSUME Opened(w, e.at), e.what = "delta" PROVE Opened(v, e.at)
  <2>1. PICK o \in DOMAIN w :
          /\ w[o].what = "open" /\ w[o].at = e.at
          /\ \A k \in DOMAIN w : w[k].at = e.at => k = o \/ (o < k /\ w[k].what = "delta")
    BY <1>6 DEF Opened
  <2>2. o < n + 1 /\ o \in DOMAIN v /\ v[o] = w[o]
    BY <1>4
  <2>3. \A k \in DOMAIN v : v[k].at = e.at => k = o \/ (o < k /\ v[k].what = "delta")
    BY <1>2, <1>3, <1>6, <2>1, <2>2
  <2> QED
    BY <2>1, <2>2, <2>3 DEF Opened
<1>7. ASSUME Opened(w, e.at), e.what = "close" PROVE Closed(v, e.at)
  <2>1. PICK o \in DOMAIN w :
          /\ w[o].what = "open" /\ w[o].at = e.at
          /\ \A k \in DOMAIN w : w[k].at = e.at => k = o \/ (o < k /\ w[k].what = "delta")
    BY <1>7 DEF Opened
  <2>2. o < n + 1 /\ o \in DOMAIN v /\ v[o] = w[o]
    BY <1>4
  <2>3. \A k \in DOMAIN v : v[k].at = e.at =>
          k = o \/ k = n + 1 \/ (o < k /\ k < n + 1 /\ v[k].what = "delta")
    BY <1>2, <1>4, <2>1
  <2> QED
    BY <1>3, <1>7, <2>1, <2>2, <2>3 DEF Closed
<1> QED
  BY <1>5, <1>6, <1>7 DEF v

(***************************************************************************)
(* The invariant of a front end that has items.                            *)
(***************************************************************************)

\* The number of an item in no block, tool or event yet is next or above.
Places(f) ==
  /\ \A s \in Sorts : f.open[s] # Shut => f.open[s] < f.next /\ Opened(f.written, f.open[s])
  /\ f.open["thinking"] = f.open["text"] => f.open["text"] = Shut
  /\ \A j \in DOMAIN f.tools :
       /\ f.tools[j].at < f.next
       /\ \A s \in Sorts : f.open[s] # f.tools[j].at
       /\ \A k \in DOMAIN f.tools : k # j => f.tools[k].at # f.tools[j].at

\* Where each item is: nothing of those to come is written, a call written at the
\* end is untouched, another call and a block are open, and the rest is closed.
Stages(f) ==
  /\ \A i \in Nat : i >= f.next => Untouched(f.written, i)
  /\ \A j \in DOMAIN f.tools :
       IF Deferred(f, f.tools[j].kind) THEN Untouched(f.written, f.tools[j].at)
       ELSE Opened(f.written, f.tools[j].at)
  /\ \A i \in 0 .. f.next - 1 :
       \/ \E s \in Sorts : f.open[s] = i
       \/ \E j \in DOMAIN f.tools : f.tools[j].at = i
       \/ Closed(f.written, i)

\* The stream has begun if anything is written, and it has not ended.
Begun(f) ==
  /\ ~f.http
  /\ f.started <=> f.written # <<>>
  /\ f.next # 0 => f.started
  /\ \A k \in DOMAIN f.written : f.written[k].what = "start" <=> k = 1
  /\ \A k \in DOMAIN f.written : f.written[k].what \notin {"end", "error", "finish"}

\* An event is a call's exactly if its item is; the item of an open event has a
\* number.
Sorted(f) ==
  /\ \A k \in DOMAIN f.written :
       f.written[k].sort = "tool" <=> \E j \in DOMAIN f.tools : f.tools[j].at = f.written[k].at
  /\ \A k \in DOMAIN f.written : f.written[k].what = "open" => f.written[k].at \in 0 .. f.next - 1

FrontInv(f) ==
  /\ f \in FrontSet /\ f.proto # "openai"
  /\ Places(f) /\ Stages(f) /\ Begun(f) /\ Sorted(f)
  /\ f.proto = "anthropic" => BlocksInTurn(f)

\* The n events written in f, and e after them, are those of g.
Grew(f, g, e, n) ==
  /\ n \in Nat /\ n = Len(f.written) /\ DOMAIN f.written = 1 .. n /\ DOMAIN g.written = 1 .. n + 1
  /\ g.written[n + 1] = e
  /\ \A k \in 1 .. n : g.written[k] = f.written[k] /\ f.written[k] \in EvSet

\* What is written: an event more, at the end.
LEMMA WroteIs ==
  ASSUME NEW f \in FrontSet, NEW g, NEW e \in EvSet, NEW open, NEW next, NEW tools,
         Wrote(f, g, e, open, next, tools)
  PROVE  Grew(f, g, e, Len(f.written))
<1>1. f.written \in Seq(EvSet) /\ g.written = Append(f.written, e)
  BY DEF Wrote, FrontSet
<1> DEFINE w == f.written
<1> HIDE DEF w
<1>2. w \in Seq(EvSet) /\ g.written = Append(w, e)
  BY <1>1 DEF w
<1> QED
  BY <1>2, AppendedIs DEF w, Grew

\* A stream that has begun goes on.
LEMMA BegunKept ==
  ASSUME NEW f \in FrontSet, NEW g, NEW e \in EvSet, NEW open, NEW next, NEW tools,
         Wrote(f, g, e, open, next, tools), Begun(f), f.started,
         e.what \notin {"start", "end", "error", "finish"}
  PROVE  Begun(g)
<1> DEFINE n == Len(f.written)
<1>0. Grew(f, g, e, n)
  BY WroteIs
<1> HIDE DEF n
<1>1. /\ n \in Nat /\ DOMAIN f.written = 1 .. n /\ DOMAIN g.written = 1 .. n + 1
      /\ g.written[n + 1] = e /\ n = Len(f.written)
      /\ \A k \in 1 .. n : g.written[k] = f.written[k]
  BY <1>0 DEF Grew
<1>2. n # 0
  <2>1. f.written # <<>> /\ f.written \in Seq(EvSet)
    BY DEF Begun, FrontSet
  <2> QED
    BY <1>1, <2>1
<1>3. g.written # <<>>
  <2>1. n + 1 \in DOMAIN g.written
    BY <1>1
  <2> QED
    BY <2>1
<1>4. g.started /\ ~g.http
  BY DEF Wrote, Begun
<1>5. \A k \in DOMAIN g.written :
        /\ g.written[k].what = "start" <=> k = 1
        /\ g.written[k].what \notin {"end", "error", "finish"}
  <2> TAKE k \in DOMAIN g.written
  <2>1. CASE k \in 1 .. n
    BY <1>1, <2>1 DEF Begun
  <2>2. CASE k = n + 1
    BY <1>1, <1>2, <2>2
  <2> QED
    BY <1>1, <2>1, <2>2
<1> QED
  BY <1>3, <1>4, <1>5 DEF Begun

\* The blocks stay in turn if a new item only comes when every earlier block is
\* closed.
LEMMA TurnsKept ==
  ASSUME NEW f \in FrontSet, NEW g, NEW e \in EvSet, NEW open, NEW next, NEW tools,
         Wrote(f, g, e, open, next, tools), BlocksInTurn(f),
         \/ e.what # "open"
         \/ \A j \in DOMAIN f.written :
              f.written[j].what = "open" /\ f.written[j].sort # "tool"
                => Closed(f.written, f.written[j].at)
  PROVE  BlocksInTurn(g)
<1> DEFINE n == Len(f.written)
<1>0. Grew(f, g, e, n)
  BY WroteIs
<1> HIDE DEF n
<1>1. /\ n \in Nat /\ DOMAIN f.written = 1 .. n /\ DOMAIN g.written = 1 .. n + 1
      /\ g.written[n + 1] = e /\ n = Len(f.written)
      /\ \A k \in 1 .. n : g.written[k] = f.written[k]
  BY <1>0 DEF Grew
<1> SUFFICES ASSUME NEW j \in DOMAIN g.written, NEW k \in DOMAIN g.written,
                    j < k, g.written[j].what = "open", g.written[k].what = "open",
                    g.written[j].sort # "tool"
             PROVE  \E c \in DOMAIN g.written :
                      /\ g.written[c].what = "close" /\ g.written[c].at = g.written[j].at
                      /\ c < k
  BY DEF BlocksInTurn, Position
<1>2. j \in 1 .. n /\ j \in DOMAIN f.written /\ g.written[j] = f.written[j]
  BY <1>1
<1>3. CASE k \in 1 .. n
  <2>1. k \in DOMAIN f.written /\ g.written[k] = f.written[k]
    BY <1>1, <1>3
  <2>2. PICK c \in Position(f, "close", f.written[j].at) : c < k
    BY <1>2, <2>1 DEF BlocksInTurn
  <2>3. c \in 1 .. n /\ f.written[c].what = "close" /\ f.written[c].at = f.written[j].at
    BY <1>1, <2>2 DEF Position
  <2>4. c \in DOMAIN g.written /\ g.written[c] = f.written[c]
    BY <1>1, <2>3
  <2> QED
    BY <1>2, <2>2, <2>3, <2>4
<1>4. CASE k = n + 1
  <2>1. Closed(f.written, f.written[j].at)
    BY <1>1, <1>2, <1>4
  <2>2. PICK c \in DOMAIN f.written : f.written[c].what = "close" /\ f.written[c].at = f.written[j].at
    BY <2>1 DEF Closed
  <2>3. c \in DOMAIN g.written /\ g.written[c] = f.written[c] /\ c < k
    BY <1>1, <1>4, <2>2
  <2> QED
    BY <1>2, <2>2, <2>3
<1> QED
  BY <1>1, <1>3, <1>4

\* What an event does to the stages: its own item may move, the others stay.
StageStep(f, g, e) ==
  /\ \A i : i # e.at =>
       /\ Untouched(f.written, i) => Untouched(g.written, i)
       /\ Opened(f.written, i) => Opened(g.written, i)
       /\ Closed(f.written, i) => Closed(g.written, i)
  /\ Untouched(f.written, e.at) /\ e.what = "open" => Opened(g.written, e.at)
  /\ Opened(f.written, e.at) /\ e.what = "delta" => Opened(g.written, e.at)
  /\ Opened(f.written, e.at) /\ e.what = "close" => Closed(g.written, e.at)

\* Each event that is written does so.
LEMMA StagesAfter ==
  ASSUME NEW f \in FrontSet, NEW g, NEW e \in EvSet, NEW open, NEW next, NEW tools,
         Wrote(f, g, e, open, next, tools)
  PROVE  StageStep(f, g, e)
<1> DEFINE w == f.written
<1>1. w \in Seq(EvSet) /\ g.written = Append(w, e)
  BY DEF Wrote, FrontSet
<1> HIDE DEF w
<1>2. ASSUME NEW i, i # e.at
      PROVE  /\ Untouched(w, i) => Untouched(g.written, i)
             /\ Opened(w, i) => Opened(g.written, i)
             /\ Closed(w, i) => Closed(g.written, i)
  BY <1>1, <1>2, StageKept
<1>3. /\ Untouched(w, e.at) /\ e.what = "open" => Opened(g.written, e.at)
      /\ Opened(w, e.at) /\ e.what = "delta" => Opened(g.written, e.at)
      /\ Opened(w, e.at) /\ e.what = "close" => Closed(g.written, e.at)
  BY <1>1, StageMoves
<1> QED
  BY <1>2, <1>3 DEF w, StageStep

\* The types of the fields the invariant speaks of.
LEMMA FrontFields ==
  ASSUME NEW f \in FrontSet
  PROVE  /\ f.next \in Nat /\ f.proto \in Protocol /\ f.started \in BOOLEAN /\ f.http \in BOOLEAN
         /\ f.open \in [Sorts -> Nat \cup {Shut}] /\ f.tools \in Seq(ToolSet)
         /\ \A j \in DOMAIN f.tools :
              f.tools[j].at \in Nat /\ f.tools[j].kind \in Kinds /\ f.tools[j].args \in Words
         /\ f.written \in Seq(EvSet)
         /\ \A k \in DOMAIN f.written : f.written[k] \in EvSet
<1>1. f.tools \in Seq(ToolSet) /\ f.written \in Seq(EvSet)
  BY DEF FrontSet
<1>2. \A j \in DOMAIN f.tools : f.tools[j] \in ToolSet
  BY <1>1
<1>3. \A k \in DOMAIN f.written : f.written[k] \in EvSet
  BY <1>1
<1> QED
  BY <1>1, <1>2, <1>3 DEF FrontSet, ToolSet

\* Which calls are deferred depends on the protocol alone.
LEMMA DeferredSame ==
  ASSUME NEW f, NEW g, g.proto = f.proto
  PROVE  \A k : Deferred(g, k) <=> Deferred(f, k)
BY DEF Deferred

\* A block that is not open can be opened, in Messages if none is open.
LEMMA OpenItemKeeps ==
  ASSUME NEW f, FrontInv(f), f.started, NEW sort \in Sorts, f.open[sort] = Shut,
         f.proto = "anthropic" => \A s \in Sorts : f.open[s] = Shut
  PROVE  FrontInv(OpenItem(f, sort))
<1> DEFINE g == OpenItem(f, sort)
           e == Ev("open", f.next, sort, <<>>)
           open == [f.open EXCEPT ![sort] = f.next]
<1>1. /\ f \in FrontSet /\ f.proto # "openai" /\ Places(f) /\ Stages(f) /\ Begun(f) /\ Sorted(f)
      /\ f.proto = "anthropic" => BlocksInTurn(f)
  BY DEF FrontInv
<1>2. /\ f.next \in Nat /\ f.open \in [Sorts -> Nat \cup {Shut}]
      /\ \A j \in DOMAIN f.tools : f.tools[j].at \in Nat
  BY <1>1, FrontFields
<1>3. /\ e \in EvSet /\ e.what = "open" /\ e.at = f.next /\ e.sort = sort
  BY <1>2, EvIs, NoWords, SortsAre
<1>4. Wrote(f, g, e, open, f.next + 1, f.tools)
  BY <1>1, OpenItemIs
<1> HIDE DEF g, e
<1>5. /\ g.open = open /\ g.next = f.next + 1 /\ g.tools = f.tools /\ g.proto = f.proto
      /\ g \in FrontSet
  BY <1>4 DEF Wrote
<1>6. /\ \A i : i # f.next =>
           /\ Untouched(f.written, i) => Untouched(g.written, i)
           /\ Opened(f.written, i) => Opened(g.written, i)
           /\ Closed(f.written, i) => Closed(g.written, i)
      /\ Opened(g.written, f.next)
  <2>1. Untouched(f.written, f.next)
    BY <1>1, <1>2 DEF Stages
  <2> HIDE DEF open
  <2>2. StageStep(f, g, e)
    BY <1>1, <1>3, <1>4, StagesAfter
  <2> QED
    BY <1>3, <2>1, <2>2 DEF StageStep
<1>7. Places(g)
  <2>1. ASSUME NEW s \in Sorts, open[s] # Shut
        PROVE  open[s] < f.next + 1 /\ Opened(g.written, open[s])
    <3>1. CASE s = sort
      BY <1>2, <1>6, <3>1
    <3>2. CASE s # sort
      <4>1. open[s] = f.open[s] /\ open[s] \in Nat
        BY <1>2, <2>1, <3>2
      <4>2. open[s] < f.next /\ Opened(f.written, open[s])
        BY <1>1, <2>1, <4>1 DEF Places
      <4> HIDE DEF open
      <4> QED
        BY <1>2, <1>6, <4>1, <4>2
    <3> QED
      BY <3>1, <3>2
  <2>2. open["thinking"] # open["text"]
    <3>1. \A s \in Sorts : f.open[s] # f.next
      BY <1>1, <1>2 DEF Places, Shut
    <3> QED
      BY <1>2, <3>1 DEF Sorts
  <2>3. ASSUME NEW j \in DOMAIN f.tools
        PROVE  f.tools[j].at < f.next + 1 /\ \A s \in Sorts : open[s] # f.tools[j].at
    BY <1>1, <1>2 DEF Places
  <2> QED
    BY <1>1, <1>5, <2>1, <2>2, <2>3 DEF Places
<1>8. Stages(g)
  <2>1. \A i \in Nat : i >= f.next + 1 => Untouched(g.written, i)
    BY <1>1, <1>2, <1>6 DEF Stages
  <2>2. ASSUME NEW j \in DOMAIN f.tools
        PROVE  IF Deferred(g, f.tools[j].kind) THEN Untouched(g.written, f.tools[j].at)
               ELSE Opened(g.written, f.tools[j].at)
    <3>1. f.tools[j].at # f.next
      BY <1>1, <1>2 DEF Places
    <3> QED
      BY <1>1, <1>5, <1>6, <3>1, DeferredSame DEF Stages
  <2>3. ASSUME NEW i \in 0 .. f.next
        PROVE  \/ \E s \in Sorts : open[s] = i
               \/ \E j \in DOMAIN f.tools : f.tools[j].at = i
               \/ Closed(g.written, i)
    <3>1. CASE i = f.next
      BY <1>2, <3>1
    <3>2. CASE i \in 0 .. f.next - 1
      <4>1. CASE \E s \in Sorts : f.open[s] = i
        BY <1>2, <3>2, <4>1 DEF Shut
      <4>2. CASE \E j \in DOMAIN f.tools : f.tools[j].at = i
        BY <4>2
      <4>3. CASE Closed(f.written, i)
        BY <1>2, <1>6, <3>2, <4>3
      <4> QED
        BY <1>1, <3>2, <4>1, <4>2, <4>3 DEF Stages
    <3> QED
      BY <1>2, <3>1, <3>2
  <2>4. (f.next + 1) - 1 = f.next
    BY <1>2
  <2> HIDE DEF open
  <2> QED
    BY <1>5, <2>1, <2>2, <2>3, <2>4 DEF Stages
<1> DEFINE n == Len(f.written)
<1> HIDE DEF open
<1>9. Grew(f, g, e, n)
  BY <1>1, <1>3, <1>4, WroteIs
<1> HIDE DEF n
<1>10. Begun(g)
  BY <1>1, <1>3, <1>4, BegunKept
<1>11. Sorted(g)
  <2>1. ASSUME NEW k \in DOMAIN g.written
        PROVE  /\ g.written[k].sort = "tool" <=>
                    \E j \in DOMAIN f.tools : f.tools[j].at = g.written[k].at
               /\ g.written[k].what = "open" => g.written[k].at \in 0 .. f.next
    <3>1. CASE k \in 1 .. n
      <4>1. k \in DOMAIN f.written /\ g.written[k] = f.written[k]
        BY <1>9, <3>1 DEF Grew
      <4> QED
        BY <1>1, <1>2, <4>1 DEF Sorted
    <3>2. CASE k = n + 1
      <4>1. g.written[k] = e
        BY <1>9, <3>2 DEF Grew
      <4>2. \A j \in DOMAIN f.tools : f.tools[j].at # f.next
        BY <1>1, <1>2 DEF Places
      <4> QED
        BY <1>2, <1>3, <4>1, <4>2 DEF Sorts
    <3> QED
      BY <1>9, <3>1, <3>2 DEF Grew
  <2>2. (f.next + 1) - 1 = f.next
    BY <1>2
  <2> QED
    BY <1>5, <2>1, <2>2 DEF Sorted
<1>12. ASSUME g.proto = "anthropic" PROVE BlocksInTurn(g)
  <2>1. BlocksInTurn(f) /\ \A s \in Sorts : f.open[s] = Shut
    BY <1>1, <1>5, <1>12
  <2>2. ASSUME NEW j \in DOMAIN f.written,
               f.written[j].what = "open", f.written[j].sort # "tool"
        PROVE  Closed(f.written, f.written[j].at)
    <3>1. f.written[j].at \in 0 .. f.next - 1
      BY <1>1, <2>2 DEF Sorted
    <3>2. ~\E t \in DOMAIN f.tools : f.tools[t].at = f.written[j].at
      BY <1>1, <2>2 DEF Sorted
    <3>3. ~\E s \in Sorts : f.open[s] = f.written[j].at
      BY <2>1, <3>1 DEF Shut
    <3> QED
      BY <1>1, <3>1, <3>2, <3>3 DEF Stages
  <2> QED
    BY <1>1, <1>3, <1>4, <2>1, <2>2, TurnsKept
<1> QED
  BY <1>1, <1>5, <1>7, <1>8, <1>10, <1>11, <1>12 DEF FrontInv, g

\* A block that is open can be closed; one that is not stays as it is.
LEMMA CloseItemKeeps ==
  ASSUME NEW f, FrontInv(f), NEW sort \in Sorts
  PROVE  FrontInv(CloseItem(f, sort))
<1>0. CASE f.open[sort] = Shut
  BY <1>0 DEF CloseItem
<1> SUFFICES ASSUME f.open[sort] # Shut PROVE FrontInv(CloseItem(f, sort))
  BY <1>0
<1> DEFINE g == CloseItem(f, sort)
           at == f.open[sort]
           e == Ev("close", at, sort, <<>>)
           open == [f.open EXCEPT ![sort] = Shut]
<1>1. /\ f \in FrontSet /\ f.proto # "openai" /\ Places(f) /\ Stages(f) /\ Begun(f) /\ Sorted(f)
      /\ f.proto = "anthropic" => BlocksInTurn(f)
  BY DEF FrontInv
<1>2. /\ f.next \in Nat /\ f.open \in [Sorts -> Nat \cup {Shut}]
      /\ \A j \in DOMAIN f.tools : f.tools[j].at \in Nat
  BY <1>1, FrontFields
<1>3. at \in 0 .. f.next - 1 /\ Opened(f.written, at)
  BY <1>1, <1>2 DEF Places
<1>4. /\ e \in EvSet /\ e.what = "close" /\ e.at = at /\ e.sort = sort
  BY <1>3, EvIs, NoWords, SortsAre
<1>5. Wrote(f, g, e, open, f.next, f.tools)
  BY <1>1, CloseItemIs
<1> HIDE DEF g, e
<1>6. /\ g.open = open /\ g.next = f.next /\ g.tools = f.tools /\ g.proto = f.proto
      /\ g \in FrontSet
  BY <1>5 DEF Wrote
<1>7. /\ \A i : i # at =>
           /\ Untouched(f.written, i) => Untouched(g.written, i)
           /\ Opened(f.written, i) => Opened(g.written, i)
           /\ Closed(f.written, i) => Closed(g.written, i)
      /\ Closed(g.written, at)
  <2> HIDE DEF open
  <2>1. StageStep(f, g, e)
    BY <1>1, <1>4, <1>5, StagesAfter
  <2> QED
    BY <1>3, <1>4, <2>1 DEF StageStep
<1>8. \A s \in Sorts : s # sort => open[s] = f.open[s]
  BY <1>2
<1>9. open[sort] = Shut
  BY <1>2
<1>10. \A s \in Sorts : s # sort /\ f.open[s] # Shut => f.open[s] # at
  BY <1>1, <1>3 DEF Places, Sorts, Shut
<1> HIDE DEF open
<1>11. Places(g)
  <2>1. ASSUME NEW s \in Sorts, open[s] # Shut
        PROVE  open[s] < f.next /\ Opened(g.written, open[s])
    <3>1. s # sort /\ open[s] = f.open[s] /\ f.open[s] # Shut
      BY <1>8, <1>9, <2>1
    <3> QED
      BY <1>1, <1>7, <1>10, <3>1 DEF Places
  <2>2. open["thinking"] = open["text"] => open["text"] = Shut
    BY <1>8, <1>9 DEF Sorts
  <2>3. \A j \in DOMAIN f.tools : \A s \in Sorts : open[s] # f.tools[j].at
    BY <1>1, <1>2, <1>8, <1>9 DEF Places, Shut
  <2> QED
    BY <1>1, <1>6, <2>1, <2>2, <2>3 DEF Places
<1>12. Stages(g)
  <2>1. \A i \in Nat : i >= f.next => Untouched(g.written, i)
    BY <1>1, <1>2, <1>3, <1>7 DEF Stages
  <2>2. ASSUME NEW j \in DOMAIN f.tools
        PROVE  IF Deferred(g, f.tools[j].kind) THEN Untouched(g.written, f.tools[j].at)
               ELSE Opened(g.written, f.tools[j].at)
    <3>1. f.tools[j].at # at
      BY <1>1 DEF Places
    <3> QED
      BY <1>1, <1>6, <1>7, <3>1, DeferredSame DEF Stages
  <2>3. ASSUME NEW i \in 0 .. f.next - 1
        PROVE  \/ \E s \in Sorts : open[s] = i
               \/ \E j \in DOMAIN f.tools : f.tools[j].at = i
               \/ Closed(g.written, i)
    <3>1. CASE i = at
      BY <1>7, <3>1
    <3>2. CASE i # at
      <4>1. CASE \E s \in Sorts : f.open[s] = i
        BY <1>8, <3>2, <4>1
      <4>2. CASE \E j \in DOMAIN f.tools : f.tools[j].at = i
        BY <4>2
      <4>3. CASE Closed(f.written, i)
        BY <1>7, <3>2, <4>3
      <4> QED
        BY <1>1, <4>1, <4>2, <4>3 DEF Stages
    <3> QED
      BY <3>1, <3>2
  <2> QED
    BY <1>6, <2>1, <2>2, <2>3 DEF Stages
<1> DEFINE n == Len(f.written)
<1>13. Grew(f, g, e, n)
  BY <1>1, <1>4, <1>5, WroteIs
<1> HIDE DEF n
<1>14. Begun(g)
  <2>1. f.started
    BY <1>1, <1>2, <1>3 DEF Begun
  <2> QED
    BY <1>1, <1>4, <1>5, <2>1, BegunKept
<1>15. Sorted(g)
  <2>1. ASSUME NEW k \in DOMAIN g.written
        PROVE  /\ g.written[k].sort = "tool" <=>
                    \E j \in DOMAIN f.tools : f.tools[j].at = g.written[k].at
               /\ g.written[k].what = "open" => g.written[k].at \in 0 .. f.next - 1
    <3>1. CASE k \in 1 .. n
      <4>1. k \in DOMAIN f.written /\ g.written[k] = f.written[k]
        BY <1>13, <3>1 DEF Grew
      <4> QED
        BY <1>1, <4>1 DEF Sorted
    <3>2. CASE k = n + 1
      <4>1. g.written[k] = e
        BY <1>13, <3>2 DEF Grew
      <4>2. \A j \in DOMAIN f.tools : f.tools[j].at # at
        BY <1>1 DEF Places
      <4> QED
        BY <1>4, <4>1, <4>2 DEF Sorts
    <3> QED
      BY <1>13, <3>1, <3>2 DEF Grew
  <2> QED
    BY <1>6, <2>1 DEF Sorted
<1>16. ASSUME g.proto = "anthropic" PROVE BlocksInTurn(g)
  <2>1. BlocksInTurn(f) /\ e.what # "open"
    BY <1>1, <1>4, <1>6, <1>16
  <2> QED
    BY <1>1, <1>4, <1>5, <2>1, TurnsKept
<1> QED
  BY <1>1, <1>6, <1>11, <1>12, <1>14, <1>15, <1>16 DEF FrontInv, g

\* Something may be said of an item that is open: a block, or a call that is not
\* deferred.
LEMMA DeltaKeeps ==
  ASSUME NEW f, FrontInv(f), NEW g, NEW e \in EvSet,
         Wrote(f, g, e, f.open, f.next, f.tools),
         e.what = "delta", e.at \in 0 .. f.next - 1, Opened(f.written, e.at),
         e.sort = "tool" <=> \E j \in DOMAIN f.tools : f.tools[j].at = e.at
  PROVE  FrontInv(g)
<1>1. /\ f \in FrontSet /\ f.proto # "openai" /\ Places(f) /\ Stages(f) /\ Begun(f) /\ Sorted(f)
      /\ f.proto = "anthropic" => BlocksInTurn(f)
  BY DEF FrontInv
<1>2. f.next \in Nat /\ \A j \in DOMAIN f.tools : f.tools[j].at \in Nat
  BY <1>1, FrontFields
<1>3. /\ g.open = f.open /\ g.next = f.next /\ g.tools = f.tools /\ g.proto = f.proto
      /\ g \in FrontSet
  BY DEF Wrote
<1>4. StageStep(f, g, e)
  BY <1>1, StagesAfter
<1>5. \A i :
        /\ i # e.at /\ Untouched(f.written, i) => Untouched(g.written, i)
        /\ Opened(f.written, i) => Opened(g.written, i)
        /\ i # e.at /\ Closed(f.written, i) => Closed(g.written, i)
  BY <1>4 DEF StageStep
<1>6. \A i : Opened(f.written, i) => ~Untouched(f.written, i) /\ ~Closed(f.written, i)
  BY DEF Opened, Untouched, Closed
<1>7. Places(g)
  BY <1>1, <1>3, <1>5 DEF Places
<1>8. Stages(g)
  <2>1. \A i : /\ Untouched(f.written, i) => Untouched(g.written, i)
               /\ Closed(f.written, i) => Closed(g.written, i)
    BY <1>5, <1>6
  <2> QED
    BY <1>1, <1>3, <1>5, <2>1, DeferredSame DEF Stages
<1> DEFINE n == Len(f.written)
<1>9. Grew(f, g, e, n)
  BY <1>1, WroteIs
<1> HIDE DEF n
<1>10. Begun(g)
  <2>1. f.started
    BY <1>1, <1>2 DEF Begun
  <2> QED
    BY <1>1, <2>1, BegunKept
<1>11. Sorted(g)
  <2>1. ASSUME NEW k \in DOMAIN g.written
        PROVE  /\ g.written[k].sort = "tool" <=>
                    \E j \in DOMAIN f.tools : f.tools[j].at = g.written[k].at
               /\ g.written[k].what = "open" => g.written[k].at \in 0 .. f.next - 1
    <3>1. CASE k \in 1 .. n
      <4>1. k \in DOMAIN f.written /\ g.written[k] = f.written[k]
        BY <1>9, <3>1 DEF Grew
      <4> QED
        BY <1>1, <4>1 DEF Sorted
    <3>2. CASE k = n + 1
      BY <1>9, <3>2 DEF Grew
    <3> QED
      BY <1>9, <3>1, <3>2 DEF Grew
  <2> QED
    BY <1>3, <2>1 DEF Sorted
<1>12. ASSUME g.proto = "anthropic" PROVE BlocksInTurn(g)
  <2>1. BlocksInTurn(f) /\ e.what # "open"
    BY <1>1, <1>3, <1>12
  <2> QED
    BY <1>1, <2>1, TurnsKept
<1> QED
  BY <1>1, <1>3, <1>7, <1>8, <1>10, <1>11, <1>12 DEF FrontInv

\* A delta of an open block.
LEMMA SayKeeps ==
  ASSUME NEW f, FrontInv(f), NEW sort \in Sorts, f.open[sort] # Shut, NEW data \in Words
  PROVE  FrontInv(Say(f, sort, data))
<1> DEFINE g == Say(f, sort, data)
           at == f.open[sort]
           e == Ev("delta", at, sort, data)
<1>1. f \in FrontSet /\ Places(f)
  BY DEF FrontInv
<1>2. /\ f.next \in Nat /\ f.open \in [Sorts -> Nat \cup {Shut}]
      /\ \A j \in DOMAIN f.tools : f.tools[j].at \in Nat
  BY <1>1, FrontFields
<1>3. /\ at \in 0 .. f.next - 1 /\ Opened(f.written, at)
      /\ \A j \in DOMAIN f.tools : f.tools[j].at # at
  BY <1>1, <1>2 DEF Places
<1>4. /\ e \in EvSet /\ e.what = "delta" /\ e.at = at /\ e.sort = sort
  BY <1>3, EvIs, SortsAre
<1>5. Wrote(f, g, e, f.open, f.next, f.tools)
  BY <1>1, SayIs
<1>6. e.sort # "tool"
  BY <1>4 DEF Sorts
<1> HIDE DEF g, e, at
<1>7. FrontInv(g)
  BY <1>3, <1>4, <1>5, <1>6, DeltaKeeps
<1> QED
  BY <1>7 DEF g, at

\* The first frame of a stream.
LEMMA StartsKeeps ==
  ASSUME NEW f, FrontInv(f)
  PROVE  /\ FrontInv(Starts(f)) /\ Starts(f).started
         /\ Starts(f).open = f.open /\ Starts(f).next = f.next /\ Starts(f).tools = f.tools
         /\ Starts(f).proto = f.proto
<1>1. /\ f \in FrontSet /\ f.proto # "openai" /\ Places(f) /\ Stages(f) /\ Begun(f) /\ Sorted(f)
  BY DEF FrontInv
<1>0. CASE f.started
  BY <1>0, <1>1 DEF Starts
<1> SUFFICES ASSUME ~f.started
             PROVE  /\ FrontInv(Starts(f)) /\ Starts(f).started
                    /\ Starts(f).open = f.open /\ Starts(f).next = f.next
                    /\ Starts(f).tools = f.tools /\ Starts(f).proto = f.proto
  BY <1>0
<1> DEFINE e == Ev("start", Shut, "answer", <<>>)
           g == Put(f, e)
<1>2. e \in EvSet /\ e.what = "start" /\ e.at = Shut /\ e.sort = "answer"
  <2>1. "start" \in What /\ "answer" \in EvSort /\ Shut \in Int
    BY DEF What, EvSort, Shut
  <2> QED
    BY <2>1, EvIs, NoWords
<1>3. Starts(f) = g
  BY <1>1 DEF Starts
<1> HIDE DEF e, g
<1>4. Wrote(f, g, e, f.open, f.next, f.tools)
  BY <1>1, <1>2, PutIs DEF g
<1>5. /\ g.open = f.open /\ g.next = f.next /\ g.tools = f.tools /\ g.proto = f.proto
      /\ g \in FrontSet /\ g.started /\ g.http = f.http /\ g.written = Append(f.written, e)
  BY <1>4 DEF Wrote
<1>6. f.written = <<>> /\ f.next = 0
  BY <1>1 DEF Begun
<1>7. DOMAIN g.written = {1} /\ g.written[1] = e
  BY <1>5, <1>6
<1>8. \A s \in Sorts : f.open[s] = Shut
  <2>1. f.open \in [Sorts -> Nat \cup {Shut}]
    BY <1>1, FrontFields
  <2>2. TAKE s \in Sorts
  <2>3. f.open[s] # Shut => f.open[s] < 0 /\ f.open[s] \in Nat
    BY <1>1, <1>6, <2>1 DEF Places
  <2> QED
    BY <2>3
<1>9. DOMAIN f.tools = {}
  <2>1. \A j \in DOMAIN f.tools : f.tools[j].at < 0 /\ f.tools[j].at \in Nat
    BY <1>1, <1>6, FrontFields DEF Places
  <2> QED
    BY <2>1
<1>10. Places(g)
  BY <1>5, <1>8, <1>9 DEF Places, Sorts
<1>11. Stages(g)
  <2>1. \A i \in Nat : Untouched(g.written, i)
    BY <1>2, <1>7 DEF Untouched, Shut
  <2> QED
    BY <1>5, <1>6, <1>9, <2>1 DEF Stages
<1>12. Begun(g)
  <2>1. g.written # <<>>
    BY <1>7
  <2> QED
    BY <1>1, <1>2, <1>5, <1>7, <2>1 DEF Begun
<1>13. Sorted(g)
  BY <1>2, <1>5, <1>7, <1>9 DEF Sorted
<1>14. BlocksInTurn(g)
  BY <1>2, <1>7 DEF BlocksInTurn
<1> QED
  BY <1>1, <1>3, <1>5, <1>10, <1>11, <1>12, <1>13, <1>14 DEF FrontInv

(***************************************************************************)
(* Calls.                                                                  *)
(***************************************************************************)

\* One more call in the list.
LEMMA MoreTools ==
  ASSUME NEW ts \in Seq(ToolSet), NEW t \in ToolSet
  PROVE  /\ Append(ts, t) \in Seq(ToolSet) /\ Len(ts) \in Nat
         /\ DOMAIN ts = 1 .. Len(ts) /\ DOMAIN Append(ts, t) = 1 .. Len(ts) + 1
         /\ Append(ts, t)[Len(ts) + 1] = t
         /\ \A j \in 1 .. Len(ts) : Append(ts, t)[j] = ts[j]
OBVIOUS

\* f with the call t under the next number.
WithTool(f, t) == [f EXCEPT !.next = @ + 1, !.tools = Append(@, t)]

\* Its fields.
LEMMA WithToolIs ==
  ASSUME NEW f \in FrontSet, NEW t \in ToolSet
  PROVE  /\ WithTool(f, t) \in FrontSet
         /\ WithTool(f, t).next = f.next + 1 /\ WithTool(f, t).tools = Append(f.tools, t)
         /\ WithTool(f, t).open = f.open /\ WithTool(f, t).written = f.written
         /\ WithTool(f, t).proto = f.proto /\ WithTool(f, t).http = f.http
         /\ WithTool(f, t).started = f.started
<1> DEFINE ts == Append(f.tools, t)
           g == WithTool(f, t)
<1>1. ts \in Seq(ToolSet) /\ f.next + 1 \in Nat
  <2>1. f.tools \in Seq(ToolSet) /\ f.next \in Nat
    BY FrontFields
  <2> QED
    BY <2>1
<1>2. g = [f EXCEPT !.next = f.next + 1, !.tools = ts]
  BY DEF WithTool, FrontSet
<1> HIDE DEF ts, g
<1>3. g \in FrontSet
  BY <1>1, <1>2 DEF FrontSet
<1>4. /\ g.next = f.next + 1 /\ g.tools = ts /\ g.open = f.open /\ g.written = f.written
      /\ g.proto = f.proto /\ g.http = f.http /\ g.started = f.started
  BY <1>2 DEF FrontSet
<1> QED
  BY <1>3, <1>4 DEF g, ts

\* A call under the next number, deferred or opened at once.  Only in Messages
\* does it matter that no block is open.
LEMMA AddToolKeeps ==
  ASSUME NEW f, FrontInv(f), f.started, NEW t \in ToolSet, t.at = f.next,
         f.proto = "anthropic" => \A s \in Sorts : f.open[s] = Shut
  PROVE  FrontInv(IF Deferred(f, t.kind) THEN WithTool(f, t)
                  ELSE Put(WithTool(f, t), Ev("open", f.next, "tool", <<>>)))
<1> DEFINE h == WithTool(f, t)
           e == Ev("open", f.next, "tool", <<>>)
           p == Put(h, e)
           late == Deferred(f, t.kind)
           g == IF late THEN h ELSE p
           ts == Append(f.tools, t)
           m == Len(f.tools)
<1>1. /\ f \in FrontSet /\ f.proto # "openai" /\ Places(f) /\ Stages(f) /\ Begun(f) /\ Sorted(f)
      /\ f.proto = "anthropic" => BlocksInTurn(f)
  BY DEF FrontInv
<1>2. /\ f.next \in Nat /\ f.open \in [Sorts -> Nat \cup {Shut}] /\ f.tools \in Seq(ToolSet)
      /\ \A j \in DOMAIN f.tools : f.tools[j].at \in Nat
  BY <1>1, FrontFields
<1>3. /\ h \in FrontSet /\ h.next = f.next + 1 /\ h.tools = ts /\ h.open = f.open
      /\ h.written = f.written /\ h.proto = f.proto /\ h.http = f.http /\ h.started = f.started
  BY <1>1, WithToolIs
<1>4. /\ m \in Nat /\ DOMAIN f.tools = 1 .. m /\ DOMAIN ts = 1 .. m + 1
      /\ ts[m + 1] = t /\ \A j \in 1 .. m : ts[j] = f.tools[j]
  BY <1>2, MoreTools
<1>5. e \in EvSet /\ e.what = "open" /\ e.at = f.next /\ e.sort = "tool"
  <2>1. "tool" \in EvSort
    BY DEF EvSort
  <2> QED
    BY <1>2, <2>1, EvIs, NoWords, SortsAre
<1>6. Wrote(h, p, e, h.open, h.next, h.tools)
  BY <1>3, <1>5, PutIs
<1> HIDE DEF h, e, p, ts, m, late
<1>7. /\ g \in FrontSet /\ g.next = f.next + 1 /\ g.tools = ts /\ g.open = f.open
      /\ g.proto = f.proto /\ g.http = f.http /\ g.started
  BY <1>3, <1>6 DEF Wrote
<1>8. StageStep(h, p, e) /\ Grew(h, p, e, Len(h.written))
  BY <1>3, <1>5, <1>6, StagesAfter, WroteIs
<1>9. /\ \A i : i # f.next =>
           /\ Untouched(f.written, i) => Untouched(g.written, i)
           /\ Opened(f.written, i) => Opened(g.written, i)
           /\ Closed(f.written, i) => Closed(g.written, i)
      /\ IF late THEN Untouched(g.written, f.next) ELSE Opened(g.written, f.next)
  <2>1. Untouched(f.written, f.next)
    BY <1>1, <1>2 DEF Stages
  <2>2. CASE late
    BY <1>3, <2>1, <2>2
  <2>3. CASE ~late
    BY <1>3, <1>5, <1>8, <2>1, <2>3 DEF StageStep
  <2> QED
    BY <2>2, <2>3
<1>10. \A k \in DOMAIN g.written :
         \/ k \in DOMAIN f.written /\ g.written[k] = f.written[k]
         \/ g.written[k] = e
  BY <1>3, <1>8 DEF Grew
<1>11. \A k \in DOMAIN f.written : f.written[k].at # f.next
  BY <1>1, <1>2 DEF Stages, Untouched
<1>12. \A j \in DOMAIN ts : \/ j \in DOMAIN f.tools /\ ts[j] = f.tools[j] /\ j # m + 1
                            \/ j = m + 1 /\ ts[j] = t
  BY <1>4
<1>13. m + 1 \in DOMAIN ts /\ \A j \in DOMAIN f.tools : j \in DOMAIN ts /\ ts[j] = f.tools[j]
  BY <1>4
<1>14. \A j \in DOMAIN f.tools : f.tools[j].at < f.next /\ f.tools[j].at # f.next
  BY <1>1, <1>2 DEF Places
<1> HIDE DEF g
<1>15. Places(g)
  <2>1. ASSUME NEW s \in Sorts, f.open[s] # Shut
        PROVE  f.open[s] < f.next + 1 /\ Opened(g.written, f.open[s])
    <3>1. f.open[s] < f.next /\ f.open[s] \in Nat /\ Opened(f.written, f.open[s])
      BY <1>1, <1>2, <2>1 DEF Places
    <3> QED
      BY <1>2, <1>9, <3>1
  <2>2. ASSUME NEW j \in DOMAIN ts
        PROVE  /\ ts[j].at < f.next + 1
               /\ \A s \in Sorts : f.open[s] # ts[j].at
               /\ \A k \in DOMAIN ts : k # j => ts[k].at # ts[j].at
    <3>1. ts[j].at < f.next + 1
      BY <1>2, <1>12, <1>14
    <3>2. \A s \in Sorts : f.open[s] # ts[j].at
      BY <1>1, <1>2, <1>12 DEF Places, Shut
    <3>3. \A k \in DOMAIN ts : k # j => ts[k].at # ts[j].at
      BY <1>1, <1>12, <1>14 DEF Places
    <3> QED
      BY <3>1, <3>2, <3>3
  <2>3. f.open["thinking"] = f.open["text"] => f.open["text"] = Shut
    BY <1>1 DEF Places
  <2> QED
    BY <1>7, <2>1, <2>2, <2>3 DEF Places
<1>16. Stages(g)
  <2>1. \A i \in Nat : i >= f.next + 1 => Untouched(g.written, i)
    BY <1>1, <1>2, <1>9 DEF Stages
  <2>2. ASSUME NEW j \in DOMAIN ts
        PROVE  IF Deferred(g, ts[j].kind) THEN Untouched(g.written, ts[j].at)
               ELSE Opened(g.written, ts[j].at)
    <3>1. CASE j \in DOMAIN f.tools /\ ts[j] = f.tools[j]
      BY <1>1, <1>7, <1>9, <1>14, <3>1, DeferredSame DEF Stages
    <3>2. CASE ts[j] = t
      BY <1>7, <1>9, <3>2, DeferredSame DEF late
    <3> QED
      BY <1>12, <3>1, <3>2
  <2>3. ASSUME NEW i \in 0 .. f.next
        PROVE  \/ \E s \in Sorts : f.open[s] = i
               \/ \E j \in DOMAIN ts : ts[j].at = i
               \/ Closed(g.written, i)
    <3>1. CASE i = f.next
      BY <1>4, <1>13, <3>1
    <3>2. CASE i \in 0 .. f.next - 1
      <4>1. CASE \E j \in DOMAIN f.tools : f.tools[j].at = i
        BY <1>13, <4>1
      <4>2. CASE Closed(f.written, i)
        BY <1>2, <1>9, <3>2, <4>2
      <4> QED
        BY <1>1, <3>2, <4>1, <4>2 DEF Stages
    <3> QED
      BY <1>2, <3>1, <3>2
  <2>4. (f.next + 1) - 1 = f.next
    BY <1>2
  <2> QED
    BY <1>7, <2>1, <2>2, <2>3, <2>4 DEF Stages
<1>17. Begun(g)
  <2>1. Begun(h)
    BY <1>1, <1>3 DEF Begun
  <2>2. Begun(p)
    BY <1>3, <1>5, <1>6, <2>1, BegunKept
  <2> QED
    BY <2>1, <2>2 DEF g
<1>18. Sorted(g)
  <2>1. ASSUME NEW k \in DOMAIN g.written
        PROVE  /\ g.written[k].sort = "tool" <=> \E j \in DOMAIN ts : ts[j].at = g.written[k].at
               /\ g.written[k].what = "open" => g.written[k].at \in 0 .. f.next
    <3>1. CASE k \in DOMAIN f.written /\ g.written[k] = f.written[k]
      <4>1. /\ f.written[k].sort = "tool" <=>
                 \E j \in DOMAIN f.tools : f.tools[j].at = f.written[k].at
            /\ f.written[k].what = "open" => f.written[k].at \in 0 .. f.next - 1
        BY <1>1, <3>1 DEF Sorted
      <4>2. (\E j \in DOMAIN f.tools : f.tools[j].at = f.written[k].at)
              <=> \E j \in DOMAIN ts : ts[j].at = f.written[k].at
        BY <1>11, <1>12, <1>13, <3>1
      <4> QED
        BY <1>2, <3>1, <4>1, <4>2
    <3>2. CASE g.written[k] = e
      BY <1>2, <1>4, <1>5, <1>13, <3>2
    <3> QED
      BY <1>10, <3>1, <3>2
  <2>2. (f.next + 1) - 1 = f.next
    BY <1>2
  <2> QED
    BY <1>7, <2>1, <2>2 DEF Sorted
<1>19. ASSUME g.proto = "anthropic" PROVE BlocksInTurn(g)
  <2>1. BlocksInTurn(f) /\ \A s \in Sorts : f.open[s] = Shut
    BY <1>1, <1>7, <1>19
  <2>2. ASSUME NEW j \in DOMAIN f.written,
               f.written[j].what = "open", f.written[j].sort # "tool"
        PROVE  Closed(f.written, f.written[j].at)
    <3>1. f.written[j].at \in 0 .. f.next - 1
      BY <1>1, <2>2 DEF Sorted
    <3>2. ~\E k \in DOMAIN f.tools : f.tools[k].at = f.written[j].at
      BY <1>1, <2>2 DEF Sorted
    <3>3. ~\E s \in Sorts : f.open[s] = f.written[j].at
      BY <2>1, <3>1 DEF Shut
    <3> QED
      BY <1>1, <3>1, <3>2, <3>3 DEF Stages
  <2>3. BlocksInTurn(h)
    BY <1>3, <2>1 DEF BlocksInTurn, Position
  <2>4. BlocksInTurn(p)
    BY <1>3, <1>5, <1>6, <2>2, <2>3, TurnsKept
  <2> QED
    BY <2>3, <2>4 DEF g
<1> QED
  BY <1>1, <1>7, <1>15, <1>16, <1>17, <1>18, <1>19 DEF FrontInv, g, h, e, p, late

\* CloseItem leaves the block shut, and the rest of the state as it was.
LEMMA CloseItemFields ==
  ASSUME NEW f \in FrontSet, NEW sort \in Sorts
  PROVE  LET g == CloseItem(f, sort) IN
         /\ g \in FrontSet /\ g.open = [f.open EXCEPT ![sort] = Shut]
         /\ g.next = f.next /\ g.tools = f.tools /\ g.proto = f.proto /\ g.http = f.http
         /\ f.started => g.started
<1>1. CASE f.open[sort] = Shut
  <2>1. CloseItem(f, sort) = f
    BY <1>1 DEF CloseItem
  <2>2. f.open = [f.open EXCEPT ![sort] = Shut]
    <3>1. f.open \in [Sorts -> Nat \cup {Shut}]
      BY FrontFields
    <3> QED
      BY <1>1, <3>1
  <2> QED
    BY <2>1, <2>2
<1>2. CASE f.open[sort] # Shut
  BY <1>2, CloseItemIs DEF Wrote
<1> QED
  BY <1>1, <1>2

\* What is closed before a call and at the end: both blocks.
BothShut(f) == CloseItem(CloseItem(f, "thinking"), "text")

\* With them closed the invariant still holds.
LEMMA BothShutKeeps ==
  ASSUME NEW f, FrontInv(f)
  PROVE  LET g == BothShut(f) IN
         /\ FrontInv(g) /\ \A s \in Sorts : g.open[s] = Shut
         /\ g.next = f.next /\ g.tools = f.tools /\ g.proto = f.proto
         /\ f.started => g.started
<1> DEFINE h == CloseItem(f, "thinking")
           g == CloseItem(h, "text")
<1>1. "thinking" \in Sorts /\ "text" \in Sorts
  BY DEF Sorts
<1>2. f \in FrontSet
  BY DEF FrontInv
<1>3. /\ h \in FrontSet /\ h.open = [f.open EXCEPT !["thinking"] = Shut]
      /\ h.next = f.next /\ h.tools = f.tools /\ h.proto = f.proto
      /\ f.started => h.started
  BY <1>1, <1>2, CloseItemFields
<1>4. FrontInv(h)
  BY <1>1, CloseItemKeeps
<1> HIDE DEF h
<1>5. /\ g \in FrontSet /\ g.open = [h.open EXCEPT !["text"] = Shut]
      /\ g.next = h.next /\ g.tools = h.tools /\ g.proto = h.proto
      /\ h.started => g.started
  BY <1>1, <1>3, CloseItemFields
<1>6. FrontInv(g)
  BY <1>1, <1>4, CloseItemKeeps
<1>7. BothShut(f) = g
  BY DEF BothShut, h
<1> HIDE DEF g
<1>8. f.open \in [Sorts -> Nat \cup {Shut}]
  BY <1>2, FrontFields
<1>9. \A s \in Sorts : g.open[s] = Shut
  BY <1>3, <1>5, <1>8 DEF Sorts
<1> QED
  BY <1>3, <1>5, <1>6, <1>7, <1>9

\* f with more arguments of its j-th call.
WithArgs(f, j, data) == [f EXCEPT !.tools[j].args = @ \o data]

\* Its fields: only the arguments of that call change.
LEMMA WithArgsIs ==
  ASSUME NEW f \in FrontSet, NEW j \in DOMAIN f.tools, NEW data \in Words
  PROVE  LET g == WithArgs(f, j, data) IN
         /\ g \in FrontSet
         /\ g.next = f.next /\ g.open = f.open /\ g.written = f.written /\ g.proto = f.proto
         /\ g.http = f.http /\ g.started = f.started
         /\ DOMAIN g.tools = DOMAIN f.tools /\ Len(g.tools) = Len(f.tools)
         /\ g.tools[j].args = f.tools[j].args \o data
         /\ \A k \in DOMAIN f.tools :
              /\ g.tools[k].at = f.tools[k].at /\ g.tools[k].kind = f.tools[k].kind
              /\ g.tools[k].key = f.tools[k].key
              /\ k # j => g.tools[k].args = f.tools[k].args
<1> DEFINE t == [f.tools[j] EXCEPT !.args = @ \o data]
           ts == [f.tools EXCEPT ![j] = t]
           g == WithArgs(f, j, data)
<1>1. f.tools \in Seq(ToolSet) /\ f.tools[j] \in ToolSet
  BY FrontFields
<1>2. t \in ToolSet
  <2>1. f.tools[j].args \o data \in Words
    BY <1>1 DEF ToolSet, Words
  <2> QED
    BY <1>1, <2>1 DEF ToolSet
<1>3. /\ t.at = f.tools[j].at /\ t.kind = f.tools[j].kind /\ t.key = f.tools[j].key
      /\ t.args = f.tools[j].args \o data
  BY <1>1 DEF ToolSet
<1> HIDE DEF t
<1>4. ts \in Seq(ToolSet) /\ Len(ts) = Len(f.tools) /\ DOMAIN ts = DOMAIN f.tools
  BY <1>1, <1>2
<1>5. ts[j] = t /\ \A k \in DOMAIN f.tools : k # j => ts[k] = f.tools[k]
  BY <1>1
<1>6. g = [f EXCEPT !.tools = ts]
  BY DEF WithArgs, t, FrontSet
<1> HIDE DEF ts, g
<1>7. g \in FrontSet
  BY <1>4, <1>6 DEF FrontSet
<1>8. /\ g.tools = ts /\ g.next = f.next /\ g.open = f.open /\ g.written = f.written
      /\ g.proto = f.proto /\ g.http = f.http /\ g.started = f.started
  BY <1>6 DEF FrontSet
<1> QED
  BY <1>3, <1>4, <1>5, <1>7, <1>8 DEF g

\* The invariant says nothing of the arguments.
LEMMA WithArgsKeeps ==
  ASSUME NEW f, FrontInv(f), NEW j \in DOMAIN f.tools, NEW data \in Words
  PROVE  FrontInv(WithArgs(f, j, data))
<1> DEFINE g == WithArgs(f, j, data)
<1>1. /\ f \in FrontSet /\ f.proto # "openai" /\ Places(f) /\ Stages(f) /\ Begun(f) /\ Sorted(f)
      /\ f.proto = "anthropic" => BlocksInTurn(f)
  BY DEF FrontInv
<1>2. /\ g \in FrontSet
      /\ g.next = f.next /\ g.open = f.open /\ g.written = f.written /\ g.proto = f.proto
      /\ g.http = f.http /\ g.started = f.started
      /\ DOMAIN g.tools = DOMAIN f.tools
      /\ \A k \in DOMAIN f.tools :
           g.tools[k].at = f.tools[k].at /\ g.tools[k].kind = f.tools[k].kind
  BY <1>1, WithArgsIs
<1> HIDE DEF g
<1>3. Places(g)
  BY <1>1, <1>2 DEF Places
<1>4. Stages(g)
  BY <1>1, <1>2, DeferredSame DEF Stages
<1>5. Begun(g)
  BY <1>1, <1>2 DEF Begun
<1>6. Sorted(g)
  BY <1>1, <1>2 DEF Sorted
<1>7. BlocksInTurn(f) => BlocksInTurn(g)
  BY <1>2 DEF BlocksInTurn, Position
<1> QED
  BY <1>1, <1>2, <1>3, <1>4, <1>5, <1>6, <1>7 DEF FrontInv, g

\* A piece of the arguments of a call, written if it is not deferred.
LEMMA ArgumentsKeeps ==
  ASSUME NEW f, FrontInv(f), NEW j \in DOMAIN f.tools, NEW data \in Words
  PROVE  FrontInv(Arguments(f, j, data))
<1> DEFINE h == WithArgs(f, j, data)
           e == Ev("delta", f.tools[j].at, "tool", data)
           p == Put(h, e)
<1>1. FrontInv(h)
  BY WithArgsKeeps
<1>2. f \in FrontSet /\ Places(f) /\ Stages(f)
  BY DEF FrontInv
<1>3. /\ h \in FrontSet /\ h.next = f.next /\ h.written = f.written
      /\ DOMAIN h.tools = DOMAIN f.tools /\ h.tools[j].at = f.tools[j].at
  BY <1>2, WithArgsIs
<1>4. f.tools[j].at \in Nat /\ f.next \in Nat /\ f.tools[j].at < f.next
  BY <1>2, FrontFields DEF Places
<1>5. e \in EvSet /\ e.what = "delta" /\ e.at = f.tools[j].at /\ e.sort = "tool"
  <2>1. "tool" \in EvSort
    BY DEF EvSort
  <2> QED
    BY <1>4, <2>1, EvIs, SortsAre
<1>6. Arguments(f, j, data) = IF data = <<>> \/ Deferred(f, f.tools[j].kind) THEN h ELSE p
  BY DEF Arguments, WithArgs
<1> HIDE DEF h, e, p
<1>7. Wrote(h, p, e, h.open, h.next, h.tools)
  BY <1>3, <1>5, PutIs DEF p
<1>8. ASSUME ~Deferred(f, f.tools[j].kind) PROVE FrontInv(p)
  <2>1. Opened(h.written, e.at)
    BY <1>2, <1>3, <1>5, <1>8 DEF Stages
  <2>2. e.at \in 0 .. h.next - 1 /\ \E k \in DOMAIN h.tools : h.tools[k].at = e.at
    BY <1>3, <1>4, <1>5
  <2> QED
    BY <1>1, <1>5, <1>7, <2>1, <2>2, DeltaKeeps
<1> QED
  BY <1>1, <1>6, <1>8

\* The entry of a call that was not seen.
NewEntry(f, d) == [key |-> d.key, at |-> f.next, kind |-> d.tool, args |-> <<>>]

\* It is an entry.
LEMMA NewEntryIs ==
  ASSUME NEW f \in FrontSet, NEW d \in DeltaSet
  PROVE  /\ NewEntry(f, d) \in ToolSet
         /\ NewEntry(f, d).key = d.key /\ NewEntry(f, d).at = f.next
         /\ NewEntry(f, d).kind = d.tool /\ NewEntry(f, d).args = <<>>
<1>1. f.next \in Nat
  BY FrontFields
<1> QED
  BY <1>1, NoWords DEF NewEntry, ToolSet, DeltaSet

\* What NewTool does: nothing to a call that was seen, else the call is there.
LEMMA NewToolIs ==
  ASSUME NEW f \in FrontSet, f.started, NEW d \in DeltaSet
  PROVE  LET g == NewTool(f, d)
             e == Ev("open", f.next, "tool", <<>>)
         IN /\ SeenAt(f, d.key) # {} => g = f
            /\ SeenAt(f, d.key) = {} /\ Deferred(f, d.tool) => g = WithTool(f, NewEntry(f, d))
            /\ SeenAt(f, d.key) = {} /\ ~Deferred(f, d.tool) =>
                 g = Put(WithTool(f, NewEntry(f, d)), e)
            /\ g \in FrontSet /\ g.started /\ g.proto = f.proto
            /\ SeenAt(f, d.key) = {} => g.tools = Append(f.tools, NewEntry(f, d))
            /\ SeenAt(g, d.key) # {}
<1> DEFINE t == NewEntry(f, d)
           h == WithTool(f, t)
           e == Ev("open", f.next, "tool", <<>>)
           g == NewTool(f, d)
<1>1. t \in ToolSet /\ t.key = d.key /\ t.at = f.next
  BY NewEntryIs
<1>2. h = [f EXCEPT !.next = @ + 1, !.tools = Append(@, t)]
  BY DEF WithTool
<1>3. g = IF SeenAt(f, d.key) # {} THEN f ELSE IF Deferred(f, d.tool) THEN h ELSE Put(h, e)
  BY <1>1, <1>2 DEF NewTool, NewEntry
<1> HIDE DEF t, h, g, e
<1>4. /\ h \in FrontSet /\ h.tools = Append(f.tools, t) /\ h.proto = f.proto /\ h.started = f.started
  BY <1>1, WithToolIs DEF h
<1>5. e \in EvSet
  <2>1. "tool" \in EvSort /\ f.next \in Nat
    BY FrontFields DEF EvSort
  <2> QED
    BY <2>1, EvIs, NoWords, SortsAre DEF e
<1>6. Wrote(h, Put(h, e), e, h.open, h.next, h.tools)
  BY <1>4, <1>5, PutIs
<1>7. /\ g \in FrontSet /\ g.started /\ g.proto = f.proto
      /\ SeenAt(f, d.key) = {} => g.tools = Append(f.tools, t)
  BY <1>3, <1>4, <1>6 DEF Wrote
<1>8. SeenAt(g, d.key) # {}
  <2>1. CASE SeenAt(f, d.key) # {}
    BY <1>3, <2>1
  <2>2. CASE SeenAt(f, d.key) = {}
    <3>1. f.tools \in Seq(ToolSet)
      BY FrontFields
    <3>0. g.tools = Append(f.tools, t)
      BY <1>7, <2>2
    <3>2. Len(f.tools) + 1 \in DOMAIN g.tools /\ g.tools[Len(f.tools) + 1] = t
      BY <1>1, <3>0, <3>1, MoreTools
    <3> QED
      BY <1>1, <3>2 DEF SeenAt
  <2> QED
    BY <2>1, <2>2
<1>9. /\ SeenAt(f, d.key) # {} => g = f
      /\ SeenAt(f, d.key) = {} /\ Deferred(f, d.tool) => g = h
      /\ SeenAt(f, d.key) = {} /\ ~Deferred(f, d.tool) => g = Put(h, e)
  BY <1>3
<1> QED
  BY <1>7, <1>8, <1>9 DEF t, h, g, e

\* A call's Delta.
LEMMA ToolKeeps ==
  ASSUME NEW f, FrontInv(f), f.started, NEW d \in DeltaSet,
         f.proto = "anthropic" => \A s \in Sorts : f.open[s] = Shut
  PROVE  FrontInv(Tool(f, d))
<1> DEFINE g == NewTool(f, d)
           t == NewEntry(f, d)
           j == CHOOSE k \in SeenAt(g, d.key) : TRUE
<1>1. f \in FrontSet /\ d.data \in Words
  BY DEF FrontInv, DeltaSet
<1>2. t \in ToolSet /\ t.at = f.next /\ t.kind = d.tool
  BY <1>1, NewEntryIs
<1>3. /\ SeenAt(f, d.key) # {} => g = f
      /\ SeenAt(f, d.key) = {} =>
           g = IF Deferred(f, d.tool) THEN WithTool(f, t)
               ELSE Put(WithTool(f, t), Ev("open", f.next, "tool", <<>>))
      /\ SeenAt(g, d.key) # {}
  BY <1>1, NewToolIs
<1> HIDE DEF g, t
<1>4. FrontInv(g)
  <2>1. FrontInv(IF Deferred(f, t.kind) THEN WithTool(f, t)
                 ELSE Put(WithTool(f, t), Ev("open", f.next, "tool", <<>>)))
    BY <1>2, AddToolKeeps
  <2> QED
    BY <1>2, <1>3, <2>1
<1>5. j \in DOMAIN g.tools
  BY <1>3 DEF SeenAt
<1> HIDE DEF j
<1>6. FrontInv(Arguments(g, j, d.data))
  BY <1>1, <1>4, <1>5, ArgumentsKeeps
<1> QED
  BY <1>6 DEF Tool, g, j

\* A block of one sort, opened if it is not open, and a delta of it.
LEMMA SaidInBlock ==
  ASSUME NEW f, FrontInv(f), f.started, NEW sort \in Sorts, NEW data \in Words,
         f.proto = "anthropic" => \A s \in Sorts : s # sort => f.open[s] = Shut
  PROVE  FrontInv(Say(OpenItem(f, sort), sort, data))
<1>1. f \in FrontSet
  BY DEF FrontInv
<1>2. f.next \in Nat /\ f.open \in [Sorts -> Nat \cup {Shut}]
  BY <1>1, FrontFields
<1>3. FrontInv(OpenItem(f, sort)) /\ OpenItem(f, sort).open[sort] # Shut
  <2>1. CASE f.open[sort] # Shut
    BY <2>1 DEF OpenItem
  <2>2. CASE f.open[sort] = Shut
    <3>1. FrontInv(OpenItem(f, sort))
      BY <2>2, OpenItemKeeps
    <3>2. OpenItem(f, sort).open = [f.open EXCEPT ![sort] = f.next]
      BY <1>1, <2>2, OpenItemIs DEF Wrote
    <3> QED
      BY <1>2, <3>1, <3>2 DEF Shut
  <2> QED
    BY <2>1, <2>2
<1> QED
  BY <1>3, SayKeeps

\* One Delta of Messages or the Responses API.
LEMMA BlocksKeep ==
  ASSUME NEW f, FrontInv(f), f.started, NEW d \in DeltaSet
  PROVE  FrontInv(Blocks(f, d))
<1>1. f \in FrontSet /\ d.data \in Words /\ d.kind \in {"thinking", "text", "tool", "finish"}
  BY DEF FrontInv, DeltaSet
<1>2. "thinking" \in Sorts /\ "text" \in Sorts /\ \A s \in Sorts : s = "thinking" \/ s = "text"
  BY DEF Sorts
<1>3. f.open \in [Sorts -> Nat \cup {Shut}]
  BY <1>1, FrontFields
<1>4. CASE d.kind = "thinking"
  <2> DEFINE g == BlocksAtThinking(f)
  <2>1. /\ FrontInv(g) /\ g.started /\ g.proto = f.proto
        /\ g.proto = "anthropic" => g.open["text"] = Shut
    <3>1. CASE f.proto = "anthropic"
      <4>1. g = CloseItem(f, "text")
        BY <3>1 DEF BlocksAtThinking
      <4> HIDE DEF g
      <4>2. FrontInv(g)
        BY <1>2, <4>1, CloseItemKeeps
      <4>3. g.open = [f.open EXCEPT !["text"] = Shut] /\ g.started /\ g.proto = f.proto
        BY <1>1, <1>2, <4>1, CloseItemFields
      <4> QED
        BY <1>2, <1>3, <4>2, <4>3
    <3>2. CASE f.proto # "anthropic"
      BY <3>2 DEF BlocksAtThinking
    <3> QED
      BY <3>1, <3>2
  <2>2. Blocks(f, d) = Say(OpenItem(g, "thinking"), "thinking", d.data)
    BY <1>4 DEF Blocks
  <2> HIDE DEF g
  <2>3. g.proto = "anthropic" => \A s \in Sorts : s # "thinking" => g.open[s] = Shut
    BY <1>2, <2>1
  <2>4. FrontInv(Say(OpenItem(g, "thinking"), "thinking", d.data))
    BY <1>1, <1>2, <2>1, <2>3, SaidInBlock
  <2> QED
    BY <2>2, <2>4
<1>5. CASE d.kind = "text"
  <2> DEFINE g == CloseItem(f, "thinking")
  <2>1. FrontInv(g)
    BY <1>2, CloseItemKeeps
  <2>2. g.open = [f.open EXCEPT !["thinking"] = Shut] /\ g.started /\ g.proto = f.proto
    BY <1>1, <1>2, CloseItemFields
  <2>3. Blocks(f, d) = Say(OpenItem(g, "text"), "text", d.data)
    BY <1>5 DEF Blocks
  <2> HIDE DEF g
  <2>4. g.open["thinking"] = Shut
    BY <1>2, <1>3, <2>2
  <2>5. FrontInv(Say(OpenItem(g, "text"), "text", d.data))
    BY <1>1, <1>2, <2>1, <2>2, <2>4, SaidInBlock
  <2> QED
    BY <2>3, <2>5
<1>6. CASE d.kind = "tool"
  <2> DEFINE g == BeforeTool(f, d)
  <2>1. (g = f /\ f.proto = "responses") \/ g = BothShut(f)
    BY DEF BeforeTool, BothShut
  <2>2. Blocks(f, d) = Tool(g, d)
    BY <1>6 DEF Blocks
  <2> HIDE DEF g
  <2>3. FrontInv(g) /\ g.started /\ (g.proto = "anthropic" => \A s \in Sorts : g.open[s] = Shut)
    BY <2>1, BothShutKeeps
  <2>4. FrontInv(Tool(g, d))
    BY <2>3, ToolKeeps
  <2> QED
    BY <2>2, <2>4
<1>7. CASE d.kind = "finish"
  BY <1>7 DEF Blocks
<1> QED
  BY <1>1, <1>4, <1>5, <1>6, <1>7

(***************************************************************************)
(* What a client makes of the events.                                      *)
(***************************************************************************)
TextOf(e) == IF e.what = "delta" /\ e.sort = "text" THEN e.data ELSE <<>>

ArgsOf(e) == IF e.sort = "tool" THEN e.data ELSE <<>>

\* The text and the arguments seen are those of the events, put together.
LEMMA SeenIs ==
  ASSUME NEW f \in FrontSet
  PROVE  /\ TextSeen(f) = Concat([i \in DOMAIN f.written |-> TextOf(f.written[i])])
         /\ ArgsSeen(f) = Concat([i \in DOMAIN f.written |-> ArgsOf(f.written[i])])
         /\ [i \in DOMAIN f.written |-> TextOf(f.written[i])] \in Pieces(Word, Len(f.written))
         /\ [i \in DOMAIN f.written |-> ArgsOf(f.written[i])] \in Pieces(Word, Len(f.written))
         /\ DOMAIN f.written = 1 .. Len(f.written) /\ Len(f.written) \in Nat
<1>1. TextSeen(f) = Concat([i \in DOMAIN f.written |-> TextOf(f.written[i])])
  BY DEF TextSeen, DataOf, TextOf
<1>2. ArgsSeen(f) = Concat([i \in DOMAIN f.written |-> ArgsOf(f.written[i])])
  BY DEF ArgsSeen, DataOf, ArgsOf
<1>3. f.written \in Seq(EvSet)
  BY FrontFields
<1>4. DOMAIN f.written = 1 .. Len(f.written) /\ Len(f.written) \in Nat
  BY <1>3
<1>5. \A e \in EvSet : TextOf(e) \in Words /\ ArgsOf(e) \in Words
  BY NoWords DEF TextOf, ArgsOf, EvSet
<1>6. \A i \in DOMAIN f.written : f.written[i] \in EvSet
  BY <1>3
<1> QED
  BY <1>1, <1>2, <1>4, <1>5, <1>6 DEF Pieces, Words

\* They are words.
LEMMA SeenTyped == \A f \in FrontSet : TextSeen(f) \in Words /\ ArgsSeen(f) \in Words
BY SeenIs, ConcatTyped DEF Words

\* g follows f and has said so much text and so many arguments more.
Says(f, g, text, args) ==
  /\ f \in FrontSet /\ g \in FrontSet /\ g.proto = f.proto
  /\ f.started => g.started
  /\ TextSeen(g) = TextSeen(f) \o text /\ ArgsSeen(g) = ArgsSeen(f) \o args

\* Nothing is said where nothing is written.
LEMMA SaysNothing ==
  ASSUME NEW f \in FrontSet, NEW g \in FrontSet, g.proto = f.proto, g.written = f.written,
         g.started = f.started
  PROVE  Says(f, g, <<>>, <<>>)
<1>1. TextSeen(g) = TextSeen(f) /\ ArgsSeen(g) = ArgsSeen(f)
  BY DEF TextSeen, ArgsSeen, DataOf
<1>2. TextSeen(f) \in Words /\ ArgsSeen(f) \in Words
  BY SeenTyped
<1>3. \A w \in Words : w = w \o <<>>
  BY DEF Words
<1> QED
  BY <1>1, <1>2, <1>3 DEF Says

\* An event that is written says what it carries.
LEMMA SaysWritten ==
  ASSUME NEW f \in FrontSet, NEW g, NEW e \in EvSet, NEW open, NEW next, NEW tools,
         Wrote(f, g, e, open, next, tools)
  PROVE  Says(f, g, TextOf(e), ArgsOf(e))
<1> DEFINE n == Len(f.written)
<1>1. Grew(f, g, e, n)
  BY WroteIs
<1>2. /\ n \in Nat /\ DOMAIN f.written = 1 .. n /\ DOMAIN g.written = 1 .. n + 1
      /\ g.written[n + 1] = e /\ \A k \in 1 .. n : g.written[k] = f.written[k]
  BY <1>1 DEF Grew
<1>3. g \in FrontSet /\ g.started /\ g.proto = f.proto
  BY DEF Wrote
<1>4. TextOf(e) \in Seq(Word) /\ ArgsOf(e) \in Seq(Word)
  BY NoWords DEF TextOf, ArgsOf, EvSet, Words
<1> DEFINE x == [i \in DOMAIN f.written |-> TextOf(f.written[i])]
           y == [i \in DOMAIN g.written |-> TextOf(g.written[i])]
           u == [i \in DOMAIN f.written |-> ArgsOf(f.written[i])]
           v == [i \in DOMAIN g.written |-> ArgsOf(g.written[i])]
<1>5. TextSeen(f) = Concat(x) /\ ArgsSeen(f) = Concat(u)
      /\ x \in Pieces(Word, n) /\ u \in Pieces(Word, n)
  BY SeenIs
<1>6. TextSeen(g) = Concat(y) /\ ArgsSeen(g) = Concat(v)
  BY <1>3, SeenIs
<1> HIDE DEF n
<1>7. DOMAIN y = 1 .. n + 1 /\ y[n + 1] = TextOf(e) /\ \A i \in 1 .. n : y[i] = x[i]
  BY <1>2
<1>8. DOMAIN v = 1 .. n + 1 /\ v[n + 1] = ArgsOf(e) /\ \A i \in 1 .. n : v[i] = u[i]
  BY <1>2
<1> HIDE DEF x, y, u, v
<1>9. Concat(y) = Concat(x) \o TextOf(e)
  <2>1. n \in Nat /\ TextOf(e) \in Seq(Word) /\ x \in Pieces(Word, n)
    BY <1>2, <1>4, <1>5
  <2> QED
    BY <2>1, <1>7, ConcatMore, SMTT(60)
<1>10. Concat(v) = Concat(u) \o ArgsOf(e)
  <2>1. n \in Nat /\ ArgsOf(e) \in Seq(Word) /\ u \in Pieces(Word, n)
    BY <1>2, <1>4, <1>5
  <2> QED
    BY <2>1, <1>8, ConcatMore, SMTT(60)
<1> QED
  BY <1>3, <1>5, <1>6, <1>9, <1>10 DEF Says

\* What is said after nothing.
LEMMA SaysThen ==
  ASSUME NEW f, NEW g, NEW h, NEW text, NEW args,
         Says(f, g, <<>>, <<>>), Says(g, h, text, args)
  PROVE  Says(f, h, text, args)
<1>1. f \in FrontSet
  BY DEF Says
<1>2. TextSeen(f) \in Words /\ ArgsSeen(f) \in Words
  BY <1>1, SeenTyped
<1>3. \A w \in Words : w = w \o <<>>
  BY DEF Words
<1> QED
  BY <1>2, <1>3 DEF Says

\* Beginning, opening and closing say nothing and leave the calls as they are.
LEMMA StepsSayNothing ==
  ASSUME NEW f, FrontInv(f)
  PROVE  /\ Says(f, Starts(f), <<>>, <<>>)
         /\ \A s \in Sorts : /\ Says(f, CloseItem(f, s), <<>>, <<>>)
                             /\ CloseItem(f, s).tools = f.tools
         /\ \A s \in Sorts : /\ Says(f, OpenItem(f, s), <<>>, <<>>)
                             /\ OpenItem(f, s).tools = f.tools
<1>1. f \in FrontSet /\ f.next \in Nat /\ f.open \in [Sorts -> Nat \cup {Shut}]
  BY FrontFields DEF FrontInv
<1>2. Says(f, f, <<>>, <<>>)
  BY <1>1, SaysNothing
<1>3. Says(f, Starts(f), <<>>, <<>>)
  <2>1. CASE f.started \/ f.proto = "openai"
    BY <1>2, <2>1 DEF Starts
  <2>2. CASE ~(f.started \/ f.proto = "openai")
    <3> DEFINE e == Ev("start", Shut, "answer", <<>>)
    <3>1. e \in EvSet /\ TextOf(e) = <<>> /\ ArgsOf(e) = <<>>
      <4>1. "start" \in What /\ "answer" \in EvSort /\ Shut \in Int
        BY DEF What, EvSort, Shut
      <4>2. e \in EvSet /\ e.what = "start" /\ e.sort = "answer"
        BY <4>1, EvIs, NoWords
      <4> QED
        BY <4>2 DEF TextOf, ArgsOf
    <3>2. Starts(f) = Put(f, e)
      BY <2>2 DEF Starts
    <3> HIDE DEF e
    <3>3. Says(f, Put(f, e), TextOf(e), ArgsOf(e))
      BY <1>1, <3>1, PutIs, SaysWritten
    <3> QED
      BY <3>1, <3>2, <3>3
  <2> QED
    BY <2>1, <2>2
<1>4. ASSUME NEW s \in Sorts
      PROVE  Says(f, CloseItem(f, s), <<>>, <<>>) /\ CloseItem(f, s).tools = f.tools
  <2>1. CASE f.open[s] = Shut
    BY <1>2, <2>1 DEF CloseItem
  <2>2. CASE f.open[s] # Shut
    <3> DEFINE e == Ev("close", f.open[s], s, <<>>)
               o == [f.open EXCEPT ![s] = Shut]
    <3>1. e \in EvSet /\ TextOf(e) = <<>> /\ ArgsOf(e) = <<>>
      <4>1. f.open[s] \in Int /\ s # "tool"
        BY <1>1 DEF Shut, Sorts
      <4>2. e \in EvSet /\ e.what = "close" /\ e.sort = s
        BY <4>1, EvIs, NoWords, SortsAre
      <4> QED
        BY <4>1, <4>2 DEF TextOf, ArgsOf
    <3>2. Wrote(f, CloseItem(f, s), e, o, f.next, f.tools)
      BY <1>1, <2>2, CloseItemIs
    <3> HIDE DEF e, o
    <3>3. Says(f, CloseItem(f, s), TextOf(e), ArgsOf(e))
      BY <1>1, <3>1, <3>2, SaysWritten
    <3> QED
      BY <3>1, <3>2, <3>3 DEF Wrote
  <2> QED
    BY <2>1, <2>2
<1>5. ASSUME NEW s \in Sorts
      PROVE  Says(f, OpenItem(f, s), <<>>, <<>>) /\ OpenItem(f, s).tools = f.tools
  <2>1. CASE f.open[s] # Shut
    BY <1>2, <2>1 DEF OpenItem
  <2>2. CASE f.open[s] = Shut
    <3> DEFINE e == Ev("open", f.next, s, <<>>)
               o == [f.open EXCEPT ![s] = f.next]
    <3>1. e \in EvSet /\ TextOf(e) = <<>> /\ ArgsOf(e) = <<>>
      <4>1. f.next \in Int /\ s # "tool"
        BY <1>1 DEF Sorts
      <4>2. e \in EvSet /\ e.what = "open" /\ e.sort = s
        BY <4>1, EvIs, NoWords, SortsAre
      <4> QED
        BY <4>1, <4>2 DEF TextOf, ArgsOf
    <3>2. Wrote(f, OpenItem(f, s), e, o, f.next + 1, f.tools)
      BY <1>1, <2>2, OpenItemIs
    <3> HIDE DEF e, o
    <3>3. Says(f, OpenItem(f, s), TextOf(e), ArgsOf(e))
      BY <1>1, <3>1, <3>2, SaysWritten
    <3> QED
      BY <3>1, <3>2, <3>3 DEF Wrote
  <2> QED
    BY <2>1, <2>2
<1> QED
  BY <1>3, <1>4, <1>5

\* A delta of a block says its data, if it is text.
LEMMA SayShows ==
  ASSUME NEW f \in FrontSet, NEW s \in Sorts, NEW data \in Words
  PROVE  /\ Says(f, Say(f, s, data), IF s = "text" THEN data ELSE <<>>, <<>>)
         /\ Say(f, s, data).tools = f.tools
<1> DEFINE e == Ev("delta", f.open[s], s, data)
<1>1. f.open[s] \in Int /\ s # "tool"
  BY FrontFields DEF Shut, Sorts
<1>2. e \in EvSet /\ e.what = "delta" /\ e.sort = s /\ e.data = data
  BY <1>1, EvIs, SortsAre
<1>3. Wrote(f, Say(f, s, data), e, f.open, f.next, f.tools)
  BY SayIs
<1> HIDE DEF e
<1>4. Says(f, Say(f, s, data), TextOf(e), ArgsOf(e))
  BY <1>2, <1>3, SaysWritten
<1>5. TextOf(e) = (IF s = "text" THEN data ELSE <<>>) /\ ArgsOf(e) = <<>>
  BY <1>1, <1>2 DEF TextOf, ArgsOf
<1> QED
  BY <1>3, <1>4, <1>5 DEF Wrote

(***************************************************************************)
(* What a front end has shown of an answer, and what it still keeps.       *)
(***************************************************************************)

\* The arguments of the calls that are written whole at the end.
LateOf(f, t) == IF Deferred(f, t.kind) THEN t.args ELSE <<>>

LateArgs(f) == [j \in DOMAIN f.tools |-> LateOf(f, f.tools[j])]

ArgTotal(f) == Len(ArgsSeen(f)) + Len(Concat(LateArgs(f)))

\* There are m calls, with the keys from 1 to m.
CallsAre(f, m) ==
  IF f.proto = "openai" THEN CallsSeen(f) = 1 .. m
  ELSE Len(f.tools) = m /\ \A j \in 1 .. m : f.tools[j].key = j

Shows(f, text, m, args) ==
  f \in FrontSet /\ TextSeen(f) = text /\ CallsAre(f, m) /\ ArgTotal(f) = args

\* What a front end keeps back of each call's arguments, put together.
LEMMA LateIs ==
  ASSUME NEW f \in FrontSet
  PROVE  /\ LateArgs(f) \in Pieces(Word, Len(f.tools))
         /\ DOMAIN f.tools = 1 .. Len(f.tools) /\ Len(f.tools) \in Nat
         /\ \A j \in 1 .. Len(f.tools) : LateArgs(f)[j] = LateOf(f, f.tools[j])
         /\ Concat(LateArgs(f)) \in Words
         /\ Len(Concat(LateArgs(f))) \in Nat /\ Len(ArgsSeen(f)) \in Nat
<1>1. f.tools \in Seq(ToolSet)
  BY FrontFields
<1>2. DOMAIN f.tools = 1 .. Len(f.tools) /\ Len(f.tools) \in Nat
  BY <1>1
<1>3. \A j \in DOMAIN f.tools : LateOf(f, f.tools[j]) \in Seq(Word)
  BY FrontFields, NoWords DEF LateOf, Words
<1>4. LateArgs(f) \in Pieces(Word, Len(f.tools))
  BY <1>2, <1>3 DEF LateArgs, Pieces
<1>5. Concat(LateArgs(f)) \in Words
  BY <1>2, <1>4, ConcatTyped DEF Words
<1>6. \A w \in Words : Len(w) \in Nat
  BY DEF Words
<1>7. ArgsSeen(f) \in Words
  BY SeenTyped
<1> QED
  BY <1>2, <1>4, <1>5, <1>6, <1>7 DEF LateArgs

\* Steps that touch no call.
LEMMA ShowsKept ==
  ASSUME NEW f, NEW g, NEW text \in Words, Says(f, g, text, <<>>), g.tools = f.tools,
         f.proto # "openai", NEW t, NEW m, NEW a, Shows(f, t, m, a)
  PROVE  Shows(g, t \o text, m, a)
<1>1. f \in FrontSet /\ g \in FrontSet /\ g.proto = f.proto /\ TextSeen(g) = t \o text
  BY DEF Says, Shows
<1>2. ArgsSeen(g) = ArgsSeen(f)
  <2>1. ArgsSeen(f) \in Words
    BY <1>1, SeenTyped
  <2>2. ArgsSeen(f) \o <<>> = ArgsSeen(f)
    BY <2>1 DEF Words
  <2> QED
    BY <2>2 DEF Says
<1>3. LateArgs(g) = LateArgs(f)
  BY <1>1, DeferredSame DEF LateArgs, LateOf
<1>4. CallsAre(g, m)
  BY <1>1 DEF CallsAre, Shows
<1> QED
  BY <1>1, <1>2, <1>3, <1>4 DEF Shows, ArgTotal

\* In particular those that say nothing.
LEMMA ShowsQuiet ==
  ASSUME NEW f, NEW g, Says(f, g, <<>>, <<>>), g.tools = f.tools,
         f.proto # "openai", NEW t, NEW m, NEW a, Shows(f, t, m, a)
  PROVE  Shows(g, t, m, a)
<1>1. Shows(g, t \o <<>>, m, a)
  BY NoWords, ShowsKept
<1>2. t \in Words
  BY SeenTyped DEF Shows
<1>3. t \o <<>> = t
  BY <1>2 DEF Words
<1> QED
  BY <1>1, <1>3

\* A new call is counted, and nothing is shown of it yet.
LEMMA NewToolShows ==
  ASSUME NEW f, FrontInv(f), f.started, NEW d \in DeltaSet, NEW m \in Nat, d.key \in 1 .. m + 1,
         NEW t, NEW a, Shows(f, t, m, a)
  PROVE  Shows(NewTool(f, d), t, IF d.key = m + 1 THEN m + 1 ELSE m, a)
<1> DEFINE g == NewTool(f, d)
           x == NewEntry(f, d)
<1>1. f \in FrontSet /\ f.proto # "openai"
  BY DEF FrontInv
<1>2. /\ Len(f.tools) = m /\ DOMAIN f.tools = 1 .. m
      /\ \A j \in 1 .. m : f.tools[j].key = j
  BY <1>1, LateIs DEF Shows, CallsAre
<1>3. CASE d.key # m + 1
  <2>1. d.key \in 1 .. m
    BY <1>3
  <2>2. SeenAt(f, d.key) # {}
    BY <1>2, <2>1 DEF SeenAt
  <2>3. g = f
    BY <1>1, <2>2, NewToolIs
  <2> QED
    BY <1>3, <2>3
<1>4. CASE d.key = m + 1
  <2>1. SeenAt(f, d.key) = {}
    BY <1>2, <1>4 DEF SeenAt
  <2>2. g \in FrontSet /\ g.proto = f.proto /\ g.tools = Append(f.tools, x)
    BY <1>1, <2>1, NewToolIs
  <2>3. x \in ToolSet /\ x.key = m + 1 /\ x.args = <<>>
    BY <1>1, <1>4, NewEntryIs
  <2>4. Says(f, g, <<>>, <<>>)
    <3> DEFINE w == WithTool(f, x)
               e == Ev("open", f.next, "tool", <<>>)
    <3>1. /\ w \in FrontSet /\ w.written = f.written /\ w.proto = f.proto
          /\ w.started = f.started
      BY <1>1, <2>3, WithToolIs
    <3>2. g = w \/ g = Put(w, e)
      BY <1>1, <2>1, NewToolIs
    <3>3. e \in EvSet /\ TextOf(e) = <<>> /\ ArgsOf(e) = <<>>
      <4>1. f.next \in Int /\ "open" \in What /\ "tool" \in EvSort
        BY <1>1, FrontFields DEF What, EvSort
      <4>2. e \in EvSet /\ e.what = "open" /\ e.sort = "tool" /\ e.data = <<>>
        BY <4>1, EvIs, NoWords
      <4> QED
        BY <4>2 DEF TextOf, ArgsOf
    <3> HIDE DEF w, e, g
    <3>4. Says(f, w, <<>>, <<>>)
      BY <1>1, <3>1, SaysNothing
    <3>5. Says(w, Put(w, e), TextOf(e), ArgsOf(e))
      BY <3>1, <3>3, PutIs, SaysWritten
    <3>6. Says(f, Put(w, e), <<>>, <<>>)
      BY <3>3, <3>4, <3>5, SaysThen
    <3> QED
      BY <3>2, <3>4, <3>6
  <2> HIDE DEF g, x
  <2>5. /\ DOMAIN g.tools = 1 .. m + 1 /\ Len(g.tools) = m + 1 /\ g.tools[m + 1] = x
        /\ \A j \in 1 .. m : g.tools[j] = f.tools[j]
    <3>1. f.tools \in Seq(ToolSet)
      BY <1>1, FrontFields
    <3> QED
      BY <1>2, <2>2, <2>3, <3>1, MoreTools
  <2>6. CallsAre(g, m + 1)
    BY <1>1, <1>2, <2>2, <2>3, <2>5 DEF CallsAre
  <2>7. Concat(LateArgs(g)) = Concat(LateArgs(f)) \o <<>>
    <3> DEFINE u == LateArgs(f)
               v == LateArgs(g)
    <3>1. u \in Pieces(Word, m)
      BY <1>1, <1>2, LateIs
    <3>2. DOMAIN v = 1 .. m + 1 /\ \A j \in 1 .. m + 1 : v[j] = LateOf(g, g.tools[j])
      BY <2>5 DEF LateArgs
    <3>3. \A j \in 1 .. m : u[j] = LateOf(f, f.tools[j])
      BY <1>1, <1>2, LateIs
    <3>4. v[m + 1] = <<>>
      <4>1. m + 1 \in 1 .. m + 1
        OBVIOUS
      <4> QED
        BY <2>3, <2>5, <3>2, <4>1 DEF LateOf
    <3>5. \A z : LateOf(g, z) = LateOf(f, z)
      BY <2>2, DeferredSame DEF LateOf
    <3>6. \A j \in 1 .. m : v[j] = u[j]
      <4> TAKE j \in 1 .. m
      <4>1. j \in 1 .. m + 1
        OBVIOUS
      <4> QED
        BY <2>5, <3>2, <3>3, <3>5, <4>1
    <3> HIDE DEF u, v
    <3>7. DOMAIN v = 1 .. m + 1
      BY <3>2
    <3>8. PICK nothing \in Seq(Word) : nothing = <<>>
      BY NoWords DEF Words
    <3>9. v[m + 1] = nothing
      BY <3>4, <3>8
    <3>10. Concat(v) = Concat(u) \o nothing
      BY <3>1, <3>6, <3>7, <3>9, ConcatMore
    <3> QED
      BY <3>8, <3>10 DEF u, v
  <2>8. Concat(LateArgs(g)) = Concat(LateArgs(f))
    <3>1. Concat(LateArgs(f)) \in Seq(Word)
      BY <1>1, LateIs DEF Words
    <3> QED
      BY <2>7, <3>1
  <2>9. TextSeen(g) = t /\ ArgsSeen(g) = ArgsSeen(f)
    <3>1. TextSeen(f) \in Seq(Word) /\ ArgsSeen(f) \in Seq(Word)
      BY <1>1, SeenTyped DEF Words
    <3>2. TextSeen(f) \o <<>> = TextSeen(f) /\ ArgsSeen(f) \o <<>> = ArgsSeen(f)
      BY <3>1
    <3> QED
      BY <2>4, <3>2 DEF Says, Shows
  <2>10. Shows(g, t, m + 1, a)
    BY <2>2, <2>6, <2>8, <2>9 DEF Shows, ArgTotal
  <2> QED
    BY <1>4, <2>10 DEF g
<1> QED
  BY <1>3, <1>4

\* A piece of a call's arguments is shown, or kept for the end.
LEMMA ArgumentsShows ==
  ASSUME NEW f \in FrontSet, f.proto # "openai", NEW j \in DOMAIN f.tools, NEW data \in Words,
         NEW m \in Nat, NEW t, NEW a \in Nat, Shows(f, t, m, a)
  PROVE  Shows(Arguments(f, j, data), t, m, a + Len(data))
<1> DEFINE k == WithArgs(f, j, data)
           g == Arguments(f, j, data)
           e == Ev("delta", f.tools[j].at, "tool", data)
           late == Deferred(f, f.tools[j].kind)
<1>1. /\ k \in FrontSet /\ k.proto = f.proto /\ k.written = f.written /\ k.started = f.started
      /\ DOMAIN k.tools = DOMAIN f.tools /\ Len(k.tools) = Len(f.tools)
      /\ k.tools[j].args = f.tools[j].args \o data
      /\ \A i \in DOMAIN f.tools :
           /\ k.tools[i].at = f.tools[i].at /\ k.tools[i].kind = f.tools[i].kind
           /\ k.tools[i].key = f.tools[i].key
           /\ i # j => k.tools[i].args = f.tools[i].args
  BY WithArgsIs
<1>2. g = IF data = <<>> \/ late THEN k ELSE Put(k, e)
  BY DEF Arguments, WithArgs
<1>3. e \in EvSet /\ TextOf(e) = <<>> /\ ArgsOf(e) = data
  <2>1. f.tools[j].at \in Int /\ "delta" \in What /\ "tool" \in EvSort
    BY FrontFields DEF What, EvSort
  <2>2. e \in EvSet /\ e.what = "delta" /\ e.sort = "tool" /\ e.data = data
    BY <2>1, EvIs
  <2> QED
    BY <2>2 DEF TextOf, ArgsOf
<1> HIDE DEF k, g, e
<1>4. Wrote(k, Put(k, e), e, k.open, k.next, k.tools)
  BY <1>1, <1>3, PutIs
<1>5. /\ g \in FrontSet /\ g.proto = f.proto /\ g.tools = k.tools
  BY <1>1, <1>2, <1>4 DEF Wrote
<1>6. Says(f, k, <<>>, <<>>)
  BY <1>1, SaysNothing
<1>7. Says(f, Put(k, e), <<>>, data)
  <2>1. Says(k, Put(k, e), <<>>, data)
    BY <1>1, <1>3, <1>4, SaysWritten
  <2> QED
    BY <1>6, <2>1, SaysThen
<1>8. /\ TextSeen(f) \in Words /\ ArgsSeen(f) \in Words
      /\ Len(ArgsSeen(f)) \in Nat /\ Len(data) \in Nat /\ Len(Concat(LateArgs(f))) \in Nat
  BY SeenTyped, LateIs DEF Words
<1>9. TextSeen(g) = t
  <2>1. TextSeen(f) \o <<>> = TextSeen(f)
    BY <1>8 DEF Words
  <2> QED
    BY <1>2, <1>6, <1>7, <2>1 DEF Says, Shows
<1>10. CallsAre(g, m)
  <2>1. Len(f.tools) = m /\ DOMAIN f.tools = 1 .. m /\ \A i \in 1 .. m : f.tools[i].key = i
    BY LateIs DEF Shows, CallsAre
  <2> QED
    BY <1>1, <1>5, <2>1 DEF CallsAre
<1>11. /\ LateArgs(f) \in Pieces(Word, Len(f.tools)) /\ LateArgs(g) \in Pieces(Word, Len(f.tools))
       /\ DOMAIN f.tools = 1 .. Len(f.tools) /\ Len(f.tools) \in Nat
       /\ \A i \in 1 .. Len(f.tools) :
            LateArgs(f)[i] = LateOf(f, f.tools[i]) /\ LateArgs(g)[i] = LateOf(g, g.tools[i])
  BY <1>1, <1>5, LateIs
<1>12. \A i : LateOf(g, i) = LateOf(f, i)
  BY <1>5, DeferredSame DEF LateOf
<1>13. CASE late
  <2>1. ArgsSeen(g) = ArgsSeen(f)
    <3>1. ArgsSeen(f) \o <<>> = ArgsSeen(f)
      BY <1>8 DEF Words
    <3> QED
      BY <1>2, <1>6, <1>13, <3>1 DEF Says
  <2>2. Len(Concat(LateArgs(g))) = Len(Concat(LateArgs(f))) + Len(data)
    <3> DEFINE u == LateArgs(f)
               v == LateArgs(g)
               n == Len(f.tools)
    <3>1. u[j] = f.tools[j].args /\ v[j] = f.tools[j].args \o data
      <4>1. u[j] = LateOf(f, f.tools[j]) /\ v[j] = LateOf(g, g.tools[j])
        BY <1>11
      <4>2. LateOf(g, g.tools[j]) = LateOf(f, k.tools[j])
        BY <1>5, <1>12
      <4>3. k.tools[j].kind = f.tools[j].kind /\ k.tools[j].args = f.tools[j].args \o data
        BY <1>1
      <4> HIDE DEF u, v
      <4> QED
        BY <1>13, <4>1, <4>2, <4>3 DEF LateOf
    <3>2. f.tools[j].args \in Seq(Word) /\ data \in Seq(Word)
      BY FrontFields DEF Words
    <3>3. Len(v[j]) = Len(u[j]) + Len(data)
      BY <3>1, <3>2
    <3>4. \A i \in 1 .. n : i # j => v[i] = u[i]
      <4> TAKE i \in 1 .. n
      <4> HAVE i # j
      <4>1. g.tools[i].kind = f.tools[i].kind /\ g.tools[i].args = f.tools[i].args
        BY <1>1, <1>5, <1>11
      <4>2. LateOf(f, g.tools[i]) = LateOf(f, f.tools[i])
        BY <4>1 DEF LateOf
      <4> QED
        BY <1>11, <1>12, <4>2
    <3>5. u \in Pieces(Word, n) /\ v \in Pieces(Word, n) /\ n \in Nat /\ j \in 1 .. n
      BY <1>11
    <3> HIDE DEF u, v, n
    <3>6. Len(Concat(v)) = Len(Concat(u)) + Len(data)
      BY <3>2, <3>3, <3>4, <3>5, ConcatLonger, ZenonT(60)
    <3> QED
      BY <3>6 DEF u, v
  <2>3. ArgTotal(g) = a + Len(data)
    <3>1. Len(ArgsSeen(f)) + (Len(Concat(LateArgs(f))) + Len(data))
            = (Len(ArgsSeen(f)) + Len(Concat(LateArgs(f)))) + Len(data)
      BY <1>8, Sums
    <3> QED
      BY <2>1, <2>2, <3>1 DEF ArgTotal, Shows
  <2> QED
    BY <1>5, <1>9, <1>10, <2>3 DEF Shows, g
<1>14. CASE ~late
  <2>1. LateArgs(g) = LateArgs(f)
    <3>1. \A i \in 1 .. Len(f.tools) : LateOf(f, g.tools[i]) = LateOf(f, f.tools[i])
      BY <1>1, <1>5, <1>11, <1>14, ZenonT(60) DEF LateOf
    <3> QED
      BY <1>1, <1>5, <1>11, <1>12, <3>1 DEF LateArgs
  <2>2. Len(ArgsSeen(g)) = Len(ArgsSeen(f)) + Len(data)
    <3>1. CASE data = <<>>
      <4>1. ArgsSeen(f) \o <<>> = ArgsSeen(f) /\ Len(data) = 0
        BY <1>8, <3>1 DEF Words
      <4>2. ArgsSeen(g) = ArgsSeen(f)
        BY <1>2, <1>6, <3>1, <4>1 DEF Says
      <4> QED
        BY <1>8, <4>1, <4>2
    <3>2. CASE data # <<>>
      <4>1. ArgsSeen(g) = ArgsSeen(f) \o data
        BY <1>2, <1>7, <1>14, <3>2 DEF Says
      <4> QED
        BY <1>8, <4>1 DEF Words
    <3> QED
      BY <3>1, <3>2
  <2>3. ArgTotal(g) = a + Len(data)
    <3>1. (Len(ArgsSeen(f)) + Len(data)) + Len(Concat(LateArgs(f)))
            = (Len(ArgsSeen(f)) + Len(Concat(LateArgs(f)))) + Len(data)
      BY <1>8, SumsSwapped
    <3> QED
      BY <2>1, <2>2, <3>1 DEF ArgTotal, Shows
  <2> QED
    BY <1>5, <1>9, <1>10, <2>3 DEF Shows, g
<1> QED
  BY <1>13, <1>14 DEF g

\* A tool Delta shows its call, a new one if the call has no entry, and its arguments.
LEMMA ToolShows ==
  ASSUME NEW f, FrontInv(f), f.started, NEW d \in DeltaSet, NEW m \in Nat, d.key \in 1 .. m + 1,
         NEW t, NEW a \in Nat, Shows(f, t, m, a)
  PROVE  Shows(Tool(f, d), t, IF d.key = m + 1 THEN m + 1 ELSE m, a + Len(d.data))
<1> DEFINE g == NewTool(f, d)
           j == CHOOSE j \in SeenAt(g, d.key) : TRUE
           n == IF d.key = m + 1 THEN m + 1 ELSE m
<1>1. f \in FrontSet /\ f.proto # "openai" /\ d.data \in Words
  BY DEF FrontInv, DeltaSet
<1>2. g \in FrontSet /\ g.proto = f.proto /\ SeenAt(g, d.key) # {}
  BY <1>1, NewToolIs
<1>3. Shows(g, t, n, a) /\ n \in Nat
  BY NewToolShows
<1>4. j \in DOMAIN g.tools
  BY <1>2 DEF SeenAt
<1>5. Tool(f, d) = Arguments(g, j, d.data)
  BY DEF Tool
<1> HIDE DEF g, j, n
<1>6. Shows(Arguments(g, j, d.data), t, n, a + Len(d.data))
  BY <1>1, <1>2, <1>3, <1>4, ArgumentsShows
<1> QED
  BY <1>5, <1>6 DEF n

\* What a Delta adds to an answer of m calls.
TextAdded(d) == IF d.kind = "text" THEN d.data ELSE <<>>

ArgsAdded(d) == IF d.kind = "tool" THEN Len(d.data) ELSE 0

CallsAfter(d, m) == IF d.kind = "tool" /\ d.key = m + 1 THEN m + 1 ELSE m

InOrder(d, m) == d.kind = "tool" => d.key \in 1 .. m + 1

\* Shutting the open items shows nothing more.
LEMMA BothShutShows ==
  ASSUME NEW f, FrontInv(f), NEW t, NEW m, NEW a, Shows(f, t, m, a)
  PROVE  Shows(BothShut(f), t, m, a)
<1> DEFINE g == CloseItem(f, "thinking")
<1>1. "thinking" \in Sorts /\ "text" \in Sorts
  BY DEF Sorts
<1>2. FrontInv(g) /\ Says(f, g, <<>>, <<>>) /\ g.tools = f.tools /\ f.proto # "openai"
  BY <1>1, CloseItemKeeps, StepsSayNothing DEF FrontInv
<1>3. BothShut(f) = CloseItem(g, "text")
  BY DEF BothShut
<1> HIDE DEF g
<1>4. Shows(g, t, m, a)
  BY <1>2, ShowsQuiet
<1>5. /\ Says(g, CloseItem(g, "text"), <<>>, <<>>) /\ CloseItem(g, "text").tools = g.tools
      /\ g.proto # "openai"
  BY <1>1, <1>2, StepsSayNothing DEF FrontInv
<1> QED
  BY <1>3, <1>4, <1>5, ShowsQuiet

\* A block of one sort, opened if need be, and its delta.
LEMMA SaidShows ==
  ASSUME NEW f, FrontInv(f), f.started, NEW s \in Sorts, NEW data \in Words,
         f.proto = "anthropic" => \A r \in Sorts : r # s => f.open[r] = Shut,
         NEW t, NEW m, NEW a, Shows(f, t, m, a)
  PROVE  Shows(Say(OpenItem(f, s), s, data), t \o (IF s = "text" THEN data ELSE <<>>), m, a)
<1> DEFINE g == OpenItem(f, s)
           text == IF s = "text" THEN data ELSE <<>>
<1>1. Says(f, g, <<>>, <<>>) /\ g.tools = f.tools /\ f.proto # "openai"
  BY StepsSayNothing DEF FrontInv
<1>2. g \in FrontSet /\ g.proto # "openai"
  BY <1>1 DEF Says
<1>3. text \in Words
  BY NoWords
<1> HIDE DEF g, text
<1>4. Shows(g, t, m, a)
  BY <1>1, ShowsQuiet
<1>5. Says(g, Say(g, s, data), text, <<>>) /\ Say(g, s, data).tools = g.tools
  BY <1>2, SayShows DEF text
<1>6. Shows(Say(g, s, data), t \o text, m, a)
  BY <1>2, <1>3, <1>4, <1>5, ShowsKept
<1> QED
  BY <1>6 DEF g, text

\* A Delta shows its text, its call and its arguments, in items.
LEMMA BlocksShow ==
  ASSUME NEW f, FrontInv(f), f.started, NEW d \in DeltaSet, NEW m \in Nat, InOrder(d, m),
         NEW t \in Words, NEW a \in Nat, Shows(f, t, m, a)
  PROVE  Shows(Blocks(f, d), t \o TextAdded(d), CallsAfter(d, m), a + ArgsAdded(d))
<1>1. /\ f \in FrontSet /\ f.proto # "openai" /\ d.data \in Words
      /\ d.kind \in {"thinking", "text", "tool", "finish"}
  BY DEF FrontInv, DeltaSet
<1>2. "thinking" \in Sorts /\ "text" \in Sorts /\ \A s \in Sorts : s = "thinking" \/ s = "text"
  BY DEF Sorts
<1>3. f.open \in [Sorts -> Nat \cup {Shut}]
  BY <1>1, FrontFields
<1>4. t \o <<>> = t /\ a + 0 = a
  BY DEF Words
<1>5. /\ Says(f, CloseItem(f, "text"), <<>>, <<>>) /\ CloseItem(f, "text").tools = f.tools
      /\ Says(f, CloseItem(f, "thinking"), <<>>, <<>>) /\ CloseItem(f, "thinking").tools = f.tools
  BY <1>2, StepsSayNothing
<1>6. CASE d.kind = "thinking"
  <2> DEFINE g == BlocksAtThinking(f)
  <2>1. /\ FrontInv(g) /\ g.started /\ g.proto = f.proto /\ Shows(g, t, m, a)
        /\ g.proto = "anthropic" => g.open["text"] = Shut
    <3>1. CASE f.proto = "anthropic"
      <4>1. g = CloseItem(f, "text")
        BY <3>1 DEF BlocksAtThinking
      <4> HIDE DEF g
      <4>2. FrontInv(g)
        BY <1>2, <4>1, CloseItemKeeps
      <4>3. g.open = [f.open EXCEPT !["text"] = Shut] /\ g.started /\ g.proto = f.proto
        BY <1>1, <1>2, <4>1, CloseItemFields
      <4>4. Shows(g, t, m, a)
        BY <1>1, <1>5, <4>1, ShowsQuiet
      <4> QED
        BY <1>2, <1>3, <4>2, <4>3, <4>4
    <3>2. CASE f.proto # "anthropic"
      BY <3>2 DEF BlocksAtThinking
    <3> QED
      BY <3>1, <3>2
  <2>2. Blocks(f, d) = Say(OpenItem(g, "thinking"), "thinking", d.data)
    BY <1>6 DEF Blocks
  <2> HIDE DEF g
  <2>3. g.proto = "anthropic" => \A s \in Sorts : s # "thinking" => g.open[s] = Shut
    BY <1>2, <2>1
  <2>4. Shows(Say(OpenItem(g, "thinking"), "thinking", d.data), t \o <<>>, m, a)
    BY <1>1, <1>2, <2>1, <2>3, SaidShows
  <2> QED
    BY <1>4, <1>6, <2>2, <2>4 DEF TextAdded, ArgsAdded, CallsAfter
<1>7. CASE d.kind = "text"
  <2> DEFINE g == CloseItem(f, "thinking")
  <2>1. FrontInv(g)
    BY <1>2, CloseItemKeeps
  <2>2. g.open = [f.open EXCEPT !["thinking"] = Shut] /\ g.started /\ g.proto = f.proto
    BY <1>1, <1>2, CloseItemFields
  <2>3. Blocks(f, d) = Say(OpenItem(g, "text"), "text", d.data)
    BY <1>7 DEF Blocks
  <2>4. Shows(g, t, m, a)
    BY <1>1, <1>5, ShowsQuiet
  <2> HIDE DEF g
  <2>5. g.open["thinking"] = Shut
    BY <1>2, <1>3, <2>2
  <2>6. g.proto = "anthropic" => \A s \in Sorts : s # "text" => g.open[s] = Shut
    BY <1>2, <2>5
  <2>7. Shows(Say(OpenItem(g, "text"), "text", d.data), t \o d.data, m, a)
    BY <1>1, <1>2, <2>1, <2>2, <2>4, <2>6, SaidShows
  <2> QED
    BY <1>4, <1>7, <2>3, <2>7 DEF TextAdded, ArgsAdded, CallsAfter
<1>8. CASE d.kind = "tool"
  <2> DEFINE g == BeforeTool(f, d)
  <2>1. (g = f /\ f.proto = "responses") \/ g = BothShut(f)
    BY DEF BeforeTool, BothShut
  <2>2. Blocks(f, d) = Tool(g, d)
    BY <1>8 DEF Blocks
  <2> HIDE DEF g
  <2>3. FrontInv(g) /\ g.started
    BY <2>1, BothShutKeeps
  <2>4. Shows(g, t, m, a)
    BY <2>1, BothShutShows
  <2>5. d.key \in 1 .. m + 1
    BY <1>8 DEF InOrder
  <2>6. Shows(Tool(g, d), t, IF d.key = m + 1 THEN m + 1 ELSE m, a + Len(d.data))
    BY <2>3, <2>4, <2>5, ToolShows
  <2> QED
    BY <1>4, <1>8, <2>2, <2>6 DEF TextAdded, ArgsAdded, CallsAfter
<1>9. CASE d.kind = "finish"
  <2>1. Blocks(f, d) = f
    BY <1>9 DEF Blocks
  <2> QED
    BY <1>4, <1>9, <2>1 DEF TextAdded, ArgsAdded, CallsAfter
<1> QED
  BY <1>1, <1>6, <1>7, <1>8, <1>9

\* A front end that has begun has begun after a Delta.
LEMMA BlocksStarted ==
  ASSUME NEW f, FrontInv(f), f.started, NEW d \in DeltaSet
  PROVE  Blocks(f, d).started
<1>1. f \in FrontSet /\ d.data \in Words /\ d.kind \in {"thinking", "text", "tool", "finish"}
  BY DEF FrontInv, DeltaSet
<1>2. "thinking" \in Sorts /\ "text" \in Sorts
  BY DEF Sorts
<1>3. ASSUME NEW h, FrontInv(h), NEW s \in Sorts
      PROVE  Say(OpenItem(h, s), s, d.data).started
  <2>1. OpenItem(h, s) \in FrontSet
    BY <1>3, StepsSayNothing DEF Says
  <2> QED
    BY <1>1, <2>1, SayIs DEF Wrote
<1>4. FrontInv(CloseItem(f, "text")) /\ FrontInv(CloseItem(f, "thinking"))
  BY <1>2, CloseItemKeeps
<1>5. CASE d.kind = "thinking"
  <2>1. FrontInv(BlocksAtThinking(f))
    BY <1>4 DEF BlocksAtThinking
  <2>2. Blocks(f, d) = Say(OpenItem(BlocksAtThinking(f), "thinking"), "thinking", d.data)
    BY <1>5 DEF Blocks
  <2> QED
    BY <1>2, <1>3, <2>1, <2>2
<1>6. CASE d.kind = "text"
  <2>1. Blocks(f, d) = Say(OpenItem(CloseItem(f, "thinking"), "text"), "text", d.data)
    BY <1>6 DEF Blocks
  <2> QED
    BY <1>2, <1>3, <1>4, <2>1
<1>7. CASE d.kind = "tool"
  <2> DEFINE h == BeforeTool(f, d)
             g == NewTool(h, d)
             j == CHOOSE j \in SeenAt(g, d.key) : TRUE
             k == WithArgs(g, j, d.data)
  <2>1. h = f \/ h = BothShut(f)
    BY DEF BeforeTool, BothShut
  <2>2. Blocks(f, d) = Arguments(g, j, d.data)
    BY <1>7 DEF Blocks, Tool
  <2>3. \/ Arguments(g, j, d.data) = k
        \/ Arguments(g, j, d.data) = Put(k, Ev("delta", g.tools[j].at, "tool", d.data))
    BY DEF Arguments, WithArgs
  <2> HIDE DEF h
  <2>4. h \in FrontSet /\ h.started
    BY <2>1, BothShutKeeps DEF FrontInv
  <2>5. g \in FrontSet /\ g.started /\ SeenAt(g, d.key) # {}
    BY <2>4, NewToolIs
  <2>6. j \in DOMAIN g.tools
    BY <2>5 DEF SeenAt
  <2> HIDE DEF g, j
  <2>7. k \in FrontSet /\ k.started
    BY <1>1, <2>5, <2>6, WithArgsIs
  <2>8. Ev("delta", g.tools[j].at, "tool", d.data) \in EvSet
    <3>1. g.tools[j].at \in Int /\ "delta" \in What /\ "tool" \in EvSort
      BY <2>5, <2>6, FrontFields DEF What, EvSort
    <3> QED
      BY <1>1, <3>1, EvIs
  <2> HIDE DEF k
  <2>9. Put(k, Ev("delta", g.tools[j].at, "tool", d.data)).started
    BY <2>7, <2>8, PutIs DEF Wrote
  <2> QED
    BY <2>2, <2>3, <2>7, <2>9
<1>8. CASE d.kind = "finish"
  BY <1>8 DEF Blocks
<1> QED
  BY <1>1, <1>5, <1>6, <1>7, <1>8

(***************************************************************************)
(* Front ends of the three protocols, and one Delta.                       *)
(***************************************************************************)

\* A chat completion that has not ended.
ChunksInv(f) ==
  /\ f \in FrontSet /\ f.proto = "openai" /\ ~f.http /\ f.tools = <<>>
  /\ f.started <=> f.written # <<>>
  /\ \A k \in DOMAIN f.written : f.written[k].what \notin {"end", "error"}

FrontOK(f) == ChunksInv(f) \/ FrontInv(f)

\* A front end before the first Delta.
LEMMA NewFrontOK ==
  ASSUME NEW p \in Protocol
  PROVE  FrontOK(NewFront(p)) /\ Shows(NewFront(p), <<>>, 0, 0) /\ NewFront(p).proto = p
<1> DEFINE f == NewFront(p)
<1>1. /\ f.proto = p /\ ~f.started /\ ~f.http /\ f.next = 0 /\ f.tools = <<>> /\ f.written = <<>>
      /\ f.open = [thinking |-> Shut, text |-> Shut]
  BY DEF NewFront
<1>2. f.open["thinking"] = Shut /\ f.open["text"] = Shut
  BY <1>1
<1>3. f \in FrontSet
  <2>1. /\ [thinking |-> Shut, text |-> Shut] \in [Sorts -> Nat \cup {Shut}]
        /\ [thinking |-> <<>>, text |-> <<>>] \in [Sorts -> Words]
    BY NoWords DEF Sorts
  <2>2. <<>> \in Seq(ToolSet) /\ <<>> \in Seq(EvSet)
        /\ <<>> \in Seq([at : Int, sort : EvSort, data : Words])
    OBVIOUS
  <2> QED
    BY <2>1, <2>2 DEF NewFront, FrontSet
<1> HIDE DEF f
<1>4. DOMAIN f.tools = {} /\ DOMAIN f.written = {} /\ Len(f.tools) = 0
  BY <1>1
<1>5. FrontOK(f)
  <2>1. CASE p = "openai"
    BY <1>1, <1>3, <1>4, <2>1 DEF FrontOK, ChunksInv
  <2>2. CASE p # "openai"
    <3>1. \A s \in Sorts : f.open[s] = Shut
      BY <1>2 DEF Sorts
    <3>2. Places(f)
      BY <1>2, <1>4, <3>1 DEF Places
    <3>3. Stages(f)
      BY <1>1, <1>4 DEF Stages, Untouched
    <3>4. Begun(f) /\ Sorted(f) /\ BlocksInTurn(f)
      BY <1>1, <1>4 DEF Begun, Sorted, BlocksInTurn
    <3> QED
      BY <1>1, <1>3, <2>2, <3>2, <3>3, <3>4 DEF FrontInv, FrontOK
  <2> QED
    BY <2>1, <2>2
<1>6. TextSeen(f) = <<>> /\ ArgsSeen(f) = <<>> /\ Concat(LateArgs(f)) = <<>>
  <2>1. \A g : [i \in {} |-> g[i]] = <<>>
    OBVIOUS
  <2>2. [i \in DOMAIN f.written |-> TextOf(f.written[i])] = <<>>
    BY <1>4
  <2>3. [i \in DOMAIN f.written |-> ArgsOf(f.written[i])] = <<>>
    BY <1>4
  <2>4. LateArgs(f) = <<>>
    BY <1>4 DEF LateArgs
  <2> QED
    BY <1>3, <2>2, <2>3, <2>4, SeenIs, ConcatNothing
<1>7. CallsAre(f, 0)
  <2>1. CallsSeen(f) = {}
    <3>1. ToSet(f.written) = {}
      BY <1>4 DEF ToSet
    <3> QED
      BY <3>1 DEF CallsSeen
  <2>2. 1 .. 0 = {}
    OBVIOUS
  <2> QED
    BY <1>4, <2>1, <2>2 DEF CallsAre
<1>8. Len(<<>>) + Len(<<>>) = 0
  OBVIOUS
<1> QED
  BY <1>1, <1>3, <1>5, <1>6, <1>7, <1>8 DEF Shows, ArgTotal, f

\* One chunk of a chat completion.
LEMMA CompletionKeeps ==
  ASSUME NEW f, ChunksInv(f), NEW d \in DeltaSet
  PROVE  /\ ChunksInv(Completion(f, d)) /\ Completion(f, d).started
         /\ \A m \in Nat, t \in Words, a \in Nat :
              InOrder(d, m) /\ Shows(f, t, m, a)
                => Shows(Completion(f, d), t \o TextAdded(d), CallsAfter(d, m), a + ArgsAdded(d))
<1> DEFINE what == IF d.kind = "finish" THEN "finish" ELSE "delta"
           e == Ev(what, d.key, d.kind, d.data)
           g == Completion(f, d)
<1>1. /\ f \in FrontSet /\ f.proto = "openai" /\ ~f.http /\ f.tools = <<>>
      /\ d.data \in Words /\ d.kind \in {"thinking", "text", "tool", "finish"} /\ d.key \in Nat
  BY DEF ChunksInv, DeltaSet
<1>2. e \in EvSet /\ e.what = what /\ e.sort = d.kind /\ e.at = d.key /\ e.data = d.data
  <2>1. what \in What /\ d.key \in Int /\ d.kind \in EvSort
    BY <1>1 DEF What, EvSort, Sorts
  <2> QED
    BY <1>1, <2>1, EvIs
<1>3. g = Put(f, e)
  BY DEF Completion
<1>4. e.what \notin {"end", "error"} /\ TextOf(e) = TextAdded(d) /\ Len(ArgsOf(e)) = ArgsAdded(d)
  <2>1. Len(<<>>) = 0
    OBVIOUS
  <2> QED
    BY <1>1, <1>2, <2>1 DEF TextOf, ArgsOf, TextAdded, ArgsAdded
<1> HIDE DEF g, e
<1>5. Wrote(f, g, e, f.open, f.next, f.tools)
  BY <1>1, <1>2, <1>3, PutIs
<1>6. Grew(f, g, e, Len(f.written))
  BY <1>1, <1>2, <1>5, WroteIs
<1>7. g \in FrontSet /\ g.proto = "openai" /\ ~g.http /\ g.tools = <<>> /\ g.started
  BY <1>1, <1>5 DEF Wrote
<1>8. ChunksInv(g)
  <2>1. g.written # <<>>
    BY <1>6 DEF Grew
  <2>2. \A k \in DOMAIN g.written : g.written[k].what \notin {"end", "error"}
    BY <1>4, <1>6 DEF Grew, ChunksInv
  <2> QED
    BY <1>7, <2>1, <2>2 DEF ChunksInv
<1>9. ASSUME NEW m \in Nat, NEW t \in Words, NEW a \in Nat, InOrder(d, m), Shows(f, t, m, a)
      PROVE  Shows(g, t \o TextAdded(d), CallsAfter(d, m), a + ArgsAdded(d))
  <2>1. Says(f, g, TextOf(e), ArgsOf(e))
    BY <1>1, <1>2, <1>5, SaysWritten
  <2>2. TextSeen(g) = t \o TextAdded(d)
    BY <1>4, <1>9, <2>1 DEF Says, Shows
  <2>3. Concat(LateArgs(f)) = <<>> /\ Concat(LateArgs(g)) = <<>>
    <3>1. DOMAIN f.tools = {} /\ DOMAIN g.tools = {}
      BY <1>1, <1>7
    <3>2. LateArgs(f) = <<>> /\ LateArgs(g) = <<>>
      BY <3>1 DEF LateArgs
    <3> QED
      BY <3>2, ConcatNothing
  <2>4. ArgTotal(g) = a + ArgsAdded(d)
    <3>1. ArgsSeen(g) = ArgsSeen(f) \o ArgsOf(e)
      BY <2>1 DEF Says
    <3>2. ArgsSeen(f) \in Seq(Word) /\ ArgsOf(e) \in Seq(Word)
      BY <1>1, <1>2, SeenTyped, NoWords DEF ArgsOf, EvSet, Words
    <3>3. Len(ArgsSeen(g)) = Len(ArgsSeen(f)) + Len(ArgsOf(e))
          /\ Len(ArgsSeen(f)) \in Nat /\ Len(ArgsOf(e)) \in Nat
      BY <3>1, <3>2
    <3>4. Len(<<>>) = 0
      OBVIOUS
    <3>5. ArgTotal(g) = Len(ArgsSeen(g)) + 0 /\ a = Len(ArgsSeen(f)) + 0
      BY <1>9, <2>3, <3>4 DEF ArgTotal, Shows
    <3> QED
      BY <1>4, <3>3, <3>5
  <2>5. CallsAre(g, CallsAfter(d, m))
    <3>1. CallsSeen(f) = 1 .. m
      BY <1>1, <1>9 DEF Shows, CallsAre
    <3>2. \A x : x \in ToSet(g.written) <=> x \in ToSet(f.written) \/ x = e
      <4>1. /\ Len(f.written) \in Nat
            /\ DOMAIN g.written = 1 .. Len(f.written) + 1 /\ DOMAIN f.written = 1 .. Len(f.written)
            /\ g.written[Len(f.written) + 1] = e
            /\ \A k \in 1 .. Len(f.written) : g.written[k] = f.written[k]
        BY <1>6 DEF Grew
      <4> QED
        BY <4>1, SMTT(60) DEF ToSet
    <3>3. CallsSeen(g) = CallsSeen(f) \cup (IF d.kind = "tool" THEN {d.key} ELSE {})
      BY <1>2, <3>2 DEF CallsSeen
    <3>4. CallsSeen(g) = 1 .. CallsAfter(d, m)
      BY <1>9, <3>1, <3>3 DEF CallsAfter, InOrder
    <3> QED
      BY <1>7, <3>4 DEF CallsAre
  <2> QED
    BY <1>7, <2>2, <2>4, <2>5 DEF Shows
<1> QED
  BY <1>7, <1>8, <1>9 DEF g

\* One Delta keeps a front end in order, and the answer has begun after it.
LEMMA OnDeltaKeeps ==
  ASSUME NEW f, FrontOK(f), NEW d \in DeltaSet
  PROVE  FrontOK(OnDelta(f, d)) /\ OnDelta(f, d).started
<1>1. CASE ChunksInv(f)
  <2>1. OnDelta(f, d) = Completion(f, d)
    BY <1>1 DEF OnDelta, ChunksInv
  <2> QED
    BY <1>1, <2>1, CompletionKeeps DEF FrontOK
<1>2. CASE FrontInv(f)
  <2>1. OnDelta(f, d) = Blocks(Starts(f), d)
    BY <1>2 DEF OnDelta, FrontInv
  <2>2. FrontInv(Starts(f)) /\ Starts(f).started
    BY <1>2, StartsKeeps
  <2> QED
    BY <2>1, <2>2, BlocksKeep, BlocksStarted DEF FrontOK
<1> QED
  BY <1>1, <1>2 DEF FrontOK

\* It shows what the Delta brings.
LEMMA OnDeltaShows ==
  ASSUME NEW f, FrontOK(f), NEW d \in DeltaSet, NEW m \in Nat, InOrder(d, m),
         NEW t \in Words, NEW a \in Nat, Shows(f, t, m, a)
  PROVE  Shows(OnDelta(f, d), t \o TextAdded(d), CallsAfter(d, m), a + ArgsAdded(d))
<1>1. CASE ChunksInv(f)
  <2>1. OnDelta(f, d) = Completion(f, d)
    BY <1>1 DEF OnDelta, ChunksInv
  <2> QED
    BY <1>1, <2>1, CompletionKeeps
<1>2. CASE FrontInv(f)
  <2>1. OnDelta(f, d) = Blocks(Starts(f), d) /\ f.proto # "openai"
    BY <1>2 DEF OnDelta, FrontInv
  <2>2. FrontInv(Starts(f)) /\ Starts(f).started /\ Starts(f).tools = f.tools
    BY <1>2, StartsKeeps
  <2>3. Says(f, Starts(f), <<>>, <<>>)
    BY <1>2, StepsSayNothing
  <2>4. Shows(Starts(f), t, m, a)
    BY <2>1, <2>2, <2>3, ShowsQuiet
  <2> QED
    BY <2>1, <2>2, <2>4, BlocksShow
<1> QED
  BY <1>1, <1>2 DEF FrontOK

(***************************************************************************)
(* The end of an answer: the calls are closed one after the other.         *)
(***************************************************************************)

\* From f to g only events of item at are written, and they carry args.
Moves(f, g, at, args) ==
  /\ f \in FrontSet /\ g \in FrontSet /\ g.proto = f.proto
  /\ g.tools = f.tools /\ g.next = f.next
  /\ g.started /\ Begun(g) /\ Sorted(g)
  /\ \A i : i # at =>
       /\ Untouched(f.written, i) => Untouched(g.written, i)
       /\ Opened(f.written, i) => Opened(g.written, i)
       /\ Closed(f.written, i) => Closed(g.written, i)
  /\ TextSeen(g) = TextSeen(f) /\ ArgsSeen(g) = ArgsSeen(f) \o args

\* Two moves, one after the other, are a move.
LEMMA MovesThen ==
  ASSUME NEW f, NEW g, NEW h, NEW at, NEW x \in Words, NEW y \in Words,
         Moves(f, g, at, x), Moves(g, h, at, y)
  PROVE  Moves(f, h, at, x \o y)
<1>1. ArgsSeen(f) \in Seq(Word) /\ x \in Seq(Word) /\ y \in Seq(Word)
  BY SeenTyped DEF Moves, Words
<1>2. (ArgsSeen(f) \o x) \o y = ArgsSeen(f) \o (x \o y)
  BY <1>1, JoinJoin
<1>3. ArgsSeen(h) = ArgsSeen(f) \o (x \o y)
  BY <1>2 DEF Moves
<1> QED
  BY <1>3 DEF Moves

\* One event of a call.
LEMMA ToolMoves ==
  ASSUME NEW f \in FrontSet, f.started, Begun(f), Sorted(f),
         NEW j \in DOMAIN f.tools, f.tools[j].at < f.next,
         NEW g, NEW e \in EvSet, Wrote(f, g, e, f.open, f.next, f.tools),
         e.sort = "tool", e.what \in {"open", "delta", "close"}, e.at = f.tools[j].at
  PROVE  /\ Moves(f, g, e.at, e.data) /\ StageStep(f, g, e)
         /\ BlocksInTurn(f) /\ e.what # "open" => BlocksInTurn(g)
<1>1. StageStep(f, g, e)
  BY StagesAfter
<1>2. Grew(f, g, e, Len(f.written))
  BY WroteIs
<1>3. g \in FrontSet /\ g.proto = f.proto /\ g.tools = f.tools /\ g.next = f.next /\ g.started
  BY DEF Wrote
<1>4. Begun(g)
  BY BegunKept
<1>5. Sorted(g)
  <2>1. f.tools[j].at \in Nat /\ f.next \in Nat
    BY FrontFields
  <2>2. e.at \in 0 .. f.next - 1 /\ \E i \in DOMAIN f.tools : f.tools[i].at = e.at
    BY <2>1
  <2>3. ASSUME NEW k \in DOMAIN g.written
        PROVE  (k \in DOMAIN f.written /\ g.written[k] = f.written[k]) \/ g.written[k] = e
    BY <1>2 DEF Grew
  <2> QED
    BY <1>3, <2>2, <2>3 DEF Sorted
<1>6. TextSeen(g) = TextSeen(f) /\ ArgsSeen(g) = ArgsSeen(f) \o e.data
  <2>1. Says(f, g, TextOf(e), ArgsOf(e))
    BY SaysWritten
  <2>2. TextOf(e) = <<>> /\ ArgsOf(e) = e.data
    BY DEF TextOf, ArgsOf
  <2>3. TextSeen(f) \o <<>> = TextSeen(f)
    BY SeenTyped DEF Words
  <2> QED
    BY <2>1, <2>2, <2>3 DEF Says
<1>7. BlocksInTurn(f) /\ e.what # "open" => BlocksInTurn(g)
  BY TurnsKept
<1> QED
  BY <1>1, <1>3, <1>4, <1>5, <1>6, <1>7 DEF Moves, StageStep

\* A call that is at its stage before the end is closed, and what was kept of it
\* is written.
LEMMA CloseToolIs ==
  ASSUME NEW f \in FrontSet, f.started, Begun(f), Sorted(f),
         NEW j \in DOMAIN f.tools, f.tools[j].at < f.next,
         IF Deferred(f, f.tools[j].kind) THEN Untouched(f.written, f.tools[j].at)
         ELSE Opened(f.written, f.tools[j].at)
  PROVE  LET g == CloseTool(f, f.tools[j]) IN
         /\ Moves(f, g, f.tools[j].at, LateOf(f, f.tools[j]))
         /\ Closed(g.written, f.tools[j].at)
         /\ f.proto = "anthropic" /\ BlocksInTurn(f) => BlocksInTurn(g)
<1> DEFINE t == f.tools[j]
           whole == IF t.args = <<>> THEN <<"none">> ELSE t.args
           late == Deferred(f, t.kind)
           fallback == late /\ t.kind = "unreadable"
           oe == Ev("open", t.at, "tool", <<>>)
           de == Ev("delta", t.at, "tool", t.args)
           opened == IF late THEN Put(f, oe) ELSE f
           said == IF late /\ ~fallback THEN Put(opened, de) ELSE opened
           ce == Ev("close", t.at, "tool", IF fallback THEN t.args ELSE <<>>)
           item == [at |-> t.at, sort |-> "tool", data |-> whole]
           g == CloseTool(f, t)
<1>1. t.at \in Nat /\ t.args \in Words /\ t.at \in Int /\ f.next \in Nat
  BY FrontFields
<1>2. "open" \in What /\ "delta" \in What /\ "close" \in What /\ "tool" \in EvSort
  BY DEF What, EvSort
<1>3. /\ oe \in EvSet /\ oe.what = "open" /\ oe.at = t.at /\ oe.sort = "tool" /\ oe.data = <<>>
      /\ de \in EvSet /\ de.what = "delta" /\ de.at = t.at /\ de.sort = "tool" /\ de.data = t.args
  BY <1>1, <1>2, EvIs, NoWords
<1>4. /\ ce \in EvSet /\ ce.what = "close" /\ ce.at = t.at /\ ce.sort = "tool"
      /\ ce.data = IF fallback THEN t.args ELSE <<>>
  BY <1>1, <1>2, EvIs, NoWords
<1>5. item \in [at : Int, sort : EvSort, data : Words]
  <2>1. "none" \in Word
    BY DEF Word
  <2>2. whole \in Words
    BY <1>1, <2>1 DEF Words
  <2> QED
    BY <1>1, <1>2, <2>2
<1>6. g = [Put(said, ce) EXCEPT !.output = Append(@, item)]
  BY DEF CloseTool
<1>7. late => f.proto # "anthropic"
  BY DEF Deferred
<1>8. LateOf(f, t) = IF late THEN t.args ELSE <<>>
  BY DEF LateOf
<1>9. IF late THEN Untouched(f.written, t.at) ELSE Opened(f.written, t.at)
  OBVIOUS
<1>10. t.at < f.next
  OBVIOUS
<1> HIDE DEF oe, de, ce, item, t, late, g
<1>11. ASSUME NEW h \in FrontSet
       PROVE  Wrote(h, [Put(h, ce) EXCEPT !.output = Append(@, item)], ce, h.open, h.next, h.tools)
  <2> DEFINE p == Put(h, ce)
             q == [p EXCEPT !.output = Append(@, item)]
  <2>1. Wrote(h, p, ce, h.open, h.next, h.tools)
    BY <1>4, PutIs
  <2>2. p \in FrontSet
    BY <2>1 DEF Wrote
  <2> HIDE DEF p
  <2>3. /\ q \in FrontSet /\ q.written = p.written /\ q.started = p.started /\ q.open = p.open
        /\ q.next = p.next /\ q.tools = p.tools /\ q.proto = p.proto /\ q.http = p.http
    <3> DEFINE Items == [at : Int, sort : EvSort, data : Words]
    <3>1. p.output \in Seq(Items)
      BY <2>2 DEF FrontSet
    <3>2. item \in Items
      BY <1>5
    <3> HIDE DEF Items
    <3>5. Append(p.output, item) \in Seq(Items)
      BY <3>1, <3>2
    <3>3. PICK out \in Seq(Items) : out = Append(p.output, item)
      BY <3>5
    <3>4. q = [p EXCEPT !.output = out]
      BY <3>3
    <3> QED
      BY <2>2, <3>4 DEF FrontSet, Items
  <2> HIDE DEF q
  <2>4. Wrote(h, q, ce, h.open, h.next, h.tools)
    BY <2>1, <2>3 DEF Wrote
  <2> QED
    BY <2>4 DEF p, q
<1>12. CASE ~late
  <2>1. Wrote(f, g, ce, f.open, f.next, f.tools)
    BY <1>6, <1>11, <1>12
  <2>2. /\ Moves(f, g, ce.at, ce.data) /\ StageStep(f, g, ce)
        /\ BlocksInTurn(f) => BlocksInTurn(g)
    BY <1>4, <1>10, <2>1, ToolMoves DEF t
  <2>3. Closed(g.written, t.at)
    BY <1>4, <1>9, <1>12, <2>2 DEF StageStep
  <2>4. Moves(f, g, t.at, LateOf(f, t))
    BY <1>4, <1>8, <1>12, <2>2
  <2> QED
    BY <2>2, <2>3, <2>4 DEF g, t
<1>13. CASE late
  <2> DEFINE o == Put(f, oe)
  <2>1. Wrote(f, o, oe, f.open, f.next, f.tools)
    BY <1>3, PutIs
  <2>2. Moves(f, o, t.at, <<>>) /\ StageStep(f, o, oe)
    <3>1. Moves(f, o, oe.at, oe.data) /\ StageStep(f, o, oe)
      BY <1>3, <1>10, <2>1, ToolMoves DEF t
    <3> QED
      BY <1>3, <3>1
  <2> HIDE DEF o
  <2>3. Opened(o.written, t.at)
    BY <1>3, <1>9, <1>13, <2>2 DEF StageStep
  <2>4. /\ o \in FrontSet /\ o.started /\ Begun(o) /\ Sorted(o) /\ o.tools = f.tools
        /\ o.next = f.next
    BY <2>2 DEF Moves
  <2>5. o.tools[j] = t /\ o.tools[j].at < o.next /\ j \in DOMAIN o.tools
    BY <1>10, <2>4 DEF t
  <2>6. t.args \in Words /\ <<>> \in Words
    BY <1>1, NoWords
  <2>7. <<>> \o t.args = t.args /\ t.args \o <<>> = t.args
    BY <1>1 DEF Words
  <2>8. CASE fallback
    <3>1. Wrote(o, g, ce, o.open, o.next, o.tools)
      BY <1>6, <1>11, <1>13, <2>4, <2>8 DEF o
    <3>2. Moves(o, g, t.at, t.args) /\ StageStep(o, g, ce)
      <4>1. Moves(o, g, ce.at, ce.data) /\ StageStep(o, g, ce)
        BY <1>4, <2>4, <2>5, <3>1, ToolMoves
      <4> QED
        BY <1>4, <2>8, <4>1
    <3>3. Moves(f, g, t.at, t.args)
      BY <2>2, <2>6, <2>7, <3>2, MovesThen
    <3>4. Closed(g.written, t.at)
      BY <1>4, <2>3, <3>2 DEF StageStep
    <3> QED
      BY <1>7, <1>8, <1>13, <3>3, <3>4 DEF g, t
  <2>9. CASE ~fallback
    <3> DEFINE s == Put(o, de)
    <3>1. Wrote(o, s, de, o.open, o.next, o.tools)
      BY <1>3, <2>4, PutIs
    <3>2. Moves(o, s, t.at, t.args) /\ StageStep(o, s, de)
      <4>1. Moves(o, s, de.at, de.data) /\ StageStep(o, s, de)
        BY <1>3, <2>4, <2>5, <3>1, ToolMoves
      <4> QED
        BY <1>3, <4>1
    <3> HIDE DEF s
    <3>3. Opened(s.written, t.at)
      BY <1>3, <2>3, <3>2 DEF StageStep
    <3>4. /\ s \in FrontSet /\ s.started /\ Begun(s) /\ Sorted(s) /\ s.tools = f.tools
          /\ s.next = f.next
      BY <2>4, <3>2 DEF Moves
    <3>5. s.tools[j] = t /\ s.tools[j].at < s.next /\ j \in DOMAIN s.tools
      BY <1>10, <3>4 DEF t
    <3>6. Wrote(s, g, ce, s.open, s.next, s.tools)
      BY <1>6, <1>11, <1>13, <2>9, <3>4 DEF o, s
    <3>7. Moves(s, g, t.at, <<>>) /\ StageStep(s, g, ce)
      <4>1. Moves(s, g, ce.at, ce.data) /\ StageStep(s, g, ce)
        BY <1>4, <3>4, <3>5, <3>6, ToolMoves
      <4> QED
        BY <1>4, <2>9, <4>1
    <3>8. Moves(o, g, t.at, t.args)
      BY <2>6, <2>7, <3>2, <3>7, MovesThen
    <3>9. Moves(f, g, t.at, t.args)
      BY <2>2, <2>6, <2>7, <3>8, MovesThen
    <3>10. Closed(g.written, t.at)
      BY <1>4, <3>3, <3>7 DEF StageStep
    <3> QED
      BY <1>7, <1>8, <1>13, <3>9, <3>10 DEF g, t
  <2> QED
    BY <2>8, <2>9
<1> QED
  BY <1>12, <1>13

\* The first i calls of b are closed in h, and args is what was kept of them.
ClosedTo(b, i, h, args) ==
  /\ h \in FrontSet /\ h.proto = b.proto /\ h.tools = b.tools /\ h.next = b.next
  /\ h.started /\ Begun(h) /\ Sorted(h)
  /\ \A j \in DOMAIN b.tools :
       IF j <= i THEN Closed(h.written, b.tools[j].at)
       ELSE IF Deferred(b, b.tools[j].kind) THEN Untouched(h.written, b.tools[j].at)
       ELSE Opened(h.written, b.tools[j].at)
  /\ \A x \in 0 .. b.next - 1 :
       Closed(h.written, x) \/ \E j \in DOMAIN b.tools : b.tools[j].at = x
  /\ b.proto = "anthropic" => BlocksInTurn(h)
  /\ TextSeen(h) = TextSeen(b) /\ ArgsSeen(h) = ArgsSeen(b) \o args

\* One more call is closed, with the arguments kept back for it.
LEMMA ClosedOneMore ==
  ASSUME NEW b, FrontInv(b), NEW i \in Nat, i + 1 \in DOMAIN b.tools, NEW h,
         NEW args \in Words, ClosedTo(b, i, h, args)
  PROVE  ClosedTo(b, i + 1, CloseTool(h, b.tools[i + 1]), args \o LateOf(b, b.tools[i + 1]))
<1> DEFINE t == b.tools[i + 1]
           g == CloseTool(h, t)
           late == LateOf(b, t)
<1>1. b \in FrontSet
  BY DEF FrontInv
<1>2. /\ h \in FrontSet /\ h.proto = b.proto /\ h.tools = b.tools /\ h.next = b.next
      /\ h.started /\ Begun(h) /\ Sorted(h)
  BY DEF ClosedTo
<1>3. \A k : Deferred(h, k) <=> Deferred(b, k)
  BY <1>2, DeferredSame
<1>4. /\ t.at < h.next
      /\ \A k \in DOMAIN b.tools : k # i + 1 => b.tools[k].at # t.at
  BY <1>2 DEF FrontInv, Places
<1>5. IF Deferred(h, t.kind) THEN Untouched(h.written, t.at) ELSE Opened(h.written, t.at)
  <2>1. ~(i + 1 <= i)
    OBVIOUS
  <2> QED
    BY <1>3, <2>1 DEF ClosedTo
<1>6. LateOf(h, t) = late
  BY <1>3 DEF LateOf
<1>7. t = h.tools[i + 1] /\ i + 1 \in DOMAIN h.tools
  BY <1>2
<1>8. late \in Words
  BY <1>1, FrontFields, NoWords DEF LateOf
<1> HIDE DEF t, g, late
<1>9. /\ Moves(h, g, t.at, late) /\ Closed(g.written, t.at)
      /\ h.proto = "anthropic" /\ BlocksInTurn(h) => BlocksInTurn(g)
  BY <1>2, <1>4, <1>5, <1>6, <1>7, CloseToolIs DEF g
<1>10. /\ g \in FrontSet /\ g.proto = b.proto /\ g.tools = b.tools /\ g.next = b.next
       /\ g.started /\ Begun(g) /\ Sorted(g)
  BY <1>2, <1>9 DEF Moves
<1>11. \A j \in DOMAIN b.tools :
         IF j <= i + 1 THEN Closed(g.written, b.tools[j].at)
         ELSE IF Deferred(b, b.tools[j].kind) THEN Untouched(g.written, b.tools[j].at)
         ELSE Opened(g.written, b.tools[j].at)
  <2> TAKE j \in DOMAIN b.tools
  <2>1. CASE j = i + 1
    BY <1>9, <2>1 DEF t
  <2>2. CASE j # i + 1
    <3>1. b.tools[j].at # t.at
      BY <1>4, <2>2
    <3>2. j \in Nat
      <4>1. b.tools \in Seq(ToolSet)
        BY <1>1, FrontFields
      <4> QED
        BY <4>1
    <3>3. j <= i + 1 <=> j <= i
      BY <2>2, <3>2
    <3>4. IF j <= i THEN Closed(h.written, b.tools[j].at)
          ELSE IF Deferred(b, b.tools[j].kind) THEN Untouched(h.written, b.tools[j].at)
          ELSE Opened(h.written, b.tools[j].at)
      BY DEF ClosedTo
    <3> QED
      BY <1>9, <3>1, <3>3, <3>4 DEF Moves
  <2> QED
    BY <2>1, <2>2
<1>12. \A x \in 0 .. b.next - 1 :
         Closed(g.written, x) \/ \E j \in DOMAIN b.tools : b.tools[j].at = x
  BY <1>9 DEF ClosedTo, Moves
<1>13. b.proto = "anthropic" => BlocksInTurn(g)
  BY <1>2, <1>9 DEF ClosedTo
<1>14. TextSeen(g) = TextSeen(b) /\ ArgsSeen(g) = ArgsSeen(b) \o (args \o late)
  <2>1. ArgsSeen(b) \in Seq(Word) /\ args \in Seq(Word) /\ late \in Seq(Word)
    BY <1>1, <1>8, SeenTyped DEF Words
  <2>2. (ArgsSeen(b) \o args) \o late = ArgsSeen(b) \o (args \o late)
    BY <2>1, JoinJoin, SMTT(60)
  <2> QED
    BY <1>9, <2>2 DEF Moves, ClosedTo
<1>15. ClosedTo(b, i + 1, g, args \o late)
  BY <1>10, <1>11, <1>12, <1>13, <1>14 DEF ClosedTo
<1> QED
  BY <1>15 DEF g, late, t

\* Everything is closed when an answer ends, and all of it was shown.
LEMMA CloseAllIs ==
  ASSUME NEW f, FrontInv(f), f.started
  PROVE  LET g == CloseAll(f) IN
         /\ g \in FrontSet /\ g.proto = f.proto /\ g.next = f.next /\ g.tools = f.tools
         /\ g.started /\ Begun(g) /\ Sorted(g)
         /\ \A x \in 0 .. f.next - 1 : Closed(g.written, x)
         /\ f.proto = "anthropic" => BlocksInTurn(g)
         /\ TextSeen(g) = TextSeen(f) /\ Len(ArgsSeen(g)) = ArgTotal(f)
<1> DEFINE b == BothShut(f)
           n == Len(f.tools)
           late == LateArgs(b)
<1>1. /\ FrontInv(b) /\ \A s \in Sorts : b.open[s] = Shut
      /\ b.next = f.next /\ b.tools = f.tools /\ b.proto = f.proto /\ b.started
  BY BothShutKeeps
<1>2. f \in FrontSet /\ b \in FrontSet /\ f.proto # "openai"
  BY <1>1 DEF FrontInv
<1>3. n \in Nat /\ DOMAIN f.tools = 1 .. n
  BY <1>2, LateIs
<1>4. /\ late \in Pieces(Word, n) /\ \A j \in 1 .. n : late[j] = LateOf(b, b.tools[j])
      /\ Concat(late) \in Words
  BY <1>1, <1>2, LateIs
<1>5. TextSeen(b) = TextSeen(f) /\ ArgTotal(b) = ArgTotal(f)
  <2> DEFINE c == CloseItem(f, "thinking")
  <2>2. "thinking" \in Sorts /\ "text" \in Sorts
    BY DEF Sorts
  <2>3. FrontInv(c) /\ Says(f, c, <<>>, <<>>) /\ c.tools = f.tools
    BY <2>2, CloseItemKeeps, StepsSayNothing
  <2>4. b = CloseItem(c, "text")
    BY DEF BothShut
  <2> HIDE DEF c, b
  <2>5. Says(c, b, <<>>, <<>>)
    BY <2>2, <2>3, <2>4, StepsSayNothing
  <2>6. Says(f, b, <<>>, <<>>)
    BY <2>3, <2>5, SaysThen
  <2>7. TextSeen(f) \o <<>> = TextSeen(f) /\ ArgsSeen(f) \o <<>> = ArgsSeen(f)
    BY <1>2, SeenTyped DEF Words
  <2>8. LateArgs(b) = LateArgs(f)
    BY <1>1, DeferredSame DEF LateArgs, LateOf
  <2> QED
    BY <2>6, <2>7, <2>8 DEF Says, ArgTotal
<1> HIDE DEF b, n, late
<1>6. PICK h : /\ h[0] = b /\ h[n] = CloseAll(f)
               /\ \A i \in 0 .. n - 1 : h[i + 1] = CloseTool(h[i], f.tools[i + 1])
  <2>1. CloseAll(f) = AfterTools(b, f.tools)
    BY DEF CloseAll, BothShut, b, AfterTools
  <2> QED
    BY <1>3, <2>1, ToolsInTurn
<1>7. PICK c : IsTrace(Word, n, late, c)
  BY <1>3, <1>4, ConcatTrace
<1> DEFINE T == {i \in 0 .. n : ClosedTo(b, i, h[i], c[i])}
<1>8. 0 \in T
  <2>1. c[0] = <<>> /\ ArgsSeen(b) \o <<>> = ArgsSeen(b)
    BY <1>2, <1>7, SeenTyped DEF IsTrace, Words
  <2>2. \A j \in DOMAIN b.tools : ~(j <= 0)
    BY <1>1, <1>3
  <2>3. /\ Places(b) /\ Stages(b) /\ Begun(b) /\ Sorted(b)
        /\ b.proto = "anthropic" => BlocksInTurn(b)
    BY <1>1 DEF FrontInv
  <2>4. \A x \in 0 .. b.next - 1 :
          Closed(b.written, x) \/ \E j \in DOMAIN b.tools : b.tools[j].at = x
    <3>1. \A x \in 0 .. b.next - 1 : \A s \in Sorts : b.open[s] # x
      BY <1>1 DEF Shut
    <3> QED
      BY <2>3, <3>1 DEF Stages
  <2>5. \A j \in DOMAIN b.tools :
          IF Deferred(b, b.tools[j].kind) THEN Untouched(b.written, b.tools[j].at)
          ELSE Opened(b.written, b.tools[j].at)
    BY <2>3 DEF Stages
  <2>6. ClosedTo(b, 0, b, <<>>)
    BY <1>1, <1>2, <2>1, <2>2, <2>3, <2>4, <2>5 DEF ClosedTo
  <2> QED
    BY <1>3, <1>6, <2>1, <2>6
<1>9. \A i \in 0 .. n - 1 : i \in T => i + 1 \in T
  <2> SUFFICES ASSUME NEW i \in 0 .. n - 1, ClosedTo(b, i, h[i], c[i])
               PROVE  ClosedTo(b, i + 1, h[i + 1], c[i + 1]) /\ i + 1 \in 0 .. n
    BY <1>3
  <2>1. i \in Nat /\ i + 1 \in 1 .. n /\ i \in 0 .. n /\ i + 1 \in 0 .. n
    BY <1>3
  <2>2. i + 1 \in DOMAIN b.tools
    BY <1>1, <1>3, <2>1
  <2>3. c[i] \in Words /\ c[i + 1] = c[i] \o LateOf(b, b.tools[i + 1])
    BY <1>4, <1>7, <2>1 DEF IsTrace, Words
  <2>4. h[i + 1] = CloseTool(h[i], b.tools[i + 1])
    BY <1>1, <1>6
  <2>5. ClosedTo(b, i + 1, CloseTool(h[i], b.tools[i + 1]), c[i] \o LateOf(b, b.tools[i + 1]))
    BY <1>1, <2>1, <2>2, <2>3, ClosedOneMore
  <2> QED
    BY <2>1, <2>3, <2>4, <2>5
<1> HIDE DEF T
<1>10. n \in T
  <2>1. \A i \in 0 .. n : i \in T
    BY <1>3, <1>8, <1>9, UpTo
  <2>2. n \in 0 .. n
    BY <1>3
  <2> QED
    BY <2>1, <2>2
<1>11. ClosedTo(b, n, CloseAll(f), Concat(late))
  BY <1>6, <1>7, <1>10 DEF T, IsTrace
<1>12. \A x \in 0 .. f.next - 1 : Closed(CloseAll(f).written, x)
  <2>1. \A j \in DOMAIN b.tools : j <= n
    BY <1>1, <1>3
  <2> QED
    BY <1>1, <1>11, <2>1 DEF ClosedTo
<1>13. Len(ArgsSeen(CloseAll(f))) = ArgTotal(f)
  <2>1. ArgsSeen(b) \in Seq(Word) /\ Concat(late) \in Seq(Word)
    BY <1>2, <1>4, SeenTyped DEF Words
  <2>2. Len(ArgsSeen(b) \o Concat(late)) = Len(ArgsSeen(b)) + Len(Concat(late))
    BY <2>1
  <2> QED
    BY <1>5, <1>11, <2>2 DEF ClosedTo, ArgTotal, late
<1> QED
  BY <1>1, <1>5, <1>11, <1>12, <1>13 DEF ClosedTo

(***************************************************************************)
(* Well-formed answers.                                                    *)
(***************************************************************************)
LEMMA AtMostOne ==
  ASSUME NEW S, \A a, b \in S : a = b
  PROVE  Cardinality(S) <= 1
<1>1. CASE S = {}
  BY <1>1, FS_EmptySet
<1>2. CASE S # {}
  <2>1. PICK a : a \in S
    BY <1>2
  <2>2. S = {a}
    BY <2>1
  <2> QED
    BY <2>2, FS_Singleton
<1> QED
  BY <1>1, <1>2

\* A stream whose items are at their stages is balanced.
LEMMA StagesBalanced ==
  ASSUME NEW f \in FrontSet,
         \A i \in 0 .. f.next - 1 :
           Untouched(f.written, i) \/ Opened(f.written, i) \/ Closed(f.written, i),
         Ended(f) => \A i \in 0 .. f.next - 1 : Closed(f.written, i)
  PROVE  ItemsBalanced(f)
<1> DEFINE opens(i) == Position(f, "open", i)
           closes(i) == Position(f, "close", i)
           deltas(i) == Position(f, "delta", i)
<1>1. DOMAIN f.written \subseteq Nat
  <2>1. f.written \in Seq(EvSet)
    BY FrontFields
  <2> QED
    BY <2>1
<1>2. ASSUME NEW i \in 0 .. f.next - 1
      PROVE  /\ \A a, b \in opens(i) : a = b
             /\ \A a, b \in closes(i) : a = b
             /\ \A c \in closes(i) \cup deltas(i) : \E o \in opens(i) : o < c
             /\ \A c \in closes(i) : \A d \in deltas(i) : d < c
             /\ Ended(f) => opens(i) # {} /\ closes(i) # {}
  <2>1. CASE Untouched(f.written, i) /\ ~Ended(f)
    BY <2>1 DEF Untouched, Position
  <2>2. CASE Opened(f.written, i) /\ ~Ended(f)
    BY <1>1, <2>2 DEF Opened, Position
  <2>3. CASE Closed(f.written, i)
    <3>1. PICK o, c \in DOMAIN f.written :
            /\ o < c /\ f.written[o].what = "open" /\ f.written[o].at = i
            /\ f.written[c].what = "close" /\ f.written[c].at = i
            /\ \A k \in DOMAIN f.written :
                 f.written[k].at = i
                   => k = o \/ k = c \/ (o < k /\ k < c /\ f.written[k].what = "delta")
      BY <2>3 DEF Closed
    <3>2. opens(i) = {o} /\ closes(i) = {c}
      BY <3>1 DEF Position
    <3>3. \A d \in deltas(i) : o < d /\ d < c
      BY <3>1 DEF Position
    <3> HIDE DEF opens, closes, deltas
    <3> QED
      BY <3>1, <3>2, <3>3
  <2> QED
    BY <2>1, <2>2, <2>3
<1>3. \A i \in 0 .. f.next - 1 : Cardinality(opens(i)) <= 1 /\ Cardinality(closes(i)) <= 1
  <2> HIDE DEF opens, closes, deltas
  <2> QED
    BY <1>2, AtMostOne
<1> QED
  BY <1>2, <1>3 DEF ItemsBalanced

\* A stream of Messages or the Responses API that has not ended is well formed.
LEMMA RunningWell ==
  ASSUME NEW f, FrontOK(f)
  PROVE  WellFormedAnswer(f)
<1>1. CASE ChunksInv(f)
  BY <1>1 DEF ChunksInv, WellFormedAnswer, Framed
<1>2. CASE FrontInv(f)
  <2>1. f \in FrontSet /\ Places(f) /\ Stages(f) /\ Begun(f)
        /\ (f.proto = "anthropic" => BlocksInTurn(f))
    BY <1>2 DEF FrontInv
  <2>2. ~Ended(f)
    <3>1. f.written \in Seq(EvSet)
      BY <2>1, FrontFields
    <3>2. \A e \in ToSet(f.written) : \E k \in DOMAIN f.written : e = f.written[k]
      BY DEF ToSet
    <3> QED
      BY <2>1, <3>2 DEF Begun, Ended
  <2>3. \A i \in 0 .. f.next - 1 :
          Untouched(f.written, i) \/ Opened(f.written, i) \/ Closed(f.written, i)
    <3> TAKE i \in 0 .. f.next - 1
    <3>1. CASE \E s \in Sorts : f.open[s] = i
      <4>1. i # Shut
        BY DEF Shut
      <4> QED
        BY <2>1, <3>1, <4>1 DEF Places
    <3>2. CASE \E j \in DOMAIN f.tools : f.tools[j].at = i
      BY <2>1, <3>2 DEF Stages
    <3> QED
      BY <2>1, <3>1, <3>2 DEF Stages
  <2>4. ItemsBalanced(f)
    BY <2>1, <2>2, <2>3, StagesBalanced
  <2>5. Framed(f)
    BY <2>1 DEF Begun, Framed
  <2> QED
    BY <2>1, <2>4, <2>5 DEF WellFormedAnswer
<1> QED
  BY <1>1, <1>2 DEF FrontOK

\* The client was told that the answer is complete.
Complete(f) == \E e \in ToSet(f.written) : e.what = "end"

\* The last event of a stream.
LastEvent(what) == Ev(what, Shut, "answer", <<>>)

\* The last event is an event and carries no data.
LEMMA LastEventIs ==
  ASSUME NEW what \in {"end", "error"}
  PROVE  LET e == LastEvent(what) IN
         /\ e \in EvSet /\ e.what = what /\ e.at = Shut /\ e.sort = "answer"
         /\ TextOf(e) = <<>> /\ ArgsOf(e) = <<>>
<1>1. what \in What /\ "answer" \in EvSort /\ Shut \in Int
  BY DEF What, EvSort, Shut
<1> QED
  BY <1>1, EvIs, NoWords DEF LastEvent, TextOf, ArgsOf

\* What it leaves of the stream before it.
LEMMA LastPut ==
  ASSUME NEW f \in FrontSet, NEW what \in {"end", "error"},
         \A k \in DOMAIN f.written : f.written[k].what \notin {"end", "error"}
  PROVE  LET g == Put(f, LastEvent(what)) IN
         /\ Wrote(f, g, LastEvent(what), f.open, f.next, f.tools)
         /\ Grew(f, g, LastEvent(what), Len(f.written))
         /\ Ended(g) /\ (Complete(g) <=> what = "end")
         /\ TextSeen(g) = TextSeen(f) /\ ArgsSeen(g) = ArgsSeen(f)
         /\ CallsSeen(g) = CallsSeen(f)
<1> DEFINE e == LastEvent(what)
           g == Put(f, e)
           n == Len(f.written)
<1>1. /\ e \in EvSet /\ e.what = what /\ e.at = Shut /\ e.sort = "answer"
      /\ TextOf(e) = <<>> /\ ArgsOf(e) = <<>>
  BY LastEventIs
<1> HIDE DEF e
<1>2. Wrote(f, g, e, f.open, f.next, f.tools)
  BY <1>1, PutIs
<1> HIDE DEF g
<1>3. Grew(f, g, e, n)
  BY <1>1, <1>2, WroteIs
<1>4. /\ n \in Nat /\ DOMAIN f.written = 1 .. n /\ DOMAIN g.written = 1 .. n + 1
      /\ g.written[n + 1] = e /\ \A k \in 1 .. n : g.written[k] = f.written[k]
  BY <1>3 DEF Grew
<1> HIDE DEF n
<1>5. \A x : x \in ToSet(g.written) <=> x \in ToSet(f.written) \/ x = e
  BY <1>4 DEF ToSet
<1>6. \A x \in ToSet(f.written) : x.what \notin {"end", "error"}
  BY DEF ToSet
<1>7. Ended(g) /\ (Complete(g) <=> what = "end")
  BY <1>1, <1>5, <1>6 DEF Ended, Complete
<1>8. TextSeen(g) = TextSeen(f) /\ ArgsSeen(g) = ArgsSeen(f)
  <2>1. Says(f, g, <<>>, <<>>)
    BY <1>1, <1>2, SaysWritten
  <2>2. TextSeen(f) \o <<>> = TextSeen(f) /\ ArgsSeen(f) \o <<>> = ArgsSeen(f)
    BY SeenTyped DEF Words
  <2> QED
    BY <2>1, <2>2 DEF Says
<1>9. CallsSeen(g) = CallsSeen(f)
  <2>1. {x \in ToSet(g.written) : x.sort = "tool"} = {x \in ToSet(f.written) : x.sort = "tool"}
    BY <1>1, <1>5
  <2> QED
    BY <2>1 DEF CallsSeen
<1> QED
  BY <1>2, <1>3, <1>7, <1>8, <1>9 DEF g, e, n

\* With everything closed, the last event makes a well-formed answer.
LEMMA ClosedWell ==
  ASSUME NEW f \in FrontSet, f.proto # "openai", f.started, Begun(f),
         \A i \in 0 .. f.next - 1 : Closed(f.written, i),
         f.proto = "anthropic" => BlocksInTurn(f),
         NEW what \in {"end", "error"}
  PROVE  WellFormedAnswer(Put(f, LastEvent(what)))
<1> DEFINE e == LastEvent(what)
           g == Put(f, e)
           n == Len(f.written)
<1>1. /\ e \in EvSet /\ e.what = what /\ e.at = Shut /\ e.sort = "answer"
  BY LastEventIs
<1>2. \A k \in DOMAIN f.written : f.written[k].what \notin {"end", "error"}
  BY DEF Begun
<1>3. Wrote(f, g, e, f.open, f.next, f.tools) /\ Grew(f, g, e, n)
  BY <1>2, LastPut
<1> HIDE DEF g, e
<1>4. StageStep(f, g, e)
  BY <1>1, <1>3, StagesAfter
<1>5. g \in FrontSet /\ g.next = f.next /\ g.proto = f.proto
  BY <1>3 DEF Wrote
<1>6. \A i \in 0 .. g.next - 1 : Closed(g.written, i)
  BY <1>1, <1>4, <1>5 DEF StageStep, Shut
<1>7. ItemsBalanced(g)
  BY <1>5, <1>6, StagesBalanced
<1>8. f.proto = "anthropic" => BlocksInTurn(g)
  <2>1. e.what # "open"
    BY <1>1
  <2> QED
    BY <1>1, <1>3, <2>1, TurnsKept
<1>9. Framed(g)
  <2>1. /\ n \in Nat /\ DOMAIN f.written = 1 .. n /\ DOMAIN g.written = 1 .. n + 1
        /\ g.written[n + 1] = e /\ \A k \in 1 .. n : g.written[k] = f.written[k]
    BY <1>3 DEF Grew
  <2>2. n # 0
    <3>1. f.written # <<>>
      BY DEF Begun
    <3>2. f.written \in Seq(EvSet)
      BY FrontFields
    <3> QED
      BY <3>1, <3>2
  <2>3. Len(g.written) = n + 1
    <3>1. g.written \in Seq(EvSet)
      BY <1>5, FrontFields
    <3> QED
      BY <2>1, <3>1
  <2> HIDE DEF n
  <2>4. ASSUME NEW j \in DOMAIN g.written
        PROVE  /\ g.written[j].what = "start" <=> j = 1
               /\ g.written[j].what \in {"end", "error"} => j = n + 1
    <3>1. CASE j = n + 1
      BY <1>1, <2>1, <2>2, <3>1
    <3>2. CASE j # n + 1
      <4>1. j \in 1 .. n
        BY <2>1, <3>2
      <4>2. g.written[j] = f.written[j] /\ j \in DOMAIN f.written
        BY <2>1, <4>1
      <4> QED
        BY <4>2 DEF Begun
    <3> QED
      BY <3>1, <3>2
  <2> QED
    BY <2>3, <2>4 DEF Framed
<1>10. WellFormedAnswer(g)
  BY <1>5, <1>7, <1>8, <1>9 DEF WellFormedAnswer
<1> QED
  BY <1>10 DEF g, e

\* A chat completion's last event.
LEMMA ChunksWell ==
  ASSUME NEW f, ChunksInv(f), NEW what \in {"end", "error"}
  PROVE  WellFormedAnswer(Put(f, LastEvent(what)))
<1> DEFINE e == LastEvent(what)
           g == Put(f, e)
           n == Len(f.written)
<1>1. f \in FrontSet /\ f.proto = "openai"
      /\ \A k \in DOMAIN f.written : f.written[k].what \notin {"end", "error"}
  BY DEF ChunksInv
<1>2. Wrote(f, g, e, f.open, f.next, f.tools) /\ Grew(f, g, e, n)
  BY <1>1, LastPut
<1> HIDE DEF g, e
<1>3. g \in FrontSet /\ g.proto = "openai"
  BY <1>1, <1>2 DEF Wrote
<1>4. /\ n \in Nat /\ DOMAIN f.written = 1 .. n /\ DOMAIN g.written = 1 .. n + 1
      /\ \A k \in 1 .. n : g.written[k] = f.written[k]
  BY <1>2 DEF Grew
<1>5. Len(g.written) = n + 1
  <2>1. g.written \in Seq(EvSet)
    BY <1>3, FrontFields
  <2> QED
    BY <1>4, <2>1
<1>6. WellFormedAnswer(g)
  BY <1>1, <1>3, <1>4, <1>5 DEF WellFormedAnswer, Framed
<1> QED
  BY <1>6 DEF g, e

\* A set that is numbered from 1 to m, without repetition, has m members.
LEMMA Numbering ==
  ASSUME NEW m \in Nat, NEW S, NEW g \in [1 .. m -> S],
         \A i, j \in 1 .. m : g[i] = g[j] => i = j,
         \A x \in S : \E i \in 1 .. m : g[i] = x
  PROVE  Cardinality(S) = m
<1>1. g \in Bijection(1 .. m, S)
  BY DEF Bijection, Injection, Surjection, IsInjective
<1>2. ExistsBijection(1 .. m, S)
  BY <1>1 DEF ExistsBijection
<1>3. IsFiniteSet(1 .. m) /\ Cardinality(1 .. m) = m
  BY FS_Interval
<1> QED
  BY <1>2, <1>3, FS_Bijection

\* A successful end: the answer is well formed and shows all there was.
LEMMA SucceededIs ==
  ASSUME NEW f, FrontOK(f), f.started
  PROVE  LET g == Succeeded(f) IN
         /\ WellFormedAnswer(g) /\ Ended(g) /\ Complete(g) /\ g.proto \in Protocol
         /\ \A t, a : \A m \in Nat : Shows(f, t, m, a) =>
              /\ TextSeen(g) = t /\ Cardinality(CallsSeen(g)) = m /\ Len(ArgsSeen(g)) = a
<1> DEFINE g == Succeeded(f)
<1>1. CASE ChunksInv(f)
  <2>1. g = Put(f, LastEvent("end"))
    BY <1>1 DEF Succeeded, LastEvent, ChunksInv
  <2> HIDE DEF g
  <2>2. /\ f \in FrontSet /\ f.proto = "openai" /\ f.tools = <<>>
        /\ \A k \in DOMAIN f.written : f.written[k].what \notin {"end", "error"}
    BY <1>1 DEF ChunksInv
  <2>3. /\ Wrote(f, g, LastEvent("end"), f.open, f.next, f.tools) /\ Ended(g) /\ Complete(g)
        /\ TextSeen(g) = TextSeen(f) /\ ArgsSeen(g) = ArgsSeen(f) /\ CallsSeen(g) = CallsSeen(f)
    BY <2>1, <2>2, LastPut
  <2>4. WellFormedAnswer(g)
    BY <1>1, <2>1, ChunksWell
  <2>5. g.proto \in Protocol
    BY <2>2, <2>3 DEF Wrote, Protocol
  <2>6. ASSUME NEW t, NEW a, NEW m \in Nat, Shows(f, t, m, a)
        PROVE  TextSeen(g) = t /\ Cardinality(CallsSeen(g)) = m /\ Len(ArgsSeen(g)) = a
    <3>1. CallsSeen(f) = 1 .. m
      BY <2>2, <2>6 DEF Shows, CallsAre
    <3>2. Cardinality(1 .. m) = m
      BY FS_Interval
    <3>3. Concat(LateArgs(f)) = <<>>
      <4>1. DOMAIN f.tools = {}
        BY <2>2
      <4>2. LateArgs(f) = <<>>
        BY <4>1 DEF LateArgs
      <4> QED
        BY <4>2, ConcatNothing
    <3>4. Len(ArgsSeen(f)) = a
      <4>1. Len(<<>>) = 0
        OBVIOUS
      <4>2. Len(ArgsSeen(f)) \in Nat
        BY <2>2, LateIs
      <4> QED
        BY <2>6, <3>3, <4>1, <4>2 DEF Shows, ArgTotal
    <3> QED
      BY <2>3, <2>6, <3>1, <3>2, <3>4 DEF Shows
  <2> QED
    BY <2>3, <2>4, <2>5, <2>6 DEF g
<1>2. CASE FrontInv(f)
  <2> DEFINE c == CloseAll(f)
  <2>1. f \in FrontSet /\ f.proto # "openai" /\ Places(f)
    BY <1>2 DEF FrontInv
  <2>2. g = Put(c, LastEvent("end"))
    BY <2>1 DEF Succeeded, LastEvent
  <2>3. /\ c \in FrontSet /\ c.proto = f.proto /\ c.next = f.next /\ c.tools = f.tools
        /\ c.started /\ Begun(c) /\ Sorted(c)
        /\ \A x \in 0 .. f.next - 1 : Closed(c.written, x)
        /\ f.proto = "anthropic" => BlocksInTurn(c)
        /\ TextSeen(c) = TextSeen(f) /\ Len(ArgsSeen(c)) = ArgTotal(f)
    BY <1>2, CloseAllIs
  <2> HIDE DEF c, g
  <2>4. \A k \in DOMAIN c.written : c.written[k].what \notin {"end", "error"}
    BY <2>3 DEF Begun
  <2>5. /\ Wrote(c, g, LastEvent("end"), c.open, c.next, c.tools) /\ Ended(g) /\ Complete(g)
        /\ TextSeen(g) = TextSeen(c) /\ ArgsSeen(g) = ArgsSeen(c) /\ CallsSeen(g) = CallsSeen(c)
    BY <2>2, <2>3, <2>4, LastPut
  <2>6. WellFormedAnswer(g)
    BY <2>1, <2>2, <2>3, ClosedWell
  <2>7. g.proto \in Protocol
    <3>1. g.proto = c.proto
      BY <2>5 DEF Wrote
    <3> QED
      BY <2>3, <3>1, FrontFields
  <2>8. ASSUME NEW t, NEW a, NEW m \in Nat, Shows(f, t, m, a)
        PROVE  TextSeen(g) = t /\ Cardinality(CallsSeen(g)) = m /\ Len(ArgsSeen(g)) = a
    <3>1. Len(f.tools) = m /\ DOMAIN f.tools = 1 .. m
      BY <2>1, <2>8, LateIs DEF Shows, CallsAre
    <3> DEFINE at == [j \in 1 .. m |-> f.tools[j].at]
    <3>2. \A i, j \in 1 .. m : at[i] = at[j] => i = j
      BY <2>1, <3>1 DEF Places
    <3>3. \A x \in CallsSeen(c) : \E j \in 1 .. m : at[j] = x
      <4> TAKE x \in CallsSeen(c)
      <4>1. PICK k \in DOMAIN c.written : c.written[k].sort = "tool" /\ x = c.written[k].at
        BY DEF CallsSeen, ToSet
      <4> QED
        BY <2>3, <3>1, <4>1 DEF Sorted
    <3>4. ASSUME NEW j \in 1 .. m PROVE at[j] \in CallsSeen(c)
      <4>1. f.tools[j].at \in 0 .. f.next - 1
        <5>1. f.tools[j].at \in Nat /\ f.tools[j].at < f.next /\ f.next \in Nat
          BY <2>1, <3>1, FrontFields DEF Places
        <5> QED
          BY <5>1
      <4>2. PICK k \in DOMAIN c.written : c.written[k].at = f.tools[j].at
        BY <2>3, <4>1 DEF Closed
      <4>3. c.written[k].sort = "tool"
        BY <2>3, <3>1, <4>2 DEF Sorted
      <4> QED
        BY <4>2, <4>3 DEF CallsSeen, ToSet
    <3>5. at \in [1 .. m -> CallsSeen(c)]
      BY <3>4
    <3> HIDE DEF at
    <3>6. Cardinality(CallsSeen(c)) = m
      BY <3>2, <3>3, <3>5, Numbering
    <3> QED
      BY <2>3, <2>5, <2>8, <3>6 DEF Shows
  <2> QED
    BY <2>5, <2>6, <2>7, <2>8 DEF g
<1> QED
  BY <1>1, <1>2 DEF FrontOK

\* A failed end: the answer is well formed, and no client takes it for complete.
LEMMA FailedIs ==
  ASSUME NEW f, FrontOK(f)
  PROVE  LET g == Failed(f) IN
         WellFormedAnswer(g) /\ Ended(g) /\ ~Complete(g) /\ g.proto \in Protocol
<1> DEFINE g == Failed(f)
<1>1. f \in FrontSet /\ f.proto \in Protocol
  BY FrontFields DEF FrontOK, ChunksInv, FrontInv
<1>2. CASE f.proto # "anthropic" /\ ~f.started
  <2>1. g = [f EXCEPT !.http = TRUE]
    BY <1>2 DEF Failed
  <2>2. g.written = f.written /\ g.proto = f.proto /\ g.next = f.next /\ g.http /\ g \in FrontSet
    BY <1>1, <2>1 DEF FrontSet
  <2> HIDE DEF g
  <2>3. f.written = <<>>
    BY <1>2 DEF FrontOK, ChunksInv, FrontInv, Begun
  <2>4. DOMAIN g.written = {} /\ ToSet(g.written) = {}
    BY <2>2, <2>3 DEF ToSet
  <2>5. Ended(g) /\ ~Complete(g) /\ Framed(g)
    BY <2>2, <2>4 DEF Ended, Complete, Framed
  <2>6. g.proto # "openai" => ItemsBalanced(g)
    <3>1. ASSUME g.proto # "openai" PROVE 0 .. g.next - 1 = {}
      <4>1. f.next = 0
        BY <1>2, <2>2, <3>1 DEF FrontOK, ChunksInv, FrontInv, Begun
      <4> QED
        BY <2>2, <4>1
    <3> QED
      BY <3>1 DEF ItemsBalanced
  <2> QED
    BY <1>1, <1>2, <2>2, <2>5, <2>6 DEF WellFormedAnswer, g
<1>3. CASE f.proto = "openai" /\ f.started
  <2>1. ChunksInv(f)
    BY <1>3 DEF FrontOK, FrontInv
  <2>2. g = Put(f, LastEvent("error"))
    BY <1>3 DEF Failed, LastEvent
  <2> HIDE DEF g
  <2>3. /\ Wrote(f, g, LastEvent("error"), f.open, f.next, f.tools) /\ Ended(g)
        /\ (Complete(g) <=> "error" = "end")
    BY <1>1, <2>1, <2>2, LastPut DEF ChunksInv
  <2>4. WellFormedAnswer(g)
    BY <2>1, <2>2, ChunksWell
  <2> QED
    BY <1>1, <2>3, <2>4 DEF Wrote, g
<1>4. CASE f.proto # "openai" /\ (f.proto = "anthropic" \/ f.started)
  <2> DEFINE b == IF f.proto = "anthropic" THEN Starts(f) ELSE f
             c == CloseAll(b)
  <2>1. FrontInv(f)
    BY <1>4 DEF FrontOK, ChunksInv
  <2>2. FrontInv(b) /\ b.started /\ b.proto = f.proto
    BY <1>4, <2>1, StartsKeeps
  <2>3. g = Put(c, LastEvent("error"))
    BY <1>1, <1>4 DEF Failed, LastEvent, Protocol
  <2> HIDE DEF b
  <2>4. /\ c \in FrontSet /\ c.proto = b.proto /\ c.next = b.next
        /\ c.started /\ Begun(c)
        /\ \A x \in 0 .. b.next - 1 : Closed(c.written, x)
        /\ b.proto = "anthropic" => BlocksInTurn(c)
    BY <2>2, CloseAllIs
  <2> HIDE DEF c, g
  <2>5. \A k \in DOMAIN c.written : c.written[k].what \notin {"end", "error"}
    BY <2>4 DEF Begun
  <2>6. /\ Wrote(c, g, LastEvent("error"), c.open, c.next, c.tools) /\ Ended(g)
        /\ (Complete(g) <=> "error" = "end")
    BY <2>3, <2>4, <2>5, LastPut
  <2>7. WellFormedAnswer(g)
    BY <1>4, <2>2, <2>3, <2>4, ClosedWell
  <2> QED
    BY <1>1, <2>2, <2>4, <2>6, <2>7 DEF Wrote, g
<1> QED
  BY <1>1, <1>2, <1>3, <1>4

(***************************************************************************)
(* Several Deltas.                                                         *)
(***************************************************************************)
LEMMA DeltasThen ==
  ASSUME NEW b, NEW m \in Nat, NEW n \in Nat, NEW x, NEW y, NEW t,
         DOMAIN x = 1 .. m, DOMAIN y = 1 .. n, IsJoin(t, m, x, n, y)
  PROVE  AfterDeltas(b, t) = AfterDeltas(AfterDeltas(b, x), y)
<1> DEFINE c == AfterDeltas(b, x)
<1>1. PICK g : DeltaRun(b, m + n, t, g)
  <2>1. m + n \in Nat /\ DOMAIN t = 1 .. m + n
    BY DEF IsJoin
  <2> QED
    BY <2>1, DeltasInTurn
<1>2. PICK u : DeltaRun(b, m, x, u)
  BY DeltasInTurn
<1> HIDE DEF c
<1>3. PICK v : DeltaRun(c, n, y, v)
  BY DeltasInTurn
<1> USE DEF DeltaRun
<1>4. g[m] = u[m]
  <2> DEFINE T == {i \in 0 .. m : g[i] = u[i]}
  <2>1. 0 \in T
    BY <1>1, <1>2
  <2>2. \A i \in 0 .. m - 1 : i \in T => i + 1 \in T
    <3> SUFFICES ASSUME NEW i \in 0 .. m - 1, g[i] = u[i]
                 PROVE  i + 1 \in 0 .. m /\ g[i + 1] = u[i + 1]
      OBVIOUS
    <3>1. i \in 0 .. (m + n) - 1 /\ i + 1 \in 1 .. m /\ i + 1 \in 0 .. m
      OBVIOUS
    <3>2. t[i + 1] = x[i + 1]
      BY <3>1 DEF IsJoin
    <3> QED
      BY <1>1, <1>2, <3>1, <3>2
  <2> HIDE DEF T
  <2>3. \A i \in 0 .. m : i \in T
    BY <2>1, <2>2, UpTo
  <2>4. m \in 0 .. m
    OBVIOUS
  <2> QED
    BY <2>3, <2>4 DEF T
<1>5. g[m + n] = v[n]
  <2> DEFINE T == {i \in 0 .. n : g[m + i] = v[i]}
  <2>1. 0 \in T
    BY <1>2, <1>3, <1>4 DEF c
  <2>2. \A i \in 0 .. n - 1 : i \in T => i + 1 \in T
    <3> SUFFICES ASSUME NEW i \in 0 .. n - 1, g[m + i] = v[i]
                 PROVE  i + 1 \in 0 .. n /\ g[m + (i + 1)] = v[i + 1]
      OBVIOUS
    <3>1. /\ m + i \in 0 .. (m + n) - 1 /\ i + 1 \in 1 .. n /\ i + 1 \in 0 .. n
          /\ m + (i + 1) = (m + i) + 1
      OBVIOUS
    <3>2. t[m + (i + 1)] = y[i + 1]
      BY <3>1 DEF IsJoin
    <3>3. g[(m + i) + 1] = OnDelta(g[m + i], t[(m + i) + 1])
      BY <1>1, <3>1
    <3> QED
      BY <1>3, <3>1, <3>2, <3>3
  <2> HIDE DEF T
  <2>3. \A i \in 0 .. n : i \in T
    BY <2>1, <2>2, UpTo
  <2>4. n \in 0 .. n
    OBVIOUS
  <2> QED
    BY <2>3, <2>4 DEF T
<1> QED
  BY <1>1, <1>3, <1>5 DEF c

\* One Delta, and none.
LEMMA FewDeltas ==
  ASSUME NEW b
  PROVE  AfterDeltas(b, <<>>) = b /\ \A d : AfterDeltas(b, <<d>>) = OnDelta(b, d)
<1>1. AfterDeltas(b, <<>>) = b
  <2>1. DOMAIN <<>> = 1 .. 0 /\ 0 \in Nat
    OBVIOUS
  <2> DEFINE s == <<>>
  <2>2. DOMAIN s = 1 .. 0
    BY <2>1
  <2> HIDE DEF s
  <2>3. PICK g : DeltaRun(b, 0, s, g)
    BY <2>1, <2>2, DeltasInTurn
  <2> QED
    BY <2>3 DEF s, DeltaRun
<1>2. ASSUME NEW d PROVE AfterDeltas(b, <<d>>) = OnDelta(b, d)
  <2> DEFINE s == <<d>>
  <2>1. DOMAIN s = 1 .. 1 /\ s[1] = d /\ 1 \in Nat /\ 0 \in 0 .. 1 - 1 /\ 0 + 1 = 1
    OBVIOUS
  <2> HIDE DEF s
  <2>2. PICK g : DeltaRun(b, 1, s, g)
    BY <2>1, DeltasInTurn
  <2> USE DEF DeltaRun
  <2>3. g[0 + 1] = OnDelta(g[0], s[0 + 1])
    BY <2>1, <2>2
  <2> QED
    BY <2>1, <2>2, <2>3 DEF s
<1> QED
  BY <1>1, <1>2

\* The Deltas of n calls, in the order of their keys.
AreCalls(ds, n, a) ==
  /\ ds \in [1 .. n -> DeltaSet]
  /\ \A i \in 1 .. n : ds[i].kind = "tool" /\ ds[i].key = i
  /\ a[0] = 0
  /\ \A i \in 0 .. n : a[i] \in Nat
  /\ \A i \in 0 .. n - 1 : a[i + 1] = a[i] + Len(ds[i + 1].data)

\* The Deltas of the calls of an answer show its calls and their arguments.
LEMMA CallsShow ==
  ASSUME NEW f, FrontOK(f), NEW n \in Nat, NEW ds, NEW a, AreCalls(ds, n, a),
         NEW t \in Words, Shows(f, t, 0, 0)
  PROVE  /\ FrontOK(AfterDeltas(f, ds)) /\ Shows(AfterDeltas(f, ds), t, n, a[n])
         /\ n # 0 \/ f.started => AfterDeltas(f, ds).started
<1>1. DOMAIN ds = 1 .. n /\ \A i \in 1 .. n : ds[i] \in DeltaSet
  BY DEF AreCalls
<1>2. PICK g : DeltaRun(f, n, ds, g)
  BY <1>1, DeltasInTurn
<1> USE DEF DeltaRun
<1> DEFINE T == {i \in 0 .. n : /\ FrontOK(g[i]) /\ Shows(g[i], t, i, a[i])
                                /\ i # 0 \/ f.started => g[i].started}
<1>3. 0 \in T
  BY <1>2 DEF AreCalls
<1>4. \A i \in 0 .. n - 1 : i \in T => i + 1 \in T
  <2> SUFFICES ASSUME NEW i \in 0 .. n - 1, FrontOK(g[i]), Shows(g[i], t, i, a[i])
               PROVE  /\ i + 1 \in 0 .. n /\ FrontOK(g[i + 1]) /\ Shows(g[i + 1], t, i + 1, a[i + 1])
                      /\ g[i + 1].started
    OBVIOUS
  <2> DEFINE d == ds[i + 1]
  <2>1. /\ i \in Nat /\ i + 1 \in 1 .. n /\ i + 1 \in 0 .. n /\ i \in 0 .. n
        /\ i + 1 \in 1 .. i + 1
    OBVIOUS
  <2>2. d \in DeltaSet /\ d.kind = "tool" /\ d.key = i + 1 /\ a[i] \in Nat
        /\ a[i + 1] = a[i] + Len(d.data)
    BY <2>1 DEF AreCalls
  <2>3. g[i + 1] = OnDelta(g[i], d)
    BY <1>2
  <2> HIDE DEF d
  <2>4. InOrder(d, i) /\ TextAdded(d) = <<>> /\ CallsAfter(d, i) = i + 1 /\ ArgsAdded(d) = Len(d.data)
    BY <2>1, <2>2 DEF InOrder, TextAdded, CallsAfter, ArgsAdded
  <2>5. Shows(OnDelta(g[i], d), t \o TextAdded(d), CallsAfter(d, i), a[i] + ArgsAdded(d))
    BY <2>1, <2>2, <2>4, OnDeltaShows
  <2>6. t \o <<>> = t
    BY DEF Words
  <2>7. FrontOK(OnDelta(g[i], d)) /\ OnDelta(g[i], d).started
    BY <2>2, OnDeltaKeeps
  <2> QED
    BY <2>1, <2>2, <2>3, <2>4, <2>5, <2>6, <2>7
<1> HIDE DEF T
<1>5. \A i \in 0 .. n : i \in T
  BY <1>3, <1>4, UpTo
<1>6. n \in 0 .. n
  OBVIOUS
<1> QED
  BY <1>2, <1>5, <1>6 DEF T

\* The reader's Deltas are Deltas.
LEMMA DeltaIs ==
  /\ FinishDelta \in DeltaSet
  /\ \A w \in Words : ThinkingDelta(w) \in DeltaSet /\ TextDelta(w) \in DeltaSet
  /\ \A w \in Words : \A k \in Nat : \A kind \in Kinds : ToolDelta(k, kind, w) \in DeltaSet
BY NoWords DEF FinishDelta, ThinkingDelta, TextDelta, ToolDelta, DeltaSet, Kinds

\* Text that is sent if there is any.
LEMMA TextShows ==
  ASSUME NEW f, FrontOK(f), NEW w \in Words
  PROVE  LET g == AfterDeltas(f, TextIf(w)) IN
         /\ FrontOK(g) /\ (f.started => g.started) /\ (w = <<>> => g = f)
         /\ \A t \in Words, m \in Nat, a \in Nat : Shows(f, t, m, a) => Shows(g, t \o w, m, a)
<1>1. CASE w = <<>>
  <2>1. AfterDeltas(f, TextIf(w)) = f
    BY <1>1, FewDeltas DEF TextIf
  <2>2. \A t \in Words : t \o <<>> = t
    BY DEF Words
  <2> QED
    BY <1>1, <2>1, <2>2
<1>2. CASE w # <<>>
  <2> DEFINE d == TextDelta(w)
  <2>1. AfterDeltas(f, TextIf(w)) = OnDelta(f, d)
    BY <1>2, FewDeltas DEF TextIf
  <2>2. d \in DeltaSet
    BY DeltaIs
  <2>3. \A m \in Nat : InOrder(d, m) /\ TextAdded(d) = w /\ CallsAfter(d, m) = m /\ ArgsAdded(d) = 0
    BY DEF TextDelta, InOrder, TextAdded, CallsAfter, ArgsAdded
  <2> HIDE DEF d
  <2>4. FrontOK(OnDelta(f, d)) /\ OnDelta(f, d).started
    BY <2>2, OnDeltaKeeps
  <2>5. ASSUME NEW t \in Words, NEW m \in Nat, NEW a \in Nat, Shows(f, t, m, a)
        PROVE  Shows(OnDelta(f, d), t \o w, m, a)
    <3>1. Shows(OnDelta(f, d), t \o TextAdded(d), CallsAfter(d, m), a + ArgsAdded(d))
      BY <2>2, <2>3, <2>5, OnDeltaShows
    <3>2. a + 0 = a
      OBVIOUS
    <3> QED
      BY <2>3, <3>1, <3>2
  <2> QED
    BY <1>2, <2>1, <2>4, <2>5
<1> QED
  BY <1>1, <1>2

\* The last Delta of an answer.
LEMMA FinishShows ==
  ASSUME NEW f, FrontOK(f)
  PROVE  LET g == OnDelta(f, FinishDelta) IN
         /\ FrontOK(g) /\ g.started
         /\ \A t \in Words, m \in Nat, a \in Nat : Shows(f, t, m, a) => Shows(g, t, m, a)
<1> DEFINE d == FinishDelta
<1>1. d \in DeltaSet
  BY DeltaIs
<1>2. \A m \in Nat : InOrder(d, m) /\ TextAdded(d) = <<>> /\ CallsAfter(d, m) = m /\ ArgsAdded(d) = 0
  BY DEF FinishDelta, InOrder, TextAdded, CallsAfter, ArgsAdded
<1> HIDE DEF d
<1>3. FrontOK(OnDelta(f, d)) /\ OnDelta(f, d).started
  BY <1>1, OnDeltaKeeps
<1>4. ASSUME NEW t \in Words, NEW m \in Nat, NEW a \in Nat, Shows(f, t, m, a)
      PROVE  Shows(OnDelta(f, d), t, m, a)
  <2>1. Shows(OnDelta(f, d), t \o TextAdded(d), CallsAfter(d, m), a + ArgsAdded(d))
    BY <1>1, <1>2, <1>4, OnDeltaShows
  <2>2. a + 0 = a /\ t \o <<>> = t
    BY DEF Words
  <2> QED
    BY <1>2, <2>1, <2>2
<1> QED
  BY <1>3, <1>4 DEF d

(***************************************************************************)
(* Simulated tool calls.                                                   *)
(***************************************************************************)

\* No piece of s up to the n-th begins a call.
NoCallBefore(s, n) ==
  \A k \in 1 .. n : s[k] = "start" => k < Len(s) /\ s[k + 1] \notin {"rest", "odd"}

\* What may be sent holds no beginning of a marker.
LEMMA SafeIs ==
  ASSUME NEW s \in Seq(Piece)
  PROVE  SafeLength(s) \in 0 .. Len(s) /\ NoCallBefore(s, SafeLength(s))
<1> DEFINE n == Len(s)
           viable == {k \in 1 .. n : Viable(SubSeq(s, k, n))}
<1>1. n \in Nat /\ DOMAIN s = 1 .. n
  OBVIOUS
<1>2. ASSUME NEW k \in 1 .. n, s[k] = "start", k < n => s[k + 1] \in {"rest", "odd"}
      PROVE  k \in viable
  <2> DEFINE z == SubSeq(s, k, n)
  <2>1. z \in Seq(Piece) /\ Len(z) = n - k + 1 /\ z[1] = s[k]
    OBVIOUS
  <2>2. k < n => z[2] = s[k + 1]
    OBVIOUS
  <2> HIDE DEF z, n
  <2>3. z # <<>>
    <3>1. Len(z) # 0
      BY <1>1, <2>1
    <3>2. Len(<<>>) = 0
      OBVIOUS
    <3> QED
      BY <3>1, <3>2
  <2>4. Len(z) = 1 \/ k < n
    BY <1>1, <2>1
  <2>5. Viable(z)
    BY <1>2, <2>1, <2>2, <2>3, <2>4 DEF Viable
  <2> QED
    BY <1>1, <2>5 DEF z
<1>3. SafeLength(s) = IF viable = {} THEN n ELSE Min(viable) - 1
  BY DEF SafeLength
<1> HIDE DEF n
<1>4. CASE viable = {}
  <2>1. NoCallBefore(s, n)
    BY <1>1, <1>2, <1>4 DEF NoCallBefore, n
  <2> QED
    BY <1>1, <1>3, <1>4, <2>1 DEF n
<1>5. CASE viable # {}
  <2>1. viable \subseteq Nat
    BY <1>1
  <2>2. \E x \in viable : \A y \in viable : x <= y
    BY <1>5, <2>1, LeastOf
  <2>3. Min(viable) \in viable /\ \A y \in viable : Min(viable) <= y
    BY <2>2 DEF Min
  <2> DEFINE m == Min(viable)
  <2>4. m \in 1 .. n /\ \A y \in viable : m <= y
    BY <2>3
  <2> HIDE DEF m
  <2>5. m - 1 \in 0 .. n /\ \A k \in 1 .. m - 1 : k \in 1 .. n /\ ~(m <= k)
    BY <1>1, <2>4
  <2>6. \A k \in 1 .. m - 1 : k \notin viable
    BY <2>4, <2>5
  <2> HIDE DEF viable
  <2>7. \A k \in 1 .. m - 1 : s[k] = "start" => k < n /\ s[k + 1] \notin {"rest", "odd"}
    BY <1>2, <2>5, <2>6
  <2>8. SafeLength(s) = m - 1
    BY <1>3, <1>5 DEF m
  <2> QED
    BY <2>5, <2>7, <2>8 DEF NoCallBefore, n
<1> QED
  BY <1>4, <1>5

\* A sequence is its elements, put together.
Singles(s) == [i \in DOMAIN s |-> <<s[i]>>]

\* ... which are pieces of it.
LEMMA SinglesAre ==
  ASSUME NEW T, NEW s \in Seq(T)
  PROVE  Concat(Singles(s)) = s /\ Singles(s) \in Pieces(T, Len(s))
<1> DEFINE n == Len(s)
           x == Singles(s)
           g == [i \in 0 .. n |-> SubSeq(s, 1, i)]
<1>1. n \in Nat /\ DOMAIN x = 1 .. n /\ \A i \in 1 .. n : x[i] = <<s[i]>> /\ s[i] \in T
  BY DEF Singles
<1>2. g[0] = <<>> /\ g[n] = s
  OBVIOUS
<1>3. ASSUME NEW i \in 0 .. n - 1 PROVE g[i + 1] = g[i] \o x[i + 1]
  <2>1. i + 1 \in 1 .. n /\ i \in 0 .. n /\ i + 1 \in 0 .. n
    OBVIOUS
  <2>2. x[i + 1] = <<s[i + 1]>>
    BY <1>1, <2>1
  <2>3. SubSeq(s, 1, i + 1) = SubSeq(s, 1, i) \o <<s[i + 1]>>
    BY <2>1
  <2> QED
    BY <2>1, <2>2, <2>3
<1>4. x \in Pieces(T, n)
  BY <1>1 DEF Pieces, Singles
<1> HIDE DEF g, x, n
<1>5. Concat(x) = g[n]
  BY <1>1, <1>2, <1>3, ConcatIs, ZenonT(60)
<1> QED
  BY <1>2, <1>4, <1>5 DEF x, n

\* The calls of an answer are those of what was held back of it.
LEMMA CallsHeld ==
  ASSUME NEW t \in Seq(Piece), NEW h \in Seq(Piece), NoCallBefore(t \o h, Len(t))
  PROVE  /\ Without(t \o h, CallsIn(t \o h)) = t \o Without(h, CallsIn(h))
         /\ Cardinality(CallsIn(t \o h)) = Cardinality(CallsIn(h))
         /\ Cardinality(CallsIn(h)) \in Nat
         /\ Without(h, CallsIn(h)) \in Seq(Piece)
<1> DEFINE m == Len(t)
           n == Len(h)
           s == t \o h
           A == CallsIn(s)
           B == CallsIn(h)
<1>1. /\ m \in Nat /\ n \in Nat /\ s \in Seq(Piece) /\ Len(s) = m + n
      /\ DOMAIN t = 1 .. m /\ DOMAIN h = 1 .. n /\ DOMAIN s = 1 .. m + n
      /\ \A k \in 1 .. m : s[k] = t[k]
      /\ \A k \in 1 .. n : s[m + k] = h[k]
  OBVIOUS
<1>2. A = {k \in 1 .. (m + n) - 1 : s[k] = "start" /\ s[k + 1] = "rest"}
  BY <1>1 DEF CallsIn
<1>3. B = {k \in 1 .. n - 1 : h[k] = "start" /\ h[k + 1] = "rest"}
  BY DEF CallsIn
<1>4. \A k \in 1 .. m : s[k] = "start" => s[k + 1] # "rest"
  BY DEF NoCallBefore
<1> HIDE DEF s, m, n, A, B
<1>5. \A k \in A : k - m \in B /\ k \in Nat /\ k > m
  <2> TAKE k \in A
  <2>1. k \in 1 .. (m + n) - 1 /\ s[k] = "start" /\ s[k + 1] = "rest"
    BY <1>2
  <2>2. k \notin 1 .. m
    BY <1>4, <2>1
  <2>3. k - m \in 1 .. n - 1 /\ k - m \in 1 .. n /\ (k - m) + 1 \in 1 .. n
        /\ m + (k - m) = k /\ m + ((k - m) + 1) = k + 1 /\ k \in Nat /\ k > m
    BY <1>1, <2>1, <2>2
  <2>4. s[m + (k - m)] = h[k - m] /\ s[m + ((k - m) + 1)] = h[(k - m) + 1]
    BY <1>1, <2>3
  <2> QED
    BY <1>3, <2>1, <2>3, <2>4
<1>6. \A k \in B : m + k \in A /\ k \in 1 .. n
  <2> TAKE k \in B
  <2>1. k \in 1 .. n - 1 /\ h[k] = "start" /\ h[k + 1] = "rest"
    BY <1>3
  <2>2. k \in 1 .. n /\ k + 1 \in 1 .. n /\ m + k \in 1 .. (m + n) - 1 /\ m + (k + 1) = (m + k) + 1
    BY <1>1, <2>1
  <2>3. s[m + k] = h[k] /\ s[m + (k + 1)] = h[k + 1]
    BY <1>1, <2>2
  <2> QED
    BY <1>2, <2>1, <2>2, <2>3
<1>7. IsFiniteSet(B) /\ Cardinality(B) \in Nat
  <2>1. IsFiniteSet(1 .. n) /\ B \in SUBSET (1 .. n)
    BY <1>1, <1>6, FS_Interval
  <2> QED
    BY <2>1, FS_Subset, FS_CardinalityType
<1>8. Cardinality(A) = Cardinality(B)
  <2> DEFINE f == [k \in B |-> m + k]
  <2>1. f \in [B -> A]
    BY <1>6
  <2>2. \A i, j \in B : f[i] = f[j] => i = j
    BY <1>1, <1>6
  <2>3. \A x \in A : \E k \in B : f[k] = x
    <3> TAKE x \in A
    <3>1. x - m \in B /\ m + (x - m) = x
      BY <1>1, <1>5
    <3> QED
      BY <3>1
  <2> HIDE DEF f
  <2>4. f \in Bijection(B, A)
    BY <2>1, <2>2, <2>3 DEF Bijection, Injection, Surjection, IsInjective
  <2>5. ExistsBijection(B, A)
    BY <2>4 DEF ExistsBijection
  <2> QED
    BY <1>7, <2>5, FS_Bijection
<1> DEFINE goneA == A \cup {k + 1 : k \in A}
           goneB == B \cup {k + 1 : k \in B}
           keptA == [k \in DOMAIN s |-> IF k \in goneA THEN <<>> ELSE <<s[k]>>]
           keptB == [k \in DOMAIN h |-> IF k \in goneB THEN <<>> ELSE <<h[k]>>]
<1>9. Without(s, A) = Concat(keptA) /\ Without(h, B) = Concat(keptB)
  BY DEF Without
<1>10. \A k \in 1 .. m : k \notin goneA
  BY <1>1, <1>5
<1>11. \A k \in 1 .. n : m + k \in goneA <=> k \in goneB
  <2> TAKE k \in 1 .. n
  <2>1. m + k \in A <=> k \in B
    <3>1. (m + k) - m = k
      BY <1>1
    <3> QED
      BY <1>5, <1>6, <3>1
  <2>2. m + k \in {j + 1 : j \in A} <=> k \in {j + 1 : j \in B}
    <3>1. ASSUME NEW j \in A, m + k = j + 1 PROVE \E i \in B : k = i + 1
      <4>1. j - m \in B /\ k = (j - m) + 1
        BY <1>1, <1>5, <3>1
      <4> QED
        BY <4>1
    <3>2. ASSUME NEW j \in B, k = j + 1 PROVE \E i \in A : m + k = i + 1
      <4>1. m + j \in A /\ m + k = (m + j) + 1
        BY <1>1, <1>6, <3>2
      <4> QED
        BY <4>1
    <3> QED
      BY <3>1, <3>2
  <2> QED
    BY <2>1, <2>2
<1> HIDE DEF goneA, goneB
<1>12. keptB \in Pieces(Piece, n)
  <2>1. \A k \in 1 .. n : h[k] \in Piece
    BY <1>1 DEF n
  <2>2. \A k \in 1 .. n : <<h[k]>> \in Seq(Piece)
    BY <2>1
  <2> QED
    BY <1>1, <2>2 DEF Pieces
<1>13. Concat(Singles(t)) = t /\ Singles(t) \in Pieces(Piece, m)
  BY SinglesAre DEF m
<1>14. IsJoin(keptA, m, Singles(t), n, keptB)
  <2>1. DOMAIN keptA = 1 .. m + n
    BY <1>1
  <2>2. \A k \in 1 .. m : keptA[k] = Singles(t)[k]
    <3> TAKE k \in 1 .. m
    <3>1. k \in 1 .. m + n
      BY <1>1
    <3> QED
      BY <1>1, <1>10, <3>1 DEF Singles
  <2>3. \A k \in 1 .. n : keptA[m + k] = keptB[k]
    <3> TAKE k \in 1 .. n
    <3>1. m + k \in 1 .. m + n
      BY <1>1
    <3> QED
      BY <1>1, <1>11, <3>1
  <2> QED
    BY <2>1, <2>2, <2>3 DEF IsJoin
<1> HIDE DEF keptA, keptB
<1>15. Concat(keptA) = t \o Concat(keptB)
  <2> DEFINE st == Singles(t)
  <2>1. st \in Pieces(Piece, m) /\ IsJoin(keptA, m, st, n, keptB) /\ Concat(st) = t
    BY <1>13, <1>14
  <2>2. m \in Nat /\ n \in Nat /\ keptB \in Pieces(Piece, n)
    BY <1>1, <1>12
  <2> HIDE DEF st
  <2>3. Concat(keptA) = Concat(st) \o Concat(keptB)
    BY <2>1, <2>2, ConcatJoin, SMTT(60)
  <2> QED
    BY <2>1, <2>3
<1>16. Concat(keptB) \in Seq(Piece)
  BY <1>1, <1>12, ConcatTyped
<1> QED
  BY <1>7, <1>8, <1>9, <1>15, <1>16 DEF s, A, B

(***************************************************************************)
(* The invariant.                                                          *)
(***************************************************************************)

\* The types; text is held back only for declared tools.
Typed ==
  /\ declared \in BOOLEAN /\ emitted \in BOOLEAN
  /\ progress \in {"streaming", "failed", "over"}
  /\ tries \in 1 .. MaxTries /\ heard \in 0 .. MaxEvents
  /\ received \in Seq(Piece) /\ held \in Seq(Piece)
  /\ ~declared => held = <<>>
  /\ front.proto \in Protocol
  /\ cut \in {"no", "early", "late"}

\* The reader has numbered the calls it has seen, and native has an entry of
\* each with the pieces of its arguments.
Reading ==
  /\ reader \in Reader /\ IsInjective(reader.ids)
  /\ reader.tool <=> reader.ids # <<>>
  /\ IF reader.last = NoId THEN reader.ids = <<>> ELSE reader.last \in ToSet(reader.ids)
  /\ native \in Seq(Words) /\ Len(native) = Len(reader.ids)
  /\ fragments \in Nat /\ Len(Concat(native)) = fragments

\* Until the end the front end is in order, and as new while nothing was emitted.
Fronted ==
  progress # "over" => FrontOK(front) /\ (~emitted => front = NewFront(front.proto))

\* What was sent, with what is held back, is what was received; what was sent has
\* no beginning of a marker in it.
TextHeld ==
  LET sent == TextSeen(front) IN
  /\ sent \in Seq(Piece) /\ received = sent \o held
  /\ Shows(front, sent, 0, 0)
  /\ NoCallBefore(received, Len(sent))

\* A client would have read what was received: with declared tools the calls of
\* the text and the native ones come only at the end.
Streaming ==
  progress = "streaming" =>
    IF declared /\ ~reader.tool THEN TextHeld
    ELSE /\ held = <<>>
         /\ IF declared THEN Shows(front, received, 0, 0)
            ELSE Shows(front, received, Len(reader.ids), fragments)

\* An attempt that has failed holds nothing back and is no answer.
AfterFailure == progress = "failed" => ~Whole /\ held = <<>>

\* What the theorems say of an answer that is over.
AtTheEnd == progress = "over" => WellFormedAnswer(front) /\ ClientSeesTheAnswer

AInv == Typed /\ Reading /\ Fronted /\ Streaming /\ AfterFailure /\ AtTheEnd

\* A text is made of words.
LEMMA PiecesAreWords == \A w \in Seq(Piece) : w \in Words
BY DEF Words, Word

\* Nothing has been heard, and the front end is new.
LEMMA AInvInit == AnswerInit => AInv
<1> SUFFICES ASSUME AnswerInit PROVE AInv
  OBVIOUS
<1>1. PICK p \in Protocol : front = NewFront(p)
  BY DEF AnswerInit
<1>2. FrontOK(front) /\ Shows(front, <<>>, 0, 0) /\ front.proto = p
  BY <1>1, NewFrontOK
<1>3. Typed
  <2>1. 1 \in 1 .. MaxTries /\ 0 \in 0 .. MaxEvents
    BY AnswerAssumption
  <2>2. <<>> \in Seq(Piece) /\ FALSE \in BOOLEAN
    OBVIOUS
  <2>3. front.proto \in Protocol
    BY <1>2
  <2> QED
    BY <2>1, <2>2, <2>3 DEF AnswerInit, Typed
<1>4. Reading
  <2>1. NewReader \in Reader
    BY DEF NewReader, Reader
  <2>2. /\ reader = NewReader /\ NewReader.ids = <<>> /\ NewReader.last = NoId /\ ~NewReader.tool
        /\ native = <<>> /\ fragments = 0
    BY DEF AnswerInit, NewReader
  <2>3. IsInjective(<<>>)
    BY DEF IsInjective
  <2>4. Len(Concat(<<>>)) = 0 /\ <<>> \in Seq(Words)
    BY ConcatNothing
  <2> QED
    BY <2>1, <2>2, <2>3, <2>4 DEF Reading
<1>5. Streaming
  <2>1. /\ held = <<>> /\ received = <<>> /\ reader.ids = <<>> /\ ~reader.tool /\ fragments = 0
    BY DEF AnswerInit, NewReader
  <2>2. TextSeen(front) = <<>>
    BY <1>2 DEF Shows
  <2>3. Len(<<>>) = 0 /\ <<>> \in Seq(Piece) /\ <<>> = <<>> \o <<>>
    OBVIOUS
  <2>4. NoCallBefore(<<>>, 0)
    BY DEF NoCallBefore
  <2> QED
    BY <1>2, <2>1, <2>2, <2>3, <2>4 DEF Streaming, TextHeld
<1> QED
  BY <1>1, <1>2, <1>3, <1>4, <1>5 DEF AInv, Fronted, AfterFailure, AtTheEnd, AnswerInit

\* Every t, m and a that f shows, g shows with more text.
ShowsMore(f, g, w) ==
  \A t \in Words, m \in Nat, a \in Nat : Shows(f, t, m, a) => Shows(g, t \o w, m, a)

\* Text that is sent if there is any.
LEMMA EmitsText ==
  ASSUME AInv, progress # "over", NEW w \in Words, EmitAll(TextIf(w))
  PROVE  /\ FrontOK(front') /\ (~emitted' => front' = NewFront(front'.proto))
         /\ emitted' \in BOOLEAN /\ front'.proto \in Protocol
         /\ ShowsMore(front, front', w)
<1>1. FrontOK(front) /\ (~emitted => front = NewFront(front.proto)) /\ emitted \in BOOLEAN
  BY DEF AInv, Fronted, Typed
<1>2. front' = AfterDeltas(front, TextIf(w)) /\ emitted' = (emitted \/ TextIf(w) # <<>>)
  BY DEF EmitAll, AfterDeltas
<1>3. /\ FrontOK(front') /\ (w = <<>> => front' = front)
      /\ ShowsMore(front, front', w)
  BY <1>1, <1>2, TextShows DEF ShowsMore
<1>4. w # <<>> => TextIf(w) # <<>>
  BY DEF TextIf
<1>5. front'.proto \in Protocol
  BY <1>3, FrontFields DEF FrontOK, ChunksInv, FrontInv
<1> QED
  BY <1>1, <1>2, <1>3, <1>4, <1>5

\* One Delta that is sent.
LEMMA EmitsOne ==
  ASSUME AInv, progress # "over", NEW d \in DeltaSet, EmitAll(<<d>>)
  PROVE  /\ FrontOK(front') /\ emitted' = TRUE /\ front'.proto \in Protocol
         /\ front' = OnDelta(front, d)
<1>1. FrontOK(front) /\ emitted \in BOOLEAN
  BY DEF AInv, Fronted, Typed
<1>2. front' = AfterDeltas(front, <<d>>) /\ emitted' = (emitted \/ <<d>> # <<>>)
  BY DEF EmitAll, AfterDeltas
<1>3. front' = OnDelta(front, d) /\ emitted' = TRUE
  BY <1>1, <1>2, FewDeltas
<1>4. FrontOK(front')
  BY <1>1, <1>3, OnDeltaKeeps
<1>5. front'.proto \in Protocol
  BY <1>4, FrontFields DEF FrontOK, ChunksInv, FrontInv
<1> QED
  BY <1>3, <1>4, <1>5

\* Hearing an event stays within the bound.
LEMMA HeardMore == ASSUME AInv, Hears PROVE heard' \in 0 .. MaxEvents
BY AnswerAssumption DEF AInv, Typed, Hears

\* An error event or an event of no quota: the reader notes it, and nothing is sent.
LEMMA FailureKeeps ==
  ASSUME AInv, NEW kind \in {"failure", "quota"}, Failure(kind) PROVE AInv'
<1>1. heard' \in 0 .. MaxEvents /\ progress = "streaming"
  BY HeardMore DEF Failure, Hears
<1>2. /\ UNCHANGED <<declared, progress, tries, received, fragments, native, held, emitted, front, cut>>
      /\ \/ reader' = [reader EXCEPT !.quota = TRUE]
         \/ reader' = [reader EXCEPT !.err = "failure"]
  BY DEF Failure
<1>3. reader \in Reader
  BY DEF AInv, Reading
<1>4. /\ reader' \in Reader /\ reader'.ids = reader.ids /\ reader'.last = reader.last
      /\ reader'.tool = reader.tool
  BY <1>2, <1>3 DEF Reader
<1>5. Typed'
  BY <1>1, <1>2 DEF AInv, Typed
<1>6. Reading'
  BY <1>2, <1>4 DEF AInv, Reading
<1>7. Streaming'
  BY <1>2, <1>4 DEF AInv, Streaming, TextHeld
<1> QED
  BY <1>1, <1>2, <1>5, <1>6, <1>7 DEF AInv, Fronted, AfterFailure, AtTheEnd

\* The words that are sent.
LEMMA SentWords ==
  /\ <<"thought">> \in Words /\ <<"arg">> \in Words /\ <<"call">> \in Words
  /\ \A x \in Piece : <<x>> \in Words
BY DEF Words, Word

\* Reasoning is sent as it comes.
LEMMA ThinkingKeeps ==
  ASSUME AInv, Thinking PROVE AInv'
<1> DEFINE d == ThinkingDelta(<<"thought">>)
<1>1. heard' \in 0 .. MaxEvents /\ progress = "streaming"
  BY HeardMore DEF Thinking, Hears
<1>2. /\ UNCHANGED <<declared, progress, tries, received, fragments, reader, native, held, cut>>
      /\ EmitAll(<<d>>)
  BY DEF Thinking
<1>3. d \in DeltaSet /\ d.kind = "thinking"
  BY DeltaIs, SentWords DEF ThinkingDelta
<1> HIDE DEF d
<1>4. /\ FrontOK(front') /\ emitted' = TRUE /\ front'.proto \in Protocol
      /\ front' = OnDelta(front, d)
  BY <1>1, <1>2, <1>3, EmitsOne
<1>5. ASSUME NEW t \in Words, NEW m \in Nat, NEW a \in Nat, Shows(front, t, m, a)
      PROVE  Shows(front', t, m, a)
  <2>1. InOrder(d, m) /\ TextAdded(d) = <<>> /\ CallsAfter(d, m) = m /\ ArgsAdded(d) = 0
    BY <1>3 DEF InOrder, TextAdded, CallsAfter, ArgsAdded
  <2>2. FrontOK(front)
    BY <1>1 DEF AInv, Fronted
  <2>3. Shows(OnDelta(front, d), t \o TextAdded(d), CallsAfter(d, m), a + ArgsAdded(d))
    BY <1>3, <1>5, <2>1, <2>2, OnDeltaShows
  <2>4. a + 0 = a /\ t \o <<>> = t
    BY DEF Words
  <2> QED
    BY <1>4, <2>1, <2>3, <2>4
<1>6. Typed'
  BY <1>1, <1>2, <1>4 DEF AInv, Typed
<1>7. Reading'
  BY <1>2 DEF AInv, Reading
<1>8. Streaming'
  <2>1. Streaming /\ reader \in Reader /\ received \in Seq(Piece) /\ fragments \in Nat
    BY DEF AInv, Reading, Typed
  <2>2. Len(reader.ids) \in Nat /\ 0 \in Nat /\ received \in Words
    BY <2>1, PiecesAreWords DEF Reader
  <2>3. CASE declared /\ ~reader.tool
    <3>1. TextHeld
      BY <1>1, <2>1, <2>3 DEF Streaming
    <3>2. TextSeen(front) \in Words
      BY <3>1, PiecesAreWords DEF TextHeld
    <3>3. Shows(front', TextSeen(front), 0, 0)
      BY <1>5, <2>2, <3>1, <3>2 DEF TextHeld
    <3>4. TextSeen(front') = TextSeen(front)
      BY <3>3 DEF Shows
    <3>5. TextHeld'
      BY <1>2, <3>1, <3>3, <3>4 DEF TextHeld
    <3> QED
      BY <1>2, <2>3, <3>5 DEF Streaming
  <2>4. CASE ~(declared /\ ~reader.tool)
    <3>1. /\ held = <<>>
          /\ IF declared THEN Shows(front, received, 0, 0)
             ELSE Shows(front, received, Len(reader.ids), fragments)
      BY <1>1, <2>1, <2>4 DEF Streaming
    <3>2. IF declared THEN Shows(front', received, 0, 0)
          ELSE Shows(front', received, Len(reader.ids), fragments)
      BY <1>5, <2>1, <2>2, <3>1
    <3> QED
      BY <1>2, <2>4, <3>1, <3>2 DEF Streaming
  <2> QED
    BY <2>3, <2>4
<1> QED
  BY <1>1, <1>2, <1>4, <1>6, <1>7, <1>8 DEF AInv, Fronted, AfterFailure, AtTheEnd

\* More text leaves what came before it as it is.
LEMMA JoinFacts ==
  ASSUME NEW t \in Seq(Piece), NEW h \in Seq(Piece), NEW x \in Piece
  PROVE  /\ Append(t \o h, x) = t \o Append(h, x)
         /\ t \o <<x>> = Append(t, x)
         /\ Append(h, x) \in Seq(Piece) /\ Append(t, x) \in Seq(Piece)
         /\ Len(t \o h) = Len(t) + Len(h) /\ Len(t) \in Nat /\ Len(h) \in Nat
OBVIOUS

\* A text is what comes before a place in it and what comes after.
LEMMA SplitFacts ==
  ASSUME NEW s \in Seq(Piece), NEW n \in 0 .. Len(s)
  PROVE  /\ SubSeq(s, 1, n) \in Seq(Piece) /\ SubSeq(s, n + 1, Len(s)) \in Seq(Piece)
         /\ s = SubSeq(s, 1, n) \o SubSeq(s, n + 1, Len(s))
         /\ Len(SubSeq(s, 1, n)) = n
<1>1. Len(SubSeq(s, 1, n)) = n /\ Len(SubSeq(s, n + 1, Len(s))) = Len(s) - n
  OBVIOUS
<1>2. /\ SubSeq(s, 1, n) \in Seq(Piece) /\ SubSeq(s, n + 1, Len(s)) \in Seq(Piece)
      /\ \A k \in 1 .. n : SubSeq(s, 1, n)[k] = s[k]
      /\ \A k \in 1 .. Len(s) - n : SubSeq(s, n + 1, Len(s))[k] = s[n + k]
  OBVIOUS
<1>3. s = SubSeq(s, 1, n) \o SubSeq(s, n + 1, Len(s))
  <2> DEFINE a == SubSeq(s, 1, n)
             b == SubSeq(s, n + 1, Len(s))
             c == a \o b
  <2>1. /\ a \in Seq(Piece) /\ b \in Seq(Piece) /\ Len(a) = n /\ Len(b) = Len(s) - n
        /\ \A k \in 1 .. n : a[k] = s[k]
        /\ \A k \in 1 .. Len(s) - n : b[k] = s[n + k]
    BY <1>1, <1>2
  <2> HIDE DEF a, b
  <2>2. c \in Seq(Piece) /\ Len(c) = Len(s)
    BY <2>1
  <2>3. \A k \in 1 .. Len(s) : c[k] = s[k]
    <3> TAKE k \in 1 .. Len(s)
    <3>1. CASE k <= n
      BY <2>1, <3>1
    <3>2. CASE k > n
      <4>1. k - n \in 1 .. Len(s) - n /\ n + (k - n) = k
        BY <3>2
      <4>2. c[k] = b[k - n]
        BY <2>1, <3>2
      <4> QED
        BY <2>1, <4>1, <4>2
    <3>3. k <= n \/ k > n
      OBVIOUS
    <3> HIDE DEF c
    <3> QED
      BY <3>1, <3>2, <3>3
  <2> HIDE DEF c
  <2>4. s = c
    BY <2>2, <2>3
  <2> QED
    BY <2>4 DEF a, b, c
<1> QED
  BY <1>1, <1>2, <1>3

\* The parts of s before and after n hold no beginning of a call in the first.
LEMMA NoCallJoined ==
  ASSUME NEW t \in Seq(Piece), NEW h \in Seq(Piece), NEW x \in Piece, NEW n \in Nat,
         n <= Len(h) + 1,
         NoCallBefore(t \o h, Len(t)), NoCallBefore(Append(h, x), n)
  PROVE  NoCallBefore(t \o Append(h, x), Len(t) + n)
<1> DEFINE m == Len(t)
           l == Len(h)
           s == t \o h
           c == Append(h, x)
           r == t \o c
<1>1. /\ m \in Nat /\ l \in Nat /\ s \in Seq(Piece) /\ Len(s) = m + l
      /\ Len(c) = l + 1 /\ c \in Seq(Piece) /\ Len(r) = (m + l) + 1 /\ r = Append(s, x)
  OBVIOUS
<1>2. \A k \in 1 .. m + l : r[k] = s[k]
  BY <1>1
<1>3. \A k \in 1 .. l + 1 : r[m + k] = c[k]
  BY <1>1
<1>4. /\ \A k \in 1 .. m : s[k] = "start" => k < m + l /\ s[k + 1] \notin {"rest", "odd"}
      /\ \A k \in 1 .. n : c[k] = "start" => k < l + 1 /\ c[k + 1] \notin {"rest", "odd"}
  BY <1>1 DEF NoCallBefore
<1>5. n <= l + 1
  OBVIOUS
<1> HIDE DEF m, l, s, c, r
<1>6. ASSUME NEW k \in 1 .. m + n, r[k] = "start"
      PROVE  k < (m + l) + 1 /\ r[k + 1] \notin {"rest", "odd"}
  <2>1. CASE k <= m
    <3>1. k \in 1 .. m /\ k \in 1 .. m + l
      BY <1>1, <2>1
    <3>2. k < m + l /\ s[k + 1] \notin {"rest", "odd"}
      BY <1>2, <1>4, <1>6, <3>1
    <3>3. k + 1 \in 1 .. m + l
      BY <1>1, <3>1, <3>2
    <3> QED
      BY <1>1, <1>2, <3>1, <3>2, <3>3
  <2>2. CASE k > m
    <3>1. k - m \in 1 .. n /\ k - m \in 1 .. l + 1 /\ m + (k - m) = k
      BY <1>1, <1>5, <2>2
    <3>2. k - m < l + 1 /\ c[(k - m) + 1] \notin {"rest", "odd"}
      BY <1>3, <1>4, <1>6, <3>1
    <3>3. (k - m) + 1 \in 1 .. l + 1 /\ m + ((k - m) + 1) = k + 1 /\ k < (m + l) + 1
      BY <1>1, <3>1, <3>2
    <3>4. r[k + 1] = c[(k - m) + 1]
      BY <1>3, <3>3
    <3> QED
      BY <3>2, <3>3, <3>4
  <2> QED
    BY <1>1, <2>1, <2>2
<1> QED
  BY <1>1, <1>6 DEF NoCallBefore, m, l, s, c, r

\* A piece of text is sent, or part of it held back where a marker may begin.
LEMMA TextKeeps ==
  ASSUME AInv, NEW x \in Piece, Text(x) PROVE AInv'
<1>1. heard' \in 0 .. MaxEvents /\ progress = "streaming"
  BY HeardMore DEF Text, Hears
<1>2. /\ UNCHANGED <<declared, progress, tries, fragments, native, cut>>
      /\ received' = Append(received, x) /\ reader' = [reader EXCEPT !.text = TRUE]
  BY DEF Text
<1>3. /\ reader \in Reader /\ received \in Seq(Piece) /\ held \in Seq(Piece) /\ fragments \in Nat
      /\ received \in Words /\ FrontOK(front) /\ declared \in BOOLEAN /\ Len(reader.ids) \in Nat
  BY <1>1, PiecesAreWords DEF AInv, Reading, Typed, Fronted, Reader
<1>4. /\ reader' \in Reader /\ reader'.ids = reader.ids /\ reader'.last = reader.last
      /\ reader'.tool = reader.tool
  BY <1>2, <1>3 DEF Reader
<1>5. received' \in Seq(Piece) /\ received' = received \o <<x>>
  BY <1>2, <1>3, JoinFacts
<1>6. Reading'
  BY <1>2, <1>4 DEF AInv, Reading
<1>7. CASE ~declared \/ reader.tool
  <2> DEFINE d == TextDelta(<<x>>)
  <2>1. EmitAll(<<d>>) /\ held' = held
    BY <1>7 DEF Text
  <2>2. d \in DeltaSet /\ <<x>> \in Words
    BY DeltaIs, SentWords
  <2>3. \A m \in Nat : InOrder(d, m) /\ TextAdded(d) = <<x>> /\ CallsAfter(d, m) = m /\ ArgsAdded(d) = 0
    BY DEF TextDelta, InOrder, TextAdded, CallsAfter, ArgsAdded
  <2> HIDE DEF d
  <2>4. FrontOK(front') /\ emitted' = TRUE /\ front'.proto \in Protocol /\ front' = OnDelta(front, d)
    BY <1>1, <2>1, <2>2, EmitsOne
  <2>5. ASSUME NEW m \in Nat, NEW a \in Nat, Shows(front, received, m, a)
        PROVE  Shows(front', received', m, a)
    <3>1. Shows(OnDelta(front, d), received \o TextAdded(d), CallsAfter(d, m), a + ArgsAdded(d))
      BY <1>3, <2>2, <2>3, <2>5, OnDeltaShows
    <3>2. a + 0 = a
      OBVIOUS
    <3> QED
      BY <1>5, <2>3, <2>4, <3>1, <3>2
  <2>6. Typed'
    BY <1>1, <1>2, <1>5, <2>1, <2>4 DEF AInv, Typed
  <2>7. /\ held = <<>>
        /\ IF declared THEN Shows(front, received, 0, 0)
           ELSE Shows(front, received, Len(reader.ids), fragments)
    BY <1>1, <1>7 DEF AInv, Streaming
  <2>8. Streaming'
    BY <1>2, <1>3, <1>4, <1>7, <2>1, <2>5, <2>7 DEF Streaming
  <2> QED
    BY <1>1, <1>2, <1>6, <2>4, <2>6, <2>8 DEF AInv, Fronted, AfterFailure, AtTheEnd
<1>8. CASE declared /\ ~reader.tool
  <2> DEFINE all == Append(held, x)
             n == SafeLength(all)
             w == SubSeq(all, 1, n)
             rest == SubSeq(all, n + 1, Len(all))
             sent == TextSeen(front)
  <2>1. EmitAll(TextIf(w)) /\ held' = rest
    BY <1>8 DEF Text
  <2>2. all \in Seq(Piece) /\ Len(all) = Len(held) + 1 /\ Len(held) \in Nat
    BY <1>3
  <2>3. n \in 0 .. Len(all) /\ NoCallBefore(all, n)
    BY <2>2, SafeIs
  <2> HIDE DEF all, n
  <2>4. w \in Seq(Piece) /\ rest \in Seq(Piece) /\ all = w \o rest /\ Len(w) = n
    BY <2>2, <2>3, SplitFacts
  <2> HIDE DEF w, rest
  <2>5. w \in Words
    BY <2>4, PiecesAreWords
  <2>6. /\ FrontOK(front') /\ (~emitted' => front' = NewFront(front'.proto))
        /\ emitted' \in BOOLEAN /\ front'.proto \in Protocol
        /\ ShowsMore(front, front', w)
    BY <1>1, <2>1, <2>5, EmitsText
  <2>7. /\ sent \in Seq(Piece) /\ received = sent \o held /\ Shows(front, sent, 0, 0)
        /\ NoCallBefore(received, Len(sent)) /\ sent \in Words
    BY <1>1, <1>8, PiecesAreWords DEF AInv, Streaming, TextHeld
  <2> HIDE DEF sent
  <2>8. Shows(front', sent \o w, 0, 0)
    BY <2>6, <2>7 DEF ShowsMore
  <2>9. TextSeen(front') = sent \o w
    BY <2>8 DEF Shows
  <2>10. /\ sent \o w \in Seq(Piece) /\ Len(sent \o w) = Len(sent) + n
         /\ sent \o (w \o rest) = (sent \o w) \o rest
    <3>1. sent \in Seq(Piece) /\ w \in Seq(Piece) /\ rest \in Seq(Piece)
      BY <2>4, <2>7
    <3>2. sent \o (w \o rest) = (sent \o w) \o rest
      BY <3>1, JoinJoin
    <3>3. sent \o w \in Seq(Piece) /\ Len(sent \o w) = Len(sent) + Len(w)
      BY <3>1
    <3> QED
      BY <2>4, <3>2, <3>3
  <2>11. received' = sent \o all
    BY <1>2, <1>3, <2>7, JoinFacts, ZenonT(60) DEF all
  <2>12. received' = (sent \o w) \o held'
    BY <2>1, <2>4, <2>10, <2>11
  <2>13. NoCallBefore(received', Len(sent \o w))
    <3>1. n \in Nat /\ n <= Len(held) + 1
      BY <2>2, <2>3
    <3>2. NoCallBefore(sent \o Append(held, x), Len(sent) + n)
      BY <1>3, <2>3, <2>7, <3>1, NoCallJoined DEF all
    <3> QED
      BY <2>10, <2>11, <3>2 DEF all
  <2>14. TextHeld'
    BY <2>8, <2>9, <2>10, <2>12, <2>13 DEF TextHeld
  <2>15. Streaming'
    BY <1>2, <1>4, <1>8, <2>14 DEF Streaming
  <2>16. Typed'
    BY <1>1, <1>2, <1>5, <1>8, <2>1, <2>4, <2>6 DEF AInv, Typed
  <2> QED
    BY <1>1, <1>2, <1>6, <2>6, <2>15, <2>16 DEF AInv, Fronted, AfterFailure, AtTheEnd
<1> QED
  BY <1>3, <1>7, <1>8

\* The number of a call is found again, or it is the next one.
LEMMA NumberedIs ==
  ASSUME NEW s \in Seq(ToolIds), IsInjective(s), NEW x \in ToolIds
  PROVE  LET ids == Numbered(s, x)
             j == IndexOf(ids, x)
         IN /\ ids \in Seq(ToolIds) /\ IsInjective(ids) /\ x \in ToSet(ids) /\ ids # <<>>
            /\ \/ ids = s /\ j \in 1 .. Len(s)
               \/ Len(ids) = Len(s) + 1 /\ j = Len(s) + 1
<1> DEFINE ids == Numbered(s, x)
           j == IndexOf(ids, x)
<1>1. Len(s) \in Nat /\ DOMAIN s = 1 .. Len(s)
  OBVIOUS
<1>2. CASE x \in ToSet(s)
  <2>1. ids = s
    BY <1>2 DEF Numbered
  <2>2. \E k \in DOMAIN s : s[k] = x
    BY <1>2 DEF ToSet
  <2>3. j \in DOMAIN s
    BY <2>1, <2>2 DEF IndexOf
  <2>4. s # <<>>
    BY <1>1, <2>3
  <2> QED
    BY <1>1, <1>2, <2>1, <2>3, <2>4
<1>3. CASE x \notin ToSet(s)
  <2>1. ids = Append(s, x)
    BY <1>3 DEF Numbered
  <2> HIDE DEF ids
  <2>2. /\ ids \in Seq(ToolIds) /\ Len(ids) = Len(s) + 1 /\ DOMAIN ids = 1 .. Len(s) + 1
        /\ ids[Len(s) + 1] = x /\ \A k \in 1 .. Len(s) : ids[k] = s[k]
    BY <2>1
  <2>3. \A k \in 1 .. Len(s) : s[k] # x
    BY <1>1, <1>3 DEF ToSet
  <2>4. \A k \in DOMAIN ids : ids[k] = x <=> k = Len(s) + 1
    BY <1>1, <2>2, <2>3
  <2>5. Len(s) + 1 \in DOMAIN ids
    BY <1>1, <2>2
  <2>6. j = Len(s) + 1
    <3>1. \E k \in DOMAIN ids : ids[k] = x
      BY <2>2, <2>5
    <3>2. j \in DOMAIN ids /\ ids[j] = x
      BY <3>1 DEF IndexOf
    <3> QED
      BY <2>4, <3>2
  <2>7. IsInjective(ids)
    <3> SUFFICES ASSUME NEW a \in DOMAIN ids, NEW b \in DOMAIN ids, ids[a] = ids[b]
                 PROVE  a = b
      BY DEF IsInjective
    <3>1. CASE a = Len(s) + 1 \/ b = Len(s) + 1
      BY <2>4, <2>5, <3>1
    <3>2. CASE a # Len(s) + 1 /\ b # Len(s) + 1
      <4>1. a \in 1 .. Len(s) /\ b \in 1 .. Len(s)
        BY <1>1, <2>2, <3>2
      <4> QED
        BY <1>1, <2>2, <4>1 DEF IsInjective
    <3> QED
      BY <3>1, <3>2
  <2>8. x \in ToSet(ids) /\ ids # <<>>
    <3>1. x \in ToSet(ids)
      BY <2>2, <2>5 DEF ToSet
    <3>2. Len(ids) # 0
      BY <1>1, <2>2
    <3>3. Len(<<>>) = 0
      OBVIOUS
    <3> QED
      BY <3>1, <3>2, <3>3
  <2> QED
    BY <2>2, <2>6, <2>7, <2>8 DEF ids
<1> QED
  BY <1>2, <1>3

\* One more piece of arguments.
LEMMA NativeMore ==
  ASSUME NEW s \in Seq(Words), NEW j \in 1 .. Len(s) + 1
  PROVE  LET t == IF j \in DOMAIN s THEN [s EXCEPT ![j] = @ \o <<"arg">>]
                  ELSE Append(s, <<"arg">>)
         IN /\ t \in Seq(Words)
            /\ Len(t) = IF j = Len(s) + 1 THEN Len(s) + 1 ELSE Len(s)
            /\ Len(Concat(s)) \in Nat /\ Len(Concat(t)) = Len(Concat(s)) + 1
<1> DEFINE n == Len(s)
           t == IF j \in DOMAIN s THEN [s EXCEPT ![j] = @ \o <<"arg">>] ELSE Append(s, <<"arg">>)
<1>1. n \in Nat /\ DOMAIN s = 1 .. n /\ \A i \in 1 .. n : s[i] \in Seq(Word)
  BY DEF Words
<1>2. s \in Pieces(Word, n)
  BY <1>1 DEF Pieces
<1>3. PICK arg \in Seq(Word) : arg = <<"arg">>
  <2>1. <<"arg">> \in Seq(Word)
    BY SentWords DEF Words
  <2> QED
    BY <2>1
<1>4. Len(arg) = 1 /\ arg \in Words
  BY <1>3 DEF Words
<1>5. Concat(s) \in Seq(Word) /\ Len(Concat(s)) \in Nat
  <2>1. Concat(s) \in Seq(Word)
    BY <1>1, <1>2, ConcatTyped
  <2> QED
    BY <2>1
<1>6. j \in 1 .. n + 1
  OBVIOUS
<1>7. t = IF j \in DOMAIN s THEN [s EXCEPT ![j] = @ \o arg] ELSE Append(s, arg)
  BY <1>3
<1> HIDE DEF n, t
<1>8. CASE j \in 1 .. n
  <2>1. t = [s EXCEPT ![j] = @ \o arg] /\ j # n + 1
    BY <1>1, <1>7, <1>8
  <2>2. /\ DOMAIN t = 1 .. n /\ t[j] = s[j] \o arg
        /\ \A i \in 1 .. n : i # j => t[i] = s[i]
    BY <1>1, <1>8, <2>1
  <2>3. s[j] \in Seq(Word)
    BY <1>1, <1>8
  <2>4. t[j] \in Seq(Word) /\ Len(t[j]) = Len(s[j]) + Len(arg)
    BY <2>2, <2>3
  <2>5. t = [i \in 1 .. n |-> t[i]]
    BY <1>1, <2>1
  <2>6. \A i \in 1 .. n : t[i] \in Seq(Word)
    BY <1>1, <2>2, <2>4
  <2>7. t \in Pieces(Word, n)
    BY <2>5, <2>6 DEF Pieces
  <2>8. t \in Seq(Words) /\ Len(t) = n
    <3>1. t \in [1 .. n -> Words]
      BY <2>5, <2>6 DEF Words
    <3> QED
      BY <1>1, <3>1
  <2>9. Len(Concat(t)) = Len(Concat(s)) + Len(arg)
    BY <1>1, <1>2, <1>8, <2>2, <2>4, <2>7, ConcatLonger, ZenonT(60)
  <2> QED
    BY <1>4, <1>5, <2>1, <2>8, <2>9 DEF n, t
<1>9. CASE j = n + 1
  <2>1. t = Append(s, arg)
    BY <1>1, <1>7, <1>9
  <2>2. /\ t \in Seq(Words) /\ Len(t) = n + 1 /\ DOMAIN t = 1 .. n + 1 /\ t[n + 1] = arg
        /\ \A i \in 1 .. n : t[i] = s[i]
    BY <1>1, <1>4, <2>1 DEF n
  <2>3. Concat(t) = Concat(s) \o arg
    <3>1. n \in Nat /\ DOMAIN t = 1 .. n + 1 /\ t[n + 1] = arg
      BY <1>1, <2>2
    <3>2. \A i \in 1 .. n : t[i] = s[i]
      BY <2>2
    <3> QED
      BY <1>2, <3>1, <3>2, ConcatMore, SMTT(60)
  <2>4. Len(Concat(t)) = Len(Concat(s)) + Len(arg)
    BY <1>5, <2>3
  <2> QED
    BY <1>4, <1>5, <1>9, <2>2, <2>4 DEF n, t
<1> QED
  BY <1>1, <1>6, <1>8, <1>9

\* A piece of a native call: with declared tools it is kept for the end, otherwise it
\* is sent under the number of its id.
LEMMA ToolChunkKeeps ==
  ASSUME AInv, NEW id \in ToolIds \cup {NoId}, ToolChunk(id) PROVE AInv'
<1> DEFINE which == LastId(id)
           ids == Numbered(reader.ids, which)
           j == IndexOf(ids, which)
           n == Len(reader.ids)
<1>1. heard' \in 0 .. MaxEvents /\ progress = "streaming"
  BY HeardMore DEF ToolChunk, Hears
<1>2. UNCHANGED <<declared, progress, tries, received, cut>>
  BY DEF ToolChunk
<1>3. /\ reader \in Reader /\ received \in Seq(Piece) /\ held \in Seq(Piece) /\ fragments \in Nat
      /\ received \in Words /\ FrontOK(front) /\ declared \in BOOLEAN /\ held \in Words
  BY <1>1, PiecesAreWords DEF AInv, Reading, Typed, Fronted
<1>4. /\ reader.ids \in Seq(ToolIds) /\ IsInjective(reader.ids) /\ n \in Nat
      /\ reader.last \in ToolIds \cup {NoId}
  BY <1>3 DEF AInv, Reading, Reader
<1>5. CASE which = NoId
  <2>1. id = NoId /\ reader.last = NoId
    BY <1>5 DEF LastId
  <2>2. UNCHANGED <<reader, native, held, emitted, front>> /\ fragments' = fragments
    BY <1>3, <1>5, <2>1 DEF ToolChunk
  <2>3. Typed'
    BY <1>1, <1>2, <2>2 DEF AInv, Typed
  <2>4. Reading'
    BY <2>2 DEF AInv, Reading
  <2>5. Streaming'
    BY <1>2, <2>2 DEF AInv, Streaming, TextHeld
  <2> QED
    BY <1>1, <1>2, <2>2, <2>3, <2>4, <2>5 DEF AInv, Fronted, AfterFailure, AtTheEnd
<1>6. CASE which # NoId
  <2>1. which \in ToolIds
    BY <1>4, <1>6 DEF LastId
  <2>2. ~(id = NoId /\ reader.last = NoId)
    BY <1>6 DEF LastId
  <2>3. fragments' = fragments + 1
    BY <2>2 DEF ToolChunk
  <2>4. /\ reader' = [reader EXCEPT !.ids = ids, !.last = which, !.tool = TRUE]
        /\ native' = IF j \in DOMAIN native
                     THEN [native EXCEPT ![j] = @ \o <<"arg">>] ELSE Append(native, <<"arg">>)
        /\ IF declared
           THEN EmitAll(TextIf(held)) /\ held' = <<>>
           ELSE EmitAll(<<ToolDelta(j, KindOf[which], <<"arg">>)>>) /\ held' = held
    BY <1>6 DEF ToolChunk
  <2> HIDE DEF which, n
  <2>5. /\ ids \in Seq(ToolIds) /\ IsInjective(ids) /\ which \in ToSet(ids) /\ ids # <<>>
        /\ \/ ids = reader.ids /\ j \in 1 .. n
           \/ Len(ids) = n + 1 /\ j = n + 1
    BY <1>4, <2>1, NumberedIs DEF n
  <2> HIDE DEF ids, j
  <2>6. /\ j \in 1 .. n + 1 /\ Len(ids) = IF j = n + 1 THEN n + 1 ELSE n
    <3>1. CASE ids = reader.ids /\ j \in 1 .. n
      BY <1>4, <3>1 DEF n
    <3>2. CASE Len(ids) = n + 1 /\ j = n + 1
      BY <1>4, <3>2
    <3> QED
      BY <2>5, <3>1, <3>2
  <2>7. /\ reader' \in Reader /\ reader'.ids = ids /\ reader'.last = which /\ reader'.tool = TRUE
    BY <1>3, <2>1, <2>4, <2>5 DEF Reader
  <2>8. native \in Seq(Words) /\ Len(native) = n /\ Len(Concat(native)) = fragments
    BY DEF AInv, Reading, n
  <2>9. /\ native' \in Seq(Words) /\ Len(native') = Len(ids)
        /\ Len(Concat(native')) = fragments + 1
    BY <2>4, <2>6, <2>8, NativeMore
  <2>10. Reading'
    <3>1. which # NoId
      BY <1>6
    <3> QED
      BY <1>3, <2>3, <2>5, <2>7, <2>9, <3>1 DEF Reading
  <2>11. CASE declared
    <3>1. EmitAll(TextIf(held)) /\ held' = <<>>
      BY <2>4, <2>11
    <3>2. /\ FrontOK(front') /\ (~emitted' => front' = NewFront(front'.proto))
          /\ emitted' \in BOOLEAN /\ front'.proto \in Protocol
          /\ ShowsMore(front, front', held)
      BY <1>1, <1>3, <3>1, EmitsText
    <3>3. Shows(front', received, 0, 0)
      <4>1. CASE reader.tool
        <5>1. held = <<>> /\ Shows(front, received, 0, 0)
          BY <1>1, <2>11, <4>1 DEF AInv, Streaming
        <5>2. Shows(front', received \o <<>>, 0, 0)
          BY <1>3, <3>2, <5>1 DEF ShowsMore
        <5>3. received \o <<>> = received
          BY <1>3
        <5> QED
          BY <5>2, <5>3
      <4>2. CASE ~reader.tool
        <5>1. TextHeld
          BY <1>1, <2>11, <4>2 DEF AInv, Streaming
        <5>2. TextSeen(front) \in Words
          BY <5>1, PiecesAreWords DEF TextHeld
        <5> QED
          BY <3>2, <5>1, <5>2 DEF ShowsMore, TextHeld
      <4> QED
        BY <4>1, <4>2
    <3>4. Streaming'
      BY <1>2, <2>7, <2>11, <3>1, <3>3 DEF Streaming
    <3>5. Typed'
      <4>1. <<>> \in Seq(Piece)
        OBVIOUS
      <4> QED
        BY <1>1, <1>2, <3>1, <3>2, <4>1 DEF AInv, Typed
    <3> QED
      BY <1>1, <1>2, <2>10, <3>2, <3>4, <3>5 DEF AInv, Fronted, AfterFailure, AtTheEnd
  <2>12. CASE ~declared
    <3> DEFINE d == ToolDelta(j, KindOf[which], <<"arg">>)
    <3>1. EmitAll(<<d>>) /\ held' = held
      BY <2>4, <2>12
    <3>2. d \in DeltaSet
      <4>1. KindOf[which] \in Kinds /\ j \in Nat
        BY <1>4, <2>1, <2>6, AnswerAssumption DEF Kinds
      <4> QED
        BY <4>1, SentWords, DeltaIs
    <3>3. /\ InOrder(d, n) /\ TextAdded(d) = <<>> /\ ArgsAdded(d) = 1
          /\ CallsAfter(d, n) = Len(ids)
      <4>1. Len(<<"arg">>) = 1
        OBVIOUS
      <4> QED
        BY <2>6, <4>1 DEF ToolDelta, InOrder, TextAdded, CallsAfter, ArgsAdded
    <3> HIDE DEF d
    <3>4. FrontOK(front') /\ emitted' = TRUE /\ front'.proto \in Protocol /\ front' = OnDelta(front, d)
      BY <1>1, <3>1, <3>2, EmitsOne
    <3>5. held = <<>> /\ Shows(front, received, n, fragments)
      BY <1>1, <2>12 DEF AInv, Streaming, n
    <3>6. Shows(front', received, Len(ids), fragments + 1)
      <4>1. Shows(OnDelta(front, d), received \o TextAdded(d), CallsAfter(d, n), fragments + ArgsAdded(d))
        BY <1>3, <1>4, <3>2, <3>3, <3>5, OnDeltaShows DEF n
      <4>2. received \o <<>> = received
        BY <1>3
      <4> QED
        BY <3>3, <3>4, <4>1, <4>2
    <3>7. Streaming'
      BY <1>2, <2>3, <2>7, <2>12, <3>1, <3>5, <3>6 DEF Streaming
    <3>8. Typed'
      BY <1>1, <1>2, <3>1, <3>4 DEF AInv, Typed
    <3> QED
      BY <1>1, <1>2, <2>10, <3>4, <3>7, <3>8 DEF AInv, Fronted, AfterFailure, AtTheEnd
  <2> QED
    BY <1>3, <2>11, <2>12
<1> QED
  BY <1>5, <1>6

(***************************************************************************)
(* The end of the upstream's stream.                                       *)
(***************************************************************************)
LEMMA DeltasJoined ==
  ASSUME NEW b, NEW x \in Seq(DeltaSet), NEW y \in Seq(DeltaSet)
  PROVE  AfterDeltas(b, x \o y) = AfterDeltas(AfterDeltas(b, x), y)
<1> DEFINE m == Len(x)
           n == Len(y)
           t == x \o y
<1>1. m \in Nat /\ n \in Nat /\ DOMAIN x = 1 .. m /\ DOMAIN y = 1 .. n
  OBVIOUS
<1>2. IsJoin(t, m, x, n, y)
  BY DEF IsJoin
<1> HIDE DEF m, n, t
<1>3. AfterDeltas(b, t) = AfterDeltas(AfterDeltas(b, x), y)
  BY <1>1, <1>2, DeltasThen
<1> QED
  BY <1>3 DEF t

\* The text and the calls that are sent at the end.
LEMMA LastShown ==
  ASSUME NEW f, FrontOK(f), NEW w \in Words, NEW n \in Nat, NEW ds, NEW a, AreCalls(ds, n, a),
         NEW t \in Words, Shows(f, t, 0, 0)
  PROVE  LET g == AfterDeltas(f, TextIf(w) \o ds \o <<FinishDelta>>) IN
         FrontOK(g) /\ g.started /\ Shows(g, t \o w, n, a[n])
<1> DEFINE x == TextIf(w)
           z == <<FinishDelta>>
           u == AfterDeltas(f, x)
           v == AfterDeltas(u, ds)
           g == AfterDeltas(f, x \o ds \o z)
<1>1. x \in Seq(DeltaSet) /\ z \in Seq(DeltaSet)
  BY DeltaIs DEF TextIf
<1>2. ds \in Seq(DeltaSet)
  BY DEF AreCalls
<1>3. FrontOK(u) /\ Shows(u, t \o w, 0, 0)
  BY TextShows
<1>4. t \o w \in Words
  BY DEF Words
<1>5. a[n] \in Nat
  BY DEF AreCalls
<1>6. z = <<FinishDelta>>
  OBVIOUS
<1> HIDE DEF x, z, u
<1>7. FrontOK(v) /\ Shows(v, t \o w, n, a[n])
  BY <1>3, <1>4, CallsShow
<1>8. AfterDeltas(f, (x \o ds) \o z) = AfterDeltas(v, z)
  <2>1. x \o ds \in Seq(DeltaSet)
    BY <1>1, <1>2
  <2>2. AfterDeltas(f, x \o ds) = v
    BY <1>1, <1>2, DeltasJoined DEF u
  <2>3. AfterDeltas(f, (x \o ds) \o z) = AfterDeltas(AfterDeltas(f, x \o ds), z)
    BY <1>1, <2>1, DeltasJoined
  <2> QED
    BY <2>2, <2>3
<1> HIDE DEF v
<1>9. AfterDeltas(v, z) = OnDelta(v, FinishDelta)
  BY <1>6, FewDeltas
<1>10. g = OnDelta(v, FinishDelta)
  BY <1>8, <1>9
<1> HIDE DEF g
<1>11. FrontOK(g) /\ g.started /\ Shows(g, t \o w, n, a[n])
  BY <1>4, <1>5, <1>7, <1>10, FinishShows
<1> QED
  BY <1>11 DEF g, x, z

\* What the client must have seen, of a complete answer.
LEMMA EndsComplete ==
  ASSUME AInv, Succeeds, NEW g, FrontOK(g), g.started, front' = Succeeded(g),
         NEW a, ChatCalls \in Nat, Shows(g, ChatText, ChatCalls, a),
         reader.tool => a = fragments
  PROVE  AInv'
<1>1. /\ progress' = "over" /\ emitted' = TRUE /\ held' = <<>> /\ Whole
      /\ UNCHANGED <<declared, tries, heard, received, fragments, reader, native>>
      /\ cut' \in {"no", "late"}
  BY DEF Succeeds, Stops
<1>2. /\ WellFormedAnswer(front') /\ Ended(front') /\ Complete(front') /\ front'.proto \in Protocol
      /\ TextSeen(front') = ChatText /\ Cardinality(CallsSeen(front')) = ChatCalls
      /\ Len(ArgsSeen(front')) = a
  BY SucceededIs
<1>3. ChatText' = ChatText /\ ChatCalls' = ChatCalls
  BY <1>1 DEF ChatText, ChatCalls
<1>4. EndIsTrue'
  <2>1. SuccessSaid'
    BY <1>2 DEF Complete, SuccessSaid
  <2>2. (reader.err = "none" /\ ~reader.quota /\ Output)'
    BY <1>1 DEF Whole, Output
  <2> QED
    BY <1>1, <1>2, <2>1, <2>2 DEF EndIsTrue
<1>5. ClientSeesTheAnswer'
  BY <1>1, <1>2, <1>3, <1>4 DEF ClientSeesTheAnswer
<1>6. Typed'
  <2>1. <<>> \in Seq(Piece)
    OBVIOUS
  <2> QED
    BY <1>1, <1>2, <2>1 DEF AInv, Typed
<1>7. Reading'
  BY <1>1 DEF AInv, Reading
<1> QED
  BY <1>1, <1>2, <1>5, <1>6, <1>7 DEF AInv, Fronted, Streaming, AfterFailure, AtTheEnd

\* The upstream's stream ends well: the rest is sent and the answer closed.
LEMMA SucceedsKeeps ==
  ASSUME AInv, Succeeds PROVE AInv'
<1>1. /\ progress = "streaming" /\ front' = Succeeded(AfterDeltas(front, LastDeltas))
  BY DEF Succeeds, AfterDeltas
<1>2. /\ reader \in Reader /\ received \in Seq(Piece) /\ held \in Seq(Piece) /\ fragments \in Nat
      /\ received \in Words /\ FrontOK(front) /\ declared \in BOOLEAN /\ held \in Words
  BY <1>1, PiecesAreWords DEF AInv, Reading, Typed, Fronted
<1>3. /\ reader.ids \in Seq(ToolIds) /\ Len(reader.ids) \in Nat 
      /\ DOMAIN reader.ids = 1 .. Len(reader.ids)
      /\ (reader.tool <=> reader.ids # <<>>)
  BY <1>2 DEF AInv, Reading, Reader
<1>4. /\ native \in Seq(Words) /\ Len(native) = Len(reader.ids) /\ Len(Concat(native)) = fragments
  BY DEF AInv, Reading
<1> DEFINE g == AfterDeltas(front, LastDeltas)
<1>5. CASE ~declared
  <2>1. g = OnDelta(front, FinishDelta)
    <3>1. LastDeltas = <<FinishDelta>>
      BY <1>5 DEF LastDeltas
    <3> QED
      BY <3>1, FewDeltas
  <2>2. Shows(front, received, Len(reader.ids), fragments)
    BY <1>1, <1>5 DEF AInv, Streaming
  <2> HIDE DEF g
  <2>3. FrontOK(g) /\ g.started /\ Shows(g, received, Len(reader.ids), fragments)
    BY <1>2, <1>3, <2>1, <2>2, FinishShows
  <2>4. ChatText = received /\ ChatCalls = Len(reader.ids)
    <3>1. ~reader.tool => Len(reader.ids) = 0
      BY <1>3
    <3> QED
      BY <1>5, <3>1 DEF ChatText, ChatCalls
  <2> QED
    BY <1>1, <1>3, <2>3, <2>4, EndsComplete DEF g
<1>6. CASE declared /\ reader.tool
  <2> DEFINE n == Len(reader.ids)
             ds == NativeDeltas
  <2>1. held = <<>> /\ Shows(front, received, 0, 0)
    BY <1>1, <1>6 DEF AInv, Streaming
  <2>2. LastDeltas = TextIf(<<>>) \o ds \o <<FinishDelta>>
    BY <1>6, <2>1 DEF LastDeltas
  <2>3. n \in Nat /\ DOMAIN native = 1 .. n /\ \A i \in 1 .. n : native[i] \in Words
    BY <1>3, <1>4
  <2>4. native \in Pieces(Word, n)
    BY <1>4, <2>3 DEF Pieces, Words
  <2> HIDE DEF n
  <2>5. PICK c : IsTrace(Word, n, native, c)
    BY <2>3, <2>4, ConcatTrace
  <2> DEFINE a == [i \in 0 .. n |-> Len(c[i])]
  <2>6. \A i \in 0 .. n : c[i] \in Seq(Word) /\ a[i] = Len(c[i]) /\ a[i] \in Nat
    BY <2>5 DEF IsTrace
  <2>7. a[0] = 0 /\ a[n] = fragments
    <3>1. 0 \in 0 .. n /\ n \in 0 .. n /\ Len(<<>>) = 0
      BY <2>3
    <3>2. c[0] = <<>> /\ c[n] = Concat(native)
      BY <2>5 DEF IsTrace
    <3> QED
      BY <1>4, <2>6, <3>1, <3>2
  <2>8. ASSUME NEW i \in 1 .. n
        PROVE  /\ ds[i] \in DeltaSet /\ ds[i].kind = "tool" /\ ds[i].key = i
               /\ ds[i].data = native[i]
    <3>1. ds[i] = ToolDelta(i, KindOf[reader.ids[i]], native[i])
      BY <2>3 DEF NativeDeltas
    <3>2. reader.ids[i] \in ToolIds
      BY <1>3 DEF n
    <3>3. KindOf[reader.ids[i]] \in Kinds
      BY <3>2, AnswerAssumption DEF Kinds
    <3>4. i \in Nat /\ native[i] \in Words
      BY <2>3
    <3> QED
      BY <3>1, <3>3, <3>4, DeltaIs DEF ToolDelta
  <2>9. ASSUME NEW i \in 0 .. n - 1 PROVE a[i + 1] = a[i] + Len(ds[i + 1].data)
    <3>1. i \in 0 .. n /\ i + 1 \in 0 .. n /\ i + 1 \in 1 .. n
      BY <2>3
    <3>2. c[i + 1] = c[i] \o native[i + 1]
      BY <2>5 DEF IsTrace
    <3>3. native[i + 1] \in Seq(Word) /\ c[i] \in Seq(Word)
      BY <2>3, <2>6, <3>1 DEF Words
    <3>4. Len(c[i + 1]) = Len(c[i]) + Len(native[i + 1])
      BY <3>2, <3>3
    <3> QED
      BY <2>6, <2>8, <3>1, <3>4
  <2>10. DOMAIN ds = 1 .. n /\ ds = [i \in 1 .. n |-> ds[i]]
    BY <2>3 DEF NativeDeltas
  <2> HIDE DEF a, ds
  <2>11. AreCalls(ds, n, a)
    <3>1. ds \in [1 .. n -> DeltaSet]
      BY <2>8, <2>10
    <3> QED
      BY <2>6, <2>7, <2>8, <2>9, <3>1 DEF AreCalls
  <2>12. FrontOK(g) /\ g.started /\ Shows(g, received, n, fragments)
    <3>1. LET k == AfterDeltas(front, TextIf(<<>>) \o ds \o <<FinishDelta>>) IN
          FrontOK(k) /\ k.started /\ Shows(k, received \o <<>>, n, a[n])
      BY <1>2, <2>1, <2>3, <2>11, NoWords, LastShown
    <3>2. received \o <<>> = received
      BY <1>2
    <3> QED
      BY <2>2, <2>7, <3>1, <3>2
  <2>13. ChatText = received /\ ChatCalls = n
    BY <1>6 DEF ChatText, ChatCalls, n
  <2> QED
    BY <1>1, <2>3, <2>12, <2>13, EndsComplete
<1>7. CASE declared /\ ~reader.tool
  <2> DEFINE sent == TextSeen(front)
             calls == CallsIn(held)
             w == Without(held, calls)
             n == Cardinality(calls)
             ds == Simulated(held)
             a == [i \in 0 .. n |-> i]
  <2>1. /\ sent \in Seq(Piece) /\ received = sent \o held /\ Shows(front, sent, 0, 0)
        /\ NoCallBefore(received, Len(sent)) /\ sent \in Words
    BY <1>1, <1>7, PiecesAreWords DEF AInv, Streaming, TextHeld
  <2>2. LastDeltas = TextIf(w) \o ds \o <<FinishDelta>>
    BY <1>7 DEF LastDeltas
  <2> HIDE DEF sent
  <2>3. /\ Without(received, CallsIn(received)) = sent \o w
        /\ Cardinality(CallsIn(received)) = n /\ n \in Nat /\ w \in Seq(Piece)
    BY <1>2, <2>1, CallsHeld
  <2>4. w \in Words
    BY <2>3, PiecesAreWords
  <2>5. DOMAIN ds = 1 .. n /\ ds = [i \in 1 .. n |-> ToolDelta(i, "function", <<"call">>)]
    BY DEF Simulated
  <2> HIDE DEF calls, w, n, ds
  <2>6. \A i \in 1 .. n : /\ ds[i] \in DeltaSet /\ ds[i].kind = "tool" /\ ds[i].key = i
                          /\ Len(ds[i].data) = 1
    <3> TAKE i \in 1 .. n
    <3>1. ds[i] = ToolDelta(i, "function", <<"call">>)
      BY <2>5
    <3>2. i \in Nat /\ "function" \in Kinds /\ <<"call">> \in Words /\ Len(<<"call">>) = 1
      BY <2>3, SentWords DEF Kinds
    <3> QED
      BY <3>1, <3>2, DeltaIs DEF ToolDelta
  <2>7. AreCalls(ds, n, a)
    <3>1. ds \in [1 .. n -> DeltaSet]
      BY <2>5, <2>6
    <3>2. a[0] = 0 /\ \A i \in 0 .. n : a[i] \in Nat
      BY <2>3
    <3>3. \A i \in 0 .. n - 1 : a[i + 1] = a[i] + Len(ds[i + 1].data)
      <4> TAKE i \in 0 .. n - 1
      <4>1. i \in 0 .. n /\ i + 1 \in 0 .. n /\ i + 1 \in 1 .. n
        BY <2>3
      <4> QED
        BY <2>6, <4>1
    <3> QED
      BY <2>6, <3>1, <3>2, <3>3 DEF AreCalls
  <2>8. a[n] = n
    BY <2>3
  <2> HIDE DEF a
  <2>9. FrontOK(g) /\ g.started /\ Shows(g, sent \o w, n, n)
    BY <1>2, <2>1, <2>2, <2>3, <2>4, <2>7, <2>8, LastShown, ZenonT(60)
  <2>10. ChatText = sent \o w /\ ChatCalls = n
    BY <1>7, <2>3 DEF ChatText, ChatCalls
  <2> QED
    BY <1>1, <1>7, <2>3, <2>9, <2>10, EndsComplete
<1> QED
  BY <1>2, <1>5, <1>6, <1>7

\* The stream ends badly: what is held back is sent, and the attempt has failed.
LEMMA FailsKeeps ==
  ASSUME AInv, Fails PROVE AInv'
<1>1. /\ progress = "streaming" /\ progress' = "failed" /\ EmitAll(TextIf(held)) /\ held' = <<>>
      /\ UNCHANGED <<declared, tries, heard, received, fragments, native>>
      /\ \/ ~Whole /\ UNCHANGED reader
         \/ reader' = [reader EXCEPT !.err = "broken"]
      /\ cut' \in {"no", "early", "late"}
  BY DEF Fails, Stops
<1>2. reader \in Reader /\ held \in Words
  BY PiecesAreWords DEF AInv, Typed, Reading
<1>3. /\ FrontOK(front') /\ (~emitted' => front' = NewFront(front'.proto))
      /\ emitted' \in BOOLEAN /\ front'.proto \in Protocol
  BY <1>1, <1>2, EmitsText
<1>4. /\ reader' \in Reader /\ reader'.ids = reader.ids /\ reader'.last = reader.last
      /\ reader'.tool = reader.tool
  BY <1>1, <1>2 DEF Reader
<1>5. ~Whole'
  <2>1. CASE ~Whole /\ UNCHANGED reader
    BY <2>1 DEF Whole, Output
  <2>2. CASE reader' = [reader EXCEPT !.err = "broken"]
    <3>1. reader'.err = "broken"
      BY <1>2, <2>2 DEF Reader
    <3> QED
      BY <3>1 DEF Whole
  <2> QED
    BY <1>1, <2>1, <2>2
<1>6. Typed'
  <2>1. <<>> \in Seq(Piece)
    OBVIOUS
  <2> QED
    BY <1>1, <1>3, <2>1 DEF AInv, Typed
<1>7. Reading'
  BY <1>1, <1>4 DEF AInv, Reading
<1> QED
  BY <1>1, <1>3, <1>5, <1>6, <1>7 DEF AInv, Fronted, Streaming, AfterFailure, AtTheEnd

\* Another attempt, only while nothing was emitted, finds the front end new.
LEMMA TriesAgainKeeps ==
  ASSUME AInv, TriesAgain PROVE AInv'
<1>1. /\ progress = "failed" /\ progress' = "streaming" /\ tries < MaxTries /\ ~emitted
      /\ tries' = tries + 1 /\ heard' = 0 /\ received' = <<>> /\ fragments' = 0
      /\ reader' = NewReader /\ native' = <<>>
      /\ UNCHANGED <<declared, held, emitted, front>> /\ cut' = "no"
  BY DEF TriesAgain, MayRetry
<1>2. held = <<>> /\ FrontOK(front) /\ front = NewFront(front.proto) /\ front.proto \in Protocol
  BY <1>1 DEF AInv, AfterFailure, Fronted, Typed
<1>3. Shows(front, <<>>, 0, 0)
  BY <1>2, NewFrontOK
<1>4. TextSeen(front) = <<>>
  BY <1>3 DEF Shows
<1>5. /\ NewReader \in Reader /\ NewReader.ids = <<>> /\ NewReader.last = NoId /\ ~NewReader.tool
  BY DEF NewReader, Reader
<1>6. Typed'
  <2>1. tries' \in 1 .. MaxTries /\ heard' \in 0 .. MaxEvents
    BY <1>1, AnswerAssumption DEF AInv, Typed
  <2>2. <<>> \in Seq(Piece)
    OBVIOUS
  <2> QED
    BY <1>1, <2>1, <2>2 DEF AInv, Typed
<1>7. Reading'
  <2>1. IsInjective(<<>>)
    BY DEF IsInjective
  <2>2. Len(Concat(<<>>)) = 0 /\ <<>> \in Seq(Words) /\ Len(<<>>) = 0
    BY ConcatNothing
  <2> QED
    BY <1>1, <1>5, <2>1, <2>2 DEF Reading
<1>8. Streaming'
  <2>1. Len(<<>>) = 0 /\ <<>> \in Seq(Piece) /\ <<>> = <<>> \o <<>>
    OBVIOUS
  <2>2. NoCallBefore(<<>>, 0)
    BY DEF NoCallBefore
  <2>3. TextHeld'
    BY <1>1, <1>2, <1>3, <1>4, <2>1, <2>2 DEF TextHeld
  <2>4. ~declared' => Shows(front', received', Len(reader'.ids), fragments')
    BY <1>1, <1>3, <1>5, <2>1
  <2> QED
    BY <1>1, <1>2, <1>5, <2>3, <2>4 DEF Streaming
<1> QED
  BY <1>1, <1>2, <1>6, <1>7, <1>8 DEF AInv, Fronted, AfterFailure, AtTheEnd

\* With no attempt left, or something emitted, the client is told of the error.
LEMMA GivesUpKeeps ==
  ASSUME AInv, GivesUp PROVE AInv'
<1>1. /\ progress = "failed" /\ progress' = "over" /\ front' = Failed(front)
      /\ UNCHANGED <<declared, tries, heard, received, fragments, reader, native, held, emitted, cut>>
  BY DEF GivesUp
<1>2. FrontOK(front) /\ ~Whole
  BY <1>1 DEF AInv, Fronted, AfterFailure
<1>3. WellFormedAnswer(front') /\ Ended(front') /\ ~Complete(front') /\ front'.proto \in Protocol
  BY <1>1, <1>2, FailedIs
<1>4. ~SuccessSaid' /\ ClientSeesTheAnswer'
  <2>1. ~SuccessSaid'
    BY <1>3 DEF Complete, SuccessSaid
  <2>2. ~(reader.err = "none" /\ ~reader.quota /\ Output)'
    BY <1>1, <1>2 DEF Whole, Output
  <2> QED
    BY <1>3, <2>1, <2>2 DEF EndIsTrue, ClientSeesTheAnswer
<1>5. Typed' /\ Reading'
  BY <1>1, <1>3 DEF AInv, Typed, Reading
<1> QED
  BY <1>1, <1>3, <1>4, <1>5 DEF AInv, Fronted, Streaming, AfterFailure, AtTheEnd

\* Nothing happens.
LEMMA StutterKeeps ==
  ASSUME AInv, UNCHANGED answerVars PROVE AInv'
<1>1. Typed' /\ Reading' /\ Fronted' /\ Streaming'
  BY DEF answerVars, AInv, Typed, Reading, Fronted, Streaming, TextHeld
<1>2. AfterFailure'
  BY DEF answerVars, AInv, AfterFailure, Whole, Output
<1>3. AtTheEnd'
  BY DEF answerVars, AInv, AtTheEnd, ClientSeesTheAnswer, EndIsTrue, SuccessSaid, Output,
         ChatText, ChatCalls
<1> QED
  BY <1>1, <1>2, <1>3 DEF AInv

\* The invariant is inductive.
LEMMA AInvNext == AInv /\ [AnswerNext]_answerVars => AInv'
<1> SUFFICES ASSUME AInv, [AnswerNext]_answerVars PROVE AInv'
  OBVIOUS
<1>1. ASSUME NEW x \in Piece, Text(x) PROVE AInv'
  BY <1>1, TextKeeps
<1>2. CASE Thinking
  BY <1>2, ThinkingKeeps
<1>3. ASSUME NEW id \in ToolIds \cup {NoId}, ToolChunk(id) PROVE AInv'
  BY <1>3, ToolChunkKeeps
<1>4. ASSUME NEW kind \in {"failure", "quota"}, Failure(kind) PROVE AInv'
  BY <1>4, FailureKeeps
<1>5. CASE Succeeds
  BY <1>5, SucceedsKeeps
<1>6. CASE Fails
  BY <1>6, FailsKeeps
<1>7. CASE TriesAgain
  BY <1>7, TriesAgainKeeps
<1>8. CASE GivesUp
  BY <1>8, GivesUpKeeps
<1>9. CASE UNCHANGED answerVars
  BY <1>9, StutterKeeps
<1> QED
  BY <1>1, <1>2, <1>3, <1>4, <1>5, <1>6, <1>7, <1>8, <1>9 DEF AnswerNext

\* The invariant holds throughout.
LEMMA AInvAlways == AnswerSpec => []AInv
<1>1. AnswerInit => AInv
  BY AInvInit
<1>2. AInv /\ [AnswerNext]_answerVars => AInv'
  BY AInvNext
<1> QED
  BY <1>1, <1>2, PTL DEF AnswerSpec

\* While an answer runs nothing says that it is complete.
LEMMA NotYet ==
  ASSUME NEW f, FrontOK(f) PROVE ~Complete(f)
<1>1. \A k \in DOMAIN f.written : f.written[k].what \notin {"end", "error"}
  BY DEF FrontOK, ChunksInv, FrontInv, Begun
<1> QED
  BY <1>1 DEF Complete, ToSet

(***************************************************************************)
(* The theorems.                                                           *)
(***************************************************************************)

\* The types; the ids that toolCallIndex has numbered are distinct, and with
\* declared tools each has its entry of toolAcc.
THEOREM AnswerTypesOK == AnswerSpec => []AnswerTypeOK
<1>1. AInv => AnswerTypeOK
  BY DEF AInv, Typed, Reading, Reader, AnswerTypeOK
<1> QED
  BY <1>1, AInvAlways, PTL

\* Whatever order the Deltas come in and wherever they stop, the events that
\* streamAnthropic, streamResponses and streamOpenAI write are a well-formed
\* stream of their protocol, of answers of any length.
THEOREM AlwaysWellFormed == AnswerSpec => []WellFormed
<1>1. AInv => WellFormed
  BY RunningWell DEF AInv, Typed, Fronted, AtTheEnd, WellFormed
<1> QED
  BY <1>1, AInvAlways, PTL

\* However the upstream cuts its text and its arguments, and whenever it fails, a
\* client that is told that its answer is complete has read the text, the calls and
\* the arguments of the non-streaming answer, and is told so only when it is true.
THEOREM ClientAlwaysSeesTheAnswer == AnswerSpec => []ClientSeesTheAnswer
<1>1. AInv => ClientSeesTheAnswer
  <2>1. ASSUME AInv, progress # "over" PROVE ClientSeesTheAnswer
    <3>1. ~Complete(front)
      BY <2>1, NotYet DEF AInv, Fronted
    <3> QED
      BY <2>1, <3>1 DEF Complete, SuccessSaid, EndIsTrue, ClientSeesTheAnswer
  <2> QED
    BY <2>1 DEF AInv, AtTheEnd
<1> QED
  BY <1>1, AInvAlways, PTL
=============================================================================

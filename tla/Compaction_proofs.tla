-------------------------- MODULE Compaction_proofs --------------------------
(***************************************************************************)
(* Proofs about Compaction: what the summary and a turn's context tell of, *)
(* and which turns stay live, for every thread, window and number of       *)
(* overlapping compactions.                                                *)
(***************************************************************************)
EXTENDS Compaction, WellFoundedInduction, TLAPS

Statuses == {"ACTIVE", "SUCCEEDED", "FAILED"}

\* No cursor, or a turn that succeeded and has the window behind it: nothing
\* up to it changes any more.
Mark(r, x) ==
    \/ x = 0
    \/ x \in 1 .. Len(r) /\ r[x] = "SUCCEEDED" /\ Len(Told(r, x, Len(r))) >= ContextLimit

\* A summary and the cursor it was read or written with.
Exact(r, s, x) == Mark(r, x) /\ s = Told(r, 0, x)

\* The turns a compaction is about to tell of follow its cursor without a
\* gap, and leave the window live.
Taken(r, cur, take) ==
    LET last == take[Len(take)]
    IN  /\ Len(take) >= 5
        /\ Mark(r, last) /\ last > cur
        /\ take = Told(r, cur, last)

CompactionOK(r, w) ==
    /\ w.at \in {"turns", "generate", "commit"} => Exact(r, w.summary, w.cur)
    /\ w.at \in {"generate", "commit"} => Taken(r, w.cur, w.take)

Compactions == [at : Steps, summary : Seq(Nat), cur : Nat, take : Seq(Nat)]

CompactorsOK ==
    /\ comp \in [Compactors -> Compactions]
    /\ \A c \in Compactors : CompactionOK(rows, comp[c])

\* A turn that is stored is ACTIVE; one that is loaded has read the rows as
\* they are.
TurnOK ==
    \/ /\ turn.at \in {"idle", "stream", "assess"} /\ turn = [NoTurn EXCEPT !.at = turn.at]
       /\ turn.at = "stream" => Len(rows) > 0 /\ rows[Len(rows)] = "ACTIVE"
    \/ /\ turn.at = "loaded"
       /\ Exact(rows, turn.summary, turn.seen) /\ Mark(rows, turn.cur)
       /\ turn.hist = loadHistory(turn.cur)
       /\ turn.cur = 0 => turn.seen = 0

\* The inductive invariant.
ThreadInv ==
    /\ rows \in Seq(Statuses) /\ cstate \in {"IDLE", "IN_PROGRESS"} /\ inherited \in Seq(Int)
    /\ Exact(rows, summary, cursor)
    /\ ahead.read => Exact(rows, ahead.summary, ahead.seen) /\ (cursor = 0 => ahead.seen = 0)
    /\ TurnOK
    /\ CompactorsOK
----------------------------------------------------------------------------
(* The turns told of.                                                      *)

\* Induction over the naturals, on a set.
LEMMA SetInduction ==
    ASSUME NEW T, 0 \in T, \A n \in Nat : n \in T => n + 1 \in T
    PROVE  \A n \in Nat : n \in T
<1> DEFINE Rest == {n \in Nat : n \notin T}
<1> SUFFICES ASSUME Rest # {} PROVE FALSE
  OBVIOUS
<1>1. PICK x \in Rest : \A y \in Rest : ~(<<y, x>> \in OpToRel(<, Nat))
  <2>1. IsWellFoundedOn(OpToRel(<, Nat), Nat)
    BY NatLessThanWellFounded, Zenon
  <2>2. Rest \subseteq Nat
    OBVIOUS
  <2> QED
    BY <2>1, <2>2, WFMin, Zenon
<1>2. x \in Nat /\ x \notin T /\ x # 0
  OBVIOUS
<1>3. x - 1 \in Nat /\ x - 1 < x /\ (x - 1) + 1 = x
  BY <1>2
<1>4. x - 1 \in Rest
  BY <1>2, <1>3
<1>5. <<x - 1, x>> \in OpToRel(<, Nat)
  BY <1>2, <1>3 DEF OpToRel
<1> QED
  BY <1>1, <1>4, <1>5, Zenon

\* One more turn: what Told adds for it.
Tell(r, a, f, n) ==
    IF n <= a THEN << >> ELSE IF r[n] = "SUCCEEDED" THEN Append(f[n - 1], n) ELSE f[n - 1]

\* f solves the recursion of Told up to turn b.
Solves(f, r, a, b) == f = [n \in 0 .. b |-> Tell(r, a, f, n)]

\* The recursion of Told has a solution.
LEMMA ToldExists ==
    ASSUME NEW r, NEW a \in Nat, NEW b \in Nat
    PROVE  \E f : f = [n \in 0 .. b |-> Tell(r, a, f, n)]
<1> DEFINE T == {m \in Nat : \E f : f = [n \in 0 .. m |-> Tell(r, a, f, n)]}
<1>1. 0 \in T
  <2> DEFINE f == [n \in 0 .. 0 |-> << >>]
  <2>1. f = [n \in 0 .. 0 |-> Tell(r, a, f, n)]
    BY DEF Tell
  <2> QED
    BY <2>1
<1>2. ASSUME NEW m \in Nat, m \in T PROVE m + 1 \in T
  <2>1. PICK f : f = [n \in 0 .. m |-> Tell(r, a, f, n)]
    BY <1>2
  <2>0. PICK g : g = [n \in 0 .. m + 1 |-> IF n = m + 1 THEN Tell(r, a, f, n) ELSE f[n]]
    BY Zenon
  <2>2. ASSUME NEW n \in 0 .. m + 1 PROVE g[n] = Tell(r, a, g, n)
    <3>1. CASE n <= a
      BY <2>0, <2>1, <3>1 DEF Tell
    <3>2. CASE ~(n <= a)
      <4>1. n - 1 \in 0 .. m /\ g[n - 1] = f[n - 1]
        BY <2>0, <3>2
      <4>2. Tell(r, a, g, n) = Tell(r, a, f, n)
        BY <4>1 DEF Tell
      <4>3. n # m + 1 => f[n] = Tell(r, a, f, n)
        BY <2>1
      <4> QED
        BY <2>0, <4>2, <4>3
    <3> QED
      BY <3>1, <3>2
  <2>3. g = [n \in 0 .. m + 1 |-> Tell(r, a, g, n)]
    BY <2>0, <2>2
  <2>4. m + 1 \in Nat
    OBVIOUS
  <2> QED
    BY <2>3, <2>4, Zenon
<1>3. \A m \in Nat : m \in T
  BY <1>1, <1>2, SetInduction, Zenon
<1> QED
  BY <1>3

\* The recursion of Told, unfolded once.
LEMMA ToldIs ==
    ASSUME NEW r, NEW a \in Nat, NEW b \in Nat
    PROVE  \E f : /\ Solves(f, r, a, b)
                  /\ Told(r, a, b) = f[b]
<1> DEFINE f == CHOOSE f : Solves(f, r, a, b)
<1>1. Solves(f, r, a, b)
  BY ToldExists DEF Solves
<1>2. Told(r, a, b) = f[b]
  BY DEF Told, Tell, Solves
<1> QED
  BY <1>1, <1>2, Zenon

\* Solutions agree as far as the turns they are about do.
LEMMA SolutionsAgree ==
    ASSUME NEW r, NEW q, NEW a \in Nat, NEW b \in Nat, NEW c \in Nat, NEW d \in Nat,
           b <= c, b <= d, NEW f, NEW g,
           \A n \in 1 .. b : r[n] = "SUCCEEDED" <=> q[n] = "SUCCEEDED",
           Solves(f, r, a, c),
           Solves(g, q, a, d)
    PROVE  f[b] = g[b]
<1> DEFINE T == {m \in Nat : m <= b => f[m] = g[m]}
<1>1. 0 \in T
  <2>1. f[0] = << >>
    BY DEF Tell, Solves
  <2>2. g[0] = << >>
    BY DEF Tell, Solves
  <2> QED
    BY <2>1, <2>2
<1>2. ASSUME NEW m \in Nat, m \in T PROVE m + 1 \in T
  <2> SUFFICES ASSUME m + 1 <= b PROVE f[m + 1] = g[m + 1]
    OBVIOUS
  <2>1. f[m] = g[m]
    BY <1>2
  <2>2. r[m + 1] = "SUCCEEDED" <=> q[m + 1] = "SUCCEEDED"
    OBVIOUS
  <2>3. m + 1 \in 0 .. c /\ m + 1 \in 0 .. d /\ (m + 1) - 1 = m
    OBVIOUS
  <2>4. f[m + 1] = Tell(r, a, f, m + 1)
    BY <2>3, Zenon DEF Solves
  <2>5. g[m + 1] = Tell(q, a, g, m + 1)
    BY <2>3, Zenon DEF Solves
  <2> QED
    BY <2>1, <2>2, <2>3, <2>4, <2>5 DEF Tell
<1>3. \A m \in Nat : m \in T
  BY <1>1, <1>2, SetInduction, Zenon
<1> QED
  BY <1>3

\* What is told up to a turn depends on which turns up to it succeeded.
LEMMA ToldSame ==
    ASSUME NEW r, NEW q, NEW a \in Nat, NEW b \in Nat,
           \A n \in 1 .. b : r[n] = "SUCCEEDED" <=> q[n] = "SUCCEEDED"
    PROVE  Told(r, a, b) = Told(q, a, b)
<1>1. PICK f : Solves(f, r, a, b) /\ Told(r, a, b) = f[b]
  BY ToldIs
<1>2. PICK g : Solves(g, q, a, b) /\ Told(q, a, b) = g[b]
  BY ToldIs
<1>3. f[b] = g[b]
  BY <1>1, <1>2, SolutionsAgree
<1> QED
  BY <1>1, <1>2, <1>3

\* Nothing is told of the turns up to the cursor.
LEMMA ToldNothing ==
    ASSUME NEW r, NEW a \in Nat, NEW b \in Nat, b <= a
    PROVE  Told(r, a, b) = << >>
<1>1. PICK f : Solves(f, r, a, b) /\ Told(r, a, b) = f[b]
  BY ToldIs
<1> QED
  BY <1>1 DEF Tell, Solves

\* One turn more is told of if it succeeded.
LEMMA ToldNext ==
    ASSUME NEW r, NEW a \in Nat, NEW b \in Nat, a <= b
    PROVE  Told(r, a, b + 1) =
             IF r[b + 1] = "SUCCEEDED" THEN Append(Told(r, a, b), b + 1) ELSE Told(r, a, b)
<1>0. PICK c \in Nat : c = b + 1
  OBVIOUS
<1>1. PICK f : Solves(f, r, a, c) /\ Told(r, a, c) = f[c]
  BY ToldIs
<1>2. PICK g : Solves(g, r, a, b) /\ Told(r, a, b) = g[b]
  BY ToldIs
<1>3. f[b] = g[b]
  <2>1. b <= c /\ b <= b
    BY <1>0
  <2>2. PICK q : q = r
    OBVIOUS
  <2>3. Solves(g, q, a, b) /\ \A n \in 1 .. b : r[n] = "SUCCEEDED" <=> q[n] = "SUCCEEDED"
    BY <1>2, <2>2
  <2> QED
    BY <1>1, <2>1, <2>3, SolutionsAgree
<1>4. f[c] = Tell(r, a, f, c)
  BY <1>0, <1>1 DEF Solves
<1>5. c - 1 = b /\ ~(c <= a)
  BY <1>0
<1> QED
  BY <1>0, <1>1, <1>2, <1>3, <1>4, <1>5 DEF Tell

\* Only turns after a and up to b are told of, and only those that succeeded.
LEMMA ToldOf ==
    ASSUME NEW r, NEW a \in Nat, NEW b \in Nat
    PROVE  /\ Told(r, a, b) \in Seq(Nat)
           /\ \A k \in 1 .. Len(Told(r, a, b)) :
                Told(r, a, b)[k] \in a + 1 .. b /\ r[Told(r, a, b)[k]] = "SUCCEEDED"
<1> DEFINE P(s, m) ==
             s \in Seq(Nat) /\ \A k \in 1 .. Len(s) : s[k] \in a + 1 .. m /\ r[s[k]] = "SUCCEEDED"
           T == {m \in Nat : P(Told(r, a, m), m)}
<1>1. ASSUME NEW m \in Nat, m <= a PROVE P(Told(r, a, m), m)
  <2>1. Told(r, a, m) = << >>
    BY <1>1, ToldNothing
  <2>2. P(<< >>, m)
    OBVIOUS
  <2> QED
    BY <2>1, <2>2
<1>2. ASSUME NEW m \in Nat, P(Told(r, a, m), m) PROVE P(Told(r, a, m + 1), m + 1)
  <2>1. PICK s : s = Told(r, a, m)
    OBVIOUS
  <2>2. P(s, m)
    BY <1>2, <2>1
  <2>3. CASE m < a
    BY <1>1, <2>3
  <2>4. CASE a <= m /\ r[m + 1] = "SUCCEEDED"
    <3>1. Told(r, a, m + 1) = Append(s, m + 1)
      BY <2>1, <2>4, ToldNext, Zenon
    <3>2. P(Append(s, m + 1), m + 1)
      BY <2>2, <2>4
    <3> QED
      BY <3>1, <3>2, Zenon
  <2>5. CASE a <= m /\ r[m + 1] # "SUCCEEDED"
    <3>1. Told(r, a, m + 1) = s
      BY <2>1, <2>5, ToldNext
    <3>2. P(s, m + 1)
      BY <2>2
    <3> QED
      BY <3>1, <3>2
  <2> QED
    BY <2>3, <2>4, <2>5
<1> HIDE DEF P
<1>3. 0 \in T
  BY <1>1
<1>4. \A m \in Nat : m \in T
  <2>1. \A m \in Nat : m \in T => m + 1 \in T
    BY <1>2
  <2> QED
    BY <1>3, <2>1, SetInduction, Zenon
<1>5. P(Told(r, a, b), b)
  BY <1>4
<1> QED
  BY <1>5 DEF P

\* An element appended to the second of two sequences is appended to both.
LEMMA AppendJoin ==
    ASSUME NEW s \in Seq(Nat), NEW t \in Seq(Nat), NEW e \in Nat
    PROVE  s \o Append(t, e) = Append(s \o t, e)
<1> DEFINE x == s \o Append(t, e)
           y == Append(s \o t, e)
<1>1. x \in Seq(Nat) /\ y \in Seq(Nat) /\ Len(x) = Len(s) + Len(t) + 1 /\ Len(y) = Len(x)
  OBVIOUS
<1>2. ASSUME NEW j \in 1 .. Len(x) PROVE x[j] = y[j]
  OBVIOUS
<1> HIDE DEF x, y
<1>3. x = y
  BY <1>1, <1>2
<1> QED
  BY <1>3 DEF x, y

\* What is told up to b and from there on is told altogether.
LEMMA ToldJoin ==
    ASSUME NEW r, NEW a \in Nat, NEW b \in Nat, NEW c \in Nat, a <= b, b <= c
    PROVE  Told(r, a, b) \o Told(r, b, c) = Told(r, a, c)
<1> DEFINE T == {m \in Nat : b <= m => Told(r, a, b) \o Told(r, b, m) = Told(r, a, m)}
<1>1. PICK s : s = Told(r, a, b)
  OBVIOUS
<1>2. s \in Seq(Nat)
  BY <1>1, ToldOf, Zenon
<1>3. Told(r, a, b) \o Told(r, b, b) = Told(r, a, b)
  <2>1. Told(r, b, b) = << >>
    BY ToldNothing
  <2>2. s \o << >> = s
    BY <1>2
  <2> QED
    BY <1>1, <2>1, <2>2
<1>4. ASSUME NEW m \in Nat, m \in T PROVE m + 1 \in T
  <2>1. CASE m + 1 < b
    BY <2>1
  <2>2. CASE m + 1 = b
    BY <1>3, <2>2
  <2>3. CASE b <= m
    <3>1. PICK t, u : t = Told(r, b, m) /\ u = Told(r, a, m)
      OBVIOUS
    <3>2. t \in Seq(Nat) /\ u \in Seq(Nat)
      BY <3>1, ToldOf, Zenon
    <3>3. s \o t = u
      BY <1>1, <1>4, <2>3, <3>1
    <3>4. s \o Append(t, m + 1) = Append(u, m + 1)
      <4>1. m + 1 \in Nat
        OBVIOUS
      <4>2. s \o Append(t, m + 1) = Append(s \o t, m + 1)
        BY <1>2, <3>2, <4>1, AppendJoin, Zenon
      <4> QED
        BY <3>3, <4>2, Zenon
    <3>5. Told(r, b, m + 1) = IF r[m + 1] = "SUCCEEDED" THEN Append(t, m + 1) ELSE t
      BY <2>3, <3>1, ToldNext
    <3>6. Told(r, a, m + 1) = IF r[m + 1] = "SUCCEEDED" THEN Append(u, m + 1) ELSE u
      BY <2>3, <3>1, ToldNext
    <3>7. s \o Told(r, b, m + 1) = Told(r, a, m + 1)
      <4>1. CASE r[m + 1] = "SUCCEEDED"
        BY <3>4, <3>5, <3>6, <4>1, Zenon
      <4>2. CASE r[m + 1] # "SUCCEEDED"
        BY <3>3, <3>5, <3>6, <4>2, Zenon
      <4> QED
        BY <4>1, <4>2, Zenon
    <3> QED
      BY <1>1, <3>7
  <2> QED
    BY <2>1, <2>2, <2>3
<1>5. 0 \in T
  BY <1>3
<1>6. \A m \in Nat : m \in T
  BY <1>4, <1>5, SetInduction, Zenon
<1> QED
  BY <1>6, Zenon

\* What is told up to the k-th turn told of are the first k.
LEMMA ToldPrefix ==
    ASSUME NEW r, NEW a \in Nat, NEW b \in Nat, NEW k \in 1 .. Len(Told(r, a, b))
    PROVE  SubSeq(Told(r, a, b), 1, k) = Told(r, a, Told(r, a, b)[k])
<1> DEFINE P(s) == \A j \in 1 .. Len(s) : SubSeq(s, 1, j) = Told(r, a, s[j])
           T == {m \in Nat : P(Told(r, a, m))}
<1>1. ASSUME NEW m \in Nat, m <= a PROVE P(Told(r, a, m))
  <2>1. Told(r, a, m) = << >>
    BY <1>1, ToldNothing
  <2>2. P(<< >>)
    OBVIOUS
  <2> QED
    BY <2>1, <2>2
<1>2. ASSUME NEW m \in Nat, P(Told(r, a, m)) PROVE P(Told(r, a, m + 1))
  <2>1. PICK s : s = Told(r, a, m)
    OBVIOUS
  <2>2. s \in Seq(Nat) /\ P(s)
    BY <1>2, <2>1, ToldOf, Zenon
  <2>3. CASE m < a
    BY <1>1, <2>3
  <2>4. CASE a <= m /\ r[m + 1] = "SUCCEEDED"
    <3>1. PICK t : t = Append(s, m + 1)
      BY Zenon
    <3>2. t = Told(r, a, m + 1)
      BY <2>1, <2>4, <3>1, ToldNext, Zenon
    <3>3. t \in Seq(Nat) /\ Len(t) = Len(s) + 1 /\ t[Len(s) + 1] = m + 1
      BY <2>2, <3>1
    <3>4. ASSUME NEW j \in 1 .. Len(s) PROVE SubSeq(t, 1, j) = Told(r, a, t[j])
      <4>1. t[j] = s[j] /\ SubSeq(t, 1, j) = SubSeq(s, 1, j)
        BY <2>2, <3>1
      <4> QED
        BY <2>2, <4>1
    <3>5. SubSeq(t, 1, Len(s) + 1) = t
      BY <3>3
    <3>6. ASSUME NEW j \in 1 .. Len(t) PROVE SubSeq(t, 1, j) = Told(r, a, t[j])
      <4>1. CASE j = Len(s) + 1
        BY <3>2, <3>3, <3>5, <4>1, Zenon
      <4>2. CASE j # Len(s) + 1
        <5>1. j \in 1 .. Len(s)
          BY <2>2, <3>3, <4>2
        <5> QED
          BY <3>4, <5>1
      <4> QED
        BY <4>1, <4>2
    <3> QED
      BY <3>2, <3>6
  <2>5. CASE a <= m /\ r[m + 1] # "SUCCEEDED"
    <3>1. Told(r, a, m + 1) = s
      BY <2>1, <2>5, ToldNext
    <3> QED
      BY <2>2, <3>1
  <2> QED
    BY <2>3, <2>4, <2>5
<1> HIDE DEF P
<1>3. 0 \in T
  BY <1>1
<1>4. \A m \in Nat : m \in T
  <2>1. \A m \in Nat : m \in T => m + 1 \in T
    BY <1>2
  <2> QED
    BY <1>3, <2>1, SetInduction, Zenon
<1>5. P(Told(r, a, b))
  BY <1>4
<1> QED
  BY <1>5 DEF P

\* More turns that succeeded are more turns told of.
LEMMA ToldGrows ==
    ASSUME NEW r, NEW q, NEW a \in Nat, NEW b \in Nat, NEW c \in Nat, b <= c,
           \A n \in 1 .. b : r[n] = "SUCCEEDED" => q[n] = "SUCCEEDED"
    PROVE  Len(Told(r, a, b)) <= Len(Told(q, a, c))
<1> DEFINE T == {m \in Nat : m <= b => Len(Told(r, a, m)) <= Len(Told(q, a, m))}
<1>1. \A m \in Nat : m <= a => Told(r, a, m) = << >> /\ Told(q, a, m) = << >>
  BY ToldNothing
<1>2. ASSUME NEW m \in Nat, m \in T PROVE m + 1 \in T
  <2> SUFFICES ASSUME m + 1 <= b PROVE Len(Told(r, a, m + 1)) <= Len(Told(q, a, m + 1))
    OBVIOUS
  <2>1. CASE m < a
    BY <1>1, <2>1
  <2>2. CASE a <= m
    <3>1. PICK s, t : s = Told(r, a, m) /\ t = Told(q, a, m)
      OBVIOUS
    <3>2. s \in Seq(Nat) /\ t \in Seq(Nat)
      BY <3>1, ToldOf, Zenon
    <3>3. Told(r, a, m + 1) = IF r[m + 1] = "SUCCEEDED" THEN Append(s, m + 1) ELSE s
      BY <2>2, <3>1, ToldNext
    <3>4. Told(q, a, m + 1) = IF q[m + 1] = "SUCCEEDED" THEN Append(t, m + 1) ELSE t
      BY <2>2, <3>1, ToldNext
    <3>5. r[m + 1] = "SUCCEEDED" => q[m + 1] = "SUCCEEDED"
      OBVIOUS
    <3>6. Len(s) <= Len(t) /\ Len(s) \in Nat /\ Len(t) \in Nat
      BY <1>2, <3>1, <3>2
    <3>7. Len(Append(s, m + 1)) = Len(s) + 1 /\ Len(Append(t, m + 1)) = Len(t) + 1
      BY <3>2
    <3>8. CASE r[m + 1] = "SUCCEEDED"
      <4>1. Told(r, a, m + 1) = Append(s, m + 1) /\ Told(q, a, m + 1) = Append(t, m + 1)
        BY <3>3, <3>4, <3>5, <3>8, Zenon
      <4> QED
        BY <3>6, <3>7, <4>1
    <3>9. CASE r[m + 1] # "SUCCEEDED"
      <4>1. Told(r, a, m + 1) = s /\ Told(q, a, m + 1) \in {t, Append(t, m + 1)}
        BY <3>3, <3>4, <3>9, Zenon
      <4> QED
        BY <3>6, <3>7, <4>1
    <3> QED
      BY <3>8, <3>9
  <2> QED
    BY <2>1, <2>2
<1>3. 0 \in T
  BY <1>1
<1>4. \A m \in Nat : m \in T
  BY <1>2, <1>3, SetInduction, Zenon
<1>5. Len(Told(r, a, b)) <= Len(Told(q, a, b))
  BY <1>4
<1>6. Told(r, a, b) \in Seq(Nat) /\ Told(q, a, b) \in Seq(Nat) /\ Told(q, a, c) \in Seq(Nat)
  BY ToldOf, Zenon
<1>7. CASE b < a
  <2>1. Told(r, a, b) = << >>
    BY <1>1, <1>7
  <2> QED
    BY <1>6, <2>1
<1>8. CASE a <= b
  <2>1. PICK s, t, u : s = Told(q, a, b) /\ t = Told(q, b, c) /\ u = Told(q, a, c)
    OBVIOUS
  <2>2. s \in Seq(Nat) /\ t \in Seq(Nat) /\ s \o t = u
    BY <1>8, <2>1, ToldOf, ToldJoin, Zenon
  <2>3. Len(s) <= Len(u)
    BY <2>2
  <2> QED
    BY <1>5, <1>6, <2>1, <2>3
<1> QED
  BY <1>7, <1>8

\* The rows move on: new ones are appended, and the last one ends.
Further(r, q) ==
    Len(r) <= Len(q) /\ \A n \in 1 .. Len(r) : q[n] = r[n] \/ (n = Len(r) /\ r[n] = "ACTIVE")

\* As the rows move on, what was told up to a cursor stays told, and no fewer
\* turns are live behind it.
LEMMA FurtherKeeps ==
    ASSUME NEW r \in Seq(Statuses), NEW q \in Seq(Statuses), Further(r, q), NEW x, Mark(r, x)
    PROVE  /\ x \in Nat /\ Mark(q, x)
           /\ \A a \in Nat : Told(q, a, x) = Told(r, a, x)
           /\ Len(Told(r, x, Len(r))) <= Len(Told(q, x, Len(q)))
<1>1. x \in Nat /\ Len(r) \in Nat /\ Len(q) \in Nat
  BY DEF Mark
<1>2. ASSUME NEW n \in 1 .. x PROVE q[n] = r[n]
  BY <1>2 DEF Mark, Further
<1>4. ASSUME NEW a \in Nat PROVE Told(q, a, x) = Told(r, a, x)
  BY <1>1, <1>2, ToldSame
<1>5. Len(Told(r, x, Len(r))) <= Len(Told(q, x, Len(q)))
  <2>1. \A n \in 1 .. Len(r) : r[n] = "SUCCEEDED" => q[n] = "SUCCEEDED"
    BY DEF Further
  <2>2. Len(r) <= Len(q)
    BY DEF Further
  <2> QED
    BY <1>1, <2>1, <2>2, ToldGrows, Zenon
<1>3. Mark(q, x)
  <2>1. Len(Told(r, x, Len(r))) \in Nat /\ Len(Told(q, x, Len(q))) \in Nat
    <3>1. Told(r, x, Len(r)) \in Seq(Nat) /\ Told(q, x, Len(q)) \in Seq(Nat)
      BY <1>1, ToldOf, Zenon
    <3> QED
      BY <3>1
  <2>2. x # 0 => x \in 1 .. Len(q) /\ q[x] = "SUCCEEDED"
    BY <1>1, <1>2 DEF Mark, Further
  <2> QED
    BY <1>5, <2>1, <2>2, CompactionAssumption DEF Mark
<1> QED
  BY <1>1, <1>3, <1>4, <1>5

----------------------------------------------------------------------------
(* The steps.                                                              *)

\* What a compaction has read and taken stays right as the rows move on.
LEMMA CompactionStays ==
    ASSUME NEW r \in Seq(Statuses), NEW q \in Seq(Statuses), Further(r, q),
           NEW w \in Compactions, CompactionOK(r, w)
    PROVE  CompactionOK(q, w)
<1>1. ASSUME NEW s, NEW x, Exact(r, s, x) PROVE Exact(q, s, x)
  <2>1. Mark(q, x) /\ Told(q, 0, x) = Told(r, 0, x)
    BY <1>1, FurtherKeeps DEF Exact
  <2> QED
    BY <1>1, <2>1 DEF Exact
<1>2. ASSUME Taken(r, w.cur, w.take) PROVE Taken(q, w.cur, w.take)
  <2>1. PICK x : x = w.take[Len(w.take)]
    OBVIOUS
  <2>2. /\ Len(w.take) >= 5 /\ Mark(r, x) /\ x > w.cur /\ w.take = Told(r, w.cur, x)
    BY <1>2, <2>1 DEF Taken
  <2>3. w.cur \in Nat
    BY DEF Compactions
  <2>4. x \in Nat /\ Mark(q, x) /\ Told(q, w.cur, x) = Told(r, w.cur, x)
    BY <2>2, <2>3, FurtherKeeps
  <2> QED
    BY <2>1, <2>2, <2>4, Zenon DEF Taken
<1> QED
  BY <1>1, <1>2 DEF CompactionOK

\* The same for the thread, its next request and all compactions.
LEMMA RowsMoveOn ==
    ASSUME ThreadInv, rows' \in Seq(Statuses), Further(rows, rows'), TurnOK',
           UNCHANGED <<summary, cursor, cstate, ahead, comp, inherited>>
    PROVE  ThreadInv'
<1>1. ASSUME NEW s, NEW x, Exact(rows, s, x) PROVE Exact(rows', s, x)
  <2>1. rows \in Seq(Statuses)
    BY DEF ThreadInv
  <2>2. Mark(rows', x) /\ Told(rows', 0, x) = Told(rows, 0, x)
    BY <1>1, <2>1, FurtherKeeps DEF Exact
  <2> QED
    BY <1>1, <2>2 DEF Exact
<1>2. Exact(rows', summary', cursor')
  BY <1>1 DEF ThreadInv
<1>3. ahead'.read => Exact(rows', ahead'.summary, ahead'.seen) /\ (cursor' = 0 => ahead'.seen = 0)
  BY <1>1 DEF ThreadInv
<1>4. CompactorsOK'
  <2>1. ASSUME NEW c \in Compactors PROVE CompactionOK(rows', comp[c])
    BY CompactionStays DEF ThreadInv, CompactorsOK
  <2> QED
    BY <2>1 DEF ThreadInv, CompactorsOK
<1> QED
  BY <1>2, <1>3, <1>4 DEF ThreadInv

\* A turn is stored or ends: rows move on under everything else.
LEMMA RowStep ==
    ASSUME ThreadInv, StoreTurn \/ EndTurn, UNCHANGED inherited
    PROVE  ThreadInv'
<1>1. rows \in Seq(Statuses) /\ TurnOK
  BY DEF ThreadInv
<1>2. CASE StoreTurn
  <2>1. rows' = Append(rows, "ACTIVE") /\ turn' = [NoTurn EXCEPT !.at = "stream"]
    BY <1>2 DEF StoreTurn
  <2>2. rows' \in Seq(Statuses) /\ Further(rows, rows') /\ Len(rows') > 0 /\ rows'[Len(rows')] = "ACTIVE"
    BY <1>1, <2>1 DEF Statuses, Further
  <2>3. TurnOK'
    BY <2>1, <2>2 DEF TurnOK, NoTurn
  <2> QED
    BY <1>2, <2>2, <2>3, RowsMoveOn DEF StoreTurn
<1>3. CASE EndTurn
  <2>1. Len(rows) > 0 /\ rows[Len(rows)] = "ACTIVE" /\ turn = [NoTurn EXCEPT !.at = "stream"]
    BY <1>1, <1>3 DEF TurnOK, EndTurn
  <2>2. \/ rows' = rows
        \/ \E v \in Statuses : rows' = [rows EXCEPT ![Len(rows)] = v]
    BY <1>3 DEF EndTurn, Statuses
  <2>3. rows' \in Seq(Statuses) /\ Further(rows, rows')
    BY <1>1, <2>1, <2>2 DEF Further
  <2>4. turn' \in {NoTurn, [turn EXCEPT !.at = "assess"]}
    BY <1>3 DEF EndTurn
  <2>5. CASE turn' = NoTurn
    BY <1>3, <2>3, <2>5, RowsMoveOn DEF EndTurn, TurnOK, NoTurn
  <2>6. CASE turn' = [turn EXCEPT !.at = "assess"]
    <3>1. turn' = [NoTurn EXCEPT !.at = "assess"] /\ turn'.at = "assess"
      BY <2>1, <2>6, Zenon DEF NoTurn
    <3>2. TurnOK'
      BY <3>1 DEF TurnOK
    <3> QED
      BY <1>3, <2>3, <3>2, RowsMoveOn DEF EndTurn
  <2> QED
    BY <2>4, <2>5, <2>6
<1> QED
  BY <1>2, <1>3

\* A turn that waits keeps what it has read.
LEMMA TurnStill ==
    ASSUME TurnOK, UNCHANGED <<rows, turn, inherited>>
    PROVE  TurnOK'
<1>1. ASSUME NEW x PROVE loadHistory(x)' = loadHistory(x)
  BY DEF loadHistory, Succeeded
<1>2. loadHistory(turn.cur)' = loadHistory(turn.cur)
  BY <1>1 DEF loadHistory, Succeeded
<1> QED
  BY <1>2 DEF TurnOK

\* A request reads the thread, is refused, or loads its history.
LEMMA RequestStep ==
    ASSUME ThreadInv, ReadThread \/ Refuse \/ LoadHistory, UNCHANGED inherited
    PROVE  ThreadInv'
<1>1. UNCHANGED <<rows, summary, cursor, cstate, comp>>
  BY DEF ReadThread, Refuse, LoadHistory
<1>2. CompactorsOK'
  BY <1>1 DEF ThreadInv, CompactorsOK
<1>3. ahead'.read => Exact(rows', ahead'.summary, ahead'.seen) /\ (cursor' = 0 => ahead'.seen = 0)
  <2>1. CASE ReadThread
    BY <1>1, <2>1 DEF ReadThread, ThreadInv
  <2>2. CASE Refuse \/ LoadHistory
    BY <2>2 DEF Refuse, LoadHistory, NotRead
  <2> QED
    BY <2>1, <2>2
<1>4. TurnOK'
  <2>1. CASE LoadHistory
    <3>1. /\ turn'.at = "loaded" /\ turn'.summary = ahead.summary /\ turn'.seen = ahead.seen
          /\ turn'.cur = cursor /\ turn'.hist = loadHistory(cursor)
      BY <2>1 DEF LoadHistory
    <3>2. Exact(rows, ahead.summary, ahead.seen) /\ Mark(rows, cursor) /\ (cursor = 0 => ahead.seen = 0)
      BY <2>1 DEF LoadHistory, ThreadInv, Exact
    <3>3. turn'.hist = loadHistory(turn.cur)'
      BY <1>1, <3>1 DEF loadHistory, Succeeded
    <3> QED
      BY <1>1, <3>1, <3>2, <3>3 DEF TurnOK
  <2>2. CASE ReadThread \/ Refuse
    <3>1. turn' = turn
      BY <2>2 DEF ReadThread, Refuse
    <3> QED
      BY <1>1, <3>1, TurnStill DEF ThreadInv
  <2> QED
    BY <2>1, <2>2
<1> QED
  BY <1>1, <1>2, <1>3, <1>4 DEF ThreadInv

\* A step of one compaction that leaves the rows alone.
LEMMA OneCompaction ==
    ASSUME ThreadInv, UNCHANGED <<rows, ahead, inherited>>, TurnOK', cstate' \in {"IDLE", "IN_PROGRESS"},
           Exact(rows, summary', cursor'), cursor' = 0 => cursor = 0,
           NEW c \in Compactors, NEW w \in Compactions, CompactionOK(rows, w),
           comp' = [comp EXCEPT ![c] = w]
    PROVE  ThreadInv'
<1>1. CompactorsOK'
  BY DEF ThreadInv, CompactorsOK
<1> QED
  BY <1>1 DEF ThreadInv

\* The end of a turn may start a compaction.
LEMMA AssessStep ==
    ASSUME ThreadInv, Assess, UNCHANGED inherited
    PROVE  ThreadInv'
<1>1. UNCHANGED <<rows, ahead, summary, cursor, cstate>> /\ turn' = NoTurn
  BY DEF Assess
<1>2. TurnOK'
  BY <1>1 DEF TurnOK, NoTurn
<1>3. CASE UNCHANGED comp
  BY <1>1, <1>2, <1>3 DEF ThreadInv, CompactorsOK
<1>4. CASE \E c \in Compactors : comp' = [comp EXCEPT ![c].at = "acquire"]
  <2>1. PICK c \in Compactors : comp' = [comp EXCEPT ![c].at = "acquire"]
    BY <1>4, Zenon
  <2>2. PICK w : w = [comp[c] EXCEPT !.at = "acquire"]
    BY Zenon
  <2>3. w \in Compactions /\ w.at = "acquire" /\ comp' = [comp EXCEPT ![c] = w]
    BY <2>1, <2>2, Zenon DEF ThreadInv, CompactorsOK, Compactions, Steps
  <2>4. CompactionOK(rows, w)
    BY <2>3 DEF CompactionOK
  <2> QED
    BY <1>1, <1>2, <2>3, <2>4, OneCompaction, Zenon DEF ThreadInv
<1> QED
  BY <1>3, <1>4 DEF Assess

\* A compaction that moves on without having read or taken anything new.
LEMMA MoveStep ==
    ASSUME ThreadInv, UNCHANGED <<rows, ahead, inherited>>, TurnOK', cstate' \in {"IDLE", "IN_PROGRESS"},
           Exact(rows, summary', cursor'), cursor' = 0 => cursor = 0, NEW c \in Compactors, NEW p \in Steps, MoveTo(c, p),
           p \in {"generate", "commit"} => comp[c].at \in {"generate", "commit"},
           p # "turns"
    PROVE  ThreadInv'
<1>1. PICK w : w = [comp[c] EXCEPT !.at = p]
  BY Zenon
<1>2. /\ w \in Compactions /\ comp' = [comp EXCEPT ![c] = w]
      /\ w.at = p /\ w.summary = comp[c].summary /\ w.cur = comp[c].cur /\ w.take = comp[c].take
  BY <1>1, Zenon DEF MoveTo, ThreadInv, CompactorsOK, Compactions
<1>3. CompactionOK(rows, comp[c])
  BY Zenon DEF ThreadInv, CompactorsOK
<1>4. CompactionOK(rows, w)
  BY <1>2, <1>3 DEF CompactionOK
<1> QED
  BY <1>2, <1>4, OneCompaction, Zenon

\* A compaction that ends.
LEMMA EndStep ==
    ASSUME ThreadInv, UNCHANGED <<rows, ahead, inherited>>, TurnOK', cstate' \in {"IDLE", "IN_PROGRESS"},
           Exact(rows, summary', cursor'), cursor' = 0 => cursor = 0, NEW c \in Compactors, End(c)
    PROVE  ThreadInv'
<1>1. NoCompaction \in Compactions /\ CompactionOK(rows, NoCompaction)
  BY DEF NoCompaction, Compactions, CompactionOK, Steps
<1> QED
  BY <1>1, OneCompaction, Zenon DEF End

\* toCompact takes turns, or none.
LEMMA TakesTurns ==
    ASSUME NEW s \in Seq(Nat)
    PROVE  toCompact(s) \in Seq(Nat)
<1>1. PICK k : k = Larger(0, Len(s) - ContextLimit)
  OBVIOUS
<1>2. k \in 0 .. Len(s)
  BY <1>1, CompactionAssumption DEF Larger
<1> QED
  BY <1>1, <1>2 DEF toCompact

\* toCompact leaves the window, and stops at a turn that succeeded.
LEMMA TakeTurns ==
    ASSUME NEW r \in Seq(Statuses), NEW cur \in Nat, NEW take,
           take = toCompact(Told(r, cur, Len(r))), Len(take) >= 5
    PROVE  take \in Seq(Nat) /\ Taken(r, cur, take)
<1>1. PICK s, k : s = Told(r, cur, Len(r)) /\ k = Len(s) - ContextLimit
  OBVIOUS
<1>2. Len(r) \in Nat /\ ContextLimit \in Nat
  BY CompactionAssumption
<1>3. s \in Seq(Nat) /\ \A j \in 1 .. Len(s) : s[j] \in cur + 1 .. Len(r) /\ r[s[j]] = "SUCCEEDED"
  BY <1>1, <1>2, ToldOf, Zenon
<1>4. k \in 1 .. Len(s) /\ take = SubSeq(s, 1, k) /\ k >= 5
  <2>1. take = SubSeq(s, 1, Larger(0, k))
    BY <1>1 DEF toCompact
  <2>2. Len(s) \in Nat /\ k \in Int /\ k <= Len(s)
    BY <1>1, <1>2, <1>3
  <2>3. CASE k <= 0
    <3>1. Larger(0, k) = 0
      BY <2>2, <2>3 DEF Larger
    <3>2. SubSeq(s, 1, 0) = << >>
      BY <1>3
    <3> QED
      BY <2>1, <3>1, <3>2
  <2>4. CASE k > 0
    <3>1. Larger(0, k) = k
      BY <2>2, <2>4 DEF Larger
    <3>2. Len(SubSeq(s, 1, k)) = k
      BY <1>3, <2>2, <2>4
    <3> QED
      BY <2>1, <2>2, <2>4, <3>1, <3>2
  <2> QED
    BY <2>2, <2>3, <2>4
<1>5. take \in Seq(Nat) /\ Len(take) = k /\ take[Len(take)] = s[k]
  BY <1>3, <1>4
<1>6. PICK x : x = s[k]
  OBVIOUS
<1>7. x \in Nat /\ x > cur /\ x \in 1 .. Len(r) /\ x <= Len(r) /\ r[x] = "SUCCEEDED"
  BY <1>2, <1>3, <1>4, <1>6
<1>8. take = Told(r, cur, x)
  BY <1>1, <1>2, <1>4, <1>6, ToldPrefix, Zenon
<1>9. Len(Told(r, x, Len(r))) = ContextLimit
  <2>1. PICK t : t = Told(r, x, Len(r))
    OBVIOUS
  <2>2. t \in Seq(Nat)
    BY <1>2, <1>7, <2>1, ToldOf, Zenon
  <2>3. take \o t = s
    <3>1. cur <= x
      BY <1>7
    <3>2. Told(r, cur, x) \o Told(r, x, Len(r)) = Told(r, cur, Len(r))
      BY <1>2, <1>7, <3>1, ToldJoin, Zenon
    <3> QED
      BY <1>1, <1>8, <2>1, <3>2, Zenon
  <2>4. Len(s) = k + Len(t)
    BY <1>5, <2>2, <2>3
  <2> QED
    BY <1>1, <1>2, <1>3, <2>1, <2>2, <2>4
<1>10. Mark(r, x)
  BY <1>2, <1>7, <1>9 DEF Mark
<1> QED
  BY <1>2, <1>4, <1>5, <1>6, <1>7, <1>8, <1>10 DEF Taken

\* ReadRow and ReadTurns: a compaction reads the thread and its turns.
LEMMA ReadStep ==
    ASSUME ThreadInv, NEW c \in Compactors, ReadRow(c) \/ ReadTurns(c), TurnOK', UNCHANGED inherited
    PROVE  ThreadInv'
<1>1. UNCHANGED <<rows, ahead, turn, summary, cursor, cstate>>
  BY DEF ReadRow, ReadTurns, thisTurn
<1>2. /\ comp \in [Compactors -> Compactions] /\ CompactionOK(rows, comp[c])
      /\ cstate' \in {"IDLE", "IN_PROGRESS"} /\ Exact(rows, summary', cursor')
  BY <1>1 DEF ThreadInv, CompactorsOK
<1>3. rows \in Seq(Statuses) /\ cursor \in Nat /\ summary \in Seq(Nat)
  <2>1. rows \in Seq(Statuses) /\ Exact(rows, summary, cursor)
    BY DEF ThreadInv
  <2>2. cursor \in Nat
    BY <2>1 DEF Exact, Mark
  <2> QED
    BY <2>1, <2>2, ToldOf DEF Exact
<1>4. CASE MoveTo(c, "catch")
  BY <1>1, <1>2, <1>4, MoveStep DEF Steps
<1>5. CASE ReadRow(c) /\ ~MoveTo(c, "catch")
  <2>1. PICK at, w : /\ at = IF Len(rows) < CompactThreshold THEN "release" ELSE "turns"
                     /\ w = [comp[c] EXCEPT !.summary = summary, !.cur = cursor, !.at = at]
    BY Zenon
  <2>2. /\ w \in Compactions /\ w.at \in {"release", "turns"} /\ w.summary = summary /\ w.cur = cursor
        /\ comp' = [comp EXCEPT ![c] = w]
    <3>1. at \in {"release", "turns"}
      BY <2>1, Zenon
    <3>2. w.at = at /\ w.summary = summary /\ w.cur = cursor /\ w \in Compactions
      BY <1>2, <1>3, <2>1, <3>1, Zenon DEF Compactions, Steps
    <3>3. comp' = [comp EXCEPT ![c] = w]
      BY <1>5, <2>1, Zenon DEF ReadRow
    <3> QED
      BY <3>1, <3>2, <3>3, Zenon
  <2>3. CompactionOK(rows, w)
    BY <1>1, <1>2, <2>2, Zenon DEF CompactionOK
  <2> QED
    BY <1>1, <1>2, <2>2, <2>3, OneCompaction, Zenon
<1>6. CASE ReadTurns(c) /\ ~MoveTo(c, "catch")
  <2>1. PICK take : take = toCompact(Succeeded(comp[c].cur))
    OBVIOUS
  <2>2. comp[c].cur \in Nat /\ comp[c].at = "turns" /\ Exact(rows, comp[c].summary, comp[c].cur)
    BY <1>2, <1>6 DEF ReadTurns, In, Compactions, CompactionOK
  <2>3. Len(take) >= 5 => take \in Seq(Nat) /\ Taken(rows, comp[c].cur, take)
    BY <1>3, <2>1, <2>2, TakeTurns, Zenon DEF Succeeded
  <2>4. PICK w : w = [comp[c] EXCEPT !.take = IF Len(take) < 5 THEN << >> ELSE take,
                                     !.at = IF Len(take) < 5 THEN "release" ELSE "generate"]
    BY Zenon
  <2>5. comp' = [comp EXCEPT ![c] = w]
    BY <1>2, <1>6, <2>1, <2>4, Zenon DEF ReadTurns
  <2>6. Len(take) \in Nat
    <3>1. Succeeded(comp[c].cur) \in Seq(Nat)
      BY <1>3, <2>2, ToldOf DEF Succeeded
    <3> QED
      BY <2>1, <3>1, TakesTurns
  <2>7. CASE Len(take) < 5
    <3>0. w = [comp[c] EXCEPT !.take = << >>, !.at = "release"] /\ << >> \in Seq(Nat)
      BY <2>4, <2>7
    <3>1. w \in Compactions /\ w.at = "release"
      BY <1>2, <3>0, Zenon DEF Compactions, Steps
    <3>2. CompactionOK(rows, w)
      BY <3>1 DEF CompactionOK
    <3> QED
      BY <1>1, <1>2, <2>5, <3>1, <3>2, OneCompaction, Zenon
  <2>8. CASE Len(take) >= 5
    <3>1. ~(Len(take) < 5) /\ take \in Seq(Nat) /\ Taken(rows, comp[c].cur, take)
      BY <2>3, <2>6, <2>8
    <3>2. /\ w \in Compactions /\ w.at = "generate" /\ w.take = take
          /\ w.summary = comp[c].summary /\ w.cur = comp[c].cur
      BY <1>2, <2>4, <3>1, Zenon DEF Compactions, Steps
    <3>3. CompactionOK(rows, w)
      BY <2>2, <3>1, <3>2, Zenon DEF CompactionOK
    <3> QED
      BY <1>1, <1>2, <2>5, <3>2, <3>3, OneCompaction, Zenon
  <2> QED
    BY <2>6, <2>7, <2>8
<1> QED
  BY <1>4, <1>5, <1>6, Zenon

\* What Advance writes tells of every successful turn up to its cursor, and
\* leaves the window live.
LEMMA AdvanceExact ==
    ASSUME ThreadInv, NEW c \in Compactors, In(c, "commit"), Advance(c)
    PROVE  /\ cstate' = "IDLE" /\ Exact(rows, summary', cursor') /\ cursor' # 0
           /\ Len(Told(rows, cursor', Len(rows))) >= ContextLimit
<1>1. PICK w, x : w = comp[c] /\ x = w.take[Len(w.take)]
  OBVIOUS
<1>2. w \in Compactions /\ Exact(rows, w.summary, w.cur) /\ Taken(rows, w.cur, w.take)
  BY <1>1, Zenon DEF ThreadInv, CompactorsOK, CompactionOK, In
<1>3. Mark(rows, x) /\ x > w.cur /\ w.take = Told(rows, w.cur, x)
  BY <1>1, <1>2, Zenon DEF Taken
<1>4. /\ w.cur \in Nat /\ x \in Nat /\ x # 0
      /\ Len(Told(rows, x, Len(rows))) >= ContextLimit
  BY <1>2, <1>3 DEF Compactions, Mark
<1>5. w.summary \o w.take = Told(rows, 0, x)
  <2>1. w.summary = Told(rows, 0, w.cur) /\ 0 <= w.cur /\ w.cur <= x /\ 0 \in Nat
    BY <1>2, <1>3, <1>4 DEF Exact
  <2>2. Told(rows, 0, w.cur) \o Told(rows, w.cur, x) = Told(rows, 0, x)
    BY <1>4, <2>1, ToldJoin, Zenon
  <2> QED
    BY <1>3, <2>1, <2>2, Zenon
<1>6. summary' = w.summary \o w.take /\ cursor' = x /\ cstate' = "IDLE"
  BY <1>1, Zenon DEF Advance
<1> QED
  BY <1>3, <1>4, <1>5, <1>6 DEF Exact

\* Every step of a compaction.
LEMMA CompactStep ==
    ASSUME ThreadInv, NEW c \in Compactors, Compact(c) \/ Die(c), UNCHANGED inherited
    PROVE  ThreadInv'
<1>1. UNCHANGED <<rows, ahead, turn>>
  BY Zenon DEF Compact, Acquire, ReadRow, ReadTurns, Generate, Commit, Release, Catch, Die, thisTurn
<1>2. TurnOK'
  BY <1>1, TurnStill DEF ThreadInv
<1>3. cstate \in {"IDLE", "IN_PROGRESS"} /\ Exact(rows, summary, cursor)
  BY Zenon DEF ThreadInv
<1>4. CASE Acquire(c) \/ Catch(c) \/ Die(c)
  <2>1. UNCHANGED <<summary, cursor>> /\ cstate' \in {"IDLE", "IN_PROGRESS"}
    BY <1>3, <1>4 DEF Acquire, Catch, Die
  <2>2. MoveTo(c, "thread") \/ End(c)
    BY <1>4 DEF Acquire, Catch, Die
  <2>3. Exact(rows, summary', cursor')
    BY <1>3, <2>1
  <2> QED
    BY <1>1, <1>2, <2>1, <2>2, <2>3, MoveStep, EndStep DEF Steps
<1>5. CASE ReadRow(c) \/ ReadTurns(c)
  BY <1>2, <1>5, ReadStep, Zenon
<1>6. CASE Generate(c)
  BY <1>1, <1>2, <1>3, <1>6, MoveStep DEF Generate, Steps, In
<1>7. CASE Release(c)
  <2>1. UNCHANGED <<summary, cursor>> /\ cstate' \in {"IDLE", "IN_PROGRESS"}
    BY <1>3, <1>7 DEF Release
  <2>2. MoveTo(c, "catch") \/ End(c)
    BY <1>7 DEF Release
  <2>3. Exact(rows, summary', cursor')
    BY <1>3, <2>1, Zenon
  <2> QED
    BY <1>1, <1>2, <2>1, <2>2, <2>3, MoveStep, EndStep DEF Steps
<1>8. CASE Commit(c)
  <2>1. cstate' \in {"IDLE", "IN_PROGRESS"} /\ Exact(rows, summary', cursor') /\ (cursor' = 0 => cursor = 0)
    <3>1. CASE Advance(c)
      BY <1>8, <3>1, AdvanceExact DEF Commit
    <3>2. CASE UNCHANGED <<summary, cursor, cstate>>
      BY <1>3, <3>2
    <3> QED
      BY <1>8, <3>1, <3>2 DEF Commit
  <2>2. MoveTo(c, "catch") \/ End(c)
    BY <1>8 DEF Commit
  <2> QED
    BY <1>1, <1>2, <2>1, <2>2, MoveStep, EndStep DEF Steps
<1> QED
  BY <1>4, <1>5, <1>6, <1>7, <1>8 DEF Compact

----------------------------------------------------------------------------
(* The theorems.                                                           *)

\* The initial state.
LEMMA ThreadStart == ThreadInit => ThreadInv
<1> SUFFICES ASSUME ThreadInit PROVE ThreadInv
  OBVIOUS
<1>1. Exact(rows, summary, cursor)
  <2>1. Told(rows, 0, 0) = << >>
    BY ToldNothing
  <2> QED
    BY <2>1 DEF ThreadInit, Exact, Mark
<1>2. TurnOK
  BY DEF ThreadInit, TurnOK, NoTurn
<1>3. CompactorsOK
  BY DEF ThreadInit, CompactorsOK, CompactionOK, Compactions, NoCompaction, Steps
<1>4. inherited \in Seq(Int)
  <2>1. PICK n \in Nat : inherited = [k \in 1 .. n |-> k - n - 1]
    BY CompactionAssumption DEF ThreadInit
  <2> QED
    BY <2>1
<1> QED
  BY <1>1, <1>2, <1>3, <1>4 DEF ThreadInit, ThreadInv, NotRead

\* Every step.
LEMMA ThreadStep ==
    ASSUME ThreadInv, [ThreadNext]_threadVars
    PROVE  ThreadInv'
<1>1. CASE UNCHANGED threadVars
  <2>1. TurnOK'
    BY <1>1, TurnStill DEF threadVars, ThreadInv
  <2> QED
    BY <1>1, <2>1, Zenon DEF threadVars, ThreadInv, CompactorsOK
<1>2. CASE ThreadNext
  <2>1. UNCHANGED inherited
    BY <1>2, Zenon DEF ThreadNext
  <2>2. CASE ReadThread \/ Refuse \/ LoadHistory
    BY <2>1, <2>2, RequestStep
  <2>3. CASE StoreTurn \/ EndTurn
    BY <2>1, <2>3, RowStep
  <2>4. CASE Assess
    BY <2>1, <2>4, AssessStep
  <2>5. CASE \E c \in Compactors : Compact(c) \/ Die(c)
    BY <2>1, <2>5, CompactStep
  <2> QED
    BY <1>2, <2>2, <2>3, <2>4, <2>5 DEF ThreadNext
<1> QED
  BY <1>1, <1>2

\* The inductive invariant holds, whatever requests, turns and compactions of
\* executeStreamingTurn and compactIfNeeded overlap, fail and die.
THEOREM ThreadInductive == ThreadSpec => []ThreadInv
BY ThreadStart, ThreadStep, PTL DEF ThreadSpec

\* The types; what a compaction is about to tell of, five turns at least,
\* begins after the cursor it read.
THEOREM ThreadTypes == ThreadSpec => []ThreadTypeOK
<1>1. ASSUME ThreadInv PROVE ThreadTypeOK
  <2>1. cursor \in 0 .. Len(rows)
    BY <1>1 DEF ThreadInv, Exact, Mark
  <2>2. ASSUME NEW c \in Compactors, comp[c].at \in {"generate", "commit"}
        PROVE  Len(comp[c].take) >= 5 /\ comp[c].take[1] > comp[c].cur
    <3>1. PICK w, x : w = comp[c] /\ x = w.take[Len(w.take)]
      OBVIOUS
    <3>2. w \in Compactions /\ Taken(rows, w.cur, w.take)
      BY <1>1, <2>2, <3>1, Zenon DEF ThreadInv, CompactorsOK, CompactionOK
    <3>3. w.cur \in Nat /\ x \in Nat /\ w.take = Told(rows, w.cur, x) /\ Len(w.take) >= 5
      BY <3>1, <3>2 DEF Compactions, Taken, Mark
    <3>4. \A j \in 1 .. Len(w.take) : w.take[j] \in w.cur + 1 .. x
      BY <3>3, ToldOf, Zenon
    <3>5. 1 \in 1 .. Len(w.take)
      BY <3>2, <3>3 DEF Compactions
    <3> QED
      BY <3>1, <3>3, <3>4, <3>5
  <2> QED
    BY <1>1, <2>1, <2>2 DEF ThreadInv, ThreadTypeOK, Statuses, TurnOK, CompactorsOK, Compactions
<1> QED
  BY <1>1, ThreadInductive, PTL

\* compactIfNeeded's summary tells of exactly the successful turns up to the
\* cursor, each once and in order.
THEOREM SummaryIsExact == ThreadSpec => []SummaryExact
<1>1. ThreadInv => SummaryExact
  BY Zenon DEF ThreadInv, Exact, SummaryExact
<1> QED
  BY <1>1, ThreadInductive, PTL

\* Newest keeps a sequence that is short enough, and its length otherwise.
LEMMA NewestOf ==
    ASSUME NEW S, NEW s \in Seq(S), NEW k \in Nat
    PROVE  /\ Len(s) <= k => Newest(s, k) = s
           /\ Newest(s, k) \in Seq(S) /\ Len(Newest(s, k)) <= k
<1>1. CASE Len(s) <= k
  <2>1. Larger(1, Len(s) - k + 1) = 1
    BY <1>1 DEF Larger
  <2> QED
    BY <1>1, <2>1 DEF Newest
<1>2. CASE Len(s) > k
  <2>1. Larger(1, Len(s) - k + 1) = Len(s) - k + 1
    BY <1>2 DEF Larger
  <2> QED
    BY <1>2, <2>1 DEF Newest
<1> QED
  BY <1>1, <1>2

\* What getOrCreateThread and loadHistory read is, whatever compactions landed
\* in between, all but the stretch between their cursors; the window is whole.
THEOREM ContextIsExact == ThreadSpec => []ContextExact
<1>1. ASSUME ThreadInv, turn.at = "loaded" PROVE ContextExact
  <2>1. PICK x, y, s : x = turn.cur /\ y = turn.seen /\ s = Succeeded(x)
    OBVIOUS
  <2>2. /\ rows \in Seq(Statuses) /\ Exact(rows, turn.summary, y) /\ Mark(rows, x)
        /\ turn.hist = loadHistory(x) /\ (x = 0 => y = 0)
    BY <1>1, <2>1 DEF ThreadInv, TurnOK
  <2>3. /\ x \in Nat /\ x <= Len(rows) /\ Len(rows) \in Nat /\ 0 \in Nat /\ 0 <= x
        /\ turn.summary = Told(rows, 0, y)
    BY <2>2 DEF Exact, Mark
  <2>4. s \in Seq(Nat) /\ Succeeded(0) \in Seq(Nat)
    BY <2>1, <2>3, ToldOf, Zenon DEF Succeeded
  <2>5. cap \in Nat /\ turnLimit \in Nat
    BY CompactionAssumption DEF cap, turnLimit, Larger
  <2>6. ASSUME x # 0, Len(s) <= cap
        PROVE  /\ turn.hist = s /\ Len(s) >= ContextLimit
               /\ Told(rows, 0, x) \o s = Succeeded(0)
    <3>1. turn.hist = Newest(s, cap)
      BY <2>1, <2>2, <2>6 DEF loadHistory
    <3>2. Newest(s, cap) = s
      BY <2>4, <2>5, <2>6, NewestOf, Zenon
    <3>3. Len(s) >= ContextLimit
      BY <2>1, <2>2, <2>6 DEF Mark, Succeeded
    <3>4. Told(rows, 0, x) \o Told(rows, x, Len(rows)) = Told(rows, 0, Len(rows))
      BY <2>3, ToldJoin, Zenon
    <3> QED
      BY <2>1, <3>1, <3>2, <3>3, <3>4, Zenon DEF Succeeded
  <2>7. ASSUME x = 0, Len(inherited) + turnLimit <= cap, inherited \in Seq(Int)
        PROVE  turn.summary \o turn.hist = inherited \o Newest(Succeeded(0), turnLimit)
    <3>1. PICK t, u : t = Newest(Succeeded(0), turnLimit) /\ u = inherited \o t
      OBVIOUS
    <3>2. t \in Seq(Nat) /\ Len(t) <= turnLimit
      BY <2>4, <2>5, <3>1, NewestOf, Zenon
    <3>3. u \in Seq(Int) /\ Len(u) <= cap
      BY <2>5, <2>7, <3>1, <3>2
    <3>4. turn.hist = Newest(u, cap)
      BY <2>2, <2>7, <3>1 DEF loadHistory
    <3>5. turn.hist = u
      BY <2>5, <3>3, <3>4, NewestOf, Zenon
    <3>6. turn.summary = << >>
      BY <2>2, <2>3, <2>7, ToldNothing
    <3> QED
      BY <3>1, <3>3, <3>5, <3>6
  <2>8. inherited \in Seq(Int)
    BY <1>1 DEF ThreadInv
  <2> QED
    BY <2>1, <2>3, <2>6, <2>7, <2>8, Zenon DEF ContextExact
<1>2. ThreadInv => ContextExact
  BY <1>1, Zenon DEF ContextExact
<1> QED
  BY <1>2, ThreadInductive, PTL

\* A commit of compactIfNeeded leaves contextLimit successful turns after the
\* cursor, however far the thread has gone on since its turns were read.
THEOREM TailIsLive == ThreadSpec => TailStaysLive
<1>1. ASSUME ThreadInv, [ThreadNext]_threadVars, cursor' # cursor
      PROVE  Len(Told(rows, cursor', Len(rows))) >= ContextLimit
  <2>1. PICK c \in Compactors : Commit(c) /\ Advance(c)
    BY <1>1, Zenon DEF ThreadNext, threadVars, ReadThread, Refuse, LoadHistory, StoreTurn, EndTurn, Assess,
                Compact, Acquire, ReadRow, ReadTurns, Generate, Commit, Release, Catch, Die
  <2> QED
    BY <1>1, <2>1, AdvanceExact DEF Commit
<1>2. ThreadInv /\ [ThreadNext]_threadVars
        => [cursor' # cursor => Len(Told(rows, cursor', Len(rows))) >= ContextLimit]_threadVars
  BY <1>1
<1> QED
  BY <1>2, ThreadInductive, PTL DEF ThreadSpec, TailStaysLive
=============================================================================

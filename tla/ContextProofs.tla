------------------------------ MODULE ContextProofs ------------------------------
(***************************************************************************)
(* Whatever the limits and the length of a session: what is sent covers    *)
(* the whole history, and its newest message as it is; and it is refused   *)
(* for no other reason than a summary that was needed, or a full disk.     *)
(*                                                                         *)
(* The lemmas go from cuts (the least or greatest of a set of places), to  *)
(* pieces put together, to the outcomes of each mode, to the actions; for  *)
(* refusals once more, from sums of costs and legality on.                 *)
(***************************************************************************)
EXTENDS Context, SequenceTheorems, FiniteSetTheorems, WellFoundedInduction, TLAPS

RawMessage == [kind : Kinds, cost : Nat \ {0}]
Piece == [first : Nat, last : Nat, kind : Kinds \cup {"marker"}, cost : Nat \ {0}]

\* The pieces p stand for the first n messages, each once and in order.
Covers(p, n) ==
  /\ p \in Seq(Piece)
  /\ IF p = <<>> THEN n = 0 ELSE p[1].first = 1 /\ p[Len(p)].last = n
  /\ \A k \in 2..Len(p) : p[k].first = p[k - 1].last + 1

\* Rest, for any history.
RestOf(h, n) ==
  [k \in 1..(Len(h) - n) |->
     [first |-> n + k, last |-> n + k, kind |-> h[n + k].kind, cost |-> h[n + k].cost]]

\* The last of the pieces p is the last message of the history h.
EndsAs(p, h) == p[Len(p)].kind = h[Len(h)].kind /\ p[Len(p)].cost = h[Len(h)].cost

\* The pieces between two cuts replaced by a marker, and those before one cut.
Replaced(p, h, t, cost) ==
  Prefix(p, h) \o <<Marker(p[h + 1].first, p[t].last, cost)>> \o Suffix(p, t)
Rebuilt(p, cut, cost) ==
  <<Marker(1, IF cut = 0 THEN 0 ELSE p[cut].last, cost)>> \o Suffix(p, cut)

\* What an attempt to compact leaves behind is as good as what it began with.
Good(outcome) ==
  /\ outcome.seen \in 0..Len(history)
  /\ Covers(outcome.projection, outcome.seen)
  /\ mode # "cc" => EndsAs(outcome.projection \o RestOf(history, outcome.seen), history)

\* The projection covers what it was made for, and what it leaves out of the history
\* comes after it; in hermes and pi the newest message is one of these, or its end.
IInv ==
  /\ history \in Seq(RawMessage)
  /\ mode \in Modes
  /\ seen \in 0..Len(history)
  /\ Covers(projection, seen)
  /\ pc # "idle" => history # <<>>
  /\ history # <<>> /\ mode # "cc" => EndsAs(Current, history)

-----------------------------------------------------------------------------
\* Cuts.

LessThan == {ss \in Nat \X Nat : ss[1] < ss[2]}

LEMMA LessThanWellFounded == IsWellFoundedOn(LessThan, Nat)
BY NatLessThanWellFounded, Zenon DEF OpToRel, LessThan

LEMMA HasMinimum ==
  ASSUME NEW S \in SUBSET Nat, S # {}
  PROVE  \E x \in S : \A y \in S : x <= y
<1>1. PICK x \in S : \A y \in S : <<y, x>> \notin LessThan
  BY LessThanWellFounded, WFMin, Zenon
<1>2. \A y \in S : y < x => <<y, x>> \in LessThan
  BY DEF LessThan
<1>3. ASSUME NEW y \in S
      PROVE  x <= y
  <2>1. x \in Nat /\ y \in Nat /\ ~(y < x)
    BY <1>1, <1>2
  <2>. QED  BY <2>1
<1>. QED  BY <1>3

LEMMA LeastInSet ==
  ASSUME NEW S \in SUBSET Nat, S # {}
  PROVE  Least(S) \in S
BY HasMinimum DEF Least

LEMMA GreatestInSet ==
  ASSUME NEW n \in Nat, NEW S \in SUBSET (0..n), S # {}
  PROVE  Greatest(S) \in S /\ \A k \in S : k <= Greatest(S)
<1>. DEFINE T == {n - k : k \in S}
<1>1. T \in SUBSET Nat
  OBVIOUS
<1>2. T # {}
  OBVIOUS
<1>3. PICK x \in T : \A y \in T : x <= y
  BY <1>1, <1>2, HasMinimum
<1>4. PICK g \in S : x = n - g
  BY <1>3
<1>5. ASSUME NEW k \in S
      PROVE  k <= g
  <2>1. n - k \in T /\ k \in 0..n /\ g \in 0..n
    OBVIOUS
  <2>. QED  BY <2>1, <1>3, <1>4
<1>. QED  BY <1>5 DEF Greatest

LEMMA MoveBackRange ==
  ASSUME NEW s, NEW cut \in Nat
  PROVE  MoveBack(s, cut) \in 0..cut
<1>. DEFINE S == {0} \cup {k \in 1..cut : LegalCut(s, k)}
<1>1. S \in SUBSET (0..cut) /\ S # {}
  OBVIOUS
<1>2. Greatest(S) \in S
  BY <1>1, GreatestInSet
<1>. QED  BY <1>1, <1>2 DEF MoveBack

-----------------------------------------------------------------------------
\* Pieces put together.

LEMMA PrefixProperties ==
  ASSUME NEW X, NEW s \in Seq(X), NEW cut \in 0..Len(s)
  PROVE  /\ Prefix(s, cut) \in Seq(X)
         /\ Len(Prefix(s, cut)) = cut
         /\ \A k \in 1..cut : Prefix(s, cut)[k] = s[k]
<1>1. Len(s) \in Nat /\ \A k \in 1..cut : s[k] \in X
  OBVIOUS
<1>. QED  BY <1>1, SubSeqProperties DEF Prefix

LEMMA SuffixProperties ==
  ASSUME NEW X, NEW s \in Seq(X), NEW cut \in 0..Len(s)
  PROVE  /\ Suffix(s, cut) \in Seq(X)
         /\ Len(Suffix(s, cut)) = Len(s) - cut
         /\ \A k \in 1..(Len(s) - cut) : Suffix(s, cut)[k] = s[cut + k]
<1>1. Len(s) \in Nat /\ \A k \in (cut + 1)..Len(s) : s[k] \in X
  OBVIOUS
<1>. QED  BY <1>1, SubSeqProperties DEF Suffix

LEMMA MarkerProperties ==
  ASSUME NEW first \in Nat, NEW last \in Nat, NEW cost \in Nat \ {0}
  PROVE  /\ Marker(first, last, cost) \in Piece
         /\ Marker(first, last, cost).first = first
         /\ Marker(first, last, cost).last = last
BY DEF Marker, Piece

\* One piece covers an interval from the first message on.
LEMMA MarkerCovers ==
  ASSUME NEW n \in Nat, NEW cost \in Nat \ {0}
  PROVE  Covers(<<Marker(1, n, cost)>>, n)
BY MarkerProperties DEF Covers

\* The first and the last message of each piece are numbers, and pieces that only
\* change in kind or cost cover the same.
LEMMA PiecesAreNumbered ==
  ASSUME NEW p, NEW n, Covers(p, n), NEW k \in 1..Len(p)
  PROVE  p[k] \in Piece /\ p[k].first \in Nat /\ p[k].last \in Nat
<1>1. p[k] \in Piece
  BY ElementOfSeq DEF Covers
<1>. QED  BY <1>1 DEF Piece

LEMMA SameIntervals ==
  ASSUME NEW p, NEW n, Covers(p, n), NEW q \in Seq(Piece), Len(q) = Len(p),
         \A k \in 1..Len(p) : q[k].first = p[k].first /\ q[k].last = p[k].last
  PROVE  Covers(q, n)
<1>1. p \in Seq(Piece) /\ Len(p) \in Nat
  BY DEF Covers
<1>2. CASE p = <<>>
  <2>1. q = <<>>
    BY <1>2
  <2>. QED  BY <1>2, <2>1
<1>3. CASE p # <<>>
  <2>1. Len(p) >= 1 /\ q # <<>>
    BY <1>1, <1>3
  <2>2. \A k \in 2..Len(q) : q[k].first = q[k - 1].last + 1
    BY <1>1 DEF Covers
  <2>. QED  BY <1>3, <2>1, <2>2 DEF Covers
<1>. QED  BY <1>2, <1>3

LEMMA RestProperties ==
  ASSUME NEW hist \in Seq(RawMessage), NEW n \in 0..Len(hist)
  PROVE  /\ RestOf(hist, n) \in Seq(Piece)
         /\ Len(RestOf(hist, n)) = Len(hist) - n
         /\ \A k \in 1..(Len(hist) - n) :
              /\ RestOf(hist, n)[k].first = n + k /\ RestOf(hist, n)[k].last = n + k
              /\ RestOf(hist, n)[k].kind = hist[n + k].kind /\ RestOf(hist, n)[k].cost = hist[n + k].cost
<1>1. Len(hist) \in Nat /\ \A k \in 1..Len(hist) : hist[k] \in RawMessage
  OBVIOUS
<1>2. \A k \in 1..(Len(hist) - n) :
        [first |-> n + k, last |-> n + k, kind |-> hist[n + k].kind,
         cost |-> hist[n + k].cost] \in Piece
  <2>. SUFFICES ASSUME NEW k \in 1..(Len(hist) - n)
                PROVE  [first |-> n + k, last |-> n + k, kind |-> hist[n + k].kind,
                        cost |-> hist[n + k].cost] \in Piece
    OBVIOUS
  <2>1. n + k \in Nat /\ hist[n + k] \in RawMessage
    BY <1>1
  <2>2. hist[n + k].kind \in Kinds /\ hist[n + k].cost \in Nat \ {0}
    BY <2>1 DEF RawMessage
  <2>. QED  BY <2>1, <2>2 DEF Piece
<1>3. RestOf(hist, n) \in [1..(Len(hist) - n) -> Piece]
  BY <1>2 DEF RestOf
<1>4. RestOf(hist, n) \in Seq(Piece) /\ Len(RestOf(hist, n)) = Len(hist) - n
  BY <1>1, <1>3
<1>. QED  BY <1>4 DEF RestOf

\* What covers the first n messages, and the others as they are.
LEMMA JoinCovers ==
  ASSUME NEW hist \in Seq(RawMessage), NEW n \in 0..Len(hist), NEW p, Covers(p, n)
  PROVE  Covers(p \o RestOf(hist, n), Len(hist))
<1>. DEFINE r == RestOf(hist, n)
            q == p \o r
<1>1. p \in Seq(Piece) /\ Len(p) \in Nat /\ Len(hist) \in Nat
  BY DEF Covers
<1>2. /\ r \in Seq(Piece) /\ Len(r) = Len(hist) - n /\ Len(r) \in Nat
      /\ \A k \in 1..Len(r) : r[k].first = n + k /\ r[k].last = n + k
  BY <1>1, RestProperties
<1>. HIDE DEF r
<1>3. /\ q \in Seq(Piece) /\ Len(q) = Len(p) + Len(r)
      /\ \A k \in 1..(Len(p) + Len(r)) : q[k] = IF k <= Len(p) THEN p[k] ELSE r[k - Len(p)]
  BY <1>1, <1>2, ConcatProperties
<1>. HIDE DEF q
<1>4. \A k \in 2..Len(p) : p[k].first = p[k - 1].last + 1
  BY DEF Covers
<1>5. Len(p) > 0 => p[1].first = 1 /\ p[Len(p)].last = n
  BY <1>1 DEF Covers
<1>6. Len(p) = 0 => n = 0
  BY <1>1 DEF Covers
<1>l. Len(p) \in Nat /\ Len(r) \in Nat /\ Len(q) = Len(p) + Len(r)
  BY <1>1, <1>2, <1>3
<1>r. \A k \in 1..Len(r) : r[k].first = n + k /\ r[k].last = n + k
  BY <1>2
<1>q. \A k \in 1..(Len(p) + Len(r)) : q[k] = IF k <= Len(p) THEN p[k] ELSE r[k - Len(p)]
  BY <1>3
<1>7. ASSUME NEW k \in 2..Len(q)
      PROVE  q[k].first = q[k - 1].last + 1
  <2>1. CASE k <= Len(p)
    <3>1. k \in 2..Len(p) /\ k \in 1..(Len(p) + Len(r)) /\ k - 1 \in 1..(Len(p) + Len(r))
          /\ k - 1 <= Len(p)
      BY <1>l, <2>1
    <3>2. q[k] = p[k] /\ q[k - 1] = p[k - 1]
      BY <1>q, <2>1, <3>1
    <3>. QED  BY <3>1, <3>2, <1>4
  <2>2. CASE k = Len(p) + 1
    <3>1. /\ k \in 1..(Len(p) + Len(r)) /\ ~(k <= Len(p)) /\ k - Len(p) = 1 /\ 1 \in 1..Len(r)
          /\ k - 1 = Len(p) /\ Len(p) \in 1..(Len(p) + Len(r)) /\ Len(p) <= Len(p) /\ Len(p) > 0
      BY <1>l, <2>2
    <3>2. q[k] = r[1] /\ q[Len(p)] = p[Len(p)]
      BY <1>q, <3>1
    <3>3. r[1].first = n + 1
      BY <1>r, <3>1
    <3>. QED  BY <3>1, <3>2, <3>3, <1>5
  <2>3. CASE k > Len(p) + 1
    <3>. DEFINE j == k - Len(p)
                i == j - 1
    <3>1. /\ k \in 1..(Len(p) + Len(r)) /\ ~(k <= Len(p)) /\ j \in 1..Len(r)
          /\ k - 1 \in 1..(Len(p) + Len(r)) /\ ~(k - 1 <= Len(p)) /\ (k - 1) - Len(p) = i
          /\ i \in 1..Len(r) /\ n + j = (n + i) + 1
      BY <1>1, <1>l, <2>3
    <3>2. q[k] = r[j] /\ q[k - 1] = r[i]
      BY <1>q, <3>1
    <3>. HIDE DEF j, i
    <3>3. r[j].first = n + j
      BY <1>r, <3>1
    <3>4. r[i].last = n + i
      BY <1>r, <3>1
    <3>. QED  BY <3>1, <3>2, <3>3, <3>4
  <2>. QED  BY <1>l, <2>1, <2>2, <2>3
<1>8. CASE Len(q) = 0
  <2>1. q = <<>> /\ Len(hist) = 0
    BY <1>1, <1>2, <1>3, <1>6, <1>8
  <2>. QED  BY <1>3, <1>7, <2>1 DEF Covers, q, r
<1>9. CASE Len(q) > 0
  <2>1. q[1].first = 1
    <3>1. CASE Len(p) > 0
      <4>1. 1 \in 1..(Len(p) + Len(r)) /\ 1 <= Len(p)
        BY <1>1, <1>2, <3>1
      <4>2. q[1] = p[1]
        BY <1>3, <4>1
      <4>. QED  BY <1>5, <3>1, <4>2
    <3>2. CASE Len(p) = 0
      <4>1. q[1] = r[1] /\ Len(r) > 0
        BY <1>1, <1>2, <1>3, <1>9, <3>2
      <4>2. r[1].first = n + 1
        BY <1>2, <4>1
      <4>. QED  BY <4>1, <4>2, <1>6, <3>2
    <3>. QED  BY <1>1, <3>1, <3>2
  <2>2. q[Len(q)].last = Len(hist)
    <3>1. CASE Len(r) = 0
      <4>1. q[Len(q)] = p[Len(p)] /\ Len(p) > 0 /\ n = Len(hist)
        BY <1>1, <1>2, <1>3, <1>9, <3>1
      <4>. QED  BY <4>1, <1>5
    <3>2. CASE Len(r) > 0
      <4>. DEFINE l == Len(p) + Len(r)
      <4>0. l \in 1..(Len(p) + Len(r)) /\ ~(l <= Len(p)) /\ l - Len(p) = Len(r) /\ l = Len(q)
        BY <1>1, <1>2, <1>3, <3>2
      <4>1. q[Len(q)] = r[Len(r)]
        BY <1>3, <4>0
      <4>2. r[Len(r)].last = n + Len(r)
        BY <1>2, <3>2
      <4>. QED  BY <4>1, <4>2, <1>1, <1>2
    <3>. QED  BY <1>2, <3>1, <3>2
  <2>3. q # <<>>
    BY <1>3, <1>9
  <2>4. Covers(q, Len(hist))
    BY <1>3, <1>7, <2>1, <2>2, <2>3 DEF Covers
  <2>. QED  BY <2>4 DEF q, r
<1>. QED  BY <1>1, <1>2, <1>3, <1>8, <1>9

\* The pieces between two cuts are replaced by one, and the others are as they were.
LEMMA ReplacedIs ==
  ASSUME NEW p, NEW n \in Nat, Covers(p, n), NEW cost \in Nat \ {0},
         NEW h \in Nat, NEW t \in Nat, h < t, t <= Len(p)
  PROVE  LET q == Replaced(p, h, t, cost)
             m == Marker(p[h + 1].first, p[t].last, cost)
         IN  /\ q \in Seq(Piece) /\ Len(q) = h + 1 + (Len(p) - t)
             /\ m \in Piece /\ q[h + 1] = m
             /\ \A k \in 1..h : q[k] = p[k]
             /\ \A k \in (h + 2)..Len(q) : q[k] = p[t + (k - (h + 1))]
<1>. DEFINE m == Marker(p[h + 1].first, p[t].last, cost)
            a == Prefix(p, h)
            b == Suffix(p, t)
            c == a \o <<m>>
            q == c \o b
<1>1. p \in Seq(Piece) /\ Len(p) \in Nat /\ Len(p) > 0
  BY DEF Covers
<1>2. p[h + 1].first \in Nat /\ p[t].last \in Nat /\ h \in 0..Len(p) /\ t \in 0..Len(p)
  <2>1. h + 1 \in 1..Len(p) /\ t \in 1..Len(p)
    BY <1>1
  <2>. QED  BY <2>1, PiecesAreNumbered
<1>. DEFINE from == p[h + 1].first
            to == p[t].last
<1>. HIDE DEF from, to
<1>3. m \in Piece /\ m.first = p[h + 1].first /\ m.last = p[t].last
  <2>1. from \in Nat /\ to \in Nat
    BY <1>2 DEF from, to
  <2>2. /\ Marker(from, to, cost) \in Piece
        /\ Marker(from, to, cost).first = from /\ Marker(from, to, cost).last = to
    BY <2>1, MarkerProperties
  <2>. QED  BY <2>2 DEF from, to
<1>4. a \in Seq(Piece) /\ Len(a) = h /\ \A k \in 1..h : a[k] = p[k]
  BY <1>1, <1>2, PrefixProperties
<1>5. /\ b \in Seq(Piece) /\ Len(b) = Len(p) - t
      /\ \A k \in 1..(Len(p) - t) : b[k] = p[t + k]
  BY <1>1, <1>2, SuffixProperties
<1>. HIDE DEF m, a, b
<1>6. <<m>> \in Seq(Piece) /\ Len(<<m>>) = 1 /\ <<m>>[1] = m
  BY <1>3
<1>7. /\ c \in Seq(Piece) /\ Len(c) = h + 1
      /\ \A k \in 1..(h + 1) : c[k] = IF k <= h THEN a[k] ELSE <<m>>[k - h]
  BY <1>4, <1>6, ConcatProperties
<1>8. \A k \in 1..(h + 1) : c[k] = IF k <= h THEN p[k] ELSE m
  BY <1>4, <1>6, <1>7
<1>. HIDE DEF c
<1>9. /\ q \in Seq(Piece) /\ Len(q) = h + 1 + (Len(p) - t)
      /\ \A k \in 1..(h + 1 + (Len(p) - t)) :
           q[k] = IF k <= h + 1 THEN c[k] ELSE b[k - (h + 1)]
  <2>1. /\ q \in Seq(Piece) /\ Len(q) = Len(c) + Len(b)
        /\ \A k \in 1..(Len(c) + Len(b)) : q[k] = IF k <= Len(c) THEN c[k] ELSE b[k - Len(c)]
    BY <1>5, <1>7, ConcatProperties
  <2>. QED  BY <2>1, <1>1, <1>5, <1>7
<1>. HIDE DEF q
<1>10. \A k \in 1..h : q[k] = p[k]
  <2>. SUFFICES ASSUME NEW k \in 1..h PROVE q[k] = p[k]
    OBVIOUS
  <2>1. k \in 1..(h + 1 + (Len(p) - t)) /\ k \in 1..(h + 1) /\ k <= h /\ k <= h + 1
    BY <1>1
  <2>. QED  BY <2>1, <1>8, <1>9
<1>11. q[h + 1] = m
  <2>1. h + 1 \in 1..(h + 1 + (Len(p) - t)) /\ h + 1 \in 1..(h + 1) /\ ~(h + 1 <= h)
    BY <1>1
  <2>. QED  BY <2>1, <1>8, <1>9
<1>12. \A k \in (h + 2)..Len(q) : q[k] = p[t + (k - (h + 1))]
  <2>. SUFFICES ASSUME NEW k \in (h + 2)..Len(q) PROVE q[k] = p[t + (k - (h + 1))]
    OBVIOUS
  <2>1. k \in 1..(h + 1 + (Len(p) - t)) /\ ~(k <= h + 1) /\ k - (h + 1) \in 1..(Len(p) - t)
    BY <1>1, <1>9
  <2>2. q[k] = b[k - (h + 1)]
    BY <1>9, <2>1
  <2>3. b[k - (h + 1)] = p[t + (k - (h + 1))]
    BY <1>5, <2>1
  <2>. QED  BY <2>2, <2>3
<1>13. q = Replaced(p, h, t, cost)
  BY Zenon DEF Replaced, q, c, a, b, m
<1>14. m = Marker(p[h + 1].first, p[t].last, cost)
  BY DEF m
<1>. QED  BY <1>3, <1>9, <1>10, <1>11, <1>12, <1>13, <1>14, Zenon

\* A marker takes the place of what it stands for: of the pieces between two cuts.
LEMMA ReplaceCovers ==
  ASSUME NEW p, NEW n \in Nat, Covers(p, n), NEW cost \in Nat \ {0},
         NEW h \in Nat, NEW t \in Nat, h < t, t <= Len(p)
  PROVE  /\ Covers(Replaced(p, h, t, cost), n)
         /\ t < Len(p) => Replaced(p, h, t, cost)[Len(Replaced(p, h, t, cost))] = p[Len(p)]
<1>. DEFINE q == Replaced(p, h, t, cost)
            m == Marker(p[h + 1].first, p[t].last, cost)
<1>1. p \in Seq(Piece) /\ Len(p) \in Nat /\ Len(p) > 0
  BY DEF Covers
<1>3. m.first = p[h + 1].first /\ m.last = p[t].last
  BY DEF Marker
<1>9. q \in Seq(Piece) /\ Len(q) = h + 1 + (Len(p) - t)
  BY ReplacedIs
<1>10. \A k \in 1..h : q[k] = p[k]
  BY ReplacedIs
<1>11. q[h + 1] = m
  BY ReplacedIs
<1>12. \A k \in (h + 2)..Len(q) : q[k] = p[t + (k - (h + 1))]
  BY ReplacedIs
<1>. HIDE DEF q, m
<1>13. \A k \in 2..Len(p) : p[k].first = p[k - 1].last + 1
  BY DEF Covers
<1>14. p[1].first = 1 /\ p[Len(p)].last = n
  BY <1>1 DEF Covers
<1>15. ASSUME NEW k \in 2..Len(q)
       PROVE  q[k].first = q[k - 1].last + 1
  <2>1. CASE k <= h
    <3>1. q[k] = p[k] /\ q[k - 1] = p[k - 1] /\ k \in 2..Len(p)
      BY <1>1, <1>10, <2>1
    <3>. QED  BY <3>1, <1>13
  <2>2. CASE k = h + 1
    <3>1. q[k] = m /\ q[k - 1] = p[h] /\ h + 1 \in 2..Len(p) /\ (h + 1) - 1 = h
      BY <1>1, <1>10, <1>11, <2>2
    <3>. QED  BY <3>1, <1>3, <1>13
  <2>3. CASE k = h + 2
    <3>1. q[k - 1] = m /\ t + 1 \in 2..Len(p) /\ (t + 1) - 1 = t
      BY <1>1, <1>9, <1>11, <2>3
    <3>2. k \in (h + 2)..Len(q) /\ t + (k - (h + 1)) = t + 1
      BY <2>3
    <3>3. q[k] = p[t + 1]
      BY <1>12, <3>2
    <3>. QED  BY <3>1, <3>3, <1>3, <1>13
  <2>4. CASE k > h + 2
    <3>. DEFINE j == t + (k - (h + 1))
    <3>1. /\ k \in (h + 2)..Len(q) /\ k - 1 \in (h + 2)..Len(q) /\ j \in 2..Len(p)
          /\ t + ((k - 1) - (h + 1)) = j - 1
      BY <1>1, <1>9, <2>4
    <3>2. q[k] = p[j] /\ q[k - 1] = p[j - 1]
      BY <1>12, <3>1
    <3>. QED  BY <3>1, <3>2, <1>13
  <2>. QED  BY <2>1, <2>2, <2>3, <2>4
<1>16. q[1].first = 1
  <2>1. CASE h = 0
    BY <2>1, <1>3, <1>11, <1>14
  <2>2. CASE h > 0
    <3>1. q[1] = p[1]
      BY <1>10, <2>2
    <3>. QED  BY <3>1, <1>14
  <2>. QED  BY <2>1, <2>2
<1>17. t < Len(p) => q[Len(q)] = p[Len(p)]
  <2>. SUFFICES ASSUME t < Len(p) PROVE q[Len(q)] = p[Len(p)]
    OBVIOUS
  <2>1. Len(q) \in (h + 2)..Len(q) /\ t + (Len(q) - (h + 1)) = Len(p)
    BY <1>1, <1>9
  <2>. QED  BY <1>12, <2>1
<1>18. t = Len(p) => q[Len(q)] = m
  BY <1>1, <1>9, <1>11
<1>19. q[Len(q)].last = n
  BY <1>1, <1>3, <1>14, <1>17, <1>18
<1>20. Len(q) > 0 /\ q # <<>>
  BY <1>1, <1>9
<1>21. Covers(q, n)
  BY <1>9, <1>15, <1>16, <1>19, <1>20 DEF Covers
<1>. QED  BY <1>17, <1>21 DEF q

\* A marker in front of the pieces after a cut.
LEMMA RebuiltIs ==
  ASSUME NEW p, NEW n \in Nat, Covers(p, n), NEW cost \in Nat \ {0}, NEW cut \in 0..Len(p)
  PROVE  LET q == Rebuilt(p, cut, cost)
             m == Marker(1, IF cut = 0 THEN 0 ELSE p[cut].last, cost)
         IN  /\ q \in Seq(Piece) /\ Len(q) = 1 + (Len(p) - cut)
             /\ q[1] = m
             /\ \A k \in 2..Len(q) : q[k] = p[cut + (k - 1)]
<1>. DEFINE last == IF cut = 0 THEN 0 ELSE p[cut].last
            m == Marker(1, last, cost)
            b == Suffix(p, cut)
            q == <<m>> \o b
<1>1. p \in Seq(Piece) /\ Len(p) \in Nat
  BY DEF Covers
<1>2. last \in Nat
  <2>1. CASE cut = 0
    BY <2>1
  <2>2. CASE cut # 0
    <3>1. cut \in 1..Len(p)
      BY <1>1, <2>2
    <3>. QED  BY <2>2, <3>1, PiecesAreNumbered
  <2>. QED  BY <2>1, <2>2
<1>. HIDE DEF last
<1>3. m \in Piece /\ m.first = 1 /\ m.last = last
  <2>1. 1 \in Nat
    OBVIOUS
  <2>2. /\ Marker(1, last, cost) \in Piece
        /\ Marker(1, last, cost).first = 1 /\ Marker(1, last, cost).last = last
    BY <1>2, <2>1, MarkerProperties
  <2>. QED  BY <2>2
<1>. USE DEF last
<1>4. /\ b \in Seq(Piece) /\ Len(b) = Len(p) - cut
      /\ \A k \in 1..(Len(p) - cut) : b[k] = p[cut + k]
  BY <1>1, SuffixProperties
<1>. HIDE DEF m, b
<1>5. <<m>> \in Seq(Piece) /\ Len(<<m>>) = 1 /\ <<m>>[1] = m
  BY <1>3
<1>6. /\ q \in Seq(Piece) /\ Len(q) = 1 + (Len(p) - cut)
      /\ \A k \in 1..(1 + (Len(p) - cut)) : q[k] = IF k <= 1 THEN <<m>>[k] ELSE b[k - 1]
  <2>. DEFINE w == <<m>>
  <2>. HIDE DEF w
  <2>0. w \in Seq(Piece) /\ Len(w) = 1
    BY <1>5 DEF w
  <2>1. /\ w \o b \in Seq(Piece) /\ Len(w \o b) = Len(w) + Len(b)
        /\ \A k \in 1..(Len(w) + Len(b)) :
             (w \o b)[k] = IF k <= Len(w) THEN w[k] ELSE b[k - Len(w)]
    BY <1>4, <2>0, ConcatProperties
  <2>2. q = w \o b
    BY DEF w
  <2>3. /\ q \in Seq(Piece) /\ Len(q) = 1 + (Len(p) - cut)
        /\ \A k \in 1..(1 + (Len(p) - cut)) : q[k] = IF k <= 1 THEN w[k] ELSE b[k - 1]
    BY <2>0, <2>1, <2>2, <1>1, <1>4
  <2>. QED  BY <2>3 DEF w
<1>. HIDE DEF q
<1>7. q[1] = m
  <2>1. 1 \in 1..(1 + (Len(p) - cut))
    BY <1>1
  <2>. QED  BY <2>1, <1>5, <1>6
<1>8. \A k \in 2..Len(q) : q[k] = p[cut + (k - 1)]
  <2>. SUFFICES ASSUME NEW k \in 2..Len(q) PROVE q[k] = p[cut + (k - 1)]
    OBVIOUS
  <2>1. k \in 1..(1 + (Len(p) - cut)) /\ ~(k <= 1) /\ k - 1 \in 1..(Len(p) - cut)
    BY <1>1, <1>6
  <2>2. q[k] = b[k - 1]
    BY <1>6, <2>1
  <2>3. b[k - 1] = p[cut + (k - 1)]
    BY <1>4, <2>1
  <2>. QED  BY <2>2, <2>3
<1>9. q = Rebuilt(p, cut, cost)
  BY Zenon DEF Rebuilt, q, b, m
<1>10. m = Marker(1, IF cut = 0 THEN 0 ELSE p[cut].last, cost)
  BY DEF m
<1>. QED  BY <1>6, <1>7, <1>8, <1>9, <1>10, Zenon

\* The marker of a recovery, in front of what is kept; it stands for nothing if all is.
LEMMA RecoveryCovers ==
  ASSUME NEW p, NEW n \in Nat, Covers(p, n), NEW cost \in Nat \ {0}, NEW cut \in 0..Len(p)
  PROVE  /\ Covers(Rebuilt(p, cut, cost), n)
         /\ cut < Len(p) => Rebuilt(p, cut, cost)[Len(Rebuilt(p, cut, cost))] = p[Len(p)]
<1>. DEFINE last == IF cut = 0 THEN 0 ELSE p[cut].last
            m == Marker(1, last, cost)
            q == Rebuilt(p, cut, cost)
<1>1. p \in Seq(Piece) /\ Len(p) \in Nat
  BY DEF Covers
<1>3. m.first = 1 /\ m.last = last
  BY DEF Marker
<1>6. q \in Seq(Piece) /\ Len(q) = 1 + (Len(p) - cut)
  BY RebuiltIs
<1>7. q[1] = m
  BY RebuiltIs
<1>8. \A k \in 2..Len(q) : q[k] = p[cut + (k - 1)]
  BY RebuiltIs
<1>. HIDE DEF q, m
<1>9. \A k \in 2..Len(p) : p[k].first = p[k - 1].last + 1
  BY DEF Covers
<1>10. Len(p) > 0 => p[1].first = 1 /\ p[Len(p)].last = n
  BY <1>1 DEF Covers
<1>11. Len(p) = 0 => n = 0
  BY <1>1 DEF Covers
<1>12. ASSUME NEW k \in 2..Len(q)
       PROVE  q[k].first = q[k - 1].last + 1
  <2>1. CASE k = 2
    <3>1. q[k] = p[cut + 1] /\ q[k - 1] = m /\ cut + 1 \in 1..Len(p)
      BY <1>1, <1>6, <1>7, <1>8, <2>1
    <3>2. CASE cut = 0
      BY <3>1, <3>2, <1>3, <1>10, <1>1
    <3>3. CASE cut # 0
      <4>1. cut + 1 \in 2..Len(p) /\ (cut + 1) - 1 = cut
        BY <3>1, <3>3
      <4>. QED  BY <3>1, <3>3, <4>1, <1>3, <1>9
    <3>. QED  BY <3>2, <3>3
  <2>2. CASE k > 2
    <3>. DEFINE j == cut + (k - 1)
    <3>1. k - 1 \in 2..Len(q) /\ j \in 2..Len(p) /\ cut + ((k - 1) - 1) = j - 1
      BY <1>1, <1>6, <2>2
    <3>2. q[k] = p[j] /\ q[k - 1] = p[j - 1]
      BY <1>8, <3>1
    <3>. QED  BY <3>1, <3>2, <1>9
  <2>. QED  BY <2>1, <2>2
<1>13. cut < Len(p) => q[Len(q)] = p[Len(p)]
  <2>. SUFFICES ASSUME cut < Len(p) PROVE q[Len(q)] = p[Len(p)]
    OBVIOUS
  <2>1. Len(q) \in 2..Len(q) /\ cut + (Len(q) - 1) = Len(p)
    BY <1>1, <1>6
  <2>. QED  BY <1>8, <2>1
<1>14. q[Len(q)].last = n
  <2>1. CASE cut < Len(p)
    BY <2>1, <1>1, <1>10, <1>13
  <2>2. CASE cut = Len(p)
    <3>1. q[Len(q)] = m
      BY <2>2, <1>1, <1>6, <1>7
    <3>. QED  BY <3>1, <2>2, <1>1, <1>3, <1>10, <1>11
  <2>. QED  BY <1>1, <2>1, <2>2
<1>15. Len(q) > 0 /\ q # <<>> /\ q[1].first = 1
  BY <1>1, <1>3, <1>6, <1>7
<1>16. Covers(q, n)
  BY <1>6, <1>12, <1>14, <1>15 DEF Covers
<1>. QED  BY <1>13, <1>16 DEF q

\* What is left out of a projection ends as the history does.
LEMMA JoinEnds ==
  ASSUME NEW hist \in Seq(RawMessage), NEW n \in 0..Len(hist), NEW p \in Seq(Piece), n < Len(hist)
  PROVE  EndsAs(p \o RestOf(hist, n), hist)
<1>. DEFINE r == RestOf(hist, n)
            last == Len(hist) - n
            q == p \o r
<1>1. Len(p) \in Nat /\ Len(hist) \in Nat /\ last \in Nat /\ last >= 1 /\ last \in 1..last
  OBVIOUS
<1>2. /\ r \in Seq(Piece) /\ Len(r) = last
      /\ r[last].kind = hist[n + last].kind /\ r[last].cost = hist[n + last].cost
  BY <1>1, RestProperties
<1>. HIDE DEF r
<1>3. /\ Len(q) = Len(p) + Len(r)
      /\ \A k \in 1..(Len(p) + Len(r)) : q[k] = IF k <= Len(p) THEN p[k] ELSE r[k - Len(p)]
  BY <1>2, ConcatProperties
<1>. HIDE DEF q
<1>4. Len(p) + last \in 1..(Len(p) + Len(r)) /\ ~(Len(p) + last <= Len(p))
      /\ (Len(p) + last) - Len(p) = last
  BY <1>1, <1>2
<1>5. q[Len(q)] = r[last]
  BY <1>2, <1>3, <1>4
<1>6. n + last = Len(hist)
  BY <1>1
<1>7. EndsAs(q, hist)
  BY <1>2, <1>5, <1>6 DEF EndsAs
<1>. QED  BY <1>7 DEF q, r

\* Nothing is left out of a projection of everything.
LEMMA NothingLeft ==
  ASSUME NEW hist \in Seq(RawMessage), NEW p \in Seq(Piece)
  PROVE  p \o RestOf(hist, Len(hist)) = p
<1>1. Len(hist) \in 0..Len(hist) /\ Len(hist) - Len(hist) = 0
  OBVIOUS
<1>2. RestOf(hist, Len(hist)) \in Seq(Piece) /\ Len(RestOf(hist, Len(hist))) = 0
  BY <1>1, RestProperties
<1>3. RestOf(hist, Len(hist)) = <<>>
  BY <1>2, EmptySeq
<1>. QED  BY <1>3, ConcatEmptySeq

-----------------------------------------------------------------------------
\* What the strategies leave behind.

LEMMA CurrentIsRest == Current = projection \o RestOf(history, seen)
BY DEF Current, Rest, RestOf

LEMMA CurrentCovers ==
  ASSUME IInv, history # <<>>
  PROVE  /\ Covers(Current, Len(history))
         /\ Len(history) \in Nat /\ Len(history) > 0
         /\ Current \in Seq(Piece) /\ Len(Current) \in Nat /\ Len(Current) > 0
<1>1. history \in Seq(RawMessage) /\ seen \in 0..Len(history) /\ Covers(projection, seen)
  BY DEF IInv
<1>2. Covers(Current, Len(history))
  BY <1>1, JoinCovers, CurrentIsRest
<1>3. Len(history) \in Nat /\ Len(history) > 0
  BY <1>1
<1>4. Current \in Seq(Piece) /\ Current # <<>>
  BY <1>2, <1>3 DEF Covers
<1>. QED  BY <1>2, <1>3, <1>4

LEMMA KeptIsGood ==
  ASSUME IInv, history # <<>>, NEW ok
  PROVE  Good(Kept(ok))
<1>1. Kept(ok).projection = projection /\ Kept(ok).seen = seen
  BY DEF Kept
<1>. QED  BY <1>1, CurrentIsRest DEF Good, IInv

LEMMA ProjectionIsGood ==
  ASSUME IInv, NEW p, Covers(p, Len(history)), mode # "cc" => EndsAs(p, history),
         NEW outcome, outcome.projection = p, outcome.seen = Len(history)
  PROVE  Good(outcome)
<1>1. history \in Seq(RawMessage) /\ p \in Seq(Piece) /\ Len(history) \in 0..Len(history)
  BY DEF IInv, Covers
<1>2. p \o RestOf(history, Len(history)) = p
  BY <1>1, NothingLeft
<1>. QED  BY <1>1, <1>2 DEF Good

LEMMA CommittedIsGood ==
  ASSUME IInv, NEW p, Covers(p, Len(history)), mode # "cc" => EndsAs(p, history)
  PROVE  Good(Committed(p)) /\ Good([Committed(p) EXCEPT !.updated = TRUE])
<1>1. Committed(p).projection = p /\ Committed(p).seen = Len(history)
  BY DEF Committed
<1>2. /\ [Committed(p) EXCEPT !.updated = TRUE].projection = p
      /\ [Committed(p) EXCEPT !.updated = TRUE].seen = Len(history)
  BY DEF Committed
<1>. QED  BY <1>1, <1>2, ProjectionIsGood

\* A piece whose cost changes stands for the same messages.
LEMMA CheaperPiece ==
  ASSUME NEW piece \in Piece
  PROVE  LET q == [piece EXCEPT !.cost = 1]
         IN  q \in Piece /\ q.first = piece.first /\ q.last = piece.last
BY DEF Piece

LEMMA BudgetedCovers ==
  ASSUME NEW p, NEW n, Covers(p, n), Len(p) > 0
  PROVE  Covers(Budgeted(p), n)
<1>. DEFINE l == Len(p)
            piece == [p[l] EXCEPT !.cost = 1]
            q == [p EXCEPT ![l] = piece]
<1>1. p \in Seq(Piece) /\ l \in 1..Len(p) /\ p[l] \in Piece
  BY DEF Covers
<1>2. piece \in Piece /\ piece.first = p[l].first /\ piece.last = p[l].last
  BY <1>1, CheaperPiece
<1>3. Budgeted(p) = p \/ Budgeted(p) = q
  BY DEF Budgeted
<1>. HIDE DEF piece
<1>4. q \in Seq(Piece) /\ Len(q) = Len(p)
  BY <1>1, <1>2
<1>5. \A k \in 1..Len(p) : q[k].first = p[k].first /\ q[k].last = p[k].last
  BY <1>1, <1>2
<1>6. Covers(q, n)
  BY <1>4, <1>5, SameIntervals
<1>. QED  BY <1>3, <1>6

LEMMA MicroCovers ==
  ASSUME NEW p, NEW n, Covers(p, n)
  PROVE  Covers(Micro(p), n)
<1>. DEFINE q == Micro(p)
<1>1. p \in Seq(Piece) /\ Len(p) \in Nat
  BY DEF Covers
<1>2. \A k \in 1..Len(p) : q[k] = p[k] \/ q[k] = [p[k] EXCEPT !.cost = 1]
  BY DEF Micro
<1>3. \A k \in 1..Len(p) : /\ q[k] \in Piece
                           /\ q[k].first = p[k].first /\ q[k].last = p[k].last
  <2>. SUFFICES ASSUME NEW k \in 1..Len(p)
                PROVE  q[k] \in Piece /\ q[k].first = p[k].first /\ q[k].last = p[k].last
    OBVIOUS
  <2>1. p[k] \in Piece
    BY <1>1
  <2>2. LET r == [p[k] EXCEPT !.cost = 1]
        IN  r \in Piece /\ r.first = p[k].first /\ r.last = p[k].last
    BY <2>1, CheaperPiece
  <2>. QED  BY <1>2, <2>1, <2>2
<1>4. q = [k \in 1..Len(p) |-> q[k]]
  BY Zenon DEF Micro
<1>5. q \in [1..Len(p) -> Piece]
  BY <1>3, <1>4
<1>6. q \in Seq(Piece) /\ Len(q) = Len(p)
  BY <1>1, <1>5, SeqDef
<1>. QED  BY <1>3, <1>6, SameIntervals

LEMMA SnippedCovers ==
  ASSUME NEW p, NEW n \in Nat, Covers(p, n)
  PROVE  Covers(Snipped(p), n)
<1>. DEFINE cut == Len(p) - (SnipAt - HeadKeep)
            head == IF p[HeadKeep].kind = "use" /\ p[HeadKeep + 1].kind = "result"
                    THEN HeadKeep + 1 ELSE HeadKeep
            tail == IF p[cut + 1].kind = "result" /\ p[cut].kind = "use" THEN cut - 1 ELSE cut
            q == Replaced(p, head, tail, 1)
<1>1. Len(p) \in Nat /\ SnipAt \in Nat /\ HeadKeep \in Nat /\ HeadKeep < SnipAt
  BY ContextAssumption DEF Covers
<1>2. Snipped(p) = p \/ (~(Len(p) <= SnipAt) /\ ~(head >= tail) /\ Snipped(p) = q)
  <2>1. CASE Len(p) <= SnipAt
    BY <2>1, Zenon DEF Snipped, Replaced
  <2>2. CASE ~(Len(p) <= SnipAt) /\ head >= tail
    BY <2>2, Zenon DEF Snipped, Replaced
  <2>3. CASE ~(Len(p) <= SnipAt) /\ ~(head >= tail)
    BY <2>3, Zenon DEF Snipped, Replaced
  <2>. QED  BY <2>1, <2>2, <2>3
<1>3. CASE ~(Len(p) <= SnipAt) /\ ~(head >= tail) /\ Snipped(p) = q
  <2>1. head \in Nat /\ cut \in Nat /\ cut >= 1 /\ cut <= Len(p)
    BY <1>1, <1>3
  <2>2. tail \in Nat /\ tail <= Len(p) /\ head < tail
    BY <1>1, <1>3, <2>1
  <2>. HIDE DEF head, tail
  <2>3. Covers(q, n)
    BY <2>1, <2>2, ReplaceCovers
  <2>. QED  BY <1>3, <2>3
<1>. QED  BY <1>2, <1>3

LEMMA PrepareCCIsGood ==
  ASSUME IInv, history # <<>>, mode = "cc", NEW force \in BOOLEAN,
         NEW outcome \in PrepareCC(force)
  PROVE  Good(outcome)
<1>. DEFINE p == Current
            candidate == Micro(Snipped(Budgeted(p)))
            summaries == {c \in SummaryCosts : c < Total(p)}
<1>1. Covers(p, Len(history)) /\ Len(p) > 0 /\ Len(history) \in Nat
  BY CurrentCovers
<1>2. Covers(candidate, Len(history))
  BY <1>1, BudgetedCovers, SnippedCovers, MicroCovers
<1>. HIDE DEF candidate, p
<1>3. \/ \E ok : outcome = Kept(ok)
      \/ outcome = Committed(candidate)
      \/ \E c \in SummaryCosts : outcome = Committed(<<Marker(1, Len(history), c)>>)
  BY DEF PrepareCC, Summarized, candidate, p
<1>4. CASE \E ok : outcome = Kept(ok)
  BY <1>4, KeptIsGood
<1>5. CASE outcome = Committed(candidate)
  BY <1>2, <1>5, CommittedIsGood
<1>6. CASE \E c \in SummaryCosts : outcome = Committed(<<Marker(1, Len(history), c)>>)
  <2>1. PICK c \in SummaryCosts : outcome = Committed(<<Marker(1, Len(history), c)>>)
    BY <1>6
  <2>2. c \in Nat \ {0}
    BY ContextAssumption
  <2>. QED  BY <1>1, <2>1, <2>2, MarkerCovers, CommittedIsGood
<1>. QED  BY <1>3, <1>4, <1>5, <1>6

-----------------------------------------------------------------------------
\* hermes keeps the last message: its tail begins before it.

LEMMA TailStartRange ==
  ASSUME NEW p, Len(p) \in Nat, Len(p) > 0
  PROVE  TailStart(p) \in 0..(Len(p) - 1)
<1>. DEFINE fits == {k \in 0..(Len(p) - 1) : k = Len(p) - 1 \/ Total(Suffix(p, k)) <= TailBudget}
            legal == MoveBack(p, Least(fits))
<1>1. fits \in SUBSET Nat /\ Len(p) - 1 \in fits
  OBVIOUS
<1>2. Least(fits) \in fits
  BY <1>1, LeastInSet
<1>3. Least(fits) \in 0..(Len(p) - 1)
  BY <1>2
<1>4. legal \in 0..Least(fits)
  BY <1>3, MoveBackRange
<1>5. TailStart(p) = IF legal = 0 THEN Least(fits) ELSE legal
  BY DEF TailStart
<1>. HIDE DEF fits, legal
<1>. QED  BY <1>3, <1>4, <1>5

LEMMA HeadEndRange ==
  ASSUME NEW p, Len(p) \in Nat
  PROVE  HeadEnd(p) \in Nat
<1>. DEFINE S == {Len(p)} \cup {k \in HeadKeep..Len(p) : LegalCut(p, k)}
<1>1. S \in SUBSET Nat /\ S # {}
  BY ContextAssumption
<1>2. Least(S) \in S
  BY <1>1, LeastInSet
<1>. QED  BY <1>1, <1>2 DEF HeadEnd

LEMMA PrepareHermesIsGood ==
  ASSUME IInv, history # <<>>, mode = "hermes", NEW force \in BOOLEAN,
         NEW outcome \in PrepareHermes(force)
  PROVE  Good(outcome)
<1>. DEFINE p == Current
            tail == TailStart(p)
            head == IF updated THEN 0 ELSE HeadEnd(p)
            candidate(cost) == Replaced(p, head, tail, cost)
<1>1. Covers(p, Len(history)) /\ Len(p) \in Nat /\ Len(p) > 0 /\ Len(history) \in Nat
  BY CurrentCovers
<1>2. EndsAs(p, history)
  BY DEF IInv
<1>. HIDE DEF p
<1>3. tail \in 0..(Len(p) - 1) /\ head \in Nat
  BY <1>1, TailStartRange, HeadEndRange
<1>. HIDE DEF tail, head
<1>4. \/ \E ok : outcome = Kept(ok)
      \/ /\ ~(head >= tail)
         /\ \E c \in SummaryCosts : outcome = [Committed(candidate(c)) EXCEPT !.updated = TRUE]
  BY Zenon DEF PrepareHermes, Summarized, Replaced, head, tail, p
<1>5. CASE \E ok : outcome = Kept(ok)
  BY <1>5, KeptIsGood
<1>6. ASSUME ~(head >= tail), NEW c \in SummaryCosts,
             outcome = [Committed(candidate(c)) EXCEPT !.updated = TRUE]
      PROVE  Good(outcome)
  <2>1. /\ head \in Nat /\ tail \in Nat /\ head < tail /\ tail <= Len(p) /\ tail < Len(p)
        /\ c \in Nat \ {0}
    BY <1>1, <1>3, <1>6, ContextAssumption
  <2>3. /\ Covers(candidate(c), Len(history))
        /\ candidate(c)[Len(candidate(c))] = p[Len(p)]
    BY <1>1, <2>1, ReplaceCovers
  <2>. HIDE DEF candidate
  <2>4. EndsAs(candidate(c), history)
    BY <1>2, <2>3 DEF EndsAs
  <2>. QED  BY <1>6, <2>3, <2>4, CommittedIsGood
<1>. QED  BY <1>4, <1>5, <1>6

-----------------------------------------------------------------------------
\* pi cuts among the messages after its projection, and before the last.

LEMMA PiCutRange ==
  ASSUME NEW tail, Len(tail) \in Nat, NEW keep
  PROVE  PiCut(tail, keep) \in Nat
<1>. DEFINE S == {0} \cup {k \in 0..(Len(tail) - 1) : Total(Suffix(tail, k)) >= keep}
            from == Greatest(S)
            turns == {k \in 1..from : TurnBegins(tail[k + 1]) /\ LegalCut(tail, k)}
<1>1. S \in SUBSET (0..Len(tail)) /\ S # {}
  OBVIOUS
<1>2. from \in 0..Len(tail)
  BY <1>1, GreatestInSet
<1>. HIDE DEF S, from
<1>3. MoveBack(tail, from) \in Nat
  BY <1>2, MoveBackRange
<1>4. turns # {} => Greatest(turns) \in Nat
  <2>. SUFFICES ASSUME turns # {} PROVE Greatest(turns) \in Nat
    OBVIOUS
  <2>1. turns \in SUBSET (0..from) /\ from \in Nat
    BY <1>2
  <2>2. Greatest(turns) \in turns
    BY <2>1, GreatestInSet
  <2>. QED  BY <2>1, <2>2
<1>. HIDE DEF turns
<1>5. PiCut(tail, keep) \in {0, MoveBack(tail, from), Greatest(turns)}
      /\ (PiCut(tail, keep) = Greatest(turns) => turns # {} \/ PiCut(tail, keep) \in {0, MoveBack(tail, from)})
  BY Zenon DEF PiCut, S, from, turns
<1>. QED  BY <1>3, <1>4, <1>5

LEMMA PiPlanRange ==
  ASSUME NEW tail, Len(tail) \in Nat, NEW initial \in Nat, initial > 0, NEW target
  PROVE  PiPlan(tail, initial, target) = 0 \/ PiPlan(tail, initial, target) \in initial..(Len(tail) - 1)
<1>. DEFINE legal == {k \in initial..(Len(tail) - 1) : LegalCut(tail, k)}
            small == {k \in legal : Total(Suffix(tail, k)) <= PiKeep}
            cuts == IF small = {} THEN legal ELSE {k \in legal : k >= Least(small)}
            roomy == {k \in cuts : Total(PiMarkers(tail, k, 1)) + Total(Suffix(tail, k)) <= target}
<1>1. cuts \subseteq legal
  OBVIOUS
<1>2. roomy \subseteq initial..(Len(tail) - 1)
  BY <1>1
<1>3. PiPlan(tail, initial, target) = IF roomy = {} THEN 0 ELSE Least(roomy)
  BY DEF PiPlan
<1>. HIDE DEF roomy
<1>4. ASSUME roomy # {}
      PROVE  Least(roomy) \in roomy
  <2>1. roomy \in SUBSET Nat
    BY <1>2
  <2>. QED  BY <2>1, <1>4, LeastInSet
<1>. QED  BY <1>2, <1>3, <1>4

\* The marker of what was before the turn, and the one of the turn's beginning.
LEMMA PiMarkersCover ==
  ASSUME NEW tail, NEW cut \in Nat, cut > 0, NEW cost \in Nat \ {0}, seen \in Nat
  PROVE  Covers(PiMarkers(tail, cut, cost), seen + cut)
<1>. DEFINE S == {0} \cup {k \in 0..(cut - 1) : TurnBegins(tail[k + 1])}
            begin == TurnStart(tail, cut)
            m1 == Marker(1, seen + begin, cost)
            m2 == Marker(seen + begin + 1, seen + cut, cost)
<1>1. S \in SUBSET (0..cut) /\ S # {}
  OBVIOUS
<1>2. Greatest(S) \in 0..cut
  BY <1>1, GreatestInSet
<1>3. begin \in Nat
  <2>1. begin = Greatest(S) \/ begin = cut
    BY Zenon DEF TurnStart
  <2>. QED  BY <1>2, <2>1
<1>. HIDE DEF begin
<1>4. seen + cut \in Nat /\ seen + begin \in Nat /\ seen + begin + 1 \in Nat /\ 1 \in Nat
  BY <1>3
<1>5. Covers(<<Marker(1, seen + cut, cost)>>, seen + cut)
  BY <1>4, MarkerCovers
<1>6. m1 \in Piece /\ m1.first = 1 /\ m1.last = seen + begin
  BY <1>4, MarkerProperties
<1>7. m2 \in Piece /\ m2.first = seen + begin + 1 /\ m2.last = seen + cut
  <2>. DEFINE f == seen + begin + 1
              l == seen + cut
  <2>1. f \in Nat /\ l \in Nat
    BY <1>4
  <2>. HIDE DEF f, l
  <2>2. Marker(f, l, cost) \in Piece /\ Marker(f, l, cost).first = f /\ Marker(f, l, cost).last = l
    BY <2>1, MarkerProperties
  <2>. QED  BY <2>2 DEF f, l
<1>. HIDE DEF m1, m2
<1>8. Covers(<<m1, m2>>, seen + cut)
  <2>1. <<m1, m2>> \in Seq(Piece) /\ Len(<<m1, m2>>) = 2 /\ <<m1, m2>> # <<>>
    BY <1>6, <1>7
  <2>2. \A k \in 2..2 : <<m1, m2>>[k].first = <<m1, m2>>[k - 1].last + 1
    BY <1>6, <1>7
  <2>. QED  BY <1>6, <1>7, <2>1, <2>2 DEF Covers
<1>9. \/ PiMarkers(tail, cut, cost) = <<Marker(1, seen + cut, cost)>>
      \/ PiMarkers(tail, cut, cost) = <<m1, m2>>
  BY Zenon DEF PiMarkers, begin, m1, m2
<1>. QED  BY <1>5, <1>8, <1>9

LEMMA PreparePiIsGood ==
  ASSUME IInv, history # <<>>, NEW force \in BOOLEAN, NEW recovers \in BOOLEAN,
         NEW outcome \in PreparePi(force, recovers)
  PROVE  Good(outcome)
<1>. DEFINE p == Current
            tail == Rest(seen)
            half == IF Total(tail) < 2 THEN 1 ELSE Total(tail) \div 2
            normal == PiCut(tail, PiKeep)
            cut == IF force /\ normal = 0 THEN PiCut(tail, half) ELSE normal
            target == IF Total(p) - 1 < PiTarget THEN Total(p) - 1 ELSE PiTarget
            candidate(k, cost) == PiMarkers(tail, k, cost) \o Suffix(tail, k)
            first == PiPlan(tail, cut, target)
            second == IF first # 0 /\ \E c \in SummaryCosts : Total(candidate(first, c)) > target
                      THEN PiPlan(tail, first + 1, target) ELSE 0
            entries == {e \in ({first, second} \ {0}) \X SummaryCosts :
                          Total(candidate(e[1], e[2])) <= target /\ Legal(candidate(e[1], e[2]))}
            entry(k, cost) == [ok |-> TRUE, projection |-> PiMarkers(tail, k, cost),
                               seen |-> seen + k, updated |-> updated]
<1>1. history \in Seq(RawMessage) /\ seen \in 0..Len(history) /\ Len(history) \in Nat
  BY DEF IInv
<1>2. tail = RestOf(history, seen)
  BY DEF Rest, RestOf
<1>3. Len(tail) = Len(history) - seen /\ Len(tail) \in Nat
  BY <1>1, <1>2, RestProperties
<1>. HIDE DEF tail
<1>4. cut \in Nat
  <2>1. normal \in Nat /\ PiCut(tail, half) \in Nat
    BY <1>3, PiCutRange
  <2>. QED  BY <2>1, Zenon
<1>. HIDE DEF cut, target
<1>5. cut # 0 => first = 0 \/ first \in 1..(Len(tail) - 1)
  <2>1. cut # 0 => first = 0 \/ first \in cut..(Len(tail) - 1)
    BY <1>3, <1>4, PiPlanRange
  <2>. QED  BY <1>4, <2>1
<1>6. cut # 0 => second = 0 \/ second \in 1..(Len(tail) - 1)
  <2>. SUFFICES ASSUME cut # 0, second # 0 PROVE second \in 1..(Len(tail) - 1)
    OBVIOUS
  <2>1. first # 0 /\ second = PiPlan(tail, first + 1, target)
    BY Zenon
  <2>2. first + 1 \in Nat /\ first + 1 > 0 /\ first \in Nat
    BY <1>5, <2>1
  <2>3. PiPlan(tail, first + 1, target) = 0
        \/ PiPlan(tail, first + 1, target) \in (first + 1)..(Len(tail) - 1)
    BY <1>3, <2>2, PiPlanRange
  <2>. QED  BY <1>3, <2>1, <2>2, <2>3
<1>. HIDE DEF first, second
<1>7. \/ \E ok : outcome = Kept(ok)
      \/ cut # 0 /\ \E e \in entries : outcome = entry(e[1], e[2])
  BY Zenon DEF PreparePi, Summarized, second, first, target, cut, tail
<1>8. CASE \E ok : outcome = Kept(ok)
  BY <1>8, KeptIsGood
<1>9. ASSUME cut # 0, NEW e \in entries, outcome = entry(e[1], e[2])
      PROVE  Good(outcome)
  <2>. DEFINE k == e[1]
              cost == e[2]
              markers == PiMarkers(tail, k, cost)
  <2>1. k \in {first, second} \ {0} /\ cost \in SummaryCosts
    BY Zenon
  <2>2. k \in 1..(Len(tail) - 1) /\ cost \in Nat \ {0}
    BY <1>5, <1>6, <1>9, <2>1, ContextAssumption
  <2>. HIDE DEF k, cost
  <2>3. outcome.projection = markers /\ outcome.seen = seen + k
    BY <1>9 DEF k, cost
  <2>4. k \in Nat /\ k > 0 /\ seen \in Nat /\ seen + k \in 0..Len(history) /\ seen + k < Len(history)
    BY <1>1, <1>3, <2>2
  <2>5. Covers(markers, seen + k)
    BY <2>2, <2>4, PiMarkersCover
  <2>. HIDE DEF markers
  <2>6. EndsAs(markers \o RestOf(history, seen + k), history)
    <3>1. markers \in Seq(Piece)
      BY <2>5 DEF Covers
    <3>. QED  BY <1>1, <2>4, <3>1, JoinEnds
  <2>. QED  BY <2>3, <2>4, <2>5, <2>6 DEF Good
<1>. QED  BY <1>7, <1>8, <1>9

-----------------------------------------------------------------------------
\* A preparation of any mode, and a recovery.

LEMMA PreparedIsGood ==
  ASSUME IInv, history # <<>>, NEW force \in BOOLEAN, NEW outcome \in Prepared(force)
  PROVE  Good(outcome)
<1>1. CASE mode = "cc"
  BY <1>1, PrepareCCIsGood DEF Prepared
<1>2. CASE mode = "hermes"
  BY <1>2, PrepareHermesIsGood DEF Prepared
<1>3. CASE mode = "pi"
  BY <1>3, PreparePiIsGood DEF Prepared
<1>. QED  BY <1>1, <1>2, <1>3 DEF IInv, Modes

LEMMA RecoveredIsGood ==
  ASSUME IInv, history # <<>>, NEW outcome \in Recovered
  PROVE  Good(outcome)
<1>. DEFINE p == Current
            last == IF Len(p) < RecoverKeep THEN 0 ELSE Len(p) - RecoverKeep
            tail == MoveBack(p, last)
            cut == IF tail = 0 THEN last ELSE tail
            candidate(cost) == Rebuilt(p, cut, cost)
<1>1. Covers(p, Len(history)) /\ Len(p) \in Nat /\ Len(p) > 0 /\ Len(history) \in Nat
  BY CurrentCovers
<1>2. mode # "cc" => EndsAs(p, history)
  BY DEF IInv
<1>. HIDE DEF p
<1>3. last \in 0..(Len(p) - 1)
  BY <1>1, ContextAssumption
<1>4. tail \in 0..last
  BY <1>3, MoveBackRange
<1>5. cut \in 0..Len(p) /\ cut < Len(p)
  BY <1>1, <1>3, <1>4
<1>. HIDE DEF cut
<1>6. CASE mode = "pi"
  BY <1>6, PreparePiIsGood DEF Recovered
<1>7. CASE mode # "pi" /\ ~disk
  <2>1. outcome = Kept(FALSE)
    BY <1>7, Zenon DEF Recovered
  <2>. QED  BY <2>1, KeptIsGood
<1>8. CASE mode # "pi" /\ disk
  <2>1. PICK c \in SummaryCosts :
          outcome = IF Legal(candidate(c)) THEN Committed(candidate(c)) ELSE Kept(FALSE)
    BY <1>8, Zenon DEF Recovered, Rebuilt, cut, p
  <2>2. c \in Nat \ {0}
    BY ContextAssumption
  <2>4. Covers(candidate(c), Len(history)) /\ candidate(c)[Len(candidate(c))] = p[Len(p)]
    BY <1>1, <1>5, <2>2, RecoveryCovers
  <2>. HIDE DEF candidate
  <2>5. mode # "cc" => EndsAs(candidate(c), history)
    BY <1>2, <2>4 DEF EndsAs
  <2>6. Good(Committed(candidate(c))) /\ Good(Kept(FALSE))
    BY <2>4, <2>5, CommittedIsGood, KeptIsGood
  <2>. QED  BY <2>1, <2>6
<1>. QED  BY <1>6, <1>7, <1>8

-----------------------------------------------------------------------------
\* The actions.

LEMMA InitIsGood == Init => IInv
<1>. SUFFICES ASSUME Init PROVE IInv
  OBVIOUS
<1>1. Covers(<<>>, 0)
  BY DEF Covers
<1>. QED  BY <1>1 DEF Init, IInv, Modes

\* A message that is added is not in the projection: it ends the request.
LEMMA SaySteps ==
  ASSUME IInv, NEW messages \in Seq(RawMessage), messages # <<>>, Say(messages),
         seen' \in 0..Len(history), Covers(projection', seen'), mode' \in Modes
  PROVE  IInv'
<1>1. history \in Seq(RawMessage) /\ history' = history \o messages
  BY DEF IInv, Say
<1>2. /\ history' \in Seq(RawMessage) /\ Len(history') = Len(history) + Len(messages)
      /\ Len(history) \in Nat /\ Len(messages) \in Nat /\ Len(messages) > 0
  BY <1>1, ConcatProperties
<1>3. seen' \in 0..Len(history') /\ seen' < Len(history') /\ history' # <<>>
  BY <1>2
<1>4. projection' \in Seq(Piece)
  BY DEF Covers
<1>5. EndsAs(projection' \o RestOf(history', seen'), history')
  BY <1>2, <1>3, <1>4, JoinEnds
<1>6. Current' = projection' \o RestOf(history', seen')
  BY DEF Current, Rest, RestOf
<1>7. EndsAs(Current, history)'
  BY <1>5, <1>6 DEF EndsAs
<1>. QED  BY <1>2, <1>3, <1>7 DEF IInv

LEMMA AdoptSteps ==
  ASSUME IInv, history # <<>>, NEW outcome, Good(outcome), Adopt(outcome),
         history' = history, mode' = mode
  PROVE  IInv'
<1>1. projection' = outcome.projection /\ seen' = outcome.seen
  BY DEF Adopt
<1>2. Current' = projection' \o RestOf(history', seen')
  BY DEF Current, Rest, RestOf
<1>3. mode' # "cc" => EndsAs(Current, history)'
  BY <1>1, <1>2 DEF EndsAs, Good
<1>. QED  BY <1>1, <1>3 DEF IInv, Good

LEMMA MessagesAreRaw ==
  /\ \A kind \in Kinds : Message(kind) \in RawMessage
  /\ \A cost \in Costs : [kind |-> "result", cost |-> cost] \in RawMessage
  /\ \A kind \in Kinds : <<Message(kind)>> \in Seq(RawMessage)
  /\ \A k1, k2 \in Kinds : <<Message(k1), Message(k2)>> \in Seq(RawMessage)
  /\ \A cost \in Costs :
       <<Message("use"), [kind |-> "result", cost |-> cost]>> \in Seq(RawMessage)
<1>1. \A kind \in Kinds : Message(kind) \in RawMessage
  BY DEF Message, RawMessage
<1>2. \A cost \in Costs : [kind |-> "result", cost |-> cost] \in RawMessage
  BY ContextAssumption DEF RawMessage, Kinds
<1>3. "use" \in Kinds
  BY DEF Kinds
<1>. QED  BY <1>1, <1>2, <1>3

\* A step that says something and leaves the projection as it is.
LEMMA SpeakSteps ==
  ASSUME IInv, NEW messages \in Seq(RawMessage), messages # <<>>, Say(messages),
         UNCHANGED <<mode, context>>
  PROVE  IInv'
<1>1. seen' \in 0..Len(history) /\ Covers(projection', seen') /\ mode' \in Modes
  BY DEF IInv, context
<1>. QED  BY <1>1, SaySteps

LEMMA DialogueIsRaw ==
  ASSUME history \in Seq(RawMessage), NEW texts \in Dialogue
  PROVE  texts \in Seq(RawMessage)
<1>. DEFINE kept == {k \in 1..Len(history) : history[k].kind \in {"user", "text"}}
            n == Cardinality(kept)
            values == {Message("user"), Message("text")}
<1>1. n \in Nat
  <2>1. IsFiniteSet(1..Len(history))
    BY FS_Interval
  <2>2. IsFiniteSet(kept)
    BY <2>1, FS_Subset
  <2>. QED  BY <2>2, FS_CardinalityType
<1>2. texts \in [1..n -> values]
  BY Zenon DEF Dialogue
<1>3. Message("user") \in RawMessage /\ Message("text") \in RawMessage
  BY MessagesAreRaw DEF Kinds
<1>. HIDE DEF n, values
<1>4. values \subseteq RawMessage
  BY <1>3 DEF values
<1>5. texts \in [1..n -> RawMessage]
  BY <1>2, <1>4
<1>. QED  BY <1>1, <1>5, SeqDef

LEMMA StepsAreGood == IInv /\ [Next]_vars => IInv'
<1>. SUFFICES ASSUME IInv, [Next]_vars PROVE IInv'
  OBVIOUS
<1>0. /\ history \in Seq(RawMessage) /\ Len(history) \in Nat
      /\ "user" \in Kinds /\ "reminder" \in Kinds /\ "text" \in Kinds
      /\ "use" \in Kinds /\ "result" \in Kinds
  BY DEF IInv, Kinds
<1>1. CASE SetMode
  <2>1. Current' = Current /\ history' = history /\ history = <<>>
    BY <1>1 DEF SetMode, context, Current, Rest
  <2>. QED  BY <1>1, <2>1 DEF SetMode, context, IInv
<1>2. CASE ReplaceSession
  <2>1. history' \in Seq(RawMessage) /\ projection' = <<>> /\ seen' = 0 /\ mode' \in Modes
        /\ pc' = "idle"
    <3>1. \A texts \in Dialogue : texts \in Seq(RawMessage)
      BY <1>0, DialogueIsRaw
    <3>2. history' \in Seq(RawMessage)
      <4>1. history' = <<>> \/ history' \in Dialogue \/ history' = history
        BY <1>2 DEF ReplaceSession
      <4>2. <<>> \in Seq(RawMessage)
        OBVIOUS
      <4>. QED  BY <1>0, <3>1, <4>1, <4>2
    <3>3. mode' \in Modes
      BY <1>2 DEF ReplaceSession, IInv
    <3>. QED  BY <1>2, <3>2, <3>3 DEF ReplaceSession
  <2>2. Covers(projection', seen') /\ seen' \in 0..Len(history')
    BY <2>1 DEF Covers
  <2>3. Current' = projection' \o RestOf(history', seen')
    BY DEF Current, Rest, RestOf
  <2>4. history' # <<>> => EndsAs(Current, history)'
    <3>. SUFFICES ASSUME history' # <<>> PROVE EndsAs(Current, history)'
      OBVIOUS
    <3>1. seen' < Len(history') /\ projection' \in Seq(Piece)
      BY <2>1
    <3>2. EndsAs(projection' \o RestOf(history', seen'), history')
      BY <2>1, <2>2, <3>1, JoinEnds
    <3>. QED  BY <2>3, <3>2 DEF EndsAs
  <2>. QED  BY <2>1, <2>2, <2>4 DEF IInv
<1>3. CASE BeginTurn
  <2>1. <<Message("user")>> \in Seq(RawMessage) /\ <<Message("user")>> # <<>>
    BY <1>0, MessagesAreRaw
  <2>. QED  BY <1>3, <2>1, SpeakSteps DEF BeginTurn
<1>4. CASE Injects
  <2>1. PICK kind \in {"user", "reminder"} : Say(<<Message(kind)>>)
    BY <1>4 DEF Injects
  <2>2. <<Message(kind)>> \in Seq(RawMessage) /\ <<Message(kind)>> # <<>>
    BY <1>0, MessagesAreRaw
  <2>. QED  BY <1>4, <2>1, <2>2, SpeakSteps DEF Injects
<1>5. CASE Prepare
  <2>1. history # <<>> /\ history' = history /\ mode' = mode
    BY <1>5 DEF Prepare, IInv
  <2>2. PICK outcome \in Prepared(FALSE) : Adopt(outcome)
    BY <1>5 DEF Prepare
  <2>3. Good(outcome)
    BY <2>1, PreparedIsGood
  <2>. QED  BY <2>1, <2>2, <2>3, AdoptSteps
<1>6. CASE Recover
  <2>1. history # <<>> /\ history' = history /\ mode' = mode
    BY <1>6 DEF Recover, IInv
  <2>2. PICK outcome \in Recovered : Adopt(outcome)
    BY <1>6 DEF Recover
  <2>3. Good(outcome)
    BY <2>1, RecoveredIsGood
  <2>. QED  BY <2>1, <2>2, <2>3, AdoptSteps
<1>7. CASE EndsTurn
  <2>1. <<Message("text")>> \in Seq(RawMessage) /\ <<Message("text")>> # <<>>
    BY <1>0, MessagesAreRaw
  <2>. QED  BY <1>7, <2>1, SpeakSteps DEF EndsTurn
<1>8. CASE Continues
  <2>1. PICK kind \in {"user", "reminder"} : Say(<<Message("text"), Message(kind)>>)
    BY <1>8 DEF Continues
  <2>2. <<Message("text"), Message(kind)>> \in Seq(RawMessage)
        /\ <<Message("text"), Message(kind)>> # <<>>
    BY <1>0, MessagesAreRaw
  <2>. QED  BY <1>8, <2>1, <2>2, SpeakSteps DEF Continues
<1>9. CASE CallsTools
  <2>1. PICK cost \in Costs : Say(<<Message("use"), [kind |-> "result", cost |-> cost]>>)
    BY <1>9 DEF CallsTools
  <2>2. <<Message("use"), [kind |-> "result", cost |-> cost]>> \in Seq(RawMessage)
        /\ <<Message("use"), [kind |-> "result", cost |-> cost]>> # <<>>
    BY MessagesAreRaw
  <2>. QED  BY <1>9, <2>1, <2>2, SpeakSteps DEF CallsTools
<1>10. CASE CallsCompact
  <2>1. history # <<>> /\ mode' = mode /\ Say(<<Message("use"), Message("result")>>)
    BY <1>10 DEF CallsCompact, IInv
  <2>2. PICK outcome \in Prepared(TRUE) : Adopt(outcome)
    BY <1>10 DEF CallsCompact
  <2>3. Good(outcome)
    BY <2>1, PreparedIsGood
  <2>4. seen' \in 0..Len(history) /\ Covers(projection', seen') /\ mode' \in Modes
    BY <2>1, <2>2, <2>3 DEF Good, Adopt, IInv
  <2>5. <<Message("use"), Message("result")>> \in Seq(RawMessage)
        /\ <<Message("use"), Message("result")>> # <<>>
    BY <1>0, MessagesAreRaw
  <2>. QED  BY <2>1, <2>4, <2>5, SaySteps
<1>11. CASE LeavesCall
  <2>1. PICK messages \in {<<Message("use")>>, <<Message("use"), Message("reminder")>>} :
          Say(messages)
    BY <1>11 DEF LeavesCall
  <2>2. messages \in Seq(RawMessage) /\ messages # <<>>
    <3>1. /\ <<Message("use")>> \in Seq(RawMessage)
          /\ <<Message("use"), Message("reminder")>> \in Seq(RawMessage)
      BY <1>0, MessagesAreRaw
    <3>2. <<Message("use")>> # <<>> /\ <<Message("use"), Message("reminder")>> # <<>>
      OBVIOUS
    <3>. QED  BY <2>1, <3>1, <3>2
  <2>. QED  BY <1>11, <2>1, <2>2, SpeakSteps DEF LeavesCall
<1>12. CASE UNCHANGED vars
  <2>1. Current' = Current
    BY <1>12 DEF vars, context, Current, Rest
  <2>. QED  BY <1>12, <2>1 DEF vars, context, IInv, EndsAs
<1>13. CASE PersistFails \/ DiskTurns
  <2>1. /\ Current' = Current /\ UNCHANGED <<history, mode, projection, seen>>
        /\ pc' \in {"idle", pc}
    BY <1>13 DEF PersistFails, DiskTurns, Goto, context, Current, Rest
  <2>. QED  BY <2>1 DEF IInv, EndsAs
<1>. QED  BY <1>1, <1>2, <1>3, <1>4, <1>5, <1>6, <1>7, <1>8, <1>9, <1>10, <1>11, <1>12, <1>13
         DEF Next

LEMMA ContextInvariant == Spec => []IInv
BY InitIsGood, StepsAreGood, PTL DEF Spec

\* A request is made of consecutive intervals of the whole history, each as it was or
\* under one marker, and outside of cc its last message is the newest, as it was said:
\* after any sequence of compactions, failures and recoveries of any of the three modes,
\* for histories of any length (context_modes.py:809, :851, :1158, :1441).
THEOREM ContextHistoryCovered == Spec => []HistoryCovered
<1>1. IInv => HistoryCovered
  <2>. SUFFICES ASSUME IInv, history # <<>>
                PROVE  Consecutive(Current) /\ (mode # "cc" => NewestIn(Current))
    BY DEF HistoryCovered
  <2>1. Covers(Current, Len(history)) /\ Current # <<>>
    BY CurrentCovers
  <2>2. Consecutive(Current)
    BY <2>1, Zenon DEF Covers, Consecutive
  <2>3. mode # "cc" => NewestIn(Current)
    BY DEF IInv, EndsAs, NewestIn
  <2>. QED  BY <2>2, <2>3
<1>. QED  BY <1>1, ContextInvariant, PTL

-----------------------------------------------------------------------------
\* Sums of costs.

SumAt(s, k, before) == IF k = 0 THEN 0 ELSE before + s[k].cost

LEMMA SumExists ==
  ASSUME NEW s \in Seq(Piece)
  PROVE  \E f : f = [k \in 0..Len(s) |-> SumAt(s, k, f[k - 1])]
<1>. DEFINE fails == {n \in 0..Len(s) : ~\E f : f = [k \in 0..n |-> SumAt(s, k, f[k - 1])]}
<1>1. ASSUME fails # {} PROVE FALSE
  <2>1. fails \in SUBSET Nat
    OBVIOUS
  <2>2. PICK n \in fails : \A m \in fails : n <= m
    BY <1>1, <2>1, HasMinimum
  <2>3. CASE n = 0
    <3>. DEFINE f == [k \in 0..0 |-> 0]
    <3>1. f = [k \in 0..0 |-> SumAt(s, k, f[k - 1])]
      BY DEF SumAt
    <3>. QED  BY <2>2, <2>3, <3>1
  <2>4. CASE n # 0
    <3>1. n - 1 \in 0..Len(s) /\ n - 1 \notin fails /\ n \in Nat
      BY <2>2, <2>4
    <3>2. PICK f : f = [k \in 0..(n - 1) |-> SumAt(s, k, f[k - 1])]
      BY <3>1
    <3>. DEFINE g == [k \in 0..n |-> IF k = n THEN SumAt(s, n, f[n - 1]) ELSE f[k]]
    <3>3. ASSUME NEW k \in 0..n PROVE g[k] = SumAt(s, k, g[k - 1])
      <4>1. CASE k = n
        BY <2>4, <3>1, <4>1
      <4>2. CASE k = 0 /\ k # n
        <5>1. g[k] = SumAt(s, k, f[k - 1])
          BY <3>1, <3>2, <4>2
        <5>. QED  BY <4>2, <5>1 DEF SumAt
      <4>3. CASE k # 0 /\ k # n
        <5>1. k \in 0..(n - 1) /\ k - 1 \in 0..n /\ k - 1 # n
          BY <3>1, <4>3
        <5>2. f[k] = SumAt(s, k, f[k - 1])
          BY <3>2, <5>1
        <5>3. g[k] = f[k] /\ g[k - 1] = f[k - 1]
          BY <4>3, <5>1
        <5>. QED  BY <5>2, <5>3
      <4>. QED  BY <4>1, <4>2, <4>3
    <3>4. g = [k \in 0..n |-> SumAt(s, k, g[k - 1])]
      <4>1. g = [k \in 0..n |-> g[k]]
        OBVIOUS
      <4>. HIDE DEF g
      <4>. QED  BY <3>3, <4>1
    <3>. QED  BY <2>2, <3>4
  <2>. QED  BY <2>3, <2>4
<1>2. Len(s) \in 0..Len(s)
  OBVIOUS
<1>. QED  BY <1>1, <1>2

\* The sums of the first pieces of s, of which Total is the last.
Sums(s, f) ==
  /\ \A k \in 0..Len(s) : f[k] \in Nat
  /\ f[0] = 0
  /\ \A k \in 1..Len(s) : f[k] = f[k - 1] + s[k].cost

LEMMA CostsArePositive ==
  ASSUME NEW s \in Seq(Piece), NEW k \in 1..Len(s)
  PROVE  s[k].cost \in Nat /\ s[k].cost >= 1
<1>1. s[k] \in Piece
  OBVIOUS
<1>. QED  BY <1>1 DEF Piece

LEMMA TotalIs ==
  ASSUME NEW s \in Seq(Piece)
  PROVE  \E f : Sums(s, f) /\ Total(s) = f[Len(s)]
<1>. DEFINE f == CHOOSE g : g = [k \in 0..Len(s) |-> SumAt(s, k, g[k - 1])]
<1>1. Total(s) = f[Len(s)]
  BY Zenon DEF Total, SumAt
<1>2. f = [k \in 0..Len(s) |-> SumAt(s, k, f[k - 1])]
  BY SumExists
<1>. HIDE DEF f
<1>3. f[0] = 0
  BY <1>2 DEF SumAt
<1>4. \A k \in 1..Len(s) : f[k] = f[k - 1] + s[k].cost
  BY <1>2 DEF SumAt
<1>. DEFINE wrong == {k \in 0..Len(s) : f[k] \notin Nat}
<1>5. wrong = {}
  <2>1. wrong \in SUBSET Nat
    OBVIOUS
  <2>2. ASSUME wrong # {} PROVE FALSE
    <3>1. PICK n \in wrong : \A k \in wrong : n <= k
      BY <2>1, <2>2, HasMinimum
    <3>2. n # 0 /\ n \in 1..Len(s) /\ n - 1 \in 0..Len(s) /\ n - 1 \notin wrong
      BY <1>3, <3>1
    <3>3. f[n - 1] \in Nat /\ s[n].cost \in Nat
      BY <3>2, CostsArePositive
    <3>. QED  BY <1>4, <3>1, <3>2, <3>3
  <2>. QED  BY <2>2
<1>6. Sums(s, f)
  BY <1>3, <1>4, <1>5 DEF Sums
<1>. QED  BY <1>1, <1>6

LEMMA TotalIsNatural ==
  ASSUME NEW s \in Seq(Piece)
  PROVE  Total(s) \in Nat
<1>1. Len(s) \in 0..Len(s)
  OBVIOUS
<1>. QED  BY <1>1, TotalIs DEF Sums

LEMMA SumsGrow ==
  ASSUME NEW s \in Seq(Piece), NEW f, Sums(s, f),
         NEW i \in 0..Len(s), NEW j \in 0..Len(s), i <= j
  PROVE  f[i] <= f[j]
<1>. DEFINE wrong == {k \in i..Len(s) : ~(f[i] <= f[k])}
<1>1. wrong \in SUBSET Nat
  OBVIOUS
<1>2. ASSUME wrong # {} PROVE FALSE
  <2>1. PICK n \in wrong : \A k \in wrong : n <= k
    BY <1>1, <1>2, HasMinimum
  <2>2. n # i /\ n \in 1..Len(s) /\ n - 1 \in i..Len(s) /\ n - 1 \notin wrong
    <3>1. f[i] \in Nat
      BY DEF Sums
    <3>. QED  BY <2>1, <3>1
  <2>3. f[n] = f[n - 1] + s[n].cost /\ f[n - 1] \in Nat /\ f[i] \in Nat /\ s[n].cost \in Nat
    <3>1. n - 1 \in 0..Len(s)
      BY <2>2
    <3>. QED  BY <2>2, <3>1, CostsArePositive DEF Sums
  <2>. QED  BY <2>1, <2>2, <2>3
<1>. QED  BY <1>2

\* If each piece of q costs no more than one of p of its own, in the same order, then
\* q costs no more than p.
LEMMA TotalAtMost ==
  ASSUME NEW p \in Seq(Piece), NEW q \in Seq(Piece), NEW g,
         \A k \in 0..Len(q) : g[k] \in 0..Len(p),
         \A k \in 1..Len(q) : g[k - 1] < g[k] /\ q[k].cost <= p[g[k]].cost
  PROVE  Total(q) <= Total(p)
<1>1. PICK e : Sums(p, e) /\ Total(p) = e[Len(p)]
  BY TotalIs
<1>2. PICK f : Sums(q, f) /\ Total(q) = f[Len(q)]
  BY TotalIs
<1>. DEFINE wrong == {k \in 0..Len(q) : ~(f[k] <= e[g[k]])}
<1>3. wrong = {}
  <2>1. wrong \in SUBSET Nat
    OBVIOUS
  <2>2. ASSUME wrong # {} PROVE FALSE
    <3>1. PICK n \in wrong : \A k \in wrong : n <= k
      BY <2>1, <2>2, HasMinimum
    <3>2. n # 0
      <4>1. f[0] = 0 /\ e[g[0]] \in Nat
        BY <1>1, <1>2 DEF Sums
      <4>. QED  BY <3>1, <4>1
    <3>3. n \in 1..Len(q) /\ n \in 0..Len(q) /\ n - 1 \in 0..Len(q) /\ n - 1 \notin wrong
      BY <3>1, <3>2
    <3>. DEFINE i == g[n - 1]
                j == g[n]
    <3>4. i \in 0..Len(p) /\ j \in 0..Len(p) /\ i < j /\ q[n].cost <= p[j].cost
      BY <3>3
    <3>. HIDE DEF i, j
    <3>5. j \in 1..Len(p) /\ j - 1 \in 0..Len(p) /\ i <= j - 1
      BY <3>4
    <3>6. e[i] <= e[j - 1]
      BY <1>1, <3>4, <3>5, SumsGrow
    <3>7. e[j] = e[j - 1] + p[j].cost /\ e[i] \in Nat /\ e[j - 1] \in Nat
      BY <1>1, <3>4, <3>5 DEF Sums
    <3>8. f[n] = f[n - 1] + q[n].cost /\ f[n - 1] \in Nat
      BY <1>2, <3>3 DEF Sums
    <3>9. f[n - 1] <= e[i]
      BY <3>3 DEF i
    <3>10. p[j].cost \in Nat /\ q[n].cost \in Nat
      BY <3>3, <3>5, CostsArePositive
    <3>11. f[n] <= e[j]
      <4>1. \A a, b, c, x, y \in Nat : a <= b /\ b <= c /\ x <= y => a + x <= c + y
        OBVIOUS
      <4>2. f[n - 1] + q[n].cost <= e[j - 1] + p[j].cost
        BY <3>4, <3>6, <3>7, <3>8, <3>9, <3>10, <4>1
      <4>. QED  BY <3>7, <3>8, <4>2
    <3>. QED  BY <3>1, <3>11 DEF j
  <2>. QED  BY <2>2
<1>. DEFINE l == g[Len(q)]
<1>4. Len(q) \in 0..Len(q) /\ l \in 0..Len(p) /\ Len(p) \in 0..Len(p) /\ l <= Len(p)
  OBVIOUS
<1>5. f[Len(q)] <= e[l]
  BY <1>3, <1>4
<1>. HIDE DEF l
<1>6. e[l] <= e[Len(p)]
  BY <1>1, <1>4, SumsGrow
<1>7. f[Len(q)] \in Nat /\ e[l] \in Nat /\ e[Len(p)] \in Nat
  BY <1>1, <1>2, <1>4 DEF Sums
<1>. QED  BY <1>1, <1>2, <1>5, <1>6, <1>7

-----------------------------------------------------------------------------
\* Legality.

SameKinds(s, r) == Len(s) = Len(r) /\ \A k \in 1..Len(r) : s[k].kind = r[k].kind

\* No call is separated from its results by the cut.
Clean(s, cut) == cut < Len(s) => s[cut + 1].kind # "result"

LEMMA SameKindsLegal ==
  ASSUME NEW s, NEW r, Len(r) \in Nat, SameKinds(s, r), Legal(r)
  PROVE  Legal(s)
<1>. SUFFICES ASSUME NEW k \in 1..Len(s)
              PROVE  /\ s[k].kind = "use" => k < Len(s) /\ s[k + 1].kind = "result"
                     /\ s[k].kind = "result" => k > 1 /\ s[k - 1].kind = "use"
  BY DEF Legal
<1>1. Len(s) = Len(r) /\ k \in 1..Len(r) /\ s[k].kind = r[k].kind
  BY DEF SameKinds
<1>2. ASSUME s[k].kind = "use" PROVE k < Len(s) /\ s[k + 1].kind = "result"
  <2>1. k < Len(r) /\ r[k + 1].kind = "result"
    BY <1>1, <1>2 DEF Legal
  <2>2. k + 1 \in 1..Len(r)
    BY <1>1, <2>1
  <2>. QED  BY <1>1, <2>1, <2>2 DEF SameKinds
<1>3. ASSUME s[k].kind = "result" PROVE k > 1 /\ s[k - 1].kind = "use"
  <2>1. k > 1 /\ r[k - 1].kind = "use"
    BY <1>1, <1>3 DEF Legal
  <2>2. k - 1 \in 1..Len(r)
    BY <1>1, <2>1
  <2>. QED  BY <2>1, <2>2 DEF SameKinds
<1>. QED  BY <1>2, <1>3

\* What a legal sequence says of a call and of its results.
LEMMA LegalNeighbours ==
  ASSUME NEW s, Legal(s), NEW k \in 1..Len(s)
  PROVE  /\ s[k].kind = "use" => k < Len(s) /\ s[k + 1].kind = "result"
         /\ s[k].kind = "result" => k > 1 /\ s[k - 1].kind = "use"
BY DEF Legal

LEMMA CutLegal ==
  ASSUME NEW p \in Seq(Piece), Legal(p), NEW cut \in 0..Len(p), Clean(p, cut)
  PROVE  Legal(Prefix(p, cut)) /\ Legal(Suffix(p, cut))
<1>. DEFINE a == Prefix(p, cut)
            b == Suffix(p, cut)
<1>1. Len(a) = cut /\ \A k \in 1..cut : a[k] = p[k]
  BY PrefixProperties
<1>2. Len(b) = Len(p) - cut /\ \A k \in 1..(Len(p) - cut) : b[k] = p[cut + k]
  BY SuffixProperties
<1>3. Len(p) \in Nat
  OBVIOUS
<1>. HIDE DEF a, b
<1>4. ASSUME NEW k \in 1..Len(a)
      PROVE  /\ a[k].kind = "use" => k < Len(a) /\ a[k + 1].kind = "result"
             /\ a[k].kind = "result" => k > 1 /\ a[k - 1].kind = "use"
  <2>1. k \in 1..Len(p) /\ k \in 1..cut /\ a[k] = p[k]
    BY <1>1, <1>3
  <2>2. ASSUME a[k].kind = "use" PROVE k < Len(a) /\ a[k + 1].kind = "result"
    <3>1. k < Len(p) /\ p[k + 1].kind = "result"
      BY <2>1, <2>2, LegalNeighbours
    <3>2. k # cut
      BY <3>1 DEF Clean
    <3>3. k + 1 \in 1..cut
      BY <2>1, <3>2
    <3>. QED  BY <1>1, <3>1, <3>3
  <2>3. ASSUME a[k].kind = "result" PROVE k > 1 /\ a[k - 1].kind = "use"
    <3>1. k > 1 /\ p[k - 1].kind = "use"
      BY <2>1, <2>3, LegalNeighbours
    <3>2. k - 1 \in 1..cut
      BY <2>1, <3>1
    <3>. QED  BY <1>1, <3>1, <3>2
  <2>. QED  BY <2>2, <2>3
<1>5. ASSUME NEW k \in 1..Len(b)
      PROVE  /\ b[k].kind = "use" => k < Len(b) /\ b[k + 1].kind = "result"
             /\ b[k].kind = "result" => k > 1 /\ b[k - 1].kind = "use"
  <2>. DEFINE j == cut + k
  <2>1. k \in 1..(Len(p) - cut) /\ j \in 1..Len(p) /\ b[k] = p[j]
    BY <1>2, <1>3
  <2>2. ASSUME b[k].kind = "use" PROVE k < Len(b) /\ b[k + 1].kind = "result"
    <3>1. j < Len(p) /\ p[j + 1].kind = "result"
      BY <2>1, <2>2, LegalNeighbours
    <3>2. k + 1 \in 1..(Len(p) - cut) /\ cut + (k + 1) = j + 1
      BY <2>1, <3>1
    <3>3. b[k + 1] = p[j + 1]
      BY <1>2, <3>2
    <3>. QED  BY <1>2, <3>1, <3>2, <3>3
  <2>3. ASSUME b[k].kind = "result" PROVE k > 1 /\ b[k - 1].kind = "use"
    <3>1. j > 1 /\ p[j - 1].kind = "use"
      BY <2>1, <2>3, LegalNeighbours
    <3>2. k # 1
      <4>. SUFFICES ASSUME k = 1 PROVE FALSE
        OBVIOUS
      <4>1. cut < Len(p) /\ p[cut + 1].kind = "result"
        BY <2>1, <2>3
      <4>. QED  BY <4>1 DEF Clean
    <3>3. k - 1 \in 1..(Len(p) - cut) /\ cut + (k - 1) = j - 1
      BY <2>1, <3>2
    <3>4. b[k - 1] = p[j - 1]
      BY <1>2, <3>3
    <3>. QED  BY <3>1, <3>2, <3>3, <3>4
  <2>. QED  BY <2>2, <2>3
<1>. QED  BY <1>4, <1>5 DEF Legal, a, b

\* The pieces between two clean cuts may go.
LEMMA ReplacedLegal ==
  ASSUME NEW p, NEW n \in Nat, Covers(p, n), NEW cost \in Nat \ {0},
         NEW h \in Nat, NEW t \in Nat, h < t, t <= Len(p),
         Legal(p), Clean(p, h), Clean(p, t)
  PROVE  Legal(Replaced(p, h, t, cost))
<1>. DEFINE q == Replaced(p, h, t, cost)
<1>1. p \in Seq(Piece) /\ Len(p) \in Nat
  BY DEF Covers
<1>2. /\ Len(q) = h + 1 + (Len(p) - t)
      /\ \A k \in 1..h : q[k] = p[k]
      /\ \A k \in (h + 2)..Len(q) : q[k] = p[t + (k - (h + 1))]
  <2>1. Len(q) = h + 1 + (Len(p) - t)
    BY ReplacedIs
  <2>2. \A k \in 1..h : q[k] = p[k]
    BY ReplacedIs
  <2>3. \A k \in (h + 2)..Len(q) : q[k] = p[t + (k - (h + 1))]
    BY ReplacedIs
  <2>. QED  BY <2>1, <2>2, <2>3
<1>3. q[h + 1].kind = "marker"
  <2>. DEFINE m == Marker(p[h + 1].first, p[t].last, cost)
  <2>1. q[h + 1] = m
    BY ReplacedIs
  <2>. QED  BY <2>1 DEF Marker
<1>. HIDE DEF q
<1>. SUFFICES ASSUME NEW k \in 1..Len(q)
              PROVE  /\ q[k].kind = "use" => k < Len(q) /\ q[k + 1].kind = "result"
                     /\ q[k].kind = "result" => k > 1 /\ q[k - 1].kind = "use"
  BY DEF Legal, q
<1>4. CASE k <= h
  <2>1. k \in 1..h /\ k \in 1..Len(p) /\ q[k] = p[k]
    BY <1>1, <1>2, <1>4
  <2>2. ASSUME q[k].kind = "use" PROVE k < Len(q) /\ q[k + 1].kind = "result"
    <3>1. p[k + 1].kind = "result"
      BY <2>1, <2>2, LegalNeighbours
    <3>2. k # h
      BY <3>1, <1>1 DEF Clean
    <3>3. k + 1 \in 1..h /\ k < Len(q)
      BY <1>1, <1>2, <2>1, <3>2
    <3>. QED  BY <1>2, <3>1, <3>3
  <2>3. ASSUME q[k].kind = "result" PROVE k > 1 /\ q[k - 1].kind = "use"
    <3>1. k > 1 /\ p[k - 1].kind = "use"
      BY <2>1, <2>3, LegalNeighbours
    <3>2. k - 1 \in 1..h
      BY <2>1, <3>1
    <3>. QED  BY <1>2, <3>1, <3>2
  <2>. QED  BY <2>2, <2>3
<1>5. CASE k = h + 1
  BY <1>3, <1>5
<1>6. CASE k > h + 1
  <2>. DEFINE j == t + (k - (h + 1))
  <2>1. k \in (h + 2)..Len(q) /\ j \in 1..Len(p) /\ q[k] = p[j]
    BY <1>1, <1>2, <1>6
  <2>2. ASSUME q[k].kind = "use" PROVE k < Len(q) /\ q[k + 1].kind = "result"
    <3>1. j < Len(p) /\ p[j + 1].kind = "result"
      BY <2>1, <2>2, LegalNeighbours
    <3>2. k + 1 \in (h + 2)..Len(q) /\ t + ((k + 1) - (h + 1)) = j + 1 /\ k < Len(q)
      BY <1>1, <1>2, <2>1, <3>1
    <3>3. q[k + 1] = p[j + 1]
      <4>. HIDE DEF j
      <4>. QED  BY <1>2, <3>2
    <3>. QED  BY <3>1, <3>2, <3>3
  <2>3. ASSUME q[k].kind = "result" PROVE k > 1 /\ q[k - 1].kind = "use"
    <3>1. j > 1 /\ p[j - 1].kind = "use"
      BY <2>1, <2>3, LegalNeighbours
    <3>2. k # h + 2
      <4>. SUFFICES ASSUME k = h + 2 PROVE FALSE
        OBVIOUS
      <4>1. j = t + 1 /\ t < Len(p)
        BY <2>1, <1>1
      <4>2. p[t + 1].kind = "result"
        BY <2>1, <2>3, <4>1
      <4>. QED  BY <4>1, <4>2 DEF Clean
    <3>3. k - 1 \in (h + 2)..Len(q) /\ t + ((k - 1) - (h + 1)) = j - 1
      BY <1>1, <1>2, <2>1, <3>2
    <3>4. q[k - 1] = p[j - 1]
      BY <1>2, <3>3
    <3>. QED  BY <2>1, <3>1, <3>4
  <2>. QED  BY <2>2, <2>3
<1>. QED  BY <1>2, <1>4, <1>5, <1>6

\* So may those before one.
LEMMA RebuiltLegal ==
  ASSUME NEW p, NEW n \in Nat, Covers(p, n), NEW cost \in Nat \ {0}, NEW cut \in 0..Len(p),
         Legal(p), Clean(p, cut)
  PROVE  Legal(Rebuilt(p, cut, cost))
<1>. DEFINE q == Rebuilt(p, cut, cost)
<1>1. p \in Seq(Piece) /\ Len(p) \in Nat
  BY DEF Covers
<1>2. Len(q) = 1 + (Len(p) - cut) /\ \A k \in 2..Len(q) : q[k] = p[cut + (k - 1)]
  BY RebuiltIs
<1>3. q[1].kind = "marker"
  <2>1. q[1] = Marker(1, IF cut = 0 THEN 0 ELSE p[cut].last, cost)
    BY RebuiltIs
  <2>. QED  BY <2>1 DEF Marker
<1>. HIDE DEF q
<1>. SUFFICES ASSUME NEW k \in 1..Len(q)
              PROVE  /\ q[k].kind = "use" => k < Len(q) /\ q[k + 1].kind = "result"
                     /\ q[k].kind = "result" => k > 1 /\ q[k - 1].kind = "use"
  BY DEF Legal, q
<1>4. CASE k = 1
  BY <1>3, <1>4
<1>5. CASE k # 1
  <2>. DEFINE j == cut + (k - 1)
  <2>1. k \in 2..Len(q) /\ j \in 1..Len(p) /\ q[k] = p[j]
    BY <1>1, <1>2, <1>5
  <2>2. ASSUME q[k].kind = "use" PROVE k < Len(q) /\ q[k + 1].kind = "result"
    <3>1. j < Len(p) /\ p[j + 1].kind = "result"
      BY <2>1, <2>2, LegalNeighbours
    <3>2. k + 1 \in 2..Len(q) /\ cut + ((k + 1) - 1) = j + 1 /\ k < Len(q)
      BY <1>1, <1>2, <2>1, <3>1
    <3>3. q[k + 1] = p[j + 1]
      BY <1>2, <3>2
    <3>. QED  BY <3>1, <3>2, <3>3
  <2>3. ASSUME q[k].kind = "result" PROVE k > 1 /\ q[k - 1].kind = "use"
    <3>1. j > 1 /\ p[j - 1].kind = "use"
      BY <2>1, <2>3, LegalNeighbours
    <3>2. k # 2
      <4>. SUFFICES ASSUME k = 2 PROVE FALSE
        OBVIOUS
      <4>1. j = cut + 1 /\ cut < Len(p)
        BY <2>1, <1>1
      <4>2. p[cut + 1].kind = "result"
        BY <2>1, <2>3, <4>1
      <4>. QED  BY <4>1, <4>2 DEF Clean
    <3>3. k - 1 \in 2..Len(q) /\ cut + ((k - 1) - 1) = j - 1
      BY <1>1, <1>2, <2>1, <3>2
    <3>4. q[k - 1] = p[j - 1]
      BY <1>2, <3>3
    <3>. QED  BY <2>1, <3>1, <3>4
  <2>. QED  BY <2>2, <2>3
<1>. QED  BY <1>4, <1>5

LEMMA MoveBackIs ==
  ASSUME NEW s, NEW cut \in Nat
  PROVE  /\ MoveBack(s, cut) # 0 => LegalCut(s, MoveBack(s, cut))
         /\ \A k \in 1..cut : LegalCut(s, k) => k <= MoveBack(s, cut)
<1>. DEFINE S == {0} \cup {k \in 1..cut : LegalCut(s, k)}
<1>1. S \in SUBSET (0..cut) /\ S # {}
  OBVIOUS
<1>2. Greatest(S) \in S /\ \A k \in S : k <= Greatest(S)
  BY <1>1, GreatestInSet
<1>3. MoveBack(s, cut) = Greatest(S)
  BY DEF MoveBack
<1>. QED  BY <1>2, <1>3

LEMMA LegalCutIsClean ==
  ASSUME NEW p \in Seq(Piece), NEW cut \in 0..Len(p), LegalCut(p, cut)
  PROVE  Clean(p, cut)
<1>. SUFFICES ASSUME cut < Len(p), p[cut + 1].kind = "result" PROVE FALSE
  BY DEF Clean
<1>1. Legal(Suffix(p, cut))
  BY DEF LegalCut
<1>2. Len(Suffix(p, cut)) = Len(p) - cut /\ \A k \in 1..(Len(p) - cut) : Suffix(p, cut)[k] = p[cut + k]
  BY SuffixProperties
<1>3. 1 \in 1..(Len(p) - cut)
  OBVIOUS
<1>4. 1 \in 1..Len(Suffix(p, cut)) /\ Suffix(p, cut)[1].kind = "result"
  BY <1>2, <1>3
<1>. QED  BY <1>1, <1>4 DEF Legal

\* In a legal request that does not begin with a call there is a legal cut at one of
\* any two neighbouring places, so a recovery finds one no earlier than the first piece.
LEMMA RecoveryIsClean ==
  ASSUME NEW p \in Seq(Piece), Legal(p), Len(p) > 0 => p[1].kind # "use",
         NEW last \in Nat, last = 0 \/ last < Len(p)
  PROVE  LET tail == MoveBack(p, last) IN Clean(p, IF tail = 0 THEN last ELSE tail)
<1>. DEFINE tail == MoveBack(p, last)
<1>1. tail \in 0..last /\ last \in 0..Len(p) /\ Len(p) \in Nat
  BY MoveBackRange
<1>2. CASE tail # 0
  <2>1. LegalCut(p, tail) /\ tail \in 0..Len(p)
    BY <1>1, <1>2, MoveBackIs
  <2>. QED  BY <1>2, <2>1, LegalCutIsClean
<1>3. CASE tail = 0
  <2>1. \A k \in 1..last : ~LegalCut(p, k)
    <3>1. \A k \in 1..last : LegalCut(p, k) => k <= 0
      BY <1>3, MoveBackIs
    <3>. QED  BY <3>1
  <2>2. \A k \in 1..last : ~Clean(p, k)
    <3>. SUFFICES ASSUME NEW k \in 1..last, Clean(p, k) PROVE FALSE
      OBVIOUS
    <3>1. k \in 0..Len(p) /\ k \in 1..(Len(p) - 1)
      BY <1>1
    <3>2. LegalCut(p, k)
      BY <3>1, CutLegal DEF LegalCut
    <3>. QED  BY <2>1, <3>2
  <2>3. CASE last = 0
    <3>1. Len(p) > 0 => p[1].kind # "result"
      <4>. SUFFICES ASSUME Len(p) > 0 PROVE p[1].kind # "result"
        OBVIOUS
      <4>1. 1 \in 1..Len(p) /\ ~(1 > 1)
        OBVIOUS
      <4>. QED  BY <4>1, LegalNeighbours
    <3>2. Clean(p, last)
      BY <2>3, <3>1 DEF Clean
    <3>. QED  BY <1>3, <3>2
  <2>4. CASE last # 0
    <3>1. last \in 1..last /\ last \in 1..Len(p) /\ last + 1 \in 1..Len(p)
      BY <1>1, <2>4
    <3>2. p[last + 1].kind = "result"
      BY <2>2, <3>1 DEF Clean
    <3>3. p[last].kind = "use"
      <4>1. (last + 1) - 1 = last
        BY <3>1
      <4>. QED  BY <3>1, <3>2, <4>1, LegalNeighbours
    <3>4. last # 1
      BY <3>1, <3>3
    <3>5. last - 1 \in 1..last /\ (last - 1) + 1 = last
      BY <3>1, <3>4
    <3>6. Clean(p, last - 1)
      BY <3>3, <3>5 DEF Clean
    <3>. QED  BY <2>2, <3>5, <3>6
  <2>. QED  BY <2>3, <2>4
<1>. QED  BY <1>2, <1>3

\* d are the messages of c and then those of m.
Joins(d, c, m) ==
  /\ Len(d) = Len(c) + Len(m)
  /\ \A k \in 1..Len(c) : d[k].kind = c[k].kind
  /\ \A k \in 1..Len(m) : d[Len(c) + k].kind = m[k].kind

LEMMA JoinIsLegal ==
  ASSUME NEW d, NEW c, NEW m, Len(c) \in Nat, Len(m) \in Nat, Joins(d, c, m), Legal(c), Legal(m)
  PROVE  Legal(d)
<1>. DEFINE n == Len(c)
<1>1. /\ n \in Nat /\ Len(d) = n + Len(m)
      /\ \A k \in 1..n : d[k].kind = c[k].kind
      /\ \A k \in 1..Len(m) : d[n + k].kind = m[k].kind
  BY DEF Joins
<1>. SUFFICES ASSUME NEW k \in 1..Len(d)
              PROVE  /\ d[k].kind = "use" => k < Len(d) /\ d[k + 1].kind = "result"
                     /\ d[k].kind = "result" => k > 1 /\ d[k - 1].kind = "use"
  BY DEF Legal
<1>2. CASE k <= n
  <2>1. k \in 1..Len(c) /\ d[k].kind = c[k].kind
    BY <1>1, <1>2
  <2>2. ASSUME d[k].kind = "use" PROVE k < Len(d) /\ d[k + 1].kind = "result"
    <3>1. k < n /\ c[k + 1].kind = "result"
      BY <2>1, <2>2, LegalNeighbours
    <3>2. k + 1 \in 1..n /\ k < Len(d)
      BY <1>1, <2>1, <3>1
    <3>. QED  BY <1>1, <3>1, <3>2
  <2>3. ASSUME d[k].kind = "result" PROVE k > 1 /\ d[k - 1].kind = "use"
    <3>1. k > 1 /\ c[k - 1].kind = "use"
      BY <2>1, <2>3, LegalNeighbours
    <3>2. k - 1 \in 1..n
      BY <2>1, <3>1
    <3>. QED  BY <1>1, <3>1, <3>2
  <2>. QED  BY <2>2, <2>3
<1>3. CASE k > n
  <2>. DEFINE j == k - n
  <2>1. j \in 1..Len(m) /\ k = n + j
    BY <1>1, <1>3
  <2>. HIDE DEF j
  <2>2. d[k].kind = m[j].kind
    BY <1>1, <2>1
  <2>3. ASSUME d[k].kind = "use" PROVE k < Len(d) /\ d[k + 1].kind = "result"
    <3>1. j < Len(m) /\ m[j + 1].kind = "result"
      BY <2>1, <2>2, <2>3, LegalNeighbours
    <3>2. j + 1 \in 1..Len(m) /\ n + (j + 1) = k + 1 /\ k < Len(d)
      BY <1>1, <2>1, <3>1
    <3>3. d[n + (j + 1)].kind = m[j + 1].kind
      BY <1>1, <3>2
    <3>. QED  BY <3>1, <3>2, <3>3
  <2>4. ASSUME d[k].kind = "result" PROVE k > 1 /\ d[k - 1].kind = "use"
    <3>1. j > 1 /\ m[j - 1].kind = "use"
      BY <2>1, <2>2, <2>4, LegalNeighbours
    <3>2. j - 1 \in 1..Len(m) /\ n + (j - 1) = k - 1 /\ k > 1
      BY <1>1, <2>1, <3>1
    <3>3. d[n + (j - 1)].kind = m[j - 1].kind
      BY <1>1, <3>2
    <3>. QED  BY <3>1, <3>2, <3>3
  <2>. QED  BY <2>3, <2>4
<1>. QED  BY <1>1, <1>2, <1>3

\* What is added never begins with results, so that it completes nothing.
LEMMA PartsAreLegal ==
  ASSUME NEW d, NEW c, NEW m, Len(c) \in Nat, Len(m) \in Nat, Joins(d, c, m), Legal(d),
         Len(m) > 0 => m[1].kind # "result"
  PROVE  Legal(c) /\ Legal(m)
<1>. DEFINE n == Len(c)
<1>1. /\ n \in Nat /\ Len(d) = n + Len(m)
      /\ \A k \in 1..n : d[k].kind = c[k].kind
      /\ \A k \in 1..Len(m) : d[n + k].kind = m[k].kind
  BY DEF Joins
<1>2. ASSUME NEW k \in 1..n
      PROVE  /\ c[k].kind = "use" => k < n /\ c[k + 1].kind = "result"
             /\ c[k].kind = "result" => k > 1 /\ c[k - 1].kind = "use"
  <2>1. k \in 1..Len(d) /\ d[k].kind = c[k].kind
    BY <1>1
  <2>2. ASSUME c[k].kind = "use" PROVE k < n /\ c[k + 1].kind = "result"
    <3>1. k < Len(d) /\ d[k + 1].kind = "result"
      BY <2>1, <2>2, LegalNeighbours
    <3>2. k # n
      <4>. SUFFICES ASSUME k = n PROVE FALSE
        OBVIOUS
      <4>1. 1 \in 1..Len(m) /\ Len(m) > 0
        BY <1>1, <3>1
      <4>2. d[n + 1].kind = m[1].kind
        BY <1>1, <4>1
      <4>. QED  BY <3>1, <4>1, <4>2
    <3>3. k + 1 \in 1..n /\ k < n
      BY <1>1, <3>2
    <3>. QED  BY <1>1, <3>1, <3>3
  <2>3. ASSUME c[k].kind = "result" PROVE k > 1 /\ c[k - 1].kind = "use"
    <3>1. k > 1 /\ d[k - 1].kind = "use"
      BY <2>1, <2>3, LegalNeighbours
    <3>2. k - 1 \in 1..n
      BY <1>1, <3>1
    <3>. QED  BY <1>1, <3>1, <3>2
  <2>. QED  BY <2>2, <2>3
<1>3. ASSUME NEW k \in 1..Len(m)
      PROVE  /\ m[k].kind = "use" => k < Len(m) /\ m[k + 1].kind = "result"
             /\ m[k].kind = "result" => k > 1 /\ m[k - 1].kind = "use"
  <2>. DEFINE i == n + k
  <2>1. i \in 1..Len(d) /\ d[i].kind = m[k].kind
    BY <1>1
  <2>2. ASSUME m[k].kind = "use" PROVE k < Len(m) /\ m[k + 1].kind = "result"
    <3>1. i < Len(d) /\ d[i + 1].kind = "result"
      BY <2>1, <2>2, LegalNeighbours
    <3>2. k + 1 \in 1..Len(m) /\ n + (k + 1) = i + 1 /\ k < Len(m)
      BY <1>1, <3>1
    <3>3. d[n + (k + 1)].kind = m[k + 1].kind
      BY <1>1, <3>2
    <3>. QED  BY <3>1, <3>2, <3>3
  <2>3. ASSUME m[k].kind = "result" PROVE k > 1 /\ m[k - 1].kind = "use"
    <3>1. i > 1 /\ d[i - 1].kind = "use"
      BY <2>1, <2>3, LegalNeighbours
    <3>2. k # 1
      BY <2>3
    <3>3. k - 1 \in 1..Len(m) /\ n + (k - 1) = i - 1 /\ k > 1
      BY <1>1, <3>2
    <3>4. d[n + (k - 1)].kind = m[k - 1].kind
      BY <1>1, <3>3
    <3>. QED  BY <3>1, <3>3, <3>4
  <2>. QED  BY <2>2, <2>3
<1>4. Legal(c)
  BY <1>2 DEF Legal
<1>5. Legal(m)
  BY <1>3 DEF Legal
<1>. QED  BY <1>4, <1>5

-----------------------------------------------------------------------------
\* What cc does to a request without a summary.

\* q costs no more than p, is as legal and begins with the same kind of piece.
Lighter(q, p) ==
  /\ q \in Seq(Piece) /\ Len(q) > 0
  /\ Total(q) <= Total(p)
  /\ q[1].kind = p[1].kind
  /\ Legal(p) => Legal(q)

LEMMA LighterIsTransitive ==
  ASSUME NEW p \in Seq(Piece), NEW q, NEW r, Lighter(q, p), Lighter(r, q)
  PROVE  Lighter(r, p)
<1>1. q \in Seq(Piece) /\ r \in Seq(Piece)
  BY DEF Lighter
<1>2. Total(p) \in Nat /\ Total(q) \in Nat /\ Total(r) \in Nat
  BY <1>1, TotalIsNatural
<1>3. Total(r) <= Total(p)
  BY <1>2 DEF Lighter
<1>. QED  BY <1>3 DEF Lighter

LEMMA CheaperIsLighter ==
  ASSUME NEW p \in Seq(Piece), Len(p) > 0, NEW q \in Seq(Piece), Len(q) = Len(p),
         \A k \in 1..Len(p) : q[k].kind = p[k].kind /\ q[k].cost <= p[k].cost
  PROVE  Lighter(q, p)
<1>. DEFINE g == [k \in 0..Len(p) |-> k]
<1>1. \A k \in 0..Len(q) : g[k] \in 0..Len(p)
  OBVIOUS
<1>2. \A k \in 1..Len(q) : g[k - 1] < g[k] /\ q[k].cost <= p[g[k]].cost
  OBVIOUS
<1>. HIDE DEF g
<1>3. Total(q) <= Total(p)
  BY <1>1, <1>2, TotalAtMost
<1>4. Len(p) \in Nat /\ 1 \in 1..Len(p) /\ SameKinds(q, p)
  BY DEF SameKinds
<1>5. Legal(p) => Legal(q)
  BY <1>4, SameKindsLegal
<1>. QED  BY <1>3, <1>4, <1>5 DEF Lighter

LEMMA CheapPiece ==
  ASSUME NEW piece \in Piece
  PROVE  LET q == [piece EXCEPT !.cost = 1]
         IN  q \in Piece /\ q.kind = piece.kind /\ q.cost <= piece.cost
<1>1. piece.cost \in Nat /\ piece.cost >= 1
  BY DEF Piece
<1>. QED  BY <1>1 DEF Piece

LEMMA PieceCosts ==
  ASSUME NEW piece \in Piece
  PROVE  piece.cost <= piece.cost
BY DEF Piece

LEMMA BudgetedLighter ==
  ASSUME NEW p \in Seq(Piece), Len(p) > 0
  PROVE  Lighter(Budgeted(p), p)
<1>. DEFINE l == Len(p)
            piece == [p[l] EXCEPT !.cost = 1]
            q == [p EXCEPT ![l] = piece]
<1>1. l \in 1..Len(p) /\ p[l] \in Piece /\ \A k \in 1..Len(p) : p[k] \in Piece
  OBVIOUS
<1>2. piece \in Piece /\ piece.kind = p[l].kind /\ piece.cost <= p[l].cost
  BY <1>1, CheapPiece
<1>3. Budgeted(p) = p \/ Budgeted(p) = q
  BY DEF Budgeted
<1>. HIDE DEF piece
<1>4. q \in Seq(Piece) /\ Len(q) = Len(p)
  BY <1>1, <1>2
<1>5. \A k \in 1..Len(p) : p[k].kind = p[k].kind /\ p[k].cost <= p[k].cost
  BY <1>1, PieceCosts
<1>6. \A k \in 1..Len(p) : q[k].kind = p[k].kind /\ q[k].cost <= p[k].cost
  BY <1>1, <1>2, <1>5
<1>. HIDE DEF q
<1>7. Lighter(p, p)
  BY <1>5, CheaperIsLighter
<1>8. Lighter(q, p)
  BY <1>4, <1>6, CheaperIsLighter
<1>. QED  BY <1>3, <1>7, <1>8

LEMMA MicroLighter ==
  ASSUME NEW p \in Seq(Piece), Len(p) > 0
  PROVE  Lighter(Micro(p), p)
<1>. DEFINE q == Micro(p)
<1>1. \A k \in 1..Len(p) : q[k] = p[k] \/ q[k] = [p[k] EXCEPT !.cost = 1]
  BY DEF Micro
<1>2. \A k \in 1..Len(p) :
        q[k] \in Piece /\ q[k].kind = p[k].kind /\ q[k].cost <= p[k].cost
  <2>. SUFFICES ASSUME NEW k \in 1..Len(p)
                PROVE  q[k] \in Piece /\ q[k].kind = p[k].kind /\ q[k].cost <= p[k].cost
    OBVIOUS
  <2>1. p[k] \in Piece
    OBVIOUS
  <2>2. LET r == [p[k] EXCEPT !.cost = 1]
        IN  r \in Piece /\ r.kind = p[k].kind /\ r.cost <= p[k].cost
    BY <2>1, CheapPiece
  <2>3. p[k].cost <= p[k].cost
    BY <2>1, PieceCosts
  <2>. QED  BY <1>1, <2>1, <2>2, <2>3
<1>3. q = [k \in 1..Len(p) |-> q[k]]
  BY Zenon DEF Micro
<1>4. q \in [1..Len(p) -> Piece] /\ Len(p) \in Nat
  BY <1>2, <1>3
<1>5. q \in Seq(Piece) /\ Len(q) = Len(p)
  BY <1>4, SeqDef
<1>. HIDE DEF q
<1>6. Lighter(q, p)
  BY <1>2, <1>5, CheaperIsLighter
<1>. QED  BY <1>6 DEF q

\* A marker that costs no more than the last of what it stands for.
LEMMA ReplacedLighter ==
  ASSUME NEW p, NEW n \in Nat, Covers(p, n), NEW cost \in Nat \ {0}, cost = 1,
         NEW h \in Nat, NEW t \in Nat, h >= 1, h < t, t <= Len(p),
         Legal(p) => Clean(p, h) /\ Clean(p, t)
  PROVE  Lighter(Replaced(p, h, t, cost), p)
<1>. DEFINE q == Replaced(p, h, t, cost)
<1>0. p \in Seq(Piece) /\ Len(p) \in Nat
  BY DEF Covers
<1>7. Legal(p) => Legal(q)
  BY ReplacedLegal
<1>8. q \in Seq(Piece) /\ Len(q) = h + 1 + (Len(p) - t)
  BY ReplacedIs
<1>9. \A k \in 1..h : q[k] = p[k]
  BY ReplacedIs
<1>10. q[h + 1].cost = 1
  <2>. DEFINE m == Marker(p[h + 1].first, p[t].last, cost)
  <2>1. q[h + 1] = m
    BY ReplacedIs
  <2>. QED  BY <2>1 DEF Marker
<1>11. \A k \in (h + 2)..Len(q) : q[k] = p[t + (k - (h + 1))]
  BY ReplacedIs
<1>. HIDE DEF q
<1>. DEFINE g == [k \in 0..Len(q) |-> IF k <= h THEN k ELSE t + (k - (h + 1))]
<1>12. \A k \in 0..Len(q) : g[k] \in 0..Len(p)
  BY <1>0, <1>8
<1>13. \A k \in 1..Len(q) : g[k - 1] < g[k]
  BY <1>0, <1>8
<1>14. ASSUME NEW k \in 1..Len(q) PROVE q[k].cost <= p[g[k]].cost
  <2>1. g[k] \in 1..Len(p)
    <3>1. k - 1 \in 0..Len(q) /\ k \in 0..Len(q)
      OBVIOUS
    <3>2. g[k - 1] \in 0..Len(p) /\ g[k] \in 0..Len(p) /\ g[k - 1] < g[k]
      BY <1>12, <1>13, <3>1
    <3>. QED  BY <3>2
  <2>2. p[g[k]].cost \in Nat /\ p[g[k]].cost >= 1
    BY <1>0, <2>1, CostsArePositive
  <2>3. CASE k <= h
    <3>1. q[k] = p[k] /\ g[k] = k
      BY <1>9, <2>3
    <3>2. p[k].cost \in Nat
      BY <2>2, <3>1
    <3>3. q[k].cost = p[k].cost /\ p[g[k]].cost = p[k].cost
      BY <3>1
    <3>. QED  BY <3>2, <3>3
  <2>4. CASE k = h + 1
    BY <1>10, <2>2, <2>4
  <2>5. CASE k > h + 1
    <3>1. k \in (h + 2)..Len(q) /\ ~(k <= h)
      BY <2>5
    <3>2. g[k] = t + (k - (h + 1))
      BY <3>1
    <3>3. q[k].cost = p[g[k]].cost
      BY <1>11, <3>1, <3>2
    <3>. QED  BY <2>2, <3>3
  <2>. QED  BY <2>3, <2>4, <2>5
<1>. HIDE DEF g
<1>15. Total(q) <= Total(p)
  BY <1>0, <1>8, <1>12, <1>13, <1>14, TotalAtMost
<1>16. q[1] = p[1] /\ Len(q) > 0
  BY <1>0, <1>8, <1>9
<1>17. Lighter(q, p)
  BY <1>7, <1>8, <1>15, <1>16 DEF Lighter
<1>. QED  BY <1>17 DEF q

\* A snip: its marker costs no more than the last of what it stands for, and it moves
\* its two cuts away from calls.
LEMMA SnippedLighter ==
  ASSUME NEW p, NEW n \in Nat, Covers(p, n), Len(p) > 0
  PROVE  Lighter(Snipped(p), p)
<1>. DEFINE cut == Len(p) - (SnipAt - HeadKeep)
            head == IF p[HeadKeep].kind = "use" /\ p[HeadKeep + 1].kind = "result"
                    THEN HeadKeep + 1 ELSE HeadKeep
            tail == IF p[cut + 1].kind = "result" /\ p[cut].kind = "use" THEN cut - 1 ELSE cut
            q == Replaced(p, head, tail, 1)
<1>1. /\ p \in Seq(Piece) /\ Len(p) \in Nat
      /\ SnipAt \in Nat /\ HeadKeep \in Nat /\ HeadKeep >= 1 /\ HeadKeep < SnipAt
  BY ContextAssumption DEF Covers
<1>2. Snipped(p) = p \/ (~(Len(p) <= SnipAt) /\ ~(head >= tail) /\ Snipped(p) = q)
  <2>1. CASE Len(p) <= SnipAt
    BY <2>1, Zenon DEF Snipped, Replaced
  <2>2. CASE ~(Len(p) <= SnipAt) /\ head >= tail
    BY <2>2, Zenon DEF Snipped, Replaced
  <2>3. CASE ~(Len(p) <= SnipAt) /\ ~(head >= tail)
    BY <2>3, Zenon DEF Snipped, Replaced
  <2>. QED  BY <2>1, <2>2, <2>3
<1>3. CASE Snipped(p) = p
  <2>1. \A k \in 1..Len(p) : p[k].kind = p[k].kind /\ p[k].cost <= p[k].cost
    <3>1. \A k \in 1..Len(p) : p[k] \in Piece
      BY <1>1
    <3>. QED  BY <3>1, PieceCosts
  <2>2. Lighter(p, p)
    BY <1>1, <2>1, CheaperIsLighter
  <2>. QED  BY <1>3, <2>2
<1>4. CASE ~(Len(p) <= SnipAt) /\ ~(head >= tail) /\ Snipped(p) = q
  <2>1. cut \in Nat /\ cut >= 1 /\ cut < Len(p) /\ HeadKeep + 1 <= Len(p)
    BY <1>1, <1>4
  <2>2. head \in {HeadKeep, HeadKeep + 1} /\ tail \in {cut - 1, cut}
    OBVIOUS
  <2>3. /\ head \in Nat /\ head >= 1 /\ tail \in Nat /\ head < tail /\ tail <= Len(p)
        /\ tail < Len(p)
    <3>1. head \in Nat /\ head >= 1 /\ tail \in Nat /\ tail <= cut
      BY <1>1, <2>1, <2>2
    <3>2. head < tail
      BY <1>4, <3>1
    <3>. QED  BY <1>1, <2>1, <3>1, <3>2
  <2>4. Legal(p) => Clean(p, head)
    <3>. SUFFICES ASSUME Legal(p), p[head + 1].kind = "result" PROVE FALSE
      BY DEF Clean
    <3>1. CASE p[HeadKeep].kind = "use" /\ p[HeadKeep + 1].kind = "result"
      <4>1. head = HeadKeep + 1
        BY <3>1
      <4>2. head + 1 \in 1..Len(p) /\ (head + 1) - 1 = HeadKeep + 1
        BY <1>1, <2>3, <4>1
      <4>3. p[HeadKeep + 1].kind = "use"
        BY <4>2, LegalNeighbours
      <4>. QED  BY <3>1, <4>3
    <3>2. CASE ~(p[HeadKeep].kind = "use" /\ p[HeadKeep + 1].kind = "result")
      <4>1. head = HeadKeep
        BY <3>2
      <4>2. HeadKeep + 1 \in 1..Len(p) /\ (HeadKeep + 1) - 1 = HeadKeep
        BY <1>1, <2>1
      <4>3. p[HeadKeep].kind = "use" /\ p[HeadKeep + 1].kind = "result"
        <5>1. p[HeadKeep + 1].kind = "result"
          BY <4>1
        <5>. QED  BY <4>2, <5>1, LegalNeighbours
      <4>. QED  BY <3>2, <4>3
    <3>. QED  BY <3>1, <3>2
  <2>5. Legal(p) => Clean(p, tail)
    <3>. SUFFICES ASSUME Legal(p), p[tail + 1].kind = "result" PROVE FALSE
      BY DEF Clean
    <3>1. CASE p[cut + 1].kind = "result" /\ p[cut].kind = "use"
      <4>1. tail = cut - 1
        BY <3>1
      <4>2. tail + 1 = cut
        BY <2>1, <4>1
      <4>. QED  BY <3>1, <4>2
    <3>2. CASE ~(p[cut + 1].kind = "result" /\ p[cut].kind = "use")
      <4>1. tail = cut
        BY <3>2
      <4>2. cut + 1 \in 1..Len(p) /\ (cut + 1) - 1 = cut
        BY <1>1, <2>1
      <4>3. p[cut + 1].kind = "result"
        BY <4>1
      <4>4. p[cut].kind = "use"
        BY <4>2, <4>3, LegalNeighbours
      <4>. QED  BY <3>2, <4>3, <4>4
    <3>. QED  BY <3>1, <3>2
  <2>. HIDE DEF head, tail
  <2>6. Lighter(q, p)
    <3>. DEFINE one == 1
    <3>1. one \in Nat \ {0} /\ one = 1
      OBVIOUS
    <3>2. q = Replaced(p, head, tail, one)
      OBVIOUS
    <3>. HIDE DEF one, q
    <3>. QED  BY <2>3, <2>4, <2>5, <3>1, <3>2, ReplacedLighter
  <2>. QED  BY <1>4, <2>6
<1>. QED  BY <1>2, <1>3, <1>4

-----------------------------------------------------------------------------
\* What an attempt sends.

Sends(outcome) == outcome.projection \o RestOf(history, outcome.seen)

\* A request that does not begin with a call, and is as legal as the history.
Fit(p) == p[1].kind # "use" /\ (Legal(history) => Legal(p))

\* What has to be known of the kinds of messages: no history and, outside of pi, no
\* request begins with a call, and a legal history makes a legal request.
LInv ==
  /\ IInv
  /\ history = <<>> => projection = <<>>
  /\ history # <<>> => history[1].kind # "use"
  /\ history # <<>> /\ mode # "pi" => Fit(Current)

LEMMA KeptFits ==
  ASSUME LInv, history # <<>>, mode # "pi", NEW ok
  PROVE  Fit(Sends(Kept(ok)))
<1>1. Kept(ok).projection = projection /\ Kept(ok).seen = seen
  BY DEF Kept
<1>. QED  BY <1>1, CurrentIsRest DEF Sends, LInv

LEMMA CommittedFits ==
  ASSUME IInv, NEW p \in Seq(Piece), p[1].kind # "use", Legal(history) => Legal(p)
  PROVE  Fit(Sends(Committed(p))) /\ Fit(Sends([Committed(p) EXCEPT !.updated = TRUE]))
<1>1. /\ Committed(p).projection = p /\ Committed(p).seen = Len(history)
      /\ [Committed(p) EXCEPT !.updated = TRUE].projection = p
      /\ [Committed(p) EXCEPT !.updated = TRUE].seen = Len(history)
  BY DEF Committed
<1>2. p \o RestOf(history, Len(history)) = p
  BY NothingLeft DEF IInv
<1>. QED  BY <1>1, <1>2 DEF Fit, Sends

LEMMA OutcomesOk ==
  /\ \A ok : Kept(ok).ok = ok
  /\ \A p : Committed(p).ok = TRUE
  /\ \A p : [Committed(p) EXCEPT !.updated = TRUE].ok = TRUE
BY DEF Kept, Committed

LEMMA CurrentFits ==
  ASSUME LInv, history # <<>>, mode # "pi"
  PROVE  Current[1].kind # "use" /\ (Legal(history) => Legal(Current))
BY DEF LInv, Fit

LEMMA LoneMarker ==
  ASSUME NEW n \in Nat, NEW cost \in Nat \ {0}
  PROVE  LET p == <<Marker(1, n, cost)>>
         IN  p \in Seq(Piece) /\ p[1].kind # "use" /\ Legal(p)
<1>. DEFINE m == Marker(1, n, cost)
<1>1. m \in Piece /\ m.kind = "marker"
  <2>1. 1 \in Nat
    OBVIOUS
  <2>2. Marker(1, n, cost) \in Piece
    BY <2>1, MarkerProperties
  <2>. QED  BY <2>2 DEF Marker
<1>. HIDE DEF m
<1>2. <<m>> \in Seq(Piece) /\ <<m>>[1].kind # "use" /\ Legal(<<m>>)
  BY <1>1 DEF Legal
<1>. QED  BY <1>2 DEF m

\* cc, below its threshold, needs no summary: it fails only if what would be sent is
\* illegal, and it is not.
LEMMA PrepareCCFits ==
  ASSUME LInv, history # <<>>, mode = "cc", NEW force \in BOOLEAN,
         NEW outcome \in PrepareCC(force)
  PROVE  /\ Fit(Sends(outcome))
         /\ Legal(history) /\ ~force /\ ~outcome.ok => Total(Current) >= Trigger
<1>. DEFINE p == Current
            candidate == Micro(Snipped(Budgeted(p)))
            summaries == {c \in SummaryCosts : c < Total(p)}
<1>0. IInv
  BY DEF LInv
<1>1. /\ Covers(p, Len(history)) /\ p \in Seq(Piece) /\ Len(p) \in Nat /\ Len(p) > 0
      /\ Len(history) \in Nat
  BY <1>0, CurrentCovers
<1>2. p[1].kind # "use" /\ (Legal(history) => Legal(p))
  BY CurrentFits
<1>3. Lighter(candidate, p)
  <2>. DEFINE b == Budgeted(p)
              s == Snipped(b)
  <2>1. Lighter(b, p) /\ Covers(b, Len(history))
    BY <1>1, BudgetedLighter, BudgetedCovers
  <2>. HIDE DEF b, p
  <2>2. b \in Seq(Piece) /\ Len(b) > 0
    BY <2>1 DEF Lighter
  <2>3. Lighter(s, b)
    BY <1>1, <2>1, <2>2, SnippedLighter
  <2>. HIDE DEF s
  <2>4. s \in Seq(Piece) /\ Len(s) > 0
    BY <2>3 DEF Lighter
  <2>5. Lighter(Micro(s), s)
    BY <2>4, MicroLighter
  <2>6. Lighter(s, p)
    BY <1>1, <2>1, <2>3, LighterIsTransitive
  <2>7. Lighter(Micro(s), p)
    BY <1>1, <2>5, <2>6, LighterIsTransitive
  <2>. QED  BY <2>7 DEF s, b
<1>4. \/ /\ force \/ Total(candidate) >= Trigger
         /\ \/ \E ok : outcome = Kept(ok)
            \/ \E c \in SummaryCosts : outcome = Committed(<<Marker(1, Len(history), c)>>)
      \/ ~(Total(candidate) >= Trigger) /\ outcome = Kept(Legal(p))
      \/ outcome = IF Legal(candidate) THEN Committed(candidate) ELSE Kept(FALSE)
  <2>. HIDE DEF candidate, p
  <2>. QED  BY Zenon DEF PrepareCC, Summarized, candidate, p
<1>. HIDE DEF candidate, p
<1>5. CASE /\ force \/ Total(candidate) >= Trigger
           /\ \/ \E ok : outcome = Kept(ok)
              \/ \E c \in SummaryCosts : outcome = Committed(<<Marker(1, Len(history), c)>>)
  <2>1. Fit(Sends(outcome))
    <3>1. CASE \E ok : outcome = Kept(ok)
      BY <3>1, KeptFits
    <3>2. CASE \E c \in SummaryCosts : outcome = Committed(<<Marker(1, Len(history), c)>>)
      <4>1. PICK c \in SummaryCosts : outcome = Committed(<<Marker(1, Len(history), c)>>)
        BY <3>2
      <4>. DEFINE m == <<Marker(1, Len(history), c)>>
      <4>2. m \in Seq(Piece) /\ m[1].kind # "use" /\ Legal(m)
        <5>1. c \in Nat \ {0}
          BY ContextAssumption
        <5>. QED  BY <1>1, <5>1, LoneMarker
      <4>. HIDE DEF m
      <4>3. Fit(Sends(Committed(m)))
        BY <1>0, <4>2, CommittedFits
      <4>. QED  BY <4>1, <4>3 DEF m
    <3>. QED  BY <1>5, <3>1, <3>2
  <2>2. ~force => Total(p) >= Trigger
    <3>. SUFFICES ASSUME ~force PROVE Total(p) >= Trigger
      OBVIOUS
    <3>1. Total(candidate) >= Trigger /\ Total(candidate) <= Total(p)
      BY <1>3, <1>5 DEF Lighter
    <3>2. Total(candidate) \in Nat /\ Total(p) \in Nat /\ Trigger \in Int
      BY <1>1, <1>3, TotalIsNatural, ContextAssumption DEF Lighter
    <3>. QED  BY <3>1, <3>2
  <2>. QED  BY <2>1, <2>2 DEF p
<1>6. CASE ~(Total(candidate) >= Trigger) /\ outcome = Kept(Legal(p))
  <2>1. Fit(Sends(outcome))
    BY <1>6, KeptFits
  <2>2. outcome.ok = Legal(p)
    BY <1>6, OutcomesOk, Zenon
  <2>3. Legal(history) => outcome.ok
    BY <1>2, <2>2, Zenon
  <2>. QED  BY <2>1, <2>3, Zenon
<1>7. CASE outcome = IF Legal(candidate) THEN Committed(candidate) ELSE Kept(FALSE)
  <2>1. candidate \in Seq(Piece) /\ candidate[1].kind # "use"
    BY <1>2, <1>3 DEF Lighter
  <2>2. CASE Legal(candidate)
    <3>1. Fit(Sends(Committed(candidate)))
      BY <1>0, <2>1, <2>2, CommittedFits
    <3>2. outcome = Committed(candidate) /\ outcome.ok
      BY <1>7, <2>2, OutcomesOk, Zenon
    <3>. QED  BY <3>1, <3>2
  <2>3. CASE ~Legal(candidate)
    <3>1. ~Legal(history)
      BY <1>2, <1>3, <2>3 DEF Lighter
    <3>2. outcome = Kept(FALSE)
      BY <1>7, <2>3
    <3>. QED  BY <3>1, <3>2, KeptFits
  <2>. QED  BY <2>2, <2>3
<1>. QED  BY <1>4, <1>5, <1>6, <1>7

\* The first piece is the marker or what it was.
LEMMA ReplacedBegins ==
  ASSUME NEW p, NEW n \in Nat, Covers(p, n), NEW cost \in Nat \ {0},
         NEW h \in Nat, NEW t \in Nat, h < t, t <= Len(p)
  PROVE  Replaced(p, h, t, cost)[1].kind = IF h = 0 THEN "marker" ELSE p[1].kind
<1>. DEFINE q == Replaced(p, h, t, cost)
            m == Marker(p[h + 1].first, p[t].last, cost)
<1>1. q[h + 1] = m
  BY ReplacedIs
<1>2. \A k \in 1..h : q[k] = p[k]
  BY ReplacedIs
<1>3. m.kind = "marker"
  BY DEF Marker
<1>. HIDE DEF q, m
<1>4. q[1].kind = IF h = 0 THEN "marker" ELSE p[1].kind
  BY <1>1, <1>2, <1>3
<1>. QED  BY <1>4 DEF q

\* hermes, below its threshold, makes no attempt; a candidate is accepted if it is legal.
LEMMA PrepareHermesFits ==
  ASSUME LInv, history # <<>>, mode = "hermes", NEW force \in BOOLEAN,
         NEW outcome \in PrepareHermes(force)
  PROVE  /\ Fit(Sends(outcome))
         /\ Legal(history) /\ ~force /\ ~outcome.ok => Total(Current) >= Trigger
<1>. DEFINE p == Current
            tail == TailStart(p)
            head == IF updated THEN 0 ELSE HeadEnd(p)
            candidate(cost) == Replaced(p, head, tail, cost)
<1>0. IInv
  BY DEF LInv
<1>1. /\ Covers(p, Len(history)) /\ p \in Seq(Piece) /\ Len(p) \in Nat /\ Len(p) > 0
      /\ Len(history) \in Nat
  BY <1>0, CurrentCovers
<1>2. p[1].kind # "use" /\ (Legal(history) => Legal(p))
  BY CurrentFits
<1>. HIDE DEF p
<1>3. tail \in 0..(Len(p) - 1) /\ head \in Nat
  BY <1>1, TailStartRange, HeadEndRange
<1>. HIDE DEF tail, head
<1>4. \/ outcome = Kept(Legal(p))
      \/ ~(~force /\ Total(p) < Trigger) /\ outcome = Kept(FALSE)
      \/ /\ ~(~force /\ Total(p) < Trigger) /\ ~(head >= tail)
         /\ \E c \in SummaryCosts : /\ Legal(candidate(c))
                                    /\ outcome = [Committed(candidate(c)) EXCEPT !.updated = TRUE]
  BY Zenon DEF PrepareHermes, Summarized, Replaced, head, tail, p
<1>5. CASE outcome = Kept(Legal(p))
  <2>1. Fit(Sends(outcome))
    BY <1>5, KeptFits
  <2>2. outcome.ok = Legal(p)
    BY <1>5, OutcomesOk, Zenon
  <2>3. Legal(history) => outcome.ok
    BY <1>2, <2>2, Zenon
  <2>. QED  BY <2>1, <2>3, Zenon
<1>6. CASE ~(~force /\ Total(p) < Trigger) /\ outcome = Kept(FALSE)
  <2>1. Fit(Sends(outcome))
    BY <1>6, KeptFits
  <2>2. Total(p) \in Nat /\ Trigger \in Int
    BY <1>1, TotalIsNatural, ContextAssumption
  <2>3. ~force => Total(p) >= Trigger
    BY <1>6, <2>2
  <2>. QED  BY <2>1, <2>3 DEF p
<1>7. ASSUME ~(head >= tail), NEW c \in SummaryCosts, Legal(candidate(c)),
             outcome = [Committed(candidate(c)) EXCEPT !.updated = TRUE]
      PROVE  Fit(Sends(outcome)) /\ outcome.ok
  <2>. DEFINE q == candidate(c)
  <2>1. /\ head \in Nat /\ tail \in Nat /\ head < tail /\ tail <= Len(p) /\ c \in Nat \ {0}
    BY <1>1, <1>3, <1>7, ContextAssumption
  <2>2. q \in Seq(Piece)
    BY <1>1, <2>1, ReplacedIs
  <2>3. q[1].kind # "use"
    <3>1. q[1].kind = IF head = 0 THEN "marker" ELSE p[1].kind
      BY <1>1, <2>1, ReplacedBegins
    <3>. HIDE DEF q
    <3>. QED  BY <1>2, <3>1
  <2>4. Legal(q) /\ outcome = [Committed(q) EXCEPT !.updated = TRUE]
    BY <1>7
  <2>. HIDE DEF q
  <2>5. Fit(Sends([Committed(q) EXCEPT !.updated = TRUE]))
    BY <1>0, <2>2, <2>3, <2>4, CommittedFits
  <2>6. outcome.ok
    BY <2>4, OutcomesOk, Zenon
  <2>. QED  BY <2>4, <2>5, <2>6
<1>. HIDE DEF candidate
<1>. QED  BY <1>4, <1>5, <1>6, <1>7, Zenon

\* The recovery of cc and hermes finds a cut that separates no call from its results.
\* With a transcript: the marker and the rest are legal if the request was.
LEMMA RebuiltFits ==
  ASSUME LInv, history # <<>>, mode # "pi", disk, NEW outcome \in Recovered
  PROVE  Fit(Sends(outcome)) /\ (Legal(history) => outcome.ok)
<1>. DEFINE p == Current
            last == IF Len(p) < RecoverKeep THEN 0 ELSE Len(p) - RecoverKeep
            tail == MoveBack(p, last)
            cut == IF tail = 0 THEN last ELSE tail
            candidate(cost) == Rebuilt(p, cut, cost)
<1>0. IInv
  BY DEF LInv
<1>1. /\ Covers(p, Len(history)) /\ p \in Seq(Piece) /\ Len(p) \in Nat /\ Len(p) > 0
      /\ Len(history) \in Nat
  BY <1>0, CurrentCovers
<1>2. p[1].kind # "use" /\ (Legal(history) => Legal(p))
  BY CurrentFits
<1>. HIDE DEF p
<1>3. last \in 0..(Len(p) - 1)
  BY <1>1, ContextAssumption
<1>4. tail \in 0..last
  BY <1>3, MoveBackRange
<1>5. cut \in 0..Len(p)
  BY <1>1, <1>3, <1>4
<1>6. Legal(p) => Clean(p, cut)
  <2>1. last \in Nat /\ (last = 0 \/ last < Len(p))
    BY <1>1, <1>3
  <2>. HIDE DEF last
  <2>. QED  BY <1>1, <1>2, <2>1, RecoveryIsClean
<1>7. PICK c \in SummaryCosts :
        outcome = IF Legal(candidate(c)) THEN Committed(candidate(c)) ELSE Kept(FALSE)
  BY Zenon DEF Recovered, Rebuilt, cut, p
<1>. HIDE DEF cut
<1>. DEFINE q == candidate(c)
<1>8. c \in Nat \ {0}
  BY ContextAssumption
<1>9. q \in Seq(Piece)
  BY <1>1, <1>5, <1>8, RebuiltIs
<1>10. q[1].kind # "use"
  <2>. DEFINE m == Marker(1, IF cut = 0 THEN 0 ELSE p[cut].last, c)
  <2>1. q[1] = m
    BY <1>1, <1>5, <1>8, RebuiltIs
  <2>2. m.kind = "marker"
    BY DEF Marker
  <2>. HIDE DEF m, q
  <2>. QED  BY <2>1, <2>2
<1>11. Legal(p) => Legal(q)
  BY <1>1, <1>5, <1>6, <1>8, RebuiltLegal
<1>. HIDE DEF q
<1>12. CASE Legal(q)
  <2>1. outcome = Committed(q) /\ outcome.ok
    BY <1>7, <1>12, OutcomesOk, Zenon DEF q
  <2>2. Fit(Sends(Committed(q)))
    BY <1>0, <1>9, <1>10, <1>12, CommittedFits
  <2>. QED  BY <2>1, <2>2
<1>13. CASE ~Legal(q)
  <2>1. outcome = Kept(FALSE)
    BY <1>7, <1>13, Zenon DEF q
  <2>2. Fit(Sends(Kept(FALSE)))
    BY KeptFits
  <2>3. ~Legal(history)
    BY <1>2, <1>11, <1>13
  <2>. QED  BY <2>1, <2>2, <2>3
<1>. QED  BY <1>12, <1>13

LEMMA RecoveredFits ==
  ASSUME LInv, history # <<>>, mode # "pi", NEW outcome \in Recovered
  PROVE  Fit(Sends(outcome)) /\ (Legal(history) /\ disk => outcome.ok)
<1>1. CASE disk
  BY <1>1, RebuiltFits
<1>2. CASE ~disk
  <2>1. outcome = Kept(FALSE)
    BY <1>2, Zenon DEF Recovered
  <2>. QED  BY <1>2, <2>1, KeptFits
<1>. QED  BY <1>1, <1>2

LEMMA PreparedFits ==
  ASSUME LInv, history # <<>>, mode # "pi", NEW force \in BOOLEAN,
         NEW outcome \in Prepared(force)
  PROVE  /\ Fit(Sends(outcome))
         /\ Legal(history) /\ ~force /\ ~outcome.ok => Total(Current) >= Trigger
<1>0. mode \in Modes
  BY DEF LInv, IInv
<1>1. CASE mode = "cc"
  <2>1. outcome \in PrepareCC(force)
    BY <1>1 DEF Prepared
  <2>. QED  BY <1>1, <2>1, PrepareCCFits
<1>2. CASE mode = "hermes"
  <2>1. outcome \in PrepareHermes(force)
    BY <1>2 DEF Prepared
  <2>. QED  BY <1>2, <2>1, PrepareHermesFits
<1>. QED  BY <1>0, <1>1, <1>2 DEF Modes

-----------------------------------------------------------------------------
\* The steps.

LEMMA AdoptFits ==
  ASSUME LInv, history # <<>>, NEW outcome, Good(outcome), Adopt(outcome),
         mode # "pi" => Fit(Sends(outcome)), history' = history, mode' = mode
  PROVE  LInv'
<1>1. IInv'
  BY AdoptSteps DEF LInv
<1>2. Current' = Sends(outcome)
  <2>1. Current' = projection' \o RestOf(history', seen')
    BY DEF Current, Rest, RestOf
  <2>. QED  BY <2>1 DEF Adopt, Sends
<1>3. mode' # "pi" => Fit(Current)'
  BY <1>2 DEF Fit
<1>. QED  BY <1>1, <1>3 DEF LInv

LEMMA HistoryJoins ==
  ASSUME NEW hist \in Seq(RawMessage), NEW messages \in Seq(RawMessage)
  PROVE  Joins(hist \o messages, hist, messages)
<1>. DEFINE d == hist \o messages
            n == Len(hist)
<1>1. /\ Len(d) = n + Len(messages) /\ n \in Nat /\ Len(messages) \in Nat
      /\ \A k \in 1..(n + Len(messages)) : d[k] = IF k <= n THEN hist[k] ELSE messages[k - n]
  BY ConcatProperties
<1>. HIDE DEF d, n
<1>2. \A k \in 1..n : d[k] = hist[k]
  BY <1>1
<1>3. ASSUME NEW k \in 1..Len(messages) PROVE d[n + k] = messages[k]
  <2>. DEFINE i == n + k
  <2>1. i \in 1..(n + Len(messages)) /\ ~(i <= n) /\ i - n = k
    BY <1>1
  <2>. HIDE DEF i
  <2>2. d[i] = messages[k]
    BY <1>1, <2>1
  <2>. QED  BY <2>2 DEF i
<1>. USE DEF n
<1>4. Joins(d, hist, messages)
  BY <1>1, <1>2, <1>3 DEF Joins
<1>. QED  BY <1>4 DEF d

\* What is said joins the request as it joins the history.
LEMMA RequestJoins ==
  ASSUME NEW hist \in Seq(RawMessage), NEW messages \in Seq(RawMessage),
         NEW n \in 0..Len(hist), NEW p \in Seq(Piece)
  PROVE  Joins(p \o RestOf(hist \o messages, n), p \o RestOf(hist, n), messages)
<1>. DEFINE h == hist \o messages
            a == RestOf(hist, n)
            b == RestOf(h, n)
            c == p \o a
            d == p \o b
            l == Len(p)
            m == Len(hist) - n
<1>1. /\ h \in Seq(RawMessage) /\ Len(h) = Len(hist) + Len(messages)
      /\ Len(hist) \in Nat /\ Len(messages) \in Nat /\ l \in Nat /\ m \in Nat /\ n \in Nat
      /\ n \in 0..Len(h) /\ Len(h) - n = m + Len(messages)
  BY ConcatProperties
<1>2. /\ \A k \in 1..Len(hist) : h[k].kind = hist[k].kind
      /\ \A k \in 1..Len(messages) : h[Len(hist) + k].kind = messages[k].kind
  BY HistoryJoins DEF Joins
<1>. HIDE DEF h
<1>3. a \in Seq(Piece) /\ Len(a) = m /\ \A k \in 1..m : a[k].kind = hist[n + k].kind
  BY <1>1, RestProperties
<1>4. /\ b \in Seq(Piece) /\ Len(b) = m + Len(messages)
      /\ \A k \in 1..(m + Len(messages)) : b[k].kind = h[n + k].kind
  <2>1. b \in Seq(Piece) /\ Len(b) = Len(h) - n
    BY <1>1, RestProperties
  <2>2. \A k \in 1..(Len(h) - n) : b[k].kind = h[n + k].kind
    BY <1>1, RestProperties
  <2>. QED  BY <1>1, <2>1, <2>2
<1>. HIDE DEF a, b
<1>5. /\ Len(c) = l + m
      /\ \A k \in 1..(l + m) : c[k] = IF k <= l THEN p[k] ELSE a[k - l]
  <2>1. /\ Len(c) = Len(p) + Len(a)
        /\ \A k \in 1..(Len(p) + Len(a)) : c[k] = IF k <= Len(p) THEN p[k] ELSE a[k - Len(p)]
    <3>1. a \in Seq(Piece)
      BY <1>3
    <3>. QED  BY <3>1, ConcatProperties
  <2>2. Len(a) = m
    BY <1>3
  <2>. HIDE DEF c, m
  <2>. QED  BY <2>1, <2>2
<1>6. /\ Len(d) = l + (m + Len(messages))
      /\ \A k \in 1..(l + (m + Len(messages))) : d[k] = IF k <= l THEN p[k] ELSE b[k - l]
  <2>1. /\ Len(d) = Len(p) + Len(b)
        /\ \A k \in 1..(Len(p) + Len(b)) : d[k] = IF k <= Len(p) THEN p[k] ELSE b[k - Len(p)]
    <3>1. b \in Seq(Piece)
      BY <1>4
    <3>. QED  BY <3>1, ConcatProperties
  <2>2. Len(b) = m + Len(messages)
    BY <1>4
  <2>. HIDE DEF d, m
  <2>. QED  BY <2>1, <2>2
<1>. HIDE DEF c, d
<1>7. ASSUME NEW k \in 1..Len(c) PROVE d[k].kind = c[k].kind
  <2>1. k \in 1..(l + m) /\ k \in 1..(l + (m + Len(messages)))
    BY <1>1, <1>5
  <2>2. CASE k <= l
    BY <1>5, <1>6, <2>1, <2>2
  <2>3. CASE ~(k <= l)
    <3>. DEFINE j == k - l
    <3>1. j \in 1..m /\ j \in 1..(m + Len(messages)) /\ n + j \in 1..Len(hist)
      BY <1>1, <2>1, <2>3
    <3>2. c[k] = a[j] /\ d[k] = b[j]
      BY <1>5, <1>6, <2>1, <2>3
    <3>. HIDE DEF j
    <3>3. a[j].kind = hist[n + j].kind /\ b[j].kind = h[n + j].kind
      BY <1>3, <1>4, <3>1
    <3>4. h[n + j].kind = hist[n + j].kind
      BY <1>2, <3>1
    <3>. QED  BY <3>2, <3>3, <3>4
  <2>. QED  BY <2>2, <2>3
<1>8. ASSUME NEW k \in 1..Len(messages) PROVE d[Len(c) + k].kind = messages[k].kind
  <2>. DEFINE j == m + k
              i == Len(c) + k
  <2>1. /\ i \in 1..(l + (m + Len(messages))) /\ ~(i <= l) /\ i - l = j
        /\ j \in 1..(m + Len(messages)) /\ n + j = Len(hist) + k
    BY <1>1, <1>5
  <2>. HIDE DEF i, j
  <2>2. d[i] = b[j]
    BY <1>6, <2>1
  <2>3. b[j].kind = h[n + j].kind
    BY <1>4, <2>1
  <2>4. h[Len(hist) + k].kind = messages[k].kind
    BY <1>2
  <2>5. d[i].kind = messages[k].kind
    BY <2>1, <2>2, <2>3, <2>4
  <2>. QED  BY <2>5 DEF i
<1>9. Len(d) = Len(c) + Len(messages)
  BY <1>1, <1>5, <1>6
<1>10. Joins(d, c, messages)
  BY <1>7, <1>8, <1>9 DEF Joins
<1>. QED  BY <1>10 DEF c, d, a, b, h

\* A step that says something, and may compact what was said before.
LEMMA SayFits ==
  ASSUME LInv, NEW messages \in Seq(RawMessage), messages # <<>>, Say(messages),
         messages[1].kind # "result", history = <<>> => messages[1].kind # "use",
         mode' = mode, seen' \in 0..Len(history), Covers(projection', seen'),
         history = <<>> => projection' = <<>>,
         history # <<>> /\ mode # "pi" => Fit(projection' \o RestOf(history, seen'))
  PROVE  LInv'
<1>. DEFINE c == projection' \o RestOf(history, seen')
            d == projection' \o RestOf(history', seen')
<1>1. /\ history \in Seq(RawMessage) /\ history' = history \o messages /\ mode \in Modes
      /\ projection' \in Seq(Piece)
  BY DEF LInv, IInv, Say, Covers
<1>2. IInv'
  BY <1>1, SaySteps DEF LInv
<1>3. /\ Len(history) \in Nat /\ Len(messages) \in Nat /\ Len(messages) > 0
      /\ history # <<>> => Len(history) > 0
      /\ 1 \in 1..Len(messages)
  BY <1>1
<1>4. Joins(history', history, messages) /\ Joins(d, c, messages)
  BY <1>1, HistoryJoins, RequestJoins
<1>5. c \in Seq(Piece) /\ Len(c) \in Nat /\ Covers(c, Len(history))
  <2>1. Covers(c, Len(history))
    BY <1>1, JoinCovers
  <2>. HIDE DEF c
  <2>2. c \in Seq(Piece)
    BY <2>1 DEF Covers
  <2>. QED  BY <2>1, <2>2
<1>6. Current' = d
  BY DEF Current, Rest, RestOf
<1>. HIDE DEF c, d
<1>7. Legal(history') => Legal(history) /\ Legal(messages)
  BY <1>3, <1>4, PartsAreLegal
<1>8. CASE history # <<>>
  <2>1. c # <<>> /\ Len(c) > 0 /\ 1 \in 1..Len(c) /\ 1 \in 1..Len(history)
    <3>1. c # <<>>
      BY <1>3, <1>5, <1>8 DEF Covers
    <3>. QED  BY <1>3, <1>5, <1>8, <3>1
  <2>2. history'[1].kind # "use"
    <3>1. history'[1].kind = history[1].kind
      BY <1>4, <2>1 DEF Joins
    <3>. QED  BY <1>8, <3>1 DEF LInv
  <2>3. history' # <<>>
    <3>1. Len(history') = Len(history) + Len(messages)
      BY <1>4 DEF Joins
    <3>. QED  BY <1>1, <1>3, <3>1
  <2>4. ASSUME mode # "pi" PROVE d[1].kind # "use" /\ (Legal(history') => Legal(d))
    <3>1. Fit(c)
      BY <1>8, <2>4 DEF c
    <3>2. d[1].kind = c[1].kind
      BY <1>4, <2>1 DEF Joins
    <3>3. Legal(history') => Legal(d)
      BY <1>3, <1>4, <1>5, <1>7, <3>1, JoinIsLegal DEF Fit
    <3>4. d[1].kind # "use"
      BY <3>1, <3>2 DEF Fit
    <3>. QED  BY <3>3, <3>4
  <2>. QED  BY <1>2, <1>6, <2>2, <2>3, <2>4 DEF LInv, Fit
<1>9. CASE history = <<>>
  <2>1. Len(c) = 0
    <3>1. Len(history) = 0 /\ seen' = 0 /\ projection' = <<>>
      BY <1>9
    <3>2. Len(RestOf(history, seen')) = 0 /\ RestOf(history, seen') \in Seq(Piece)
      <4>1. /\ Len(RestOf(history, seen')) = Len(history) - seen'
            /\ RestOf(history, seen') \in Seq(Piece)
        BY <1>1, RestProperties
      <4>. QED  BY <3>1, <4>1
    <3>3. RestOf(history, seen') = <<>>
      BY <3>2, EmptySeq
    <3>4. c = <<>>
      BY <3>1, <3>3 DEF c
    <3>. QED  BY <3>4
  <2>2. /\ Len(history) = 0
        /\ history'[0 + 1].kind = messages[1].kind /\ d[0 + 1].kind = messages[1].kind
    <3>1. Len(history) = 0
      BY <1>9
    <3>. QED  BY <1>3, <1>4, <2>1, <3>1 DEF Joins
  <2>3. history'[1].kind # "use" /\ d[1].kind # "use"
    BY <1>9, <2>2
  <2>4. history' # <<>>
    <3>1. Len(history') = Len(history) + Len(messages)
      BY <1>4 DEF Joins
    <3>. QED  BY <1>1, <1>3, <3>1
  <2>5. Legal(history') => Legal(d)
    <3>1. Legal(c)
      BY <2>1 DEF Legal
    <3>. QED  BY <1>3, <1>4, <1>5, <1>7, <3>1, JoinIsLegal
  <2>. QED  BY <1>2, <1>6, <2>3, <2>4, <2>5 DEF LInv, Fit
<1>. QED  BY <1>8, <1>9

\* The same, with the projection left as it is.
LEMMA SpeakFits ==
  ASSUME LInv, NEW messages \in Seq(RawMessage), messages # <<>>, Say(messages),
         messages[1].kind # "result", history = <<>> => messages[1].kind # "use",
         UNCHANGED <<mode, context>>
  PROVE  LInv'
<1>1. mode' = mode /\ projection' = projection /\ seen' = seen
  BY DEF context
<1>2. seen' \in 0..Len(history) /\ Covers(projection', seen')
  BY <1>1 DEF LInv, IInv
<1>3. history = <<>> => projection' = <<>>
  BY <1>1 DEF LInv
<1>4. history # <<>> /\ mode # "pi" => Fit(projection' \o RestOf(history, seen'))
  BY <1>1, CurrentIsRest DEF LInv
<1>. QED  BY <1>1, <1>2, <1>3, <1>4, SayFits

LEMMA MessagesBegin ==
  /\ \A kind : <<Message(kind)>> # <<>> /\ <<Message(kind)>>[1].kind = kind
  /\ \A kind, m : <<Message(kind), m>> # <<>> /\ <<Message(kind), m>>[1].kind = kind
BY DEF Message

LEMMA DialogueBegins ==
  ASSUME NEW texts \in Dialogue, texts # <<>>, texts \in Seq(RawMessage)
  PROVE  texts[1].kind # "use"
<1>. DEFINE n == Cardinality({k \in 1..Len(history) : history[k].kind \in {"user", "text"}})
            values == {Message("user"), Message("text")}
<1>1. texts \in [1..n -> values]
  BY Zenon DEF Dialogue
<1>2. Len(texts) > 0 /\ 1 \in DOMAIN texts
  OBVIOUS
<1>. HIDE DEF n, values
<1>3. texts[1] \in values
  BY <1>1, <1>2
<1>. QED  BY <1>3 DEF values, Message

LEMMA InitFits == Init => LInv
BY InitIsGood DEF Init, LInv

LEMMA StepsFit == LInv /\ [Next]_vars => LInv'
<1>. SUFFICES ASSUME LInv, [Next]_vars PROVE LInv'
  OBVIOUS
<1>0. /\ IInv /\ IInv' /\ history \in Seq(RawMessage) /\ (pc # "idle" => history # <<>>)
      /\ mode \in Modes
      /\ "user" \in Kinds /\ "reminder" \in Kinds /\ "text" \in Kinds
      /\ "use" \in Kinds /\ "result" \in Kinds
  BY StepsAreGood DEF LInv, IInv, Kinds
<1>1. CASE SetMode
  <2>1. history = <<>> /\ history' = history /\ projection' = projection
    BY <1>1 DEF SetMode, context
  <2>. QED  BY <1>0, <2>1 DEF LInv
<1>2. CASE ReplaceSession
  <2>1. projection' = <<>> /\ seen' = 0
    BY <1>2 DEF ReplaceSession
  <2>2. history' \in Seq(RawMessage) /\ (history' # <<>> => history'[1].kind # "use")
    <3>1. history' = <<>> \/ history' \in Dialogue \/ history' = history
      BY <1>2 DEF ReplaceSession
    <3>2. history' \in Seq(RawMessage)
      BY <1>0 DEF IInv
    <3>3. ASSUME history' # <<>> PROVE history'[1].kind # "use"
      <4>1. CASE history' \in Dialogue
        BY <3>2, <3>3, <4>1, DialogueBegins
      <4>2. CASE history' = history
        BY <3>3, <4>2 DEF LInv
      <4>. QED  BY <3>1, <3>3, <4>1, <4>2
    <3>. QED  BY <3>2, <3>3
  <2>3. ASSUME history' # <<>>
        PROVE  Current'[1].kind # "use" /\ (Legal(history') => Legal(Current'))
    <3>. DEFINE r == RestOf(history', 0)
    <3>1. Len(history') \in Nat /\ Len(history') > 0 /\ 0 \in 0..Len(history')
      BY <2>2, <2>3
    <3>2. r \in Seq(Piece) /\ Len(r) = Len(history') - 0
      BY <2>2, <3>1, RestProperties
    <3>3. \A k \in 1..(Len(history') - 0) : r[k].kind = history'[0 + k].kind
      BY <2>2, <3>1, RestProperties
    <3>4. Current' = r
      <4>1. Current' = projection' \o RestOf(history', seen')
        BY DEF Current, Rest, RestOf
      <4>. HIDE DEF r
      <4>2. <<>> \o r = r
        BY <3>2, ConcatEmptySeq
      <4>. QED  BY <2>1, <4>1, <4>2 DEF r
    <3>. HIDE DEF r
    <3>5. SameKinds(r, history')
      BY <3>1, <3>2, <3>3 DEF SameKinds
    <3>6. Legal(history') => Legal(r)
      BY <3>1, <3>5, SameKindsLegal
    <3>7. r[1].kind = history'[1].kind
      BY <3>1, <3>5 DEF SameKinds
    <3>. QED  BY <2>2, <2>3, <3>4, <3>6, <3>7
  <2>. QED  BY <1>0, <2>1, <2>2, <2>3 DEF LInv, Fit
<1>3. CASE BeginTurn
  <2>1. <<Message("user")>> \in Seq(RawMessage)
    BY <1>0, MessagesAreRaw
  <2>2. <<Message("user")>> # <<>> /\ <<Message("user")>>[1].kind = "user"
    BY MessagesBegin
  <2>. QED  BY <1>3, <2>1, <2>2, SpeakFits DEF BeginTurn
<1>4. CASE Injects
  <2>1. PICK kind \in {"user", "reminder"} : Say(<<Message(kind)>>)
    BY <1>4 DEF Injects
  <2>2. <<Message(kind)>> \in Seq(RawMessage)
    BY <1>0, MessagesAreRaw
  <2>3. <<Message(kind)>>[1].kind \notin {"use", "result"} /\ <<Message(kind)>> # <<>>
    BY MessagesBegin
  <2>. QED  BY <1>4, <2>1, <2>2, <2>3, SpeakFits DEF Injects
<1>5. CASE Prepare
  <2>1. history # <<>> /\ history' = history /\ mode' = mode
    BY <1>0, <1>5 DEF Prepare
  <2>2. PICK outcome \in Prepared(FALSE) : Adopt(outcome)
    BY <1>5 DEF Prepare
  <2>3. Good(outcome)
    BY <1>0, <2>1, PreparedIsGood
  <2>4. mode # "pi" => Fit(Sends(outcome))
    BY <2>1, PreparedFits
  <2>. QED  BY <2>1, <2>2, <2>3, <2>4, AdoptFits
<1>6. CASE Recover
  <2>1. history # <<>> /\ history' = history /\ mode' = mode
    BY <1>0, <1>6 DEF Recover
  <2>2. PICK outcome \in Recovered : Adopt(outcome)
    BY <1>6 DEF Recover
  <2>3. Good(outcome)
    BY <1>0, <2>1, RecoveredIsGood
  <2>4. mode # "pi" => Fit(Sends(outcome))
    BY <2>1, RecoveredFits
  <2>. QED  BY <2>1, <2>2, <2>3, <2>4, AdoptFits
<1>7. CASE EndsTurn
  <2>1. <<Message("text")>> \in Seq(RawMessage)
    BY <1>0, MessagesAreRaw
  <2>2. <<Message("text")>> # <<>> /\ <<Message("text")>>[1].kind = "text"
    BY MessagesBegin
  <2>. QED  BY <1>7, <2>1, <2>2, SpeakFits DEF EndsTurn
<1>8. CASE Continues
  <2>1. PICK kind \in {"user", "reminder"} : Say(<<Message("text"), Message(kind)>>)
    BY <1>8 DEF Continues
  <2>2. <<Message("text"), Message(kind)>> \in Seq(RawMessage)
    BY <1>0, MessagesAreRaw
  <2>. DEFINE messages == <<Message("text"), Message(kind)>>
  <2>3. messages # <<>> /\ messages[1].kind = "text"
    BY MessagesBegin
  <2>4. history # <<>> /\ UNCHANGED <<mode, context>>
    BY <1>0, <1>8 DEF Continues
  <2>5. messages \in Seq(RawMessage) /\ Say(messages)
    BY <2>1, <2>2
  <2>. HIDE DEF messages
  <2>. QED  BY <2>3, <2>4, <2>5, SpeakFits
<1>9. CASE CallsTools
  <2>1. PICK cost \in Costs : Say(<<Message("use"), [kind |-> "result", cost |-> cost]>>)
    BY <1>9 DEF CallsTools
  <2>. DEFINE m == [kind |-> "result", cost |-> cost]
  <2>2. <<Message("use"), m>> \in Seq(RawMessage)
    BY MessagesAreRaw
  <2>3. history # <<>> /\ UNCHANGED <<mode, context>>
    BY <1>0, <1>9 DEF CallsTools
  <2>. HIDE DEF m
  <2>4. <<Message("use"), m>> # <<>> /\ <<Message("use"), m>>[1].kind = "use"
    BY MessagesBegin
  <2>5. Say(<<Message("use"), m>>)
    BY <2>1 DEF m
  <2>. QED  BY <2>2, <2>3, <2>4, <2>5, SpeakFits
<1>10. CASE CallsCompact
  <2>. DEFINE messages == <<Message("use"), Message("result")>>
  <2>1. history # <<>> /\ mode' = mode /\ Say(messages)
    BY <1>0, <1>10 DEF CallsCompact
  <2>2. PICK outcome \in Prepared(TRUE) : Adopt(outcome)
    BY <1>10 DEF CallsCompact
  <2>3. Good(outcome)
    BY <1>0, <2>1, PreparedIsGood
  <2>4. seen' \in 0..Len(history) /\ Covers(projection', seen')
    BY <2>1, <2>2, <2>3 DEF Good, Adopt
  <2>5. messages \in Seq(RawMessage)
    BY <1>0, MessagesAreRaw
  <2>6. messages # <<>> /\ messages[1].kind = "use"
    BY MessagesBegin
  <2>7. mode # "pi" => Fit(projection' \o RestOf(history, seen'))
    <3>. SUFFICES ASSUME mode # "pi" PROVE Fit(projection' \o RestOf(history, seen'))
      OBVIOUS
    <3>1. Fit(Sends(outcome))
      BY <2>1, PreparedFits
    <3>. QED  BY <2>2, <3>1 DEF Sends, Adopt
  <2>. HIDE DEF messages
  <2>. QED  BY <2>1, <2>4, <2>5, <2>6, <2>7, SayFits
<1>11. CASE LeavesCall
  <2>1. PICK messages \in {<<Message("use")>>, <<Message("use"), Message("reminder")>>} :
          Say(messages)
    BY <1>11 DEF LeavesCall
  <2>2. messages \in Seq(RawMessage) /\ messages # <<>> /\ messages[1].kind = "use"
    <3>1. /\ <<Message("use")>> \in Seq(RawMessage)
          /\ <<Message("use"), Message("reminder")>> \in Seq(RawMessage)
      BY <1>0, MessagesAreRaw
    <3>2. <<Message("use")>> # <<>> /\ <<Message("use")>>[1].kind = "use"
      BY MessagesBegin
    <3>3. /\ <<Message("use"), Message("reminder")>> # <<>>
          /\ <<Message("use"), Message("reminder")>>[1].kind = "use"
      BY MessagesBegin
    <3>. QED  BY <2>1, <3>1, <3>2, <3>3
  <2>3. history # <<>> /\ UNCHANGED <<mode, context>>
    BY <1>0, <1>11 DEF LeavesCall
  <2>. QED  BY <2>1, <2>2, <2>3, SpeakFits
<1>12. CASE UNCHANGED vars
  <2>1. Current' = Current /\ UNCHANGED <<history, mode, projection>>
    BY <1>12 DEF vars, context, Current, Rest
  <2>. QED  BY <1>0, <2>1 DEF LInv, Fit
<1>13. CASE PersistFails \/ DiskTurns
  <2>1. Current' = Current /\ UNCHANGED <<history, mode, projection>>
    BY <1>13 DEF PersistFails, DiskTurns, context, Current, Rest
  <2>. QED  BY <1>0, <2>1 DEF LInv, Fit
<1>. QED  BY <1>1, <1>2, <1>3, <1>4, <1>5, <1>6, <1>7, <1>8, <1>9, <1>10, <1>11, <1>12, <1>13
         DEF Next

\* As long as the history obeys the protocol, a request of cc or hermes is refused only
\* if it needs a summary, and neither a request nor a recovery ends a turn by an
\* exception but for a file that cannot be written, whatever the limits and whatever was
\* compacted before (context_modes.py:946, :1440, :1459).
THEOREM ContextOnlySummariesFail == Spec => OnlySummariesFail
<1>1. LInv /\ [Next]_vars =>
        [Legal(history) /\ mode # "pi" =>
           /\ pc = "top" /\ pc' = "failed" => Total(Current) >= Trigger
           /\ pc # "idle" /\ pc' = "idle" => history' # history \/ ~disk]_vars
  <2>. SUFFICES ASSUME LInv, Next, Legal(history), mode # "pi"
                PROVE  /\ pc = "top" /\ pc' = "failed" => Total(Current) >= Trigger
                       /\ pc # "idle" /\ pc' = "idle" => history' # history \/ ~disk
    OBVIOUS
  <2>0. history \in Seq(RawMessage) /\ (pc # "idle" => history # <<>>)
    BY DEF LInv, IInv
  <2>1. ASSUME pc = "top", pc' = "failed" PROVE Total(Current) >= Trigger
    <3>1. Prepare
      BY <2>1 DEF Next, SetMode, ReplaceSession, BeginTurn, Injects, PersistFails, Recover,
                  EndsTurn, Continues, CallsTools, CallsCompact, LeavesCall, DiskTurns, Goto
    <3>2. PICK outcome \in Prepared(FALSE) : pc' = IF outcome.ok THEN "ready" ELSE "failed"
      BY <3>1, Zenon DEF Prepare, Goto
    <3>3. ~outcome.ok
      BY <2>1, <3>2
    <3>4. history # <<>> /\ FALSE \in BOOLEAN
      BY <2>0, <2>1
    <3>. QED  BY <3>3, <3>4, PreparedFits
  <2>2. ASSUME pc # "idle", pc' = "idle", disk PROVE history' # history
    <3>1. Recover \/ EndsTurn \/ LeavesCall
      BY <2>2 DEF Next, SetMode, ReplaceSession, BeginTurn, Injects, Prepare, PersistFails,
                  Continues, CallsTools, CallsCompact, DiskTurns, Goto
    <3>2. ASSUME Recover PROVE FALSE
      <4>1. PICK outcome \in Recovered :
              pc' = IF ~outcome.ok THEN "idle" ELSE IF pc = "failed" THEN "ready" ELSE "top"
        BY <3>2, Zenon DEF Recover, Goto
      <4>2. history # <<>>
        BY <2>0, <2>2
      <4>3. outcome.ok
        BY <2>2, <4>2, RecoveredFits
      <4>. QED  BY <2>2, <4>1, <4>3
    <3>3. ASSUME NEW messages \in Seq(RawMessage), messages # <<>>, Say(messages)
          PROVE  history' # history
      <4>1. history' = history \o messages /\ Len(messages) > 0 /\ Len(messages) \in Nat
        BY <3>3 DEF Say
      <4>2. Len(history') = Len(history) + Len(messages) /\ Len(history) \in Nat
        BY <2>0, <4>1, ConcatProperties
      <4>. QED  BY <4>1, <4>2
    <3>4. "text" \in Kinds /\ "use" \in Kinds /\ "reminder" \in Kinds
      BY DEF Kinds
    <3>5. /\ <<Message("text")>> \in Seq(RawMessage) /\ <<Message("use")>> \in Seq(RawMessage)
          /\ <<Message("use"), Message("reminder")>> \in Seq(RawMessage)
      BY <3>4, MessagesAreRaw
    <3>6. ASSUME EndsTurn PROVE history' # history
      BY <3>3, <3>5, <3>6, MessagesBegin DEF EndsTurn
    <3>7. ASSUME LeavesCall PROVE history' # history
      <4>1. Say(<<Message("use")>>) \/ Say(<<Message("use"), Message("reminder")>>)
        BY <3>7 DEF LeavesCall
      <4>. QED  BY <3>3, <3>5, <4>1, MessagesBegin
    <3>. QED  BY <3>1, <3>2, <3>6, <3>7
  <2>. QED  BY <2>1, <2>2
<1>. QED  BY <1>1, InitFits, StepsFit, PTL DEF Spec, OnlySummariesFail
==================================================================================

----------------------------- MODULE MemoryProofs -----------------------------
(***************************************************************************)
(* The facts of the memory and their conflicts, for every number of them   *)
(* and of reviews: one holder for a content, quarantine that agrees with   *)
(* what is pending, conflicts that can be decided, facts that were         *)
(* compared before they are valid side by side, and decisions that stay.   *)
(*                                                                         *)
(* Then what is done with the facts in the background, each through an     *)
(* instance with parameters of its own: the vector index (Index), and the  *)
(* consolidation that exchanges become facts by (Work).                    *)
(***************************************************************************)
EXTENDS MemoryConflicts, ConsolidationTables, IndexTables,
        FiniteSetTheorems, WellFoundedInduction, TLAPS

-----------------------------------------------------------------------------
(* The inductive invariant                                                 *)

Table == [fact : [Facts -> FactRec], conflicts : SUBSET ConflictRec]
Snapshot == SUBSET (Facts \X {"active", "conflicted"})
ReviewRec == [contents : Seq(Contents), seen : Seq(Snapshot), query : Snapshot, again : BOOLEAN]

\* No two facts that are valid, or in quarantine, hold the same content.
Distinct(d) == \A f, g \in Live(d) : d.fact[f].content = d.fact[g].content => f = g

\* A fact is in quarantine if, and active only if not, something is pending against it.
Sealed(d) ==
    \A f \in Facts : /\ d.fact[f].status = "active" => Against(d, f) = {}
                     /\ d.fact[f].status = "conflicted" => Against(d, f) # {}

\* The anchor of what a review has found is in quarantine.
Anchored(d) ==
    \A k \in Pending(d) : k.origin # "manual" => d.fact[k.anchor].status = "conflicted"

\* A conflict is about a fact that was stored.
Stored(d) == \A k \in d.conflicts : d.fact[k.anchor].status # "none"

\* A conflict that was decided against its anchor is over for good.
Lost(d) ==
    \A k \in d.conflicts : k.status \in {"candidate", "custom"} =>
        k.anchor \notin Live(d) /\ [k EXCEPT !.status = "pending"] \notin d.conflicts

\* (What a change of an anchor keeps at every step, and what it restores at its end.)
Fit(d) == d \in Table /\ Distinct(d) /\ Sealed(d) /\ Stored(d) /\ Lost(d)
Sound(d) == Fit(d) /\ Anchored(d)

\* Related facts that are valid, or in quarantine, have been compared.
Known(d, J) ==
    \A f, g \in Live(d) :
        LET c == d.fact[f].content
            e == d.fact[g].content IN
        c # e /\ {c, e} \in Related => {c, e} \in J

\* What the reviews answer for.
Vetted == judged \cup overlooked

ReviewsOK ==
    /\ review \in [Turns \cup {"implicit"} -> ReviewRec]
    /\ \A r \in Turns \cup {"implicit"} : Len(review[r].contents) \in 0..2

ConflictInv ==
    /\ Sound(db) /\ Known(db, Vetted) /\ ReviewsOK
    /\ Vetted \subseteq Related /\ reviews \in 0..MaxReviews

-----------------------------------------------------------------------------
(* What the changes to the tables do                                       *)

LEMMA FactNumbers == Facts \subseteq Nat /\ IsFiniteSet(Facts)
BY ConflictsAssumption, FS_Interval DEF Facts

LEMMA HasMinimum ==
  ASSUME NEW S \in SUBSET Nat, S # {}
  PROVE  \E x \in S : \A y \in S : x <= y
<1> DEFINE Below == {ss \in Nat \X Nat : ss[1] < ss[2]}
<1>1. IsWellFoundedOn(Below, Nat)
  BY NatLessThanWellFounded, Zenon DEF OpToRel
<1>2. PICK x \in S : \A y \in S : <<y, x>> \notin Below
  BY <1>1, WFMin, Zenon
<1>3. ASSUME NEW y \in S PROVE x <= y
  <2>1. ~(y < x)
    BY <1>2
  <2> QED
    BY <2>1
<1> QED
  BY <1>3

LEMMA Fields ==
  ASSUME NEW d \in Table
  PROVE  /\ d.fact \in [Facts -> FactRec] /\ d.conflicts \in SUBSET ConflictRec
         /\ \A f \in Facts : d.fact[f] \in FactRec
BY DEF Table

LEMMA SetStatusIs ==
  ASSUME NEW d \in Table, NEW S, NEW s \in {"active", "conflicted", "superseded", "forgotten"}
  PROVE  /\ SetStatus(d, S, s) \in Table
         /\ SetStatus(d, S, s).conflicts = d.conflicts
         /\ \A f \in Facts :
              /\ SetStatus(d, S, s).fact[f].content = d.fact[f].content
              /\ SetStatus(d, S, s).fact[f].status = IF f \in S THEN s ELSE d.fact[f].status
<1> DEFINE facts == [f \in Facts |-> IF f \in S THEN [d.fact[f] EXCEPT !.status = s] ELSE d.fact[f]]
<1>1. SetStatus(d, S, s) = [d EXCEPT !.fact = facts]
  BY DEF SetStatus
<1>2. ASSUME NEW f \in Facts
      PROVE  /\ facts[f] \in FactRec /\ facts[f].content = d.fact[f].content
             /\ facts[f].status = IF f \in S THEN s ELSE d.fact[f].status
  <2>1. d.fact[f] \in FactRec
    BY Fields
  <2> QED
    BY <2>1 DEF FactRec
<1>3. facts \in [Facts -> FactRec]
  BY <1>2
<1> HIDE DEF facts
<1> QED
  BY <1>1, <1>2, <1>3 DEF Table

LEMMA ReleaseIs ==
  ASSUME NEW d \in Table, NEW S
  PROVE  /\ Release(d, S) \in Table
         /\ Release(d, S).conflicts = d.conflicts
         /\ \A f \in Facts :
              /\ Release(d, S).fact[f].content = d.fact[f].content
              /\ Release(d, S).fact[f].status =
                   IF f \in S THEN IF Against(d, f) # {} THEN "conflicted" ELSE "active"
                   ELSE d.fact[f].status
<1> DEFINE new(f) == IF Against(d, f) # {} THEN "conflicted" ELSE "active"
           facts == [f \in Facts |-> IF f \in S THEN [d.fact[f] EXCEPT !.status = new(f)]
                                     ELSE d.fact[f]]
<1>1. Release(d, S) = [d EXCEPT !.fact = facts]
  BY DEF Release
<1>2. ASSUME NEW f \in Facts
      PROVE  /\ facts[f] \in FactRec /\ facts[f].content = d.fact[f].content
             /\ facts[f].status = IF f \in S THEN new(f) ELSE d.fact[f].status
  <2>1. d.fact[f] \in FactRec
    BY Fields
  <2>2. new(f) \in {"conflicted", "active"}
    OBVIOUS
  <2> HIDE DEF new
  <2> QED
    BY <2>1, <2>2 DEF FactRec
<1>3. facts \in [Facts -> FactRec]
  BY <1>2
<1> HIDE DEF facts
<1> QED
  BY <1>1, <1>2, <1>3 DEF Table

LEMMA RebaseIs ==
  ASSUME NEW d \in Table, NEW K \in SUBSET d.conflicts, NEW f \in Facts
  PROVE  /\ Rebase(d, K, f) \in Table /\ Rebase(d, K, f).fact = d.fact
         /\ Rebase(d, K, f).conflicts = (d.conflicts \ K) \cup {[k EXCEPT !.anchor = f] : k \in K}
<1> DEFINE rows == (d.conflicts \ K) \cup {[k EXCEPT !.anchor = f] : k \in K}
<1>1. Rebase(d, K, f) = [d EXCEPT !.conflicts = rows]
  BY Fields DEF Rebase
<1>2. \A k \in ConflictRec : [k EXCEPT !.anchor = f] \in ConflictRec
  BY DEF ConflictRec
<1>3. rows \in SUBSET ConflictRec
  BY <1>2, Fields
<1> HIDE DEF rows
<1>4. Rebase(d, K, f) \in Table /\ Rebase(d, K, f).fact = d.fact /\ Rebase(d, K, f).conflicts = rows
  BY <1>1, <1>3 DEF Table
<1> QED
  BY <1>4 DEF rows

LEMMA CloseIs ==
  ASSUME NEW d \in Table, NEW K \in SUBSET d.conflicts, NEW s \in Resolutions \cup {"cancelled"}
  PROVE  /\ Close(d, K, s) \in Table /\ Close(d, K, s).fact = d.fact
         /\ Close(d, K, s).conflicts = (d.conflicts \ K) \cup {[k EXCEPT !.status = s] : k \in K}
<1> DEFINE rows == (d.conflicts \ K) \cup {[k EXCEPT !.status = s] : k \in K}
<1>1. Close(d, K, s) = [d EXCEPT !.conflicts = rows]
  BY Fields DEF Close
<1>2. \A k \in ConflictRec : [k EXCEPT !.status = s] \in ConflictRec
  BY DEF ConflictRec
<1>3. rows \in SUBSET ConflictRec
  BY <1>2, Fields
<1> HIDE DEF rows
<1>4. Close(d, K, s) \in Table /\ Close(d, K, s).fact = d.fact /\ Close(d, K, s).conflicts = rows
  BY <1>1, <1>3 DEF Table
<1> QED
  BY <1>4 DEF rows

\* What is pending after a set of conflicts was closed.
LEMMA ClosePending ==
  ASSUME NEW d \in Table, NEW K \in SUBSET d.conflicts, NEW s \in Resolutions \cup {"cancelled"}
  PROVE  Pending(Close(d, K, s)) = Pending(d) \ K
<1>1. ASSUME NEW k \in K PROVE [k EXCEPT !.status = s].status # "pending"
  <2>1. k \in ConflictRec /\ s # "pending"
    BY Fields DEF Resolutions
  <2> QED
    BY <2>1 DEF ConflictRec
<1>2. Close(d, K, s).conflicts = (d.conflicts \ K) \cup {[k EXCEPT !.status = s] : k \in K}
  BY CloseIs
<1> QED
  BY <1>1, <1>2 DEF Pending

\* A new fact gets the least number that is not used.
LEMMA AddIs ==
  ASSUME NEW d \in Table, NEW c \in Contents, Holders(d, c) = {}, Unused(d) # {}
  PROVE  \E f \in Unused(d), s \in {"active", "conflicted"} :
           /\ s = "conflicted" <=> \E k \in Pending(d) : k.candidate = c
           /\ Add(d, c) \in Table /\ Add(d, c).conflicts = d.conflicts
           /\ Add(d, c).fact = [d.fact EXCEPT ![f] = [content |-> c, status |-> s]]
<1> DEFINE f == CHOOSE g \in Unused(d) : \A h \in Unused(d) : g <= h
           s == IF \E k \in Pending(d) : k.candidate = c THEN "conflicted" ELSE "active"
<1>1. f \in Unused(d) /\ f \in Facts
  <2>1. Unused(d) \in SUBSET Nat
    BY FactNumbers DEF Unused
  <2>2. \E g \in Unused(d) : \A h \in Unused(d) : g <= h
    BY <2>1, HasMinimum
  <2> QED
    BY <2>2 DEF Unused
<1>2. Add(d, c) = [d EXCEPT !.fact[f] = [content |-> c, status |-> s]]
  BY DEF Add
<1>3. s \in {"active", "conflicted"} /\ (s = "conflicted" <=> \E k \in Pending(d) : k.candidate = c)
  OBVIOUS
<1> HIDE DEF f, s
<1>4. [content |-> c, status |-> s] \in FactRec
  BY <1>3 DEF FactRec
<1>5. /\ Add(d, c) \in Table /\ Add(d, c).conflicts = d.conflicts
      /\ Add(d, c).fact = [d.fact EXCEPT ![f] = [content |-> c, status |-> s]]
  BY <1>1, <1>2, <1>4 DEF Table
<1> QED
  BY <1>1, <1>3, <1>5

\* The conflicts that Open records, and the facts it puts in quarantine.
Opened(d, anchors, c, origin) ==
    {f \in anchors : /\ ~Decided(d, f, c, origin)
                     /\ ~\E k \in Pending(d) : k.anchor = f /\ k.candidate = c}
Rows(d, anchors, c, origin) ==
    {[anchor |-> f, original |-> f, candidate |-> c, origin |-> origin, status |-> "pending"] :
        f \in Opened(d, anchors, c, origin)}
Sealing(d, anchors, c, origin) ==
    {f \in Facts : /\ Opened(d, anchors, c, origin) # {}
                   /\ \/ f \in Opened(d, anchors, c, origin)
                      \/ d.fact[f].status = "active" /\ d.fact[f].content = c}

\* e is what Open makes of the tables d.
OpenIs(d, anchors, c, origin, e) ==
  /\ e \in Table
  /\ e.conflicts = d.conflicts \cup Rows(d, anchors, c, origin)
  /\ \A f \in Facts :
       /\ e.fact[f].content = d.fact[f].content
       /\ f \in Sealing(d, anchors, c, origin) => e.fact[f].status = "conflicted"
       /\ f \notin Sealing(d, anchors, c, origin) => e.fact[f].status = d.fact[f].status

LEMMA OpenDoes ==
  ASSUME NEW d \in Table, NEW anchors \in SUBSET Facts, NEW c \in Contents, NEW origin \in Origins
  PROVE  OpenIs(d, anchors, c, origin, Open(d, anchors, c, origin))
<1> DEFINE new == Opened(d, anchors, c, origin)
           proposed == {f \in Facts : d.fact[f].status = "active" /\ d.fact[f].content = c}
           quarantined == IF new = {} THEN {} ELSE new \cup proposed
           e == SetStatus(d, quarantined, "conflicted")
           rows == Rows(d, anchors, c, origin)
<1>1. Open(d, anchors, c, origin) = [e EXCEPT !.conflicts = e.conflicts \cup rows]
  <2>1. e \in Table
    BY SetStatusIs
  <2> QED
    BY <2>1 DEF Open, Opened, Rows, Table
<1>2. /\ e \in Table /\ e.conflicts = d.conflicts
      /\ \A f \in Facts :
           /\ e.fact[f].content = d.fact[f].content
           /\ e.fact[f].status = IF f \in quarantined THEN "conflicted" ELSE d.fact[f].status
  BY SetStatusIs
<1>3. rows \in SUBSET ConflictRec
  BY DEF Rows, Opened, ConflictRec
<1> HIDE DEF e, rows
<1>4. /\ Open(d, anchors, c, origin) \in Table
      /\ Open(d, anchors, c, origin).conflicts = d.conflicts \cup rows
      /\ Open(d, anchors, c, origin).fact = e.fact
  BY <1>1, <1>2, <1>3, Fields DEF Table
<1>5. Sealing(d, anchors, c, origin) = quarantined
  BY DEF Sealing, Opened
<1> QED
  BY <1>2, <1>4, <1>5 DEF rows, OpenIs

-----------------------------------------------------------------------------
(* Changes that keep the tables sound                                      *)

LEMMA OpenPending ==
  ASSUME NEW d \in Table, NEW anchors \in SUBSET Facts, NEW c \in Contents, NEW origin \in Origins
  PROVE  Pending(Open(d, anchors, c, origin)) = Pending(d) \cup Rows(d, anchors, c, origin)
<1>1. \A k \in Rows(d, anchors, c, origin) : k.status = "pending"
  BY DEF Rows
<1>2. Open(d, anchors, c, origin).conflicts = d.conflicts \cup Rows(d, anchors, c, origin)
  BY OpenDoes DEF OpenIs
<1> QED
  BY <1>1, <1>2 DEF Pending

\* What a content meant is quarantined with the anchors it contradicts.
LEMMA OpenSound ==
  ASSUME NEW d, Sound(d), NEW anchors \in SUBSET Facts, NEW c \in Contents,
         NEW origin \in Origins, MayOpen(d, anchors, c, origin)
  PROVE  /\ Sound(Open(d, anchors, c, origin))
         /\ Live(Open(d, anchors, c, origin)) = Live(d)
         /\ Unused(Open(d, anchors, c, origin)) = Unused(d)
<1> DEFINE e == Open(d, anchors, c, origin)
           new == Opened(d, anchors, c, origin)
           rows == Rows(d, anchors, c, origin)
           sealing == Sealing(d, anchors, c, origin)
<1>d. d \in Table
  BY DEF Sound, Fit
<1>1. /\ e \in Table /\ e.conflicts = d.conflicts \cup rows
      /\ \A f \in Facts :
           /\ e.fact[f].content = d.fact[f].content
           /\ f \in sealing => e.fact[f].status = "conflicted"
           /\ f \notin sealing => e.fact[f].status = d.fact[f].status
  <2>1. OpenIs(d, anchors, c, origin, Open(d, anchors, c, origin))
    BY <1>d, OpenDoes
  <2> QED
    BY <2>1 DEF OpenIs
<1>2. Pending(e) = Pending(d) \cup rows
  BY <1>d, OpenPending
<1>3. \A f \in new : f \in Live(d) /\ f \in Facts
  BY DEF Opened, MayOpen, Live
<1>4. \A k \in rows : k.anchor \in new /\ k.candidate = c
  BY DEF Rows
<1>5. ASSUME NEW f \in new PROVE \E k \in rows : k.anchor = f /\ k.candidate = c
  <2> DEFINE k == [anchor |-> f, original |-> f, candidate |-> c, origin |-> origin,
                   status |-> "pending"]
  <2>1. k \in rows /\ k.anchor = f /\ k.candidate = c
    BY DEF Rows
  <2> HIDE DEF k
  <2> QED
    BY <2>1
<1>s. \A f \in Facts : f \in sealing <=>
         new # {} /\ (f \in new \/ (d.fact[f].status = "active" /\ d.fact[f].content = c))
  BY DEF Sealing
<1> HIDE DEF e, new, rows, sealing
<1>6. Live(e) = Live(d) /\ Unused(e) = Unused(d)
  <2>1. ASSUME NEW f \in sealing PROVE f \in Live(d) /\ f \in Live(e) /\ d.fact[f].status # "none"
    <3>1. f \in Facts
      BY DEF sealing, Sealing
    <3> QED
      BY <1>1, <1>3, <1>s, <3>1 DEF Live
  <2> QED
    BY <1>1, <2>1 DEF Live, Unused
<1>7. Distinct(e)
  <2>1. Distinct(d) /\ Live(d) \subseteq Facts
    BY DEF Sound, Fit, Live
  <2> QED
    BY <1>1, <1>6, <2>1 DEF Distinct
<1>8. Sealed(e)
  <2> SUFFICES ASSUME NEW f \in Facts
               PROVE  /\ e.fact[f].status = "active" => Against(e, f) = {}
                      /\ e.fact[f].status = "conflicted" => Against(e, f) # {}
    BY DEF Sealed
  <2>1. /\ d.fact[f].status = "active" => Against(d, f) = {}
        /\ d.fact[f].status = "conflicted" => Against(d, f) # {}
    BY DEF Sound, Fit, Sealed
  <2>2. /\ e.fact[f].content = d.fact[f].content
        /\ f \in sealing => e.fact[f].status = "conflicted"
        /\ f \notin sealing => e.fact[f].status = d.fact[f].status
    BY <1>1
  <2>3. Against(e, f) = Against(d, f) \cup {k \in rows : k.anchor = f \/ k.candidate = d.fact[f].content}
    BY <1>2, <2>2 DEF Against
  <2>4. CASE f \in sealing
    <3>1. \E k \in rows : k.anchor = f \/ k.candidate = d.fact[f].content
      BY <1>5, <1>s, <2>4
    <3> QED
      BY <2>2, <2>3, <2>4, <3>1
  <2>5. CASE f \notin sealing
    <3>1. d.fact[f].status = "active" => ~\E k \in rows : k.anchor = f \/ k.candidate = d.fact[f].content
      BY <1>4, <1>s, <2>5
    <3> QED
      BY <2>1, <2>2, <2>3, <2>5, <3>1
  <2> QED
    BY <2>4, <2>5
<1>9. Anchored(e)
  <2>1. ASSUME NEW k \in Pending(d), k.origin # "manual" PROVE e.fact[k.anchor].status = "conflicted"
    <3>1. d.fact[k.anchor].status = "conflicted" /\ k.anchor \in Facts
      BY <1>d, <2>1, Fields DEF Sound, Fit, Anchored, Pending, ConflictRec
    <3> QED
      BY <1>1, <3>1
  <2>2. ASSUME NEW k \in rows PROVE e.fact[k.anchor].status = "conflicted"
    BY <1>1, <1>3, <1>4, <1>s
  <2> QED
    BY <1>2, <2>1, <2>2 DEF Anchored
<1>10. Stored(e)
  <2>1. ASSUME NEW k \in d.conflicts PROVE e.fact[k.anchor].status # "none"
    <3>1. d.fact[k.anchor].status # "none" /\ k.anchor \in Facts
      BY <1>d, Fields DEF Sound, Fit, Stored, ConflictRec
    <3> QED
      BY <1>1, <3>1
  <2>2. ASSUME NEW k \in rows PROVE e.fact[k.anchor].status # "none"
    BY <1>1, <1>3, <1>4, <1>s
  <2> QED
    BY <1>1, <2>1, <2>2 DEF Stored
<1>11. Lost(e)
  <2> SUFFICES ASSUME NEW k \in e.conflicts, k.status \in {"candidate", "custom"}
               PROVE  k.anchor \notin Live(e) /\ [k EXCEPT !.status = "pending"] \notin e.conflicts
    BY DEF Lost
  <2>1. k \in d.conflicts
    <3>1. \A r \in rows : r.status = "pending"
      BY DEF rows, Rows
    <3> QED
      BY <1>1, <3>1
  <2>2. k.anchor \notin Live(d) /\ [k EXCEPT !.status = "pending"] \notin d.conflicts
    BY <2>1 DEF Sound, Fit, Lost
  <2>3. [k EXCEPT !.status = "pending"].anchor = k.anchor
    BY <1>d, <2>1, Fields DEF ConflictRec
  <2>4. [k EXCEPT !.status = "pending"] \notin rows
    BY <1>3, <1>4, <2>2, <2>3
  <2> QED
    BY <1>1, <1>6, <2>2, <2>4
<1> QED
  BY <1>1, <1>6, <1>7, <1>8, <1>9, <1>10, <1>11 DEF Sound, Fit, e

\* A content that nobody holds gets a holder, in quarantine if a conflict is about it.
LEMMA AddFit ==
  ASSUME NEW d, Fit(d), NEW c \in Contents, Holders(d, c) = {}, Unused(d) # {}
  PROVE  \E f \in Unused(d) :
           /\ Fit(Add(d, c)) /\ (Anchored(d) => Anchored(Add(d, c)))
           /\ Live(Add(d, c)) = Live(d) \cup {f}
           /\ Add(d, c).conflicts = d.conflicts
           /\ Add(d, c).fact[f].content = c
           /\ \A g \in Facts \ {f} : Add(d, c).fact[g] = d.fact[g]
<1> DEFINE e == Add(d, c)
<1>d. d \in Table /\ d.fact \in [Facts -> FactRec] /\ d.conflicts \in SUBSET ConflictRec
  BY Fields DEF Fit
<1>1. PICK f \in Unused(d), s \in {"active", "conflicted"} :
           /\ s = "conflicted" <=> \E k \in Pending(d) : k.candidate = c
           /\ e \in Table /\ e.conflicts = d.conflicts
           /\ e.fact = [d.fact EXCEPT ![f] = [content |-> c, status |-> s]]
  BY <1>d, AddIs
<1> HIDE DEF e
<1>2. f \in Facts /\ d.fact[f].status = "none" /\ f \notin Live(d)
  BY DEF Unused, Live
<1>3. /\ e.fact[f].content = c /\ e.fact[f].status = s
      /\ \A g \in Facts \ {f} : e.fact[g] = d.fact[g]
  BY <1>1, <1>2, <1>d
<1>4. Live(e) = Live(d) \cup {f}
  BY <1>2, <1>3 DEF Live
<1>5. Pending(e) = Pending(d)
  BY <1>1 DEF Pending
<1>6. \A k \in d.conflicts : k.anchor \in Facts \ {f}
  BY <1>2, <1>d DEF Fit, Stored, ConflictRec
<1>7. Distinct(e)
  <2>1. \A g \in Live(d) : g \in Facts \ {f} /\ d.fact[g].content # c
    BY <1>2 DEF Holders, Live
  <2> QED
    BY <1>3, <1>4, <2>1 DEF Fit, Distinct
<1>8. Sealed(e)
  <2>1. ASSUME NEW g \in Facts \ {f}
        PROVE  /\ e.fact[g].status = "active" => Against(e, g) = {}
               /\ e.fact[g].status = "conflicted" => Against(e, g) # {}
    BY <1>3, <1>5 DEF Fit, Sealed, Against
  <2>2. Against(e, f) = {k \in Pending(d) : k.candidate = c}
    BY <1>3, <1>5, <1>6 DEF Against, Pending
  <2> QED
    BY <1>1, <1>3, <2>1, <2>2 DEF Sealed
<1>9. Stored(e) /\ (Anchored(d) => Anchored(e))
  BY <1>1, <1>3, <1>5, <1>6 DEF Fit, Anchored, Stored, Pending
<1>10. Lost(e)
  BY <1>1, <1>4, <1>6 DEF Fit, Lost
<1> QED
  BY <1>1, <1>3, <1>4, <1>7, <1>8, <1>9, <1>10 DEF Fit, e

\* So there is a holder of what was added, and it is the only one.
LEMMA AddHolder ==
  ASSUME NEW d, Fit(d), NEW c \in Contents, Holders(d, c) # {} \/ Unused(d) # {}
  PROVE  /\ Fit(Add(d, c)) /\ (Anchored(d) => Anchored(Add(d, c)))
         /\ Holder(Add(d, c), c) \in Facts
         /\ Holders(Add(d, c), c) = {Holder(Add(d, c), c)}
         /\ Live(Add(d, c)) = Live(d) \cup {Holder(Add(d, c), c)}
         /\ Holder(Add(d, c), c) \in Live(d) \cup Unused(d)
         /\ Add(d, c).conflicts = d.conflicts
         /\ Add(d, c).fact[Holder(Add(d, c), c)].content = c
         /\ \A g \in Facts \ {Holder(Add(d, c), c)} : Add(d, c).fact[g] = d.fact[g]
<1> DEFINE e == Add(d, c)
           h == Holder(e, c)
<1>1. /\ Fit(e) /\ (Anchored(d) => Anchored(e)) /\ Holders(e, c) # {} /\ e.conflicts = d.conflicts
  <2>1. CASE Holders(d, c) # {}
    BY <2>1 DEF Add
  <2>2. CASE Holders(d, c) = {}
    BY <2>2, AddFit DEF Holders
  <2> QED
    BY <2>1, <2>2
<1> HIDE DEF e
<1>2. h \in Holders(e, c)
  BY <1>1 DEF Holder
<1> HIDE DEF h
<1>3. Holders(e, c) = {h}
  BY <1>1, <1>2 DEF Fit, Distinct, Holders
<1>4. h \in Facts /\ e.fact[h].content = c /\ h \in Live(e)
  BY <1>2 DEF Holders, Live
<1>5. /\ Live(e) = Live(d) \cup {h} /\ h \in Live(d) \cup Unused(d)
      /\ \A g \in Facts \ {h} : e.fact[g] = d.fact[g]
  <2>1. CASE Holders(d, c) # {}
    BY <1>4, <2>1 DEF Add, e
  <2>2. CASE Holders(d, c) = {}
    <3>1. PICK f \in Unused(d) :
           /\ Live(e) = Live(d) \cup {f} /\ e.fact[f].content = c
           /\ \A g \in Facts \ {f} : e.fact[g] = d.fact[g]
      BY <2>2, AddFit DEF e
    <3>2. f \in Holders(e, c)
      BY <3>1 DEF Holders
    <3>3. f = h
      BY <1>3, <3>2
    <3> QED
      BY <3>1, <3>3
  <2> QED
    BY <2>1, <2>2
<1> QED
  BY <1>1, <1>3, <1>4, <1>5 DEF e, h

\* What a conflict's row becomes.
At(o, w) == [o EXCEPT !.anchor = w]
Set(o, s) == [o EXCEPT !.status = s]

LEMMA RowAt ==
  ASSUME NEW o \in ConflictRec, NEW w \in Facts
  PROVE  /\ At(o, w) \in ConflictRec /\ At(o, w).anchor = w /\ At(o, w).candidate = o.candidate
         /\ At(o, w).status = o.status /\ At(o, w).origin = o.origin
BY DEF ConflictRec, At

LEMMA RowSet ==
  ASSUME NEW o \in ConflictRec, NEW s \in Resolutions \cup {"pending", "cancelled"}
  PROVE  /\ Set(o, s) \in ConflictRec /\ Set(o, s).status = s /\ Set(o, s).anchor = o.anchor
BY DEF ConflictRec, Set

LEMMA RowReset ==
  ASSUME NEW o \in ConflictRec, NEW s, o.status = "pending"
  PROVE  Set(Set(o, s), "pending") = o
BY DEF ConflictRec, Set

\* The conflicts of K, now about w.
Moved(K, w) == {At(o, w) : o \in K}

\* A conflict k is decided for w: what was pending against the losers, and against a
\* fact that w replaces, is now pending against w.
LEMMA HandOver ==
  ASSUME NEW d, Fit(d), NEW e \in Table, NEW k \in Pending(d), NEW K \in SUBSET Pending(d), k \notin K,
         NEW w \in Live(d), NEW losers \in SUBSET Facts, w \notin losers,
         NEW s \in {"existing", "candidate", "custom"},
         e.conflicts = (((d.conflicts \ K) \cup Moved(K, w)) \ {k}) \cup {Set(k, s)},
         \A f \in Facts :
           /\ e.fact[f].content = d.fact[f].content
           /\ f \in losers => e.fact[f].status = "superseded"
           /\ f = w => e.fact[f].status = IF Against(e, w) # {} THEN "conflicted" ELSE "active"
           /\ f \notin losers \cup {w} => e.fact[f].status = d.fact[f].status,
         k.anchor = w \/ k.anchor \notin Live(d), s # "existing" => k.anchor \notin Live(d),
         Holders(d, k.candidate) \subseteq losers \cup {w},
         \A o \in K : o.anchor \in losers \/ o.anchor \notin Live(d)
  PROVE  /\ Fit(e) /\ Live(e) = Live(d) \ losers
         /\ (\A o \in Pending(d) \ (K \cup {k}) : o.origin # "manual" =>
               o.anchor = w \/ (o.anchor \notin losers /\ d.fact[o.anchor].status = "conflicted"))
            => Anchored(e)
<1> DEFINE closed == Set(k, s)
<1>d. d \in Table /\ d.conflicts \in SUBSET ConflictRec /\ e.conflicts \in SUBSET ConflictRec
  BY Fields DEF Fit
<1>w. w \in Facts /\ d.fact[w].status \in {"active", "conflicted"} /\ Live(d) \subseteq Facts
  BY DEF Live
<1>k. k \in ConflictRec /\ k \in d.conflicts /\ k.status = "pending" /\ K \subseteq d.conflicts
  BY <1>d DEF Pending
<1>c. /\ closed.status = s /\ closed.anchor = k.anchor /\ closed \in ConflictRec
      /\ Set(closed, "pending") = k
  BY <1>k, RowSet, RowReset DEF Resolutions
<1>r. ASSUME NEW o \in K
      PROVE  /\ At(o, w).anchor = w /\ At(o, w).candidate = o.candidate
             /\ At(o, w).status = "pending" /\ At(o, w).origin = o.origin
  <2>1. o \in ConflictRec /\ o.status = "pending"
    BY <1>d, <1>k DEF Pending
  <2> QED
    BY <1>w, <2>1, RowAt
<1> HIDE DEF closed
<1>1. Live(e) = Live(d) \ losers
  BY <1>w DEF Live
<1>2. Pending(e) = ((Pending(d) \ K) \cup Moved(K, w)) \ {k}
  <2>1. s # "pending"
    OBVIOUS
  <2>2. \A m \in Moved(K, w) : m.status = "pending"
    BY <1>r DEF Moved
  <2> QED
    BY <1>c, <2>1, <2>2 DEF Pending, closed
<1>3. Distinct(e)
  BY <1>1, <1>w DEF Fit, Distinct
<1>4. Sealed(e)
  <2> SUFFICES ASSUME NEW f \in Facts
               PROVE  /\ e.fact[f].status = "active" => Against(e, f) = {}
                      /\ e.fact[f].status = "conflicted" => Against(e, f) # {}
    BY DEF Sealed
  <2>1. CASE f = w
    BY <2>1
  <2>2. CASE f \in losers
    BY <2>2
  <2>3. CASE f \notin losers \cup {w}
    <3>1. e.fact[f].status = d.fact[f].status /\ e.fact[f].content = d.fact[f].content
      BY <2>3
    <3>2. ASSUME e.fact[f].status = "active", NEW m \in Against(e, f) PROVE FALSE
      <4>1. Against(d, f) = {}
        BY <3>1, <3>2 DEF Fit, Sealed
      <4>2. m \in Pending(e) /\ (m.anchor = f \/ m.candidate = d.fact[f].content)
        BY <3>1, <3>2 DEF Against
      <4>3. m \notin Pending(d)
        BY <4>1, <4>2 DEF Against
      <4>4. PICK o \in K : m = At(o, w)
        BY <1>2, <4>2, <4>3 DEF Moved
      <4>5. o.candidate = d.fact[f].content
        BY <1>r, <2>3, <4>2, <4>4
      <4> QED
        BY <4>1, <4>5 DEF Against
    <3>3. ASSUME e.fact[f].status = "conflicted" PROVE Against(e, f) # {}
      <4>1. f \in Live(d) /\ Against(d, f) # {}
        BY <3>1, <3>3 DEF Fit, Sealed, Live
      <4>2. f # k.anchor /\ d.fact[f].content # k.candidate
        BY <2>3, <4>1 DEF Holders
      <4>3. PICK o \in Pending(d) : o.anchor = f \/ o.candidate = d.fact[f].content
        BY <4>1 DEF Against
      <4>4. o # k
        BY <4>2, <4>3
      <4>5. CASE o \notin K
        <5>1. o \in Pending(e)
          BY <1>2, <4>4, <4>5
        <5> QED
          BY <3>1, <4>3, <5>1 DEF Against
      <4>6. CASE o \in K
        <5> DEFINE m == At(o, w)
        <5>1. o.candidate = d.fact[f].content
          BY <2>3, <4>1, <4>3, <4>6
        <5>2. m.candidate = d.fact[f].content /\ m \in Moved(K, w)
          BY <1>r, <4>6, <5>1 DEF Moved
        <5> HIDE DEF m
        <5>3. m \in Pending(e)
          BY <1>2, <4>2, <5>2
        <5> QED
          BY <3>1, <5>2, <5>3 DEF Against
      <4> QED
        BY <4>5, <4>6
    <3> QED
      BY <3>2, <3>3
  <2> QED
    BY <2>1, <2>2, <2>3
<1>5. Stored(e)
  <2>0. \A f \in Facts : d.fact[f].status # "none" => e.fact[f].status # "none"
    BY <1>w
  <2>1. \A o \in d.conflicts : o.anchor \in Facts /\ d.fact[o.anchor].status # "none"
    BY <1>d DEF Fit, Stored, ConflictRec
  <2>2. \A o \in e.conflicts : o \in d.conflicts \/ o.anchor = w \/ o.anchor = k.anchor
    BY <1>c, <1>r DEF Moved, closed
  <2>3. \A o \in e.conflicts : o.anchor \in Facts /\ d.fact[o.anchor].status # "none"
    BY <1>k, <1>w, <2>1, <2>2
  <2> QED
    BY <2>0, <2>3 DEF Stored
<1>6. Lost(e)
  <2> SUFFICES ASSUME NEW o \in e.conflicts, o.status \in {"candidate", "custom"}
               PROVE  o.anchor \notin Live(e) /\ Set(o, "pending") \notin e.conflicts
    BY DEF Lost, Set
  <2>1. o \in d.conflicts \/ o = closed
    BY <1>r DEF Moved, closed
  <2>2. CASE o = closed
    <3>1. k.anchor \notin Live(d)
      BY <1>c, <2>2
    <3>2. k \notin e.conflicts
      BY <1>c, <1>k DEF closed
    <3> QED
      BY <1>1, <1>c, <2>2, <3>1, <3>2
  <2>3. CASE o \in d.conflicts
    <3> DEFINE p == Set(o, "pending")
    <3>1. o.anchor \notin Live(d) /\ p \notin d.conflicts
      BY <2>3 DEF Fit, Lost, Set
    <3>2. o.anchor = p.anchor /\ p.status = "pending"
      BY <1>d, <2>3, RowSet
    <3> HIDE DEF p
    <3>3. p \notin Moved(K, w) /\ p # closed
      BY <1>c, <1>r, <3>1, <3>2 DEF Moved
    <3> QED
      BY <1>1, <3>1, <3>3 DEF closed, p
  <2> QED
    BY <2>1, <2>2, <2>3
<1>7. ASSUME \A o \in Pending(d) \ (K \cup {k}) : o.origin # "manual" =>
               o.anchor = w \/ (o.anchor \notin losers /\ d.fact[o.anchor].status = "conflicted")
      PROVE  Anchored(e)
  <2> SUFFICES ASSUME NEW m \in Pending(e), m.origin # "manual"
               PROVE  e.fact[m.anchor].status = "conflicted"
    BY DEF Anchored
  <2>1. CASE m.anchor = w
    <3>1. m \in Against(e, w)
      BY <2>1 DEF Against
    <3> QED
      BY <1>w, <2>1, <3>1
  <2>2. CASE m.anchor # w
    <3>1. m \in Pending(d) \ (K \cup {k})
      BY <1>2, <1>r, <2>2 DEF Moved
    <3>2. m.anchor \notin losers /\ d.fact[m.anchor].status = "conflicted" /\ m.anchor \in Facts
      BY <1>7, <1>d, <2>2, <3>1 DEF Pending, ConflictRec
    <3> QED
      BY <2>2, <3>2
  <2> QED
    BY <2>1, <2>2
<1> QED
  BY <1>1, <1>3, <1>4, <1>5, <1>6, <1>7 DEF Fit

-----------------------------------------------------------------------------
(* The decisions of the user                                               *)

\* Facts that are no longer valid need not have been compared, and a new one has been.
LEMMA KnownStill ==
  ASSUME NEW d, NEW e, NEW J, NEW J2, Known(d, J), J \subseteq J2, NEW h,
         Live(e) \subseteq Live(d) \cup {h},
         \A f \in Live(e) \ {h} : e.fact[f].content = d.fact[f].content,
         \A f \in Live(e) \ {h} :
            /\ e.fact[h].content # e.fact[f].content
            /\ {e.fact[h].content, e.fact[f].content} \in Related
            => {e.fact[h].content, e.fact[f].content} \in J2
  PROVE  Known(e, J2)
<1> SUFFICES ASSUME NEW f \in Live(e), NEW g \in Live(e), e.fact[f].content # e.fact[g].content,
                    {e.fact[f].content, e.fact[g].content} \in Related
             PROVE  {e.fact[f].content, e.fact[g].content} \in J2
  BY DEF Known
<1>1. CASE f = h
  <2>1. g # h
    BY <1>1
  <2> QED
    BY <1>1, <2>1
<1>2. CASE f # h /\ g = h
  <2>1. {e.fact[f].content, e.fact[g].content} = {e.fact[g].content, e.fact[f].content}
    OBVIOUS
  <2> QED
    BY <1>2, <2>1
<1>3. CASE f # h /\ g # h
  <2>1. /\ f \in Live(d) /\ g \in Live(d)
        /\ e.fact[f].content = d.fact[f].content /\ e.fact[g].content = d.fact[g].content
    BY <1>3
  <2>2. {d.fact[f].content, d.fact[g].content} \in J
    BY <2>1 DEF Known
  <2> QED
    BY <2>1, <2>2
<1> QED
  BY <1>1, <1>2, <1>3

LEMMA KnownLess ==
  ASSUME NEW d, NEW e, NEW J, NEW J2, Known(d, J), J \subseteq J2, Live(e) \subseteq Live(d),
         \A f \in Live(e) : e.fact[f].content = d.fact[f].content
  PROVE  Known(e, J2)
<1> SUFFICES ASSUME NEW f \in Live(e), NEW g \in Live(e), e.fact[f].content # e.fact[g].content,
                    {e.fact[f].content, e.fact[g].content} \in Related
             PROVE  {e.fact[f].content, e.fact[g].content} \in J2
  BY DEF Known
<1>1. /\ f \in Live(d) /\ g \in Live(d)
      /\ e.fact[f].content = d.fact[f].content /\ e.fact[g].content = d.fact[g].content
  OBVIOUS
<1>2. {d.fact[f].content, d.fact[g].content} \in J
  BY <1>1 DEF Known
<1> QED
  BY <1>1, <1>2

\* No conflict is decided against its anchor in this step.
ChosenBefore ==
    \A o \in db'.conflicts : o.status \in {"candidate", "custom"} => o \in db.conflicts

LEMMA NeitherSound ==
  ASSUME Sound(db), NEW k \in db.conflicts, ResolveNeither(k)
  PROVE  /\ Sound(db') /\ Live(db') \subseteq Live(db) /\ ChosenBefore
         /\ \A f \in Facts : db'.fact[f].content = db.fact[f].content
<1> DEFINE gone == {k.anchor} \cup (Holders(db, k.candidate) \ {k.anchor})
           d == SetStatus(db, gone, "forgotten")
<1>d. db \in Table /\ db.conflicts \in SUBSET ConflictRec
  BY Fields DEF Sound, Fit
<1>g. /\ k \in Pending(db) /\ db' = Close(d, {k}, "neither")
      /\ \A o \in Pending(db) \ {k} : o.anchor \notin gone
  BY DEF ResolveNeither
<1>1. /\ d \in Table /\ d.conflicts = db.conflicts
      /\ \A f \in Facts :
           /\ d.fact[f].content = db.fact[f].content
           /\ d.fact[f].status = IF f \in gone THEN "forgotten" ELSE db.fact[f].status
  BY <1>d, SetStatusIs
<1>h. \A f \in Live(db) : db.fact[f].content = k.candidate \/ f = k.anchor => f \in gone
  BY DEF Holders
<1>k. k.anchor \in gone
  OBVIOUS
<1> HIDE DEF gone, d
<1>2. /\ db' \in Table /\ db'.fact = d.fact
      /\ db'.conflicts = (db.conflicts \ {k}) \cup {Set(k, "neither")}
  <2>1. {k} \in SUBSET d.conflicts /\ "neither" \in Resolutions \cup {"cancelled"}
    BY <1>1 DEF Resolutions
  <2>2. /\ db' \in Table /\ db'.fact = d.fact
        /\ db'.conflicts = (d.conflicts \ {k}) \cup {[o EXCEPT !.status = "neither"] : o \in {k}}
    BY <1>g, <1>1, <2>1, CloseIs
  <2> QED
    BY <1>1, <2>2 DEF Set
<1>3. Pending(db') = Pending(db) \ {k}
  <2>1. Set(k, "neither").status = "neither"
    BY <1>d, RowSet DEF Resolutions
  <2> QED
    BY <1>2, <2>1 DEF Pending
<1>4. Live(db') \subseteq Live(db) /\ \A f \in Facts : db'.fact[f].content = db.fact[f].content
  BY <1>1, <1>2 DEF Live
<1>5. Distinct(db')
  BY <1>4 DEF Distinct, Sound, Fit, Live
<1>6. Sealed(db')
  <2> SUFFICES ASSUME NEW f \in Facts
               PROVE  /\ db'.fact[f].status = "active" => Against(db', f) = {}
                      /\ db'.fact[f].status = "conflicted" => Against(db', f) # {}
    BY DEF Sealed
  <2>1. Against(db', f) = Against(db, f) \ {k}
    BY <1>1, <1>2, <1>3 DEF Against
  <2>2. CASE f \in gone
    BY <1>1, <1>2, <2>2
  <2>3. CASE f \notin gone
    <3>1. db'.fact[f].status = db.fact[f].status
      BY <1>1, <1>2, <2>3
    <3>2. f \in Live(db) => k \notin Against(db, f)
      BY <1>h, <1>k, <2>3 DEF Against
    <3> QED
      BY <2>1, <3>1, <3>2 DEF Sound, Fit, Sealed, Live
  <2> QED
    BY <2>2, <2>3
<1>7. Anchored(db')
  <2>1. \A o \in Pending(db) : o.anchor \in Facts
    BY <1>d DEF Pending, ConflictRec
  <2> QED
    BY <1>1, <1>2, <1>3, <1>g, <2>1 DEF Anchored, Sound
<1>8. Stored(db')
  <2>1. \A o \in db'.conflicts : \E q \in db.conflicts : o.anchor = q.anchor
    BY <1>d, <1>2, RowSet DEF Resolutions
  <2>2. \A o \in db.conflicts : o.anchor \in Facts /\ db.fact[o.anchor].status # "none"
    BY <1>d DEF Sound, Fit, Stored, ConflictRec
  <2> QED
    BY <1>1, <1>2, <2>1, <2>2 DEF Stored
<1>9. Lost(db')
  <2>1. Set(k, "neither").status = "neither"
    BY <1>d, RowSet DEF Resolutions
  <2>2. ASSUME NEW o \in db'.conflicts, o.status \in {"candidate", "custom"}
        PROVE  o.anchor \notin Live(db') /\ Set(o, "pending") \notin db'.conflicts
    <3>1. o \in db.conflicts
      BY <1>2, <2>1, <2>2
    <3>2. o.anchor \notin Live(db) /\ Set(o, "pending") \notin db.conflicts
      BY <2>2, <3>1 DEF Sound, Fit, Lost, Set
    <3>3. Set(o, "pending").status = "pending"
      BY <1>d, <3>1, RowSet
    <3> QED
      BY <1>2, <1>4, <2>1, <3>2, <3>3
  <2> QED
    BY <2>2 DEF Lost, Set
<1>10. ChosenBefore
  <2>1. Set(k, "neither").status = "neither"
    BY <1>d, RowSet DEF Resolutions
  <2> QED
    BY <1>2, <2>1 DEF ChosenBefore
<1> QED
  BY <1>2, <1>4, <1>5, <1>6, <1>7, <1>8, <1>9, <1>10 DEF Sound, Fit

LEMMA ExistingSound ==
  ASSUME Sound(db), NEW k \in db.conflicts, ResolveExisting(k)
  PROVE  /\ Sound(db') /\ Live(db') \subseteq Live(db) /\ ChosenBefore
         /\ \A f \in Facts : db'.fact[f].content = db.fact[f].content
<1> DEFINE others == Holders(db, k.candidate) \ {k.anchor}
           moved == {o \in Pending(db) \ {k} : o.anchor \in others}
           w == k.anchor
           d0 == SetStatus(db, others, "superseded")
           d1 == Rebase(d0, moved, w)
           d2 == Close(d1, {k}, "existing")
<1>d. db \in Table /\ db.conflicts \in SUBSET ConflictRec /\ Fit(db)
  BY Fields DEF Sound, Fit
<1>g. k \in Pending(db) /\ db.fact[w].status = "conflicted" /\ db' = Release(d2, {w})
  BY DEF ResolveExisting
<1>w. /\ w \in Facts /\ w \in Live(db) /\ w \notin others /\ others \subseteq Facts
      /\ moved \subseteq db.conflicts /\ moved \subseteq Pending(db) /\ k \notin moved
      /\ \A o \in moved : o.anchor \in others
      /\ Holders(db, k.candidate) \subseteq others \cup {w}
      /\ \A o \in Pending(db) \ (moved \cup {k}) : o.anchor \notin others
  BY <1>d, <1>g DEF Live, ConflictRec, Holders, Pending
<1>k. k.anchor = w
  OBVIOUS
<1> HIDE DEF others, moved, w
<1>0. /\ d0 \in Table /\ d0.conflicts = db.conflicts
      /\ \A f \in Facts :
           /\ d0.fact[f].content = db.fact[f].content
           /\ d0.fact[f].status = IF f \in others THEN "superseded" ELSE db.fact[f].status
  BY <1>d, SetStatusIs
<1> HIDE DEF d0
<1>1. /\ d1 \in Table /\ d1.fact = d0.fact
      /\ d1.conflicts = (db.conflicts \ moved) \cup Moved(moved, w)
  <2>1. moved \in SUBSET d0.conflicts
    BY <1>0, <1>w
  <2>a. d0 \in Table /\ w \in Facts
    BY <1>0, <1>w
  <2>2. /\ d1 \in Table /\ d1.fact = d0.fact
        /\ d1.conflicts = (d0.conflicts \ moved) \cup {[o EXCEPT !.anchor = w] : o \in moved}
    BY <2>a, <2>1, RebaseIs
  <2> QED
    BY <1>0, <2>2 DEF Moved, At
<1> HIDE DEF d1
<1>2. /\ d2 \in Table /\ d2.fact = d0.fact
      /\ d2.conflicts = (((db.conflicts \ moved) \cup Moved(moved, w)) \ {k}) \cup {Set(k, "existing")}
  <2>1. {k} \in SUBSET d1.conflicts /\ "existing" \in Resolutions \cup {"cancelled"}
    BY <1>1, <1>w DEF Resolutions
  <2>2. /\ d2 \in Table /\ d2.fact = d1.fact
        /\ d2.conflicts = (d1.conflicts \ {k}) \cup {[o EXCEPT !.status = "existing"] : o \in {k}}
    BY <1>1, <2>1, CloseIs
  <2> QED
    BY <1>1, <2>2 DEF Set
<1> HIDE DEF d2
<1>3. /\ db' \in Table /\ db'.conflicts = d2.conflicts
      /\ \A f \in Facts :
           /\ db'.fact[f].content = d2.fact[f].content
           /\ db'.fact[f].status = IF f \in {w} THEN IF Against(d2, f) # {} THEN "conflicted" ELSE "active"
                                   ELSE d2.fact[f].status
  BY <1>g, <1>2, ReleaseIs
<1>4. Against(db', w) = Against(d2, w)
  BY <1>3, <1>w DEF Against, Pending
<1>5. \A f \in Facts :
           /\ db'.fact[f].content = db.fact[f].content
           /\ f \in others => db'.fact[f].status = "superseded"
           /\ f = w => db'.fact[f].status = IF Against(db', w) # {} THEN "conflicted" ELSE "active"
           /\ f \notin others \cup {w} => db'.fact[f].status = db.fact[f].status
  BY <1>0, <1>2, <1>3, <1>4, <1>w
<1>6. db'.conflicts = (((db.conflicts \ moved) \cup Moved(moved, w)) \ {k}) \cup {Set(k, "existing")}
  BY <1>2, <1>3
<1>7. \A o \in Pending(db) \ (moved \cup {k}) : o.origin # "manual" =>
               o.anchor = w \/ (o.anchor \notin others /\ db.fact[o.anchor].status = "conflicted")
  BY <1>w DEF Sound, Anchored
<1>8. Fit(db') /\ Live(db') = Live(db) \ others /\ Anchored(db')
  <2>1. \A o \in moved : o.anchor \in others \/ o.anchor \notin Live(db)
    BY <1>w
  <2>2. k \in Pending(db) /\ moved \in SUBSET Pending(db) /\ others \in SUBSET Facts
    BY <1>g, <1>w
  <2>3. /\ Fit(db') /\ Live(db') = Live(db) \ others
        /\ (\A o \in Pending(db) \ (moved \cup {k}) : o.origin # "manual" =>
               o.anchor = w \/ (o.anchor \notin others /\ db.fact[o.anchor].status = "conflicted"))
            => Anchored(db')
    BY <1>d, <1>3, <1>5, <1>6, <1>k, <1>w, <2>1, <2>2, HandOver
  <2> QED
    BY <1>7, <2>3
<1>9. ChosenBefore
  <2>1. Set(k, "existing").status = "existing"
    BY <1>d, RowSet DEF Resolutions
  <2>2. ASSUME NEW o \in Moved(moved, w) PROVE o.status = "pending"
    <3>1. \A m \in moved : m \in ConflictRec /\ m.status = "pending"
      BY <1>d, <1>w DEF Pending
    <3> QED
      BY <1>w, <3>1, RowAt DEF Moved
  <2> QED
    BY <1>6, <2>1, <2>2 DEF ChosenBefore
<1> QED
  BY <1>5, <1>8, <1>9 DEF Sound

LEMMA RoomIs ==
  ASSUME NEW d, NEW n \in Nat, Room(d, n)
  PROVE  /\ n # 0 => Unused(d) # {}
         /\ n = 2 => \A f : Unused(d) \ {f} # {}
<1>1. IsFiniteSet(Unused(d))
  <2>1. Unused(d) \in SUBSET Facts
    BY DEF Unused
  <2> QED
    BY <2>1, FactNumbers, FS_Subset
<1>2. Cardinality(Unused(d)) \in Nat /\ Cardinality(Unused(d)) >= n
  BY <1>1, FS_CardinalityType DEF Room
<1>3. Unused(d) = {} => Cardinality(Unused(d)) = 0
  BY FS_EmptySet
<1>4. ASSUME n = 2, NEW f, Unused(d) \ {f} = {} PROVE FALSE
  <2>1. Cardinality(Unused(d) \ {f}) = 0
    BY <1>4, FS_EmptySet
  <2>2. Cardinality(Unused(d) \ {f}) >= Cardinality(Unused(d)) - 1
    <3>1. Cardinality(Unused(d) \ {f}) =
            IF f \in Unused(d) THEN Cardinality(Unused(d)) - 1 ELSE Cardinality(Unused(d))
      BY <1>1, FS_RemoveElement
    <3> QED
      BY <1>2, <3>1
  <2> QED
    BY <1>2, <1>4, <2>1, <2>2
<1> QED
  BY <1>2, <1>3, <1>4

\* Facts that are superseded, whatever was pending against them.
LEMMA SupersedeFit ==
  ASSUME NEW d, Fit(d), NEW S \in SUBSET Facts, \A f \in S : d.fact[f].status # "none"
  PROVE  /\ Fit(SetStatus(d, S, "superseded"))
         /\ Live(SetStatus(d, S, "superseded")) = Live(d) \ S
         /\ Unused(SetStatus(d, S, "superseded")) = Unused(d)
<1> DEFINE e == SetStatus(d, S, "superseded")
<1>d. d \in Table /\ d.conflicts \in SUBSET ConflictRec
  BY Fields DEF Fit
<1>1. /\ e \in Table /\ e.conflicts = d.conflicts
      /\ \A f \in Facts :
           /\ e.fact[f].content = d.fact[f].content
           /\ e.fact[f].status = IF f \in S THEN "superseded" ELSE d.fact[f].status
  BY <1>d, SetStatusIs
<1> HIDE DEF e
<1>2. Live(e) = Live(d) \ S /\ Unused(e) = Unused(d)
  BY <1>1 DEF Live, Unused
<1>3. Distinct(e)
  BY <1>1, <1>2 DEF Fit, Distinct, Live
<1>4. \A f \in Facts : Against(e, f) = Against(d, f)
  BY <1>1 DEF Against, Pending
<1>5. Sealed(e)
  BY <1>1, <1>4 DEF Fit, Sealed
<1>6. Stored(e)
  <2>1. \A k \in d.conflicts : k.anchor \in Facts
    BY <1>d DEF ConflictRec
  <2> QED
    BY <1>1, <2>1 DEF Fit, Stored
<1>7. Lost(e)
  BY <1>1, <1>2 DEF Fit, Lost
<1> QED
  BY <1>1, <1>2, <1>3, <1>5, <1>6, <1>7 DEF Fit, e

\* The conflicts that a decision for content c reopens keep their anchors in quarantine.
LEMMA ReopenSound ==
  ASSUME Sound(db), NEW c \in Contents, NEW a, MayOpen(db, KeptOver(db, c, a), c, "manual")
  PROVE  LET d == Reopen(db, KeptOver(db, c, a), c) IN
         /\ Sound(d) /\ Live(d) = Live(db) /\ Unused(d) = Unused(db)
         /\ db.conflicts \subseteq d.conflicts
         /\ \A k \in Pending(d) : k \in Pending(db) \/ (k.origin = "manual" /\ k.anchor # a)
         /\ \A f \in Facts :
              /\ d.fact[f].content = db.fact[f].content
              /\ d.fact[f].status = "active" => db.fact[f].status = "active"
              /\ db.fact[f].status # "active" /\ db.fact[f].status # "conflicted" =>
                    d.fact[f].status = db.fact[f].status
              /\ db.fact[f].status = "conflicted" => d.fact[f].status = "conflicted"
         /\ \A f \in KeptOver(db, c, a) : d.fact[f].status # "active"
<1> DEFINE kept == KeptOver(db, c, a)
           d == Open(db, kept, c, "manual")
<1>1. kept \in SUBSET Facts /\ "manual" \in Origins /\ a \notin kept
  BY DEF KeptOver, Live, Origins
<1>d. db \in Table
  BY DEF Sound, Fit
<1>2. Sound(d) /\ Live(d) = Live(db) /\ Unused(d) = Unused(db)
  BY <1>1, OpenSound
<1>3. Pending(d) = Pending(db) \cup Rows(db, kept, c, "manual")
  BY <1>1, <1>d, OpenPending
<1>4. /\ d.conflicts = db.conflicts \cup Rows(db, kept, c, "manual")
      /\ \A f \in Facts :
           /\ d.fact[f].content = db.fact[f].content
           /\ f \in Sealing(db, kept, c, "manual") => d.fact[f].status = "conflicted"
           /\ f \notin Sealing(db, kept, c, "manual") => d.fact[f].status = db.fact[f].status
  <2>1. OpenIs(db, kept, c, "manual", Open(db, kept, c, "manual"))
    BY <1>1, <1>d, OpenDoes
  <2> HIDE DEF kept
  <2> QED
    BY <2>1 DEF OpenIs
<1>5. \A f \in Sealing(db, kept, c, "manual") : db.fact[f].status \in {"active", "conflicted"}
  BY <1>1 DEF Sealing, Opened, KeptOver, Live
<1>6. \A k \in Rows(db, kept, c, "manual") : k.origin = "manual" /\ k.anchor \in kept
  BY DEF Rows, Opened
<1>7. ASSUME NEW f \in kept PROVE d.fact[f].status # "active"
  <2>1. ~Decided(db, f, c, "manual")
    BY ConflictsAssumption DEF Decided
  <2>2. \E k \in Pending(d) : k.anchor = f
    <3>1. CASE f \in Opened(db, kept, c, "manual")
      <4> DEFINE k == [anchor |-> f, original |-> f, candidate |-> c, origin |-> "manual",
                       status |-> "pending"]
      <4>1. k \in Rows(db, kept, c, "manual") /\ k.anchor = f
        BY <3>1 DEF Rows
      <4> HIDE DEF k
      <4> QED
        BY <1>3, <4>1
    <3>2. CASE f \notin Opened(db, kept, c, "manual")
      <4>1. \E k \in Pending(db) : k.anchor = f
        BY <2>1, <3>2 DEF Opened
      <4> QED
        BY <1>3, <4>1
    <3> QED
      BY <3>1, <3>2
  <2>3. Against(d, f) # {} /\ f \in Facts
    BY <1>1, <2>2 DEF Against
  <2> QED
    BY <1>2, <2>3 DEF Sound, Fit, Sealed
<1>8. Reopen(db, kept, c) = d
  BY DEF Reopen
<1> HIDE DEF d, kept
<1>9. \A k \in Pending(d) : k \in Pending(db) \/ (k.origin = "manual" /\ k.anchor # a)
  BY <1>1, <1>3, <1>6
<1>10. db.conflicts \subseteq d.conflicts
  BY <1>4
<1>11. \A f \in Facts :
          /\ d.fact[f].content = db.fact[f].content
          /\ d.fact[f].status = "active" => db.fact[f].status = "active"
          /\ db.fact[f].status # "active" /\ db.fact[f].status # "conflicted" =>
                d.fact[f].status = db.fact[f].status
          /\ db.fact[f].status = "conflicted" => d.fact[f].status = "conflicted"
  BY <1>4, <1>5
<1>12. \A f \in kept : d.fact[f].status # "active"
  BY <1>7
<1> QED
  BY <1>2, <1>8, <1>9, <1>10, <1>11, <1>12 DEF kept

LEMMA WithSound ==
  ASSUME Sound(db), NEW k \in db.conflicts, NEW c \in Contents, NEW res \in {"candidate", "custom"},
         res = "candidate" => c = k.candidate, ResolveWith(k, c, res)
  PROVE  /\ Sound(db') /\ k.anchor \in Facts /\ db'.fact[k.anchor].status = "superseded"
         /\ \E w \in Facts \ {k.anchor} :
              /\ Live(db') \subseteq Live(db) \cup {w}
              /\ w \in Live(db) \cup Unused(db)
              /\ db'.fact[w].content = c
              /\ \A f \in Facts \ {w} :
                   /\ db'.fact[f].content = db.fact[f].content
                   /\ db'.fact[f].status = "active" => db.fact[f].status = "active"
              /\ \A f \in KeptOver(db, c, k.anchor) \ {w} : db'.fact[f].status # "active"
<1> DEFINE a == k.anchor
           others == Holders(db, k.candidate) \ {k.anchor}
           siblings == {o \in Pending(db) \ {k} : o.anchor = k.anchor}
           cousins == {o \in Pending(db) \ {k} : o.anchor \in others}
           kept == KeptOver(db, c, k.anchor)
           open == Reopen(db, kept, c)
           d0 == SetStatus(open, {k.anchor}, "superseded")
           d1 == Add(d0, c)
           w == Holder(d1, c)
           d2 == Rebase(d1, siblings, w)
           losers == IF res = "custom" THEN others \ {w} ELSE {}
           moved == IF cousins = {} THEN {} ELSE {o \in Pending(d2) \ {k} : o.anchor \in losers}
           d3 == SetStatus(d2, losers, "superseded")
           d4 == Rebase(d3, moved, w)
           d5 == Close(d4, {k}, res)
           K == siblings \cup moved
<1>g. /\ k \in Pending(db) /\ db.fact[a].status = "conflicted" /\ MayOpen(db, kept, c, "manual")
      /\ Unused(db) # {} /\ db' = Release(d5, {w})
  <2>1. Room(db, 1) /\ 1 \in Nat /\ 1 # 0
    BY DEF ResolveWith
  <2>2. Unused(db) # {}
    BY <2>1, RoomIs
  <2> QED
    BY <2>2 DEF ResolveWith
<1>a. k.anchor = a
  OBVIOUS
<1>d. db \in Table /\ db.conflicts \in SUBSET ConflictRec /\ Fit(db) /\ a \in Facts
  BY Fields DEF Sound, Fit, ConflictRec
<1>o. /\ others \subseteq Facts \ {a} /\ others \subseteq Live(db)
      /\ \A f \in Live(db) \ {a} : db.fact[f].content = k.candidate => f \in others
  BY DEF Holders, Live
<1>s. /\ siblings \subseteq Pending(db) /\ k \notin siblings /\ \A o \in siblings : o.anchor = a
      /\ \A o \in Pending(db) \ {k} : o.anchor = a => o \in siblings
      /\ \A o \in Pending(db) \ {k} : o.anchor \in others => cousins # {}
  OBVIOUS
<1>p. /\ Sound(open) /\ Live(open) = Live(db) /\ Unused(open) = Unused(db)
      /\ db.conflicts \subseteq open.conflicts
      /\ \A o \in Pending(open) : o \in Pending(db) \/ (o.origin = "manual" /\ o.anchor # a)
      /\ \A f \in Facts :
           /\ open.fact[f].content = db.fact[f].content
           /\ open.fact[f].status = "active" => db.fact[f].status = "active"
           /\ db.fact[f].status # "active" /\ db.fact[f].status # "conflicted" =>
                 open.fact[f].status = db.fact[f].status
           /\ db.fact[f].status = "conflicted" => open.fact[f].status = "conflicted"
      /\ \A f \in kept : open.fact[f].status # "active"
  BY <1>g, ReopenSound
<1>k. kept \subseteq Facts \ {a}
  BY DEF KeptOver, Live
<1> HIDE DEF a, others, siblings, cousins, kept, open
<1>0. /\ d0 \in Table /\ Fit(d0) /\ d0.conflicts = open.conflicts
      /\ Live(d0) = Live(db) \ {a} /\ Unused(d0) = Unused(db)
      /\ \A f \in Facts :
           /\ d0.fact[f].content = db.fact[f].content
           /\ d0.fact[f].status = IF f = a THEN "superseded" ELSE open.fact[f].status
  <2>1. open \in Table /\ Fit(open) /\ {a} \in SUBSET Facts /\ open.fact[a].status = "conflicted"
    BY <1>d, <1>g, <1>p DEF Sound, Fit
  <2>2. /\ d0 \in Table /\ d0.conflicts = open.conflicts
        /\ \A f \in Facts :
             /\ d0.fact[f].content = open.fact[f].content
             /\ d0.fact[f].status = IF f \in {a} THEN "superseded" ELSE open.fact[f].status
    BY <1>a, <2>1, SetStatusIs
  <2>3. Fit(d0) /\ Live(d0) = Live(open) \ {a} /\ Unused(d0) = Unused(open)
    BY <1>a, <2>1, SupersedeFit
  <2> QED
    BY <1>p, <2>2, <2>3
<1> HIDE DEF d0
<1>1. /\ Fit(d1) /\ w \in Facts /\ Holders(d1, c) = {w} /\ Live(d1) = Live(d0) \cup {w}
      /\ w \in Live(d0) \cup Unused(d0) /\ d1.conflicts = d0.conflicts
      /\ d1.fact[w].content = c /\ \A f \in Facts \ {w} : d1.fact[f] = d0.fact[f]
  <2>1. Unused(d0) # {}
    BY <1>0, <1>g
  <2> QED
    BY <1>0, <2>1, AddHolder
<1>t. d1 \in Table /\ Pending(d1) = Pending(open)
  BY <1>0, <1>1 DEF Fit, Pending
<1> HIDE DEF d1, w
<1>w. w # a /\ a \notin Live(d1) /\ w \in Live(d1)
  BY <1>0, <1>1, <1>g DEF Unused
<1>b. siblings \subseteq Pending(d1) /\ siblings \subseteq d1.conflicts /\ k \in Pending(d1) /\ k \in d1.conflicts
  <2>1. Pending(db) \subseteq Pending(open)
    BY <1>p DEF Pending
  <2> QED
    BY <1>g, <1>s, <1>t, <2>1 DEF Pending
<1>2. /\ d2 \in Table /\ d2.fact = d1.fact
      /\ d2.conflicts = (d1.conflicts \ siblings) \cup Moved(siblings, w)
  <2>1. siblings \in SUBSET d1.conflicts /\ w \in Facts /\ d1 \in Table
    BY <1>b, <1>1, <1>t
  <2>2. /\ d2 \in Table /\ d2.fact = d1.fact
        /\ d2.conflicts = (d1.conflicts \ siblings) \cup {[o EXCEPT !.anchor = w] : o \in siblings}
    BY <2>1, RebaseIs
  <2> QED
    BY <2>2 DEF Moved, At
<1> HIDE DEF d2
<1>l. /\ losers \subseteq others /\ w \notin losers /\ losers \subseteq Facts
      /\ res = "custom" => losers = others \ {w}
  BY <1>o
<1>m. /\ \A o \in moved : o \in Pending(d2) /\ o # k /\ o.anchor \in losers
      /\ cousins # {} => \A o \in Pending(d2) \ {k} : o.anchor \in losers => o \in moved
  OBVIOUS
<1>r. res \in {"candidate", "custom"} /\ (res = "candidate" => c = k.candidate)
  OBVIOUS
<1> HIDE DEF losers, moved
<1>q. \A o \in Moved(siblings, w) : o.anchor = w
  <2>1. \A o \in siblings : o \in ConflictRec
    BY <1>d, <1>s DEF Pending
  <2> QED
    BY <1>1, <2>1, RowAt DEF Moved
<1>n. /\ moved \subseteq Pending(d1) \ siblings
      /\ \A o \in Pending(d1) \ siblings : o \in Pending(d2)
      /\ \A o \in moved : o \notin Moved(siblings, w)
  BY <1>2, <1>l, <1>m, <1>q DEF Pending
<1>3. /\ d3 \in Table /\ d3.conflicts = d2.conflicts
      /\ \A f \in Facts :
           /\ d3.fact[f].content = d1.fact[f].content
           /\ d3.fact[f].status = IF f \in losers THEN "superseded" ELSE d1.fact[f].status
  BY <1>2, SetStatusIs
<1> HIDE DEF d3
<1>4. /\ d4 \in Table /\ d4.fact = d3.fact
      /\ d4.conflicts = (d1.conflicts \ K) \cup Moved(K, w)
  <2>1. moved \in SUBSET d3.conflicts /\ w \in Facts /\ d3 \in Table
    BY <1>1, <1>3, <1>m DEF Pending
  <2>2. /\ d4 \in Table /\ d4.fact = d3.fact
        /\ d4.conflicts = (d3.conflicts \ moved) \cup {[o EXCEPT !.anchor = w] : o \in moved}
    BY <2>1, RebaseIs
  <2>3. d4.conflicts = (((d1.conflicts \ siblings) \cup Moved(siblings, w)) \ moved) \cup Moved(moved, w)
    BY <1>2, <1>3, <2>2 DEF Moved, At
  <2>4. Moved(K, w) = Moved(siblings, w) \cup Moved(moved, w)
    BY DEF Moved
  <2> QED
    BY <1>n, <2>2, <2>3, <2>4
<1> HIDE DEF d4
<1>5. /\ d5 \in Table /\ d5.fact = d3.fact
      /\ d5.conflicts = (((d1.conflicts \ K) \cup Moved(K, w)) \ {k}) \cup {Set(k, res)}
  <2>0. k \notin K /\ k \in d1.conflicts
    BY <1>b, <1>m, <1>s
  <2>1. {k} \in SUBSET d4.conflicts /\ res \in Resolutions \cup {"cancelled"} /\ d4 \in Table
    BY <1>4, <1>r, <2>0 DEF Resolutions
  <2>2. /\ d5 \in Table /\ d5.fact = d4.fact
        /\ d5.conflicts = (d4.conflicts \ {k}) \cup {[o EXCEPT !.status = res] : o \in {k}}
    BY <2>1, CloseIs
  <2> QED
    BY <1>4, <2>2 DEF Set
<1>K. K \in SUBSET Pending(d1) /\ k \notin K
  BY <1>b, <1>m, <1>n, <1>s
<1>L. \A o \in K : o.anchor \in losers \/ o.anchor = a
  BY <1>m, <1>s
<1>M. \A o \in Pending(d1) \ {k} : (o \in Pending(db) /\ o.anchor = a) \/ (cousins # {} /\ o.anchor \in losers) => o \in K
  BY <1>m, <1>n, <1>s
<1> HIDE DEF d5, K
<1>6. /\ db' \in Table /\ db'.conflicts = d5.conflicts
      /\ \A f \in Facts :
           /\ db'.fact[f].content = d5.fact[f].content
           /\ db'.fact[f].status = IF f \in {w} THEN IF Against(d5, f) # {} THEN "conflicted" ELSE "active"
                                   ELSE d5.fact[f].status
  BY <1>g, <1>5, ReleaseIs
<1>7. Against(db', w) = Against(d5, w)
  BY <1>1, <1>6 DEF Against, Pending
<1>8. \A f \in Facts :
           /\ db'.fact[f].content = d1.fact[f].content
           /\ f \in losers => db'.fact[f].status = "superseded"
           /\ f = w => db'.fact[f].status = IF Against(db', w) # {} THEN "conflicted" ELSE "active"
           /\ f \notin losers \cup {w} => db'.fact[f].status = d1.fact[f].status
  BY <1>3, <1>5, <1>6, <1>7, <1>l
<1>9. \A o \in Pending(d1) \ (K \cup {k}) : o.origin # "manual" =>
               o.anchor = w \/ (o.anchor \notin losers /\ d1.fact[o.anchor].status = "conflicted")
  <2> SUFFICES ASSUME NEW o \in Pending(d1) \ (K \cup {k}), o.origin # "manual", o.anchor # w
               PROVE  o.anchor \notin losers /\ d1.fact[o.anchor].status = "conflicted"
    OBVIOUS
  <2>1. o \in Pending(open) /\ o \in Pending(db)
    BY <1>p, <1>t
  <2>2. o.anchor # a /\ o.anchor \in Facts
    BY <1>d, <1>M, <2>1 DEF Pending, ConflictRec
  <2>3. o.anchor \notin losers
    BY <1>l, <1>M, <1>s, <2>1
  <2>4. open.fact[o.anchor].status = "conflicted"
    BY <1>p, <2>1 DEF Sound, Anchored
  <2> QED
    BY <1>0, <1>1, <2>2, <2>3, <2>4
<1>10. Fit(db') /\ Live(db') = Live(d1) \ losers /\ Anchored(db')
  <2>1. \A o \in K : o.anchor \in losers \/ o.anchor \notin Live(d1)
    BY <1>L, <1>w
  <2>2. Holders(d1, k.candidate) \subseteq losers \cup {w}
    <3>1. ASSUME NEW f \in Live(d1) \ {w}, d1.fact[f].content = k.candidate PROVE f \in losers
      <4>1. f \in Live(db) \ {a} /\ f \in Facts
        BY <1>0, <1>1 DEF Live
      <4>2. db.fact[f].content = k.candidate
        BY <1>0, <1>1, <3>1, <4>1
      <4>3. f \in others
        BY <1>o, <4>1, <4>2
      <4>4. CASE res = "candidate"
        BY <1>1, <1>r, <3>1, <4>4 DEF Holders
      <4>5. CASE res = "custom"
        BY <1>l, <3>1, <4>3, <4>5
      <4> QED
        BY <1>r, <4>4, <4>5
    <3> QED
      BY <3>1 DEF Holders
  <2>3. losers \in SUBSET Facts /\ k.anchor \notin Live(d1) /\ res \in {"existing", "candidate", "custom"}
    BY <1>a, <1>l, <1>r, <1>w
  <2>4. db'.conflicts = (((d1.conflicts \ K) \cup Moved(K, w)) \ {k}) \cup {Set(k, res)}
    BY <1>5, <1>6
  <2>5. k \in Pending(d1) /\ w \in Live(d1) /\ w \notin losers /\ db' \in Table
    BY <1>6, <1>b, <1>l, <1>w
  <2>6. /\ Fit(db') /\ Live(db') = Live(d1) \ losers
        /\ (\A o \in Pending(d1) \ (K \cup {k}) : o.origin # "manual" =>
               o.anchor = w \/ (o.anchor \notin losers /\ d1.fact[o.anchor].status = "conflicted"))
            => Anchored(db')
    BY <1>1, <1>8, <1>K, <2>1, <2>2, <2>3, <2>4, <2>5, HandOver
  <2> QED
    BY <1>9, <2>6
<1>11. Sound(db')
  BY <1>10 DEF Sound
<1>12. db'.fact[a].status = "superseded"
  BY <1>0, <1>1, <1>8, <1>d, <1>l, <1>o, <1>w
<1>13. /\ Live(db') \subseteq Live(db) \cup {w} /\ w \in Live(db) \cup Unused(db)
       /\ db'.fact[w].content = c
  BY <1>0, <1>1, <1>8, <1>10
<1>14. ASSUME NEW f \in Facts \ {w}
       PROVE  /\ db'.fact[f].content = db.fact[f].content
              /\ db'.fact[f].status = "active" => open.fact[f].status = "active" /\ db.fact[f].status = "active"
  <2>1. d1.fact[f] = d0.fact[f]
    BY <1>1
  <2>2. /\ f \in losers => db'.fact[f].status = "superseded"
        /\ f \notin losers => db'.fact[f].status = d0.fact[f].status
    BY <1>8, <2>1
  <2>3. d0.fact[f].status = "active" => open.fact[f].status = "active"
    BY <1>0
  <2> QED
    BY <1>0, <1>8, <1>p, <2>1, <2>2, <2>3
<1>15. \A f \in kept \ {w} : db'.fact[f].status # "active"
  BY <1>14, <1>k, <1>p
<1> QED
  BY <1>1, <1>11, <1>12, <1>13, <1>14, <1>15, <1>a, <1>d, <1>w DEF kept

LEMMA ForgetSound ==
  ASSUME Sound(db), NEW f \in Facts, Forget(f)
  PROVE  /\ Sound(db') /\ Live(db') \subseteq Live(db) /\ ChosenBefore
         /\ \A g \in Facts : db'.fact[g].content = db.fact[g].content
<1> DEFINE cancelled == Against(db, f)
           sides == UNION {{g \in Facts : /\ db.fact[g].status = "conflicted"
                                          /\ db.fact[g].content = k.candidate} : k \in cancelled}
           affected == {k.anchor : k \in cancelled} \cup sides
           d0 == Close(db, cancelled, "cancelled")
           d1 == SetStatus(d0, {f}, "forgotten")
           S == {g \in affected \ {f} : d1.fact[g].status = "conflicted"}
<1>g. db' = Release(d1, S) /\ db.fact[f].status # "none"
  BY DEF Forget
<1>d. db \in Table /\ db.conflicts \in SUBSET ConflictRec
  BY Fields DEF Sound, Fit
<1>c. cancelled \subseteq Pending(db) /\ cancelled \subseteq db.conflicts
  BY DEF Against, Pending
<1>a. \A k \in cancelled : /\ k.anchor \in affected
                           /\ \A g \in Facts : /\ db.fact[g].status = "conflicted"
                                               /\ db.fact[g].content = k.candidate
                                               => g \in affected
  OBVIOUS
<1>f. \A o \in Pending(db) \ cancelled : o.anchor # f
  BY DEF Against
<1> HIDE DEF cancelled, affected
<1>0. /\ d0 \in Table /\ d0.fact = db.fact /\ Pending(d0) = Pending(db) \ cancelled
      /\ d0.conflicts = (db.conflicts \ cancelled) \cup {Set(o, "cancelled") : o \in cancelled}
  <2>1. cancelled \in SUBSET db.conflicts /\ "cancelled" \in Resolutions \cup {"cancelled"}
    BY <1>c
  <2>2. /\ d0 \in Table /\ d0.fact = db.fact
        /\ d0.conflicts = (db.conflicts \ cancelled) \cup {[o EXCEPT !.status = "cancelled"] : o \in cancelled}
    BY <1>d, <2>1, CloseIs
  <2>3. Pending(d0) = Pending(db) \ cancelled
    BY <1>d, <2>1, ClosePending
  <2> QED
    BY <2>2, <2>3 DEF Set
<1> HIDE DEF d0
<1>1. /\ d1 \in Table /\ d1.conflicts = d0.conflicts
      /\ \A g \in Facts :
           /\ d1.fact[g].content = db.fact[g].content
           /\ d1.fact[g].status = IF g \in {f} THEN "forgotten" ELSE db.fact[g].status
  BY <1>0, SetStatusIs
<1>s. \A g \in Facts : g \in S <=> g \in affected /\ g # f /\ d1.fact[g].status = "conflicted"
  OBVIOUS
<1> HIDE DEF d1, S
<1>2. /\ db' \in Table /\ db'.conflicts = d1.conflicts
      /\ \A g \in Facts :
           /\ db'.fact[g].content = d1.fact[g].content
           /\ db'.fact[g].status = IF g \in S THEN IF Against(d1, g) # {} THEN "conflicted" ELSE "active"
                                   ELSE d1.fact[g].status
  BY <1>1, <1>g, ReleaseIs
<1>3. Pending(db') = Pending(db) \ cancelled
  BY <1>0, <1>1, <1>2 DEF Pending
<1>4. \A g \in Facts : Against(db', g) = Against(d1, g) /\ Against(db', g) = Against(db, g) \ cancelled
  BY <1>0, <1>1, <1>2, <1>3 DEF Against, Pending
<1>5. \A g \in Facts :
        /\ db'.fact[g].content = db.fact[g].content
        /\ g = f => db'.fact[g].status = "forgotten"
        /\ g # f /\ g \in affected /\ db.fact[g].status = "conflicted" =>
             db'.fact[g].status = IF Against(db', g) # {} THEN "conflicted" ELSE "active"
        /\ g # f /\ ~(g \in affected /\ db.fact[g].status = "conflicted") =>
             db'.fact[g].status = db.fact[g].status
  BY <1>1, <1>2, <1>4, <1>s
<1>6. Live(db') \subseteq Live(db)
  BY <1>5 DEF Live
<1>7. Distinct(db')
  BY <1>5, <1>6 DEF Distinct, Sound, Fit, Live
<1>8. Sealed(db')
  <2> SUFFICES ASSUME NEW g \in Facts
               PROVE  /\ db'.fact[g].status = "active" => Against(db', g) = {}
                      /\ db'.fact[g].status = "conflicted" => Against(db', g) # {}
    BY DEF Sealed
  <2>1. CASE g = f \/ (g \in affected /\ db.fact[g].status = "conflicted")
    BY <1>5, <2>1
  <2>2. CASE g # f /\ ~(g \in affected /\ db.fact[g].status = "conflicted")
    <3>1. db'.fact[g].status = db.fact[g].status
      BY <1>5, <2>2
    <3>2. db.fact[g].status = "conflicted" => Against(db, g) \cap cancelled = {}
      BY <1>a, <2>2 DEF Against
    <3> QED
      BY <1>4, <3>1, <3>2 DEF Sound, Fit, Sealed
  <2> QED
    BY <2>1, <2>2
<1>9. Anchored(db')
  <2> SUFFICES ASSUME NEW o \in Pending(db'), o.origin # "manual"
               PROVE  db'.fact[o.anchor].status = "conflicted"
    BY DEF Anchored
  <2>1. /\ o \in Pending(db) \ cancelled /\ o.anchor # f /\ o.anchor \in Facts
        /\ db.fact[o.anchor].status = "conflicted"
    BY <1>3, <1>d, <1>f DEF Sound, Anchored, Pending, ConflictRec
  <2>2. o \in Against(db', o.anchor)
    BY DEF Against
  <2> QED
    BY <1>5, <2>1, <2>2
<1>10. /\ \A o \in db'.conflicts : \E q \in db.conflicts : o.anchor = q.anchor
       /\ \A o \in db'.conflicts : o \in db.conflicts \/ o.status = "cancelled"
  <2>1. \A o \in cancelled : Set(o, "cancelled").anchor = o.anchor /\ Set(o, "cancelled").status = "cancelled"
    BY <1>c, <1>d, RowSet
  <2> QED
    BY <1>0, <1>1, <1>2, <1>c, <2>1
<1>11. Stored(db')
  <2>1. \A o \in db.conflicts : o.anchor \in Facts /\ db.fact[o.anchor].status # "none"
    BY <1>d DEF Sound, Fit, Stored, ConflictRec
  <2>2. \A g \in Facts : db.fact[g].status # "none" => db'.fact[g].status # "none"
    BY <1>5
  <2> QED
    BY <1>10, <2>1, <2>2 DEF Stored
<1>12. Lost(db')
  <2> SUFFICES ASSUME NEW o \in db'.conflicts, o.status \in {"candidate", "custom"}
               PROVE  o.anchor \notin Live(db') /\ Set(o, "pending") \notin db'.conflicts
    BY DEF Lost, Set
  <2>1. o \in db.conflicts
    BY <1>10
  <2>2. o.anchor \notin Live(db) /\ Set(o, "pending") \notin db.conflicts
    BY <2>1 DEF Sound, Fit, Lost, Set
  <2>3. Set(o, "pending").status = "pending"
    BY <1>d, <2>1, RowSet
  <2> QED
    BY <1>10, <1>6, <2>2, <2>3
<1>13. ChosenBefore
  BY <1>10 DEF ChosenBefore
<1> QED
  BY <1>2, <1>5, <1>6, <1>7, <1>8, <1>9, <1>11, <1>12, <1>13 DEF Sound, Fit

LEMMA UpdateSound ==
  ASSUME Sound(db), NEW f \in Facts, NEW c \in Contents, UpdateFact(f, c)
  PROVE  /\ Sound(db') /\ db'.conflicts = db.conflicts
         /\ \E h \in Facts :
              /\ Live(db') \subseteq Live(db) \cup {h} /\ db'.fact[h].content = c
              /\ \A g \in Facts \ {h} : db'.fact[g].content = db.fact[g].content
<1> DEFINE d == SetStatus(db, {f}, "superseded")
           h == Holder(db', c)
<1>g. db' = Add(d, c) /\ db.fact[f].status = "active" /\ Unused(db) # {}
  <2>1. Room(db, 1) /\ 1 \in Nat /\ 1 # 0
    BY DEF UpdateFact
  <2>2. Unused(db) # {}
    BY <2>1, RoomIs
  <2> QED
    BY <2>2 DEF UpdateFact
<1>d. db \in Table /\ db.conflicts \in SUBSET ConflictRec /\ Fit(db)
  BY Fields DEF Sound, Fit
<1>1. Fit(d) /\ Live(d) = Live(db) \ {f} /\ Unused(d) = Unused(db)
  <2>1. {f} \in SUBSET Facts /\ \A g \in {f} : db.fact[g].status # "none"
    BY <1>g
  <2> QED
    BY <1>d, <2>1, SupersedeFit
<1>2. /\ d \in Table /\ d.conflicts = db.conflicts
      /\ \A g \in Facts :
           /\ d.fact[g].content = db.fact[g].content
           /\ d.fact[g].status = IF g \in {f} THEN "superseded" ELSE db.fact[g].status
  BY <1>d, SetStatusIs
<1> HIDE DEF d
<1>3. Anchored(d)
  <2>1. \A o \in Pending(db) : o.anchor \in Facts
    BY <1>d DEF Pending, ConflictRec
  <2>2. Pending(d) = Pending(db)
    BY <1>2 DEF Pending
  <2> QED
    BY <1>2, <1>g, <2>1, <2>2 DEF Sound, Anchored
<1>4. /\ Fit(db') /\ Anchored(db') /\ h \in Facts /\ Live(db') = Live(d) \cup {h}
      /\ db'.conflicts = d.conflicts /\ db'.fact[h].content = c
      /\ \A g \in Facts \ {h} : db'.fact[g] = d.fact[g]
  <2>1. Unused(d) # {}
    BY <1>1, <1>g
  <2> QED
    BY <1>1, <1>3, <1>g, <2>1, AddHolder
<1> HIDE DEF h
<1>5. Live(db') \subseteq Live(db) \cup {h} /\ \A g \in Facts \ {h} : db'.fact[g].content = db.fact[g].content
  BY <1>1, <1>2, <1>4
<1> QED
  BY <1>2, <1>4, <1>5 DEF Sound

-----------------------------------------------------------------------------
(* Saving what was reviewed                                                *)

\* What Open or Add make of the tables d, for content c.
SavedIn(e, d, anchors, c) ==
    /\ Sound(e)
    /\ \A f \in Live(d) : f \in Live(e) /\ e.fact[f].content = d.fact[f].content
    /\ d.conflicts \subseteq e.conflicts
    /\ \A o \in e.conflicts : o \in d.conflicts \/ o.status = "pending"
    /\ \/ Live(e) = Live(d) /\ Unused(e) = Unused(d)
       \/ /\ anchors = {} /\ Holders(d, c) = {}
          /\ \E h \in Unused(d) :
               /\ Live(e) = Live(d) \cup {h} /\ Unused(d) \ {h} \subseteq Unused(e)
               /\ e.fact[h].content = c

LEMMA OpenSaved ==
  ASSUME NEW d, Sound(d), NEW anchors \in SUBSET Facts, NEW c \in Contents,
         NEW origin \in Origins, MayOpen(d, anchors, c, origin), NEW any
  PROVE  SavedIn(Open(d, anchors, c, origin), d, any, c)
<1>1. d \in Table
  BY DEF Sound, Fit
<1> DEFINE e == Open(d, anchors, c, origin)
<1>2. Sound(e) /\ Live(e) = Live(d) /\ Unused(e) = Unused(d)
  BY OpenSound
<1>3. /\ e \in Table /\ e.conflicts = d.conflicts \cup Rows(d, anchors, c, origin)
      /\ \A f \in Facts :
           /\ e.fact[f].content = d.fact[f].content
           /\ f \in Sealing(d, anchors, c, origin) => e.fact[f].status = "conflicted"
           /\ f \notin Sealing(d, anchors, c, origin) => e.fact[f].status = d.fact[f].status
  BY <1>1, OpenDoes DEF OpenIs
<1>4. \A o \in Rows(d, anchors, c, origin) : o.status = "pending"
  BY DEF Rows
<1>5. Live(d) \subseteq Facts
  BY DEF Live
<1> HIDE DEF e
<1> QED
  BY <1>2, <1>3, <1>4, <1>5 DEF SavedIn, e

LEMMA SaveSaved ==
  ASSUME NEW d, Sound(d), NEW anchors \in SUBSET Facts, NEW c \in Contents,
         NEW origin \in Origins, MayOpen(d, anchors, c, origin),
         anchors = {} => Unused(d) # {},
         NEW e, e = IF anchors # {} THEN Open(d, anchors, c, origin) ELSE Add(d, c)
  PROVE  /\ SavedIn(e, d, anchors, c)
         /\ anchors = {} => Holder(e, c) \in Live(e) /\ e.fact[Holder(e, c)].content = c
<1>1. CASE anchors # {}
  BY <1>1, OpenSaved
<1>2. CASE anchors = {} /\ Holders(d, c) # {}
  <2>1. e = d
    BY <1>2 DEF Add
  <2>2. Holder(e, c) \in Holders(e, c)
    BY <1>2, <2>1 DEF Holder
  <2> QED
    BY <1>2, <2>1, <2>2 DEF SavedIn, Holders
<1>3. CASE anchors = {} /\ Holders(d, c) = {}
  <2>1. Fit(d) /\ Anchored(d) /\ e = Add(d, c)
    BY <1>3 DEF Sound
  <2>2. PICK f \in Unused(d) :
           /\ Fit(e) /\ (Anchored(d) => Anchored(e))
           /\ Live(e) = Live(d) \cup {f}
           /\ e.conflicts = d.conflicts
           /\ e.fact[f].content = c
           /\ \A g \in Facts \ {f} : e.fact[g] = d.fact[g]
    BY <1>3, <2>1, AddFit
  <2>3. /\ f \in Facts /\ f \notin Live(d) /\ Live(d) \subseteq Facts
        /\ Unused(d) \ {f} \subseteq Unused(e)
    BY <2>2 DEF Unused, Live
  <2>4. Holder(e, c) \in Holders(e, c)
    <3>1. f \in Holders(e, c)
      BY <2>2 DEF Holders
    <3> QED
      BY <3>1 DEF Holder
  <2>5. Holder(e, c) \in Live(e) /\ e.fact[Holder(e, c)].content = c
    BY <2>4 DEF Holders
  <2> QED
    BY <1>3, <2>1, <2>2, <2>3, <2>5 DEF SavedIn, Sound
<1> QED
  BY <1>1, <1>2, <1>3

\* What was compared with all that could be related may be valid beside it.
LEMMA SaveKnown ==
  ASSUME NEW d, NEW e, NEW anchors, NEW c, SavedIn(e, d, anchors, c), NEW J, Known(d, J),
         NEW J2, J \subseteq J2,
         anchors = {} /\ Holders(d, c) = {} =>
            \A f \in Live(d) : {c, d.fact[f].content} \in Related => {c, d.fact[f].content} \in J2
  PROVE  Known(e, J2)
<1>1. CASE Live(e) = Live(d)
  <2>1. \A f \in Live(e) : e.fact[f].content = d.fact[f].content
    BY <1>1 DEF SavedIn
  <2> QED
    BY <1>1, <2>1, KnownLess
<1>2. CASE Live(e) # Live(d)
  <2>1. PICK h \in Unused(d) : Live(e) = Live(d) \cup {h} /\ e.fact[h].content = c
    BY <1>2 DEF SavedIn
  <2>2. anchors = {} /\ Holders(d, c) = {}
    BY <1>2 DEF SavedIn
  <2>3. \A f \in Live(e) \ {h} : f \in Live(d) /\ e.fact[f].content = d.fact[f].content
    BY <2>1 DEF SavedIn
  <2>4. \A f \in Live(e) \ {h} :
            /\ e.fact[h].content # e.fact[f].content
            /\ {e.fact[h].content, e.fact[f].content} \in Related
            => {e.fact[h].content, e.fact[f].content} \in J2
    BY <2>1, <2>2, <2>3
  <2>5. Live(e) \subseteq Live(d) \cup {h} /\ \A f \in Live(e) \ {h} : e.fact[f].content = d.fact[f].content
    BY <2>1, <2>3
  <2> QED
    BY <2>4, <2>5, KnownStill
<1> QED
  BY <1>1, <1>2

\* What a review was shown is part of what is stored, and all of it unless it was shown
\* as many facts as it may be.
LEMMA ShownIs ==
  ASSUME NEW S, NEW shown \in Snapshots(db, S)
  PROVE  \E T \in SUBSET S : /\ {p[1] : p \in shown} = T
                            /\ (T = S \/ ~(Cardinality(T) < MaxShown))
<1>1. PICK T \in IF Cardinality(S) <= MaxShown THEN {S} ELSE kSubset(MaxShown, S) :
         shown = {<<f, db.fact[f].status>> : f \in T}
  BY DEF Snapshots
<1>2. T \in SUBSET S /\ (T = S \/ Cardinality(T) = MaxShown)
  BY <1>1 DEF kSubset
<1>3. {p[1] : p \in shown} = T
  <2>1. ASSUME NEW x \in {p[1] : p \in shown} PROVE x \in T
    BY <1>1
  <2>2. ASSUME NEW f \in T PROVE f \in {p[1] : p \in shown}
    <3> DEFINE p == <<f, db.fact[f].status>>
    <3>1. p \in shown /\ p[1] = f
      BY <1>1
    <3> HIDE DEF p
    <3> QED
      BY <3>1
  <2> QED
    BY <2>1, <2>2
<1>4. ~(MaxShown < MaxShown)
  BY ConflictsAssumption
<1> QED
  BY <1>2, <1>3, <1>4

LEMMA SeenIs ==
  ASSUME NEW r, NEW i, NEW c, review[r].seen[i] \in Candidates(db, c)
  PROVE  /\ Seen(r, i) \subseteq {f \in Live(db) : Similar(c, db.fact[f].content)}
         /\ \/ Seen(r, i) = {f \in Live(db) : Similar(c, db.fact[f].content)}
            \/ ~(Cardinality(Seen(r, i)) < MaxShown)
<1> DEFINE S == {f \in Live(db) : Similar(c, db.fact[f].content)}
<1>1. review[r].seen[i] \in Snapshots(db, S)
  BY DEF Candidates
<1> HIDE DEF S
<1>2. \E T \in SUBSET S : Seen(r, i) = T /\ (T = S \/ ~(Cardinality(T) < MaxShown))
  BY <1>1, ShownIs DEF Seen
<1> QED
  BY <1>2 DEF S

LEMMA QueriedIs ==
  ASSUME review["implicit"].query \in AllCandidates(db)
  PROVE  Queried \subseteq Live(db)
BY ShownIs DEF AllCandidates, Queried

\* A content that is new was compared with every related fact, or with as many as a
\* review is shown.
LEMMA ReviewCovers ==
  ASSUME NEW r, NEW i, NEW c, review[r].seen[i] \in Candidates(db, c), Holders(db, c) = {},
         NEW f \in Live(db), {c, db.fact[f].content} \in Related
  PROVE  {c, db.fact[f].content} \in Compared(r, i, c) \cup LeftOut(r, i, c)
<1>1. ~Repeats(r, i, c)
  BY SeenIs DEF Repeats, Holders
<1>2. CASE f \in Seen(r, i)
  BY <1>1, <1>2 DEF Compared
<1>3. CASE f \notin Seen(r, i)
  <2>1. Similar(c, db.fact[f].content)
    BY DEF Similar
  <2>2. ~(Cardinality(Seen(r, i)) < MaxShown)
    BY <1>3, <2>1, SeenIs
  <2> QED
    BY <1>3, <2>2 DEF LeftOut
<1> QED
  BY <1>2, <1>3

LEMMA ComparedIs ==
  ASSUME NEW r, NEW i, NEW c
  PROVE  Compared(r, i, c) \subseteq Related /\ LeftOut(r, i, c) \subseteq Related
BY DEF Compared, LeftOut

LEMMA FoundIs ==
  ASSUME NEW r, NEW i, NEW c, NEW anchors \in Found(r, i, c)
  PROVE  anchors \in SUBSET Seen(r, i)
BY DEF Found

LEMMA NoteSaved ==
  ASSUME Sound(db), Known(db, Vetted), ReviewsOK, Vetted \subseteq Related,
         NEW t \in Turns, NEW anchors \in SUBSET Facts, SaveNote(t, anchors)
  PROVE  /\ SavedIn(db', db, anchors, review[t].contents[1]) /\ Known(db', Vetted')
         /\ Vetted' \subseteq Related
<1> DEFINE c == review[t].contents[1]
<1>1. c \in Contents
  <2>1. review[t].contents \in Seq(Contents) /\ review[t].contents # <<>>
    BY DEF ReviewsOK, ReviewRec, SaveNote, Idle
  <2> QED
    BY <2>1
<1>2. /\ review[t].seen[1] \in Candidates(db, c) /\ MayOpen(db, anchors, c, t)
      /\ anchors = {} => Room(db, 1)
      /\ db' = IF anchors # {} THEN Open(db, anchors, c, t) ELSE Add(db, c)
      /\ judged' = judged \cup Compared(t, 1, c)
      /\ overlooked' = overlooked \cup (IF anchors = {} THEN LeftOut(t, 1, c) ELSE {})
  BY DEF SaveNote
<1> HIDE DEF c
<1>3. anchors = {} => Unused(db) # {}
  <2>1. 1 \in Nat /\ 1 # 0
    OBVIOUS
  <2> QED
    BY <1>2, <2>1, RoomIs
<1>4. t \in Origins
  BY DEF Origins
<1>5. SavedIn(db', db, anchors, c)
  <2>1. anchors = {} => Unused(db) # {}
    BY <1>3
  <2>2. db' = IF anchors # {} THEN Open(db, anchors, c, t) ELSE Add(db, c)
    BY <1>2
  <2>3. MayOpen(db, anchors, c, t)
    BY <1>2
  <2> QED
    BY <1>1, <1>4, <2>1, <2>2, <2>3, SaveSaved
<1>6. ASSUME anchors = {}, Holders(db, c) = {}, NEW f \in Live(db), {c, db.fact[f].content} \in Related
      PROVE  {c, db.fact[f].content} \in Vetted'
  <2>1. {c, db.fact[f].content} \in Compared(t, 1, c) \cup LeftOut(t, 1, c)
    BY <1>2, <1>6, ReviewCovers
  <2> QED
    BY <1>2, <1>6, <2>1 DEF Vetted
<1>7. Known(db', Vetted')
  <2>1. Vetted \subseteq Vetted'
    BY <1>2 DEF Vetted
  <2> HIDE DEF Vetted
  <2> QED
    BY <1>5, <1>6, <2>1, SaveKnown
<1>8. Vetted' \subseteq Related
  BY <1>2, ComparedIs DEF Vetted
<1> QED
  BY <1>5, <1>7, <1>8 DEF c

\* A fact a review may open a conflict about can still be one after others were saved.
LEMMA MayStill ==
  ASSUME NEW d, NEW e, NEW S, NEW c, MayOpen(d, S, c, "implicit"),
         \A f \in Live(d) : f \in Live(e) /\ e.fact[f].content = d.fact[f].content
  PROVE  MayOpen(e, S, c, "implicit")
<1>1. \A g : ~Decided(d, g, c, "implicit")
  BY ConflictsAssumption DEF Decided
<1> QED
  BY <1>1 DEF MayOpen

LEMMA BatchSaved ==
  ASSUME Sound(db), Known(db, Vetted), ReviewsOK, Vetted \subseteq Related, CommitBatch
  PROVE  /\ Sound(db') /\ Known(db', Vetted') /\ Vetted' \subseteq Related
         /\ db.conflicts \subseteq db'.conflicts
         /\ \A o \in db'.conflicts : o \in db.conflicts \/ o.status = "pending"
<1> DEFINE contents == review["implicit"].contents
           n == Len(contents)
           first == contents[1]
           second == contents[n]
<1>1. /\ contents \in Seq(Contents) /\ n \in {1, 2} /\ first \in Contents /\ second \in Contents
      /\ "implicit" \in Origins
  <2>1. contents \in Seq(Contents) /\ contents # <<>> /\ n \in 0..2
    BY DEF ReviewsOK, ReviewRec, CommitBatch, Idle
  <2>2. n \in {1, 2}
    BY <2>1
  <2> QED
    BY <2>1, <2>2 DEF Origins
<1>2. PICK said \in Contents, probes \in SUBSET Queried, one \in Found("implicit", 1, first),
           two \in Found("implicit", n, second), within \in BOOLEAN :
        /\ n = 1 => two = {} /\ ~within
        /\ Commit(probes, said, one, two, within)
  BY DEF CommitBatch
<1> DEFINE d0 == Open(db, probes, said, "implicit")
           d1 == SaveReviewed(d0, one, first)
           anchors == two \cup (IF within THEN {Holder(d1, first)} ELSE {})
<1>3. /\ within => one = {} /\ first # second
      /\ MayOpen(db, probes, said, "implicit")
      /\ MayOpen(db, one, first, "implicit") /\ MayOpen(db, two, second, "implicit")
      /\ db' = IF n = 1 THEN d1 ELSE SaveReviewed(d1, anchors, second)
      /\ judged' = judged \cup Compared("implicit", 1, first) \cup Compared("implicit", n, second)
                        \cup (IF one = {} THEN Related \cap {{first, second}} ELSE {})
      /\ overlooked' = overlooked \cup (IF one = {} THEN LeftOut("implicit", 1, first) ELSE {})
                                \cup (IF two = {} THEN LeftOut("implicit", n, second) ELSE {})
  BY <1>2 DEF Commit
<1>4. /\ review["implicit"].query \in AllCandidates(db) /\ Room(db, n)
      /\ review["implicit"].seen[1] \in Candidates(db, first)
      /\ review["implicit"].seen[n] \in Candidates(db, second)
  <2>1. ReviewHolds(contents) /\ Room(db, n)
    BY DEF CommitBatch
  <2>2. 1 \in 1..n /\ n \in 1..n
    BY <1>1
  <2> QED
    BY <2>1, <2>2 DEF ReviewHolds
<1> HIDE DEF contents, n, first, second
<1>5. /\ Queried \subseteq Live(db) /\ Live(db) \subseteq Facts
      /\ Seen("implicit", 1) \subseteq Live(db) /\ Seen("implicit", n) \subseteq Live(db)
  BY <1>4, SeenIs, QueriedIs DEF Live
<1>6. probes \in SUBSET Facts /\ one \in SUBSET Facts /\ two \in SUBSET Facts
  BY <1>2, <1>5, FoundIs
<1>7. Unused(db) # {} /\ (n = 2 => \A f : Unused(db) \ {f} # {})
  BY <1>1, <1>4, RoomIs
<1>8. /\ SavedIn(d0, db, {}, said) /\ Sound(d0) /\ Live(d0) = Live(db) /\ Unused(d0) = Unused(db)
  <2>1. SavedIn(d0, db, {"any"}, said)
    BY <1>1, <1>2, <1>3, <1>6, OpenSaved
  <2>2. Live(d0) = Live(db) /\ Unused(d0) = Unused(db)
    BY <2>1 DEF SavedIn
  <2> QED
    BY <2>1, <2>2 DEF SavedIn
<1>9. \A f \in Live(db) : f \in Live(d0) /\ d0.fact[f].content = db.fact[f].content
  BY <1>8 DEF SavedIn
<1> HIDE DEF d0
<1>10. /\ SavedIn(d1, d0, one, first)
       /\ one = {} => Holder(d1, first) \in Live(d1) /\ d1.fact[Holder(d1, first)].content = first
  <2>1. MayOpen(d0, one, first, "implicit")
    BY <1>3, <1>9, MayStill
  <2>2. one = {} => Unused(d0) # {}
    BY <1>7, <1>8
  <2>3. d1 = IF one # {} THEN Open(d0, one, first, "implicit") ELSE Add(d0, first)
    BY DEF SaveReviewed
  <2> HIDE DEF d1
  <2> QED
    BY <1>1, <1>6, <1>8, <2>1, <2>2, <2>3, SaveSaved
<1> HIDE DEF d1
<1>11. Sound(d1) /\ Live(d1) \subseteq Facts
  BY <1>10 DEF SavedIn, Live
<1>12. \A f \in Live(db) : f \in Live(d1) /\ d1.fact[f].content = db.fact[f].content
  BY <1>9, <1>10 DEF SavedIn
<1>13. Known(d0, Vetted)
  <2>1. \A f \in Live(d0) : d0.fact[f].content = db.fact[f].content
    BY <1>8, <1>9
  <2> QED
    BY <1>8, <2>1, KnownLess
<1>a. ASSUME one = {}, Holders(db, first) = {}, NEW f \in Live(db),
             {first, db.fact[f].content} \in Related
      PROVE  {first, db.fact[f].content} \in Vetted'
  <2>1. {first, db.fact[f].content} \in Compared("implicit", 1, first) \cup LeftOut("implicit", 1, first)
    BY <1>4, <1>a, ReviewCovers
  <2> QED
    BY <1>3, <1>a, <2>1 DEF Vetted
<1>b. ASSUME two = {}, Holders(db, second) = {}, NEW f \in Live(db),
             {second, db.fact[f].content} \in Related
      PROVE  {second, db.fact[f].content} \in Vetted'
  <2>1. {second, db.fact[f].content} \in Compared("implicit", n, second) \cup LeftOut("implicit", n, second)
    BY <1>4, <1>b, ReviewCovers
  <2> QED
    BY <1>3, <1>b, <2>1 DEF Vetted
<1>14. Known(d1, Vetted')
  <2>1. Vetted \subseteq Vetted'
    BY <1>3 DEF Vetted
  <2>2. ASSUME one = {}, Holders(d0, first) = {}, NEW f \in Live(d0),
               {first, d0.fact[f].content} \in Related
        PROVE  {first, d0.fact[f].content} \in Vetted'
    <3>1. f \in Live(db) /\ d0.fact[f].content = db.fact[f].content
      BY <1>8, <1>9
    <3>2. Holders(db, first) = {}
      BY <1>9, <2>2 DEF Holders
    <3> QED
      BY <1>a, <2>2, <3>1, <3>2
  <2> QED
    BY <1>10, <1>13, <2>1, <2>2, SaveKnown
<1>15. Vetted' \subseteq Related
  <2>1. /\ Compared("implicit", 1, first) \subseteq Related
        /\ Compared("implicit", n, second) \subseteq Related
        /\ LeftOut("implicit", 1, first) \subseteq Related
        /\ LeftOut("implicit", n, second) \subseteq Related
    BY ComparedIs
  <2> QED
    BY <1>3, <2>1 DEF Vetted
<1>16. CASE n = 1
  <2>1. db' = d1
    BY <1>3, <1>16
  <2> QED
    BY <1>8, <1>10, <1>11, <1>14, <1>15, <2>1 DEF SavedIn
<1>17. CASE n = 2
  <2>1. db' = SaveReviewed(d1, anchors, second)
    BY <1>3, <1>17
  <2>2. anchors \in SUBSET Facts /\ (anchors = {} => two = {} /\ ~within)
    BY <1>3, <1>6, <1>10, <1>11
  <2>3. MayOpen(d1, anchors, second, "implicit")
    <3>1. MayOpen(d1, two, second, "implicit")
      BY <1>3, <1>12, MayStill
    <3>2. within => Holder(d1, first) \in Live(d1) /\ d1.fact[Holder(d1, first)].content # second
      BY <1>3, <1>10
    <3> QED
      BY <3>1, <3>2 DEF MayOpen
  <2>4. Unused(d1) # {}
    BY <1>7, <1>8, <1>10, <1>17 DEF SavedIn
  <2> HIDE DEF anchors
  <2>5. SavedIn(db', d1, anchors, second)
    <3>1. db' = IF anchors # {} THEN Open(d1, anchors, second, "implicit") ELSE Add(d1, second)
      BY <2>1 DEF SaveReviewed
    <3>2. anchors = {} => Unused(d1) # {}
      BY <2>4
    <3> QED
      BY <1>1, <1>11, <2>2, <2>3, <3>1, <3>2, SaveSaved
  <2>6. ASSUME anchors = {}, Holders(d1, second) = {}, NEW f \in Live(d1),
               {second, d1.fact[f].content} \in Related
        PROVE  {second, d1.fact[f].content} \in Vetted'
    <3>1. CASE f \in Live(db)
      <4>1. d1.fact[f].content = db.fact[f].content
        BY <1>12, <3>1
      <4>2. Holders(db, second) = {}
        BY <1>12, <2>6 DEF Holders
      <4> QED
        BY <1>b, <2>2, <2>6, <3>1, <4>1, <4>2
    <3>2. CASE f \notin Live(db)
      <4>1. one = {} /\ d1.fact[f].content = first
        BY <1>8, <1>10, <3>2 DEF SavedIn
      <4>2. {first, second} = {second, first}
        OBVIOUS
      <4> QED
        BY <1>3, <2>6, <4>1, <4>2 DEF Vetted
    <3> QED
      BY <3>1, <3>2
  <2>7. Known(db', Vetted')
    BY <1>14, <2>5, <2>6, SaveKnown
  <2> QED
    BY <1>8, <1>10, <1>15, <2>5, <2>7 DEF SavedIn
<1> QED
  BY <1>1, <1>16, <1>17

-----------------------------------------------------------------------------
(* Every step                                                              *)

LEMMA ReviewSet ==
  ASSUME ReviewsOK, NEW r \in Turns \cup {"implicit"}, NEW R \in ReviewRec, Len(R.contents) \in 0..2,
         review' = [review EXCEPT ![r] = R]
  PROVE  ReviewsOK'
BY DEF ReviewsOK

LEMMA NothingReviewed == NoReview \in ReviewRec /\ Len(NoReview.contents) \in 0..2
<1>1. <<>> \in Seq(Contents) /\ <<>> \in Seq(Snapshot) /\ Len(<<>>) = 0
  OBVIOUS
<1>2. {} \in Snapshot
  BY DEF Snapshot
<1> QED
  BY <1>1, <1>2 DEF NoReview, ReviewRec

\* What a review sees are facts that are valid, or in quarantine.
LEMMA CandidatesSeen ==
  /\ \A c : Candidates(db, c) \subseteq Snapshot
  /\ AllCandidates(db) \subseteq Snapshot
<1>1. ASSUME NEW S \in SUBSET Live(db), NEW shown \in Snapshots(db, S) PROVE shown \in Snapshot
  <2>1. PICK T \in IF Cardinality(S) <= MaxShown THEN {S} ELSE kSubset(MaxShown, S) :
           shown = {<<f, db.fact[f].status>> : f \in T}
    BY <1>1 DEF Snapshots
  <2>2. T \in SUBSET Live(db)
    BY <1>1, <2>1 DEF kSubset
  <2> QED
    BY <2>1, <2>2 DEF Live, Snapshot
<1> QED
  BY <1>1 DEF Candidates, AllCandidates

\* A review that starts, is repeated or is given up.
LEMMA ReviewStep ==
  ASSUME ReviewsOK
  PROVE  /\ \A t \in Turns : \A c \in Contents : StartNote(t, c) => ReviewsOK'
         /\ \A t \in Turns : StaleNote(t) => ReviewsOK'
         /\ \A t \in Turns : \A anchors : SaveNote(t, anchors) => ReviewsOK'
         /\ \A c \in Contents : StartBatch(<<c>>) => ReviewsOK'
         /\ \A c, e \in Contents : StartBatch(<<c, e>>) => ReviewsOK'
         /\ StaleBatch => ReviewsOK'
         /\ CommitBatch => ReviewsOK'
<1>1. ASSUME NEW t \in Turns, NEW c \in Contents, StartNote(t, c) PROVE ReviewsOK'
  <2>0. PICK shown \in Candidates(db, c) :
          review' = [review EXCEPT ![t] = [contents |-> <<c>>, seen |-> <<shown>>, query |-> {}, again |-> FALSE]]
    BY <1>1 DEF StartNote
  <2> DEFINE R == [contents |-> <<c>>, seen |-> <<shown>>, query |-> {}, again |-> FALSE]
  <2>1. <<c>> \in Seq(Contents) /\ Len(<<c>>) = 1
    OBVIOUS
  <2>a. <<shown>> \in Seq(Snapshot) /\ {} \in Snapshot
    <3>1. shown \in Snapshot
      BY CandidatesSeen
    <3> QED
      BY <3>1 DEF Snapshot
  <2>2. R \in ReviewRec /\ Len(R.contents) \in 0..2 /\ review' = [review EXCEPT ![t] = R]
    BY <2>0, <2>1, <2>a DEF ReviewRec
  <2> HIDE DEF R
  <2> QED
    BY <2>2, ReviewSet
<1>2. ASSUME NEW t \in Turns, StaleNote(t) PROVE ReviewsOK'
  <2>0. PICK now \in Candidates(db, review[t].contents[1]) :
          review' = [review EXCEPT ![t] =
                IF @.again THEN NoReview ELSE [@ EXCEPT !.seen = <<now>>, !.again = TRUE]]
    BY <1>2, Zenon DEF StaleNote
  <2> DEFINE R == IF review[t].again THEN NoReview ELSE [review[t] EXCEPT !.seen = <<now>>, !.again = TRUE]
  <2>1. review[t] \in ReviewRec /\ Len(review[t].contents) \in 0..2 /\ t \in DOMAIN review
    BY DEF ReviewsOK
  <2>2. <<now>> \in Seq(Snapshot)
    <3>1. now \in Snapshot
      BY CandidatesSeen
    <3> QED
      BY <3>1
  <2>3. review' = [review EXCEPT ![t] = R]
    <3>1. CASE review[t].again
      BY <2>0, <2>1, <3>1
    <3>2. CASE ~review[t].again
      <4>1. review' = [review EXCEPT ![t] = [@ EXCEPT !.seen = <<now>>, !.again = TRUE]]
        BY <2>0, <3>2, Zenon
      <4> QED
        BY <3>2, <4>1, Zenon
    <3> QED
      BY <3>1, <3>2
  <2>4. R \in ReviewRec /\ Len(R.contents) \in 0..2
    <3>1. CASE review[t].again
      BY <3>1, NothingReviewed
    <3>2. CASE ~review[t].again
      <4>1. R = [review[t] EXCEPT !.seen = <<now>>, !.again = TRUE]
        BY <3>2
      <4>2. R.contents = review[t].contents /\ R \in ReviewRec
        BY <2>1, <2>2, <4>1 DEF ReviewRec
      <4> QED
        BY <2>1, <4>2
    <3> QED
      BY <3>1, <3>2
  <2> HIDE DEF R
  <2> QED
    BY <2>3, <2>4, ReviewSet
<1>3. ASSUME NEW t \in Turns, NEW anchors, SaveNote(t, anchors) PROVE ReviewsOK'
  <2>1. review' = [review EXCEPT ![t] = NoReview]
    BY <1>3 DEF SaveNote
  <2> QED
    BY <2>1, NothingReviewed, ReviewSet
<1>4. ASSUME NEW contents \in Seq(Contents), Len(contents) \in 0..2, StartBatch(contents)
      PROVE  ReviewsOK'
  <2>0. PICK query \in AllCandidates(db),
             one \in Candidates(db, contents[1]), two \in Candidates(db, contents[Len(contents)]) :
          review' = [review EXCEPT !["implicit"] =
                [contents |-> contents, seen |-> <<one, two>>, query |-> query, again |-> FALSE]]
    BY <1>4 DEF StartBatch
  <2> DEFINE R == [contents |-> contents, seen |-> <<one, two>>, query |-> query, again |-> FALSE]
  <2>a. <<one, two>> \in Seq(Snapshot) /\ query \in Snapshot
    <3>1. one \in Snapshot /\ two \in Snapshot /\ query \in Snapshot
      BY CandidatesSeen
    <3> QED
      BY <3>1
  <2>1. R \in ReviewRec /\ Len(R.contents) \in 0..2 /\ review' = [review EXCEPT !["implicit"] = R]
    BY <1>4, <2>0, <2>a DEF ReviewRec
  <2> HIDE DEF R
  <2> QED
    BY <2>1, ReviewSet
<1>5. StaleBatch \/ CommitBatch => ReviewsOK'
  <2>1. StaleBatch \/ CommitBatch => review' = [review EXCEPT !["implicit"] = NoReview]
    BY DEF StaleBatch, CommitBatch
  <2> QED
    BY <2>1, NothingReviewed, ReviewSet
<1>6. \A c, e \in Contents : /\ <<c>> \in Seq(Contents) /\ Len(<<c>>) \in 0..2
                             /\ <<c, e>> \in Seq(Contents) /\ Len(<<c, e>>) \in 0..2
  OBVIOUS
<1> QED
  BY <1>1, <1>2, <1>3, <1>4, <1>5, <1>6

\* The property of KeptStaysKept, of one step.
KeptHere ==
    ChoiceMade =>
          \A k \in db.conflicts : \A f \in Facts \ {k.anchor} :
             /\ k.status = "existing"
             /\ db.fact[f].status # "active" /\ db'.fact[f].status = "active"
             /\ db'.fact[f].content = k.candidate
             => db'.fact[k.anchor].status # "active"

\* The other decisions are no choice of a candidate: a conflict that was decided
\* against its anchor is never pending again.
LEMMA NoChoice ==
  ASSUME Sound(db), ChosenBefore
  PROVE  KeptHere
<1>1. ASSUME NEW k \in Pending(db), NEW choice \in {"candidate", "custom"},
             Set(k, choice) \in db'.conflicts
      PROVE  FALSE
  <2>1. k \in ConflictRec /\ k \in db.conflicts /\ k.status = "pending"
    BY DEF Sound, Fit, Table, Pending
  <2>2. Set(k, choice).status = choice
    BY <2>1, RowSet DEF Resolutions
  <2>3. Set(k, choice) \in db.conflicts
    BY <1>1, <2>2 DEF ChosenBefore
  <2>4. Set(Set(k, choice), "pending") \notin db.conflicts
    BY <2>2, <2>3 DEF Sound, Fit, Lost, Set
  <2>5. Set(Set(k, choice), "pending") = k
    BY <2>1, RowReset
  <2> QED
    BY <2>1, <2>4, <2>5
<1> QED
  BY <1>1 DEF KeptHere, ChoiceMade, Set

LEMMA NoneClosed ==
  ASSUME db.conflicts \subseteq db'.conflicts
  PROVE  KeptHere
BY DEF KeptHere, ChoiceMade, Pending

\* A choice makes one fact valid that was not, and puts in quarantine what an earlier
\* decision had kept over it.
LEMMA WithKept ==
  ASSUME Sound(db), NEW k \in db.conflicts, NEW c \in Contents, NEW res \in {"candidate", "custom"},
         res = "candidate" => c = k.candidate, ResolveWith(k, c, res)
  PROVE  KeptHere
<1>1. k.anchor \in Facts /\ db'.fact[k.anchor].status = "superseded"
  BY WithSound
<1>2. PICK w \in Facts \ {k.anchor} :
              /\ Live(db') \subseteq Live(db) \cup {w}
              /\ w \in Live(db) \cup Unused(db)
              /\ db'.fact[w].content = c
              /\ \A f \in Facts \ {w} :
                   /\ db'.fact[f].content = db.fact[f].content
                   /\ db'.fact[f].status = "active" => db.fact[f].status = "active"
              /\ \A f \in KeptOver(db, c, k.anchor) \ {w} : db'.fact[f].status # "active"
  BY WithSound
<1>3. ASSUME NEW j \in db.conflicts, NEW f \in Facts \ {j.anchor}, j.status = "existing",
             db.fact[f].status # "active", db'.fact[f].status = "active",
             db'.fact[f].content = j.candidate, db'.fact[j.anchor].status = "active"
      PROVE  FALSE
  <2>1. f = w /\ c = j.candidate
    BY <1>2, <1>3
  <2>2. j.anchor \in Facts \ {w}
    BY <1>3, <2>1 DEF Sound, Fit, Table, ConflictRec
  <2>3. j.anchor # k.anchor /\ db.fact[j.anchor].status = "active"
    BY <1>1, <1>2, <1>3, <2>2
  <2>4. j.anchor \in KeptOver(db, c, k.anchor)
    BY <1>3, <2>1, <2>2, <2>3 DEF KeptOver, Live
  <2> QED
    BY <1>2, <1>3, <2>2, <2>4
<1> QED
  BY <1>3 DEF KeptHere

LEMMA WithKnown ==
  ASSUME Sound(db), Known(db, Vetted), Vetted \subseteq Related,
         NEW k \in db.conflicts, NEW c \in Contents, NEW res \in {"candidate", "custom"},
         res = "candidate" => c = k.candidate, ResolveWith(k, c, res)
  PROVE  Known(db', Vetted') /\ Vetted' \subseteq Related
<1>1. PICK w \in Facts \ {k.anchor} :
              /\ Live(db') \subseteq Live(db) \cup {w}
              /\ w \in Live(db) \cup Unused(db)
              /\ db'.fact[w].content = c
              /\ \A f \in Facts \ {w} :
                   /\ db'.fact[f].content = db.fact[f].content
                   /\ db'.fact[f].status = "active" => db.fact[f].status = "active"
              /\ \A f \in KeptOver(db, c, k.anchor) \ {w} : db'.fact[f].status # "active"
  BY WithSound
<1>2. judged' = judged \cup {p \in Related : c \in p} /\ UNCHANGED overlooked
  BY DEF ResolveWith
<1>3. Live(db') \subseteq Facts
  BY DEF Live
<1>4. \A f \in Live(db') \ {w} : db'.fact[f].content = db.fact[f].content
  BY <1>1, <1>3
<1>5. \A f \in Live(db') \ {w} :
            /\ db'.fact[w].content # db'.fact[f].content
            /\ {db'.fact[w].content, db'.fact[f].content} \in Related
            => {db'.fact[w].content, db'.fact[f].content} \in Vetted'
  BY <1>1, <1>2 DEF Vetted
<1>6. Live(db') \subseteq Live(db) \cup {w} /\ Vetted \subseteq Vetted'
  BY <1>1, <1>2 DEF Vetted
<1>7. Known(db', Vetted')
  BY <1>4, <1>5, <1>6, KnownStill
<1> QED
  BY <1>2, <1>7 DEF Vetted

LEMMA UpdateKnown ==
  ASSUME Sound(db), Known(db, Vetted), Vetted \subseteq Related,
         NEW f \in Facts, NEW c \in Contents, UpdateFact(f, c)
  PROVE  Known(db', Vetted') /\ Vetted' \subseteq Related
<1>1. PICK h \in Facts :
              /\ Live(db') \subseteq Live(db) \cup {h} /\ db'.fact[h].content = c
              /\ \A g \in Facts \ {h} : db'.fact[g].content = db.fact[g].content
  BY UpdateSound
<1>2. judged' = judged \cup {p \in Related : c \in p} /\ UNCHANGED overlooked
  BY DEF UpdateFact
<1>3. Live(db') \subseteq Facts
  BY DEF Live
<1>4. \A g \in Live(db') \ {h} : db'.fact[g].content = db.fact[g].content
  BY <1>1, <1>3
<1>5. \A g \in Live(db') \ {h} :
            /\ db'.fact[h].content # db'.fact[g].content
            /\ {db'.fact[h].content, db'.fact[g].content} \in Related
            => {db'.fact[h].content, db'.fact[g].content} \in Vetted'
  BY <1>1, <1>2 DEF Vetted
<1>6. Live(db') \subseteq Live(db) \cup {h} /\ Vetted \subseteq Vetted'
  BY <1>1, <1>2 DEF Vetted
<1>7. Known(db', Vetted')
  BY <1>4, <1>5, <1>6, KnownStill
<1> QED
  BY <1>2, <1>7 DEF Vetted

LEMMA ConflictInit == Init => ConflictInv
<1> SUFFICES ASSUME Init PROVE ConflictInv
  OBVIOUS
<1>1. Blank \in FactRec
  BY DEF Blank, FactRec
<1>2. db = [fact |-> [f \in Facts |-> Blank], conflicts |-> {}]
  BY DEF Init
<1>3. db \in Table /\ db.conflicts = {} /\ \A f \in Facts : db.fact[f].status = "none"
  BY <1>1, <1>2 DEF Table, Blank
<1>4. Live(db) = {} /\ Pending(db) = {}
  BY <1>3 DEF Live, Pending
<1>5. Sound(db) /\ Known(db, Vetted)
  BY <1>3, <1>4 DEF Sound, Fit, Distinct, Sealed, Anchored, Stored, Lost, Known
<1>6. ReviewsOK
  BY NothingReviewed DEF Init, ReviewsOK
<1>7. Vetted \subseteq Related /\ reviews \in 0..MaxReviews
  BY ConflictsAssumption DEF Init, Vetted
<1> QED
  BY <1>5, <1>6, <1>7 DEF ConflictInv

\* What every step keeps, and what it leaves of earlier decisions.
LEMMA ConflictStep == ConflictInv /\ [Next]_vars => ConflictInv' /\ KeptHere
<1> SUFFICES ASSUME ConflictInv, [Next]_vars PROVE ConflictInv' /\ KeptHere
  OBVIOUS
<1>i. /\ Sound(db) /\ Known(db, Vetted) /\ ReviewsOK
      /\ Vetted \subseteq Related /\ reviews \in 0..MaxReviews
  BY DEF ConflictInv
<1>s. ASSUME UNCHANGED db PROVE Sound(db') /\ KeptHere
  BY <1>i, <1>s, NoneClosed
<1>k. ASSUME UNCHANGED <<db, judged, overlooked>> PROVE Known(db', Vetted') /\ Vetted' \subseteq Related
  BY <1>i, <1>k DEF Vetted
<1>r. ASSUME UNCHANGED review PROVE ReviewsOK'
  BY <1>i, <1>r DEF ReviewsOK
<1>n. /\ UNCHANGED reviews => reviews' \in 0..MaxReviews
      /\ Reviews => reviews' \in 0..MaxReviews
  BY <1>i, ConflictsAssumption DEF Reviews
<1> USE DEF ConflictInv
<1>1. ASSUME NEW t \in Turns, NEW c \in Contents, StartNote(t, c) PROVE ConflictInv' /\ KeptHere
  <2>1. UNCHANGED <<db, judged, overlooked>> /\ Reviews
    BY <1>1 DEF StartNote
  <2>2. ReviewsOK'
    BY <1>1, <1>i, ReviewStep
  <2> QED
    BY <2>1, <2>2, <1>s, <1>k, <1>n
<1>2. ASSUME NEW t \in Turns, NEW anchors \in SUBSET Facts, SaveNote(t, anchors)
      PROVE  ConflictInv' /\ KeptHere
  <2>1. /\ SavedIn(db', db, anchors, review[t].contents[1]) /\ Known(db', Vetted')
        /\ Vetted' \subseteq Related
    BY <1>2, <1>i, NoteSaved
  <2>2. Sound(db') /\ db.conflicts \subseteq db'.conflicts
    BY <2>1 DEF SavedIn
  <2>3. ReviewsOK' /\ UNCHANGED reviews
    BY <1>2, <1>i, ReviewStep DEF SaveNote
  <2> QED
    BY <2>1, <2>2, <2>3, <1>n, NoneClosed
<1>3. ASSUME NEW t \in Turns, StaleNote(t) PROVE ConflictInv' /\ KeptHere
  <2>1. UNCHANGED <<db, judged, overlooked>> /\ UNCHANGED reviews
    BY <1>3 DEF StaleNote
  <2>2. ReviewsOK'
    BY <1>3, <1>i, ReviewStep
  <2> QED
    BY <2>1, <2>2, <1>s, <1>k, <1>n
<1>4. ASSUME NEW contents, StartBatch(contents), ReviewsOK' PROVE ConflictInv' /\ KeptHere
  <2>1. UNCHANGED <<db, judged, overlooked>> /\ Reviews
    BY <1>4 DEF StartBatch
  <2> QED
    BY <2>1, <1>4, <1>s, <1>k, <1>n
<1>5. ASSUME CommitBatch PROVE ConflictInv' /\ KeptHere
  <2>1. Sound(db') /\ Known(db', Vetted') /\ Vetted' \subseteq Related /\ db.conflicts \subseteq db'.conflicts
    BY <1>5, <1>i, BatchSaved
  <2>2. ReviewsOK' /\ UNCHANGED reviews
    BY <1>5, <1>i, ReviewStep DEF CommitBatch
  <2> QED
    BY <2>1, <2>2, <1>n, NoneClosed
<1>6. ASSUME StaleBatch PROVE ConflictInv' /\ KeptHere
  <2>1. UNCHANGED <<db, judged, overlooked>> /\ UNCHANGED reviews
    BY <1>6 DEF StaleBatch
  <2>2. ReviewsOK'
    BY <1>6, <1>i, ReviewStep
  <2> QED
    BY <2>1, <2>2, <1>s, <1>k, <1>n
<1>l. ASSUME Sound(db'), Live(db') \subseteq Live(db),
             \A f \in Facts : db'.fact[f].content = db.fact[f].content, Vetted \subseteq Vetted'
      PROVE  Known(db', Vetted')
  <2>1. \A f \in Live(db') : db'.fact[f].content = db.fact[f].content
    BY <1>l DEF Live
  <2> QED
    BY <1>i, <1>l, <2>1, KnownLess
<1>7. ASSUME NEW k \in db.conflicts, ResolveNeither(k) PROVE ConflictInv' /\ KeptHere
  <2>1. /\ Sound(db') /\ Live(db') \subseteq Live(db) /\ ChosenBefore
        /\ \A f \in Facts : db'.fact[f].content = db.fact[f].content
    BY <1>7, <1>i, NeitherSound
  <2>2. UNCHANGED <<review, judged, overlooked, reviews>>
    BY <1>7 DEF ResolveNeither
  <2>3. Vetted \subseteq Vetted' /\ Vetted' \subseteq Related
    BY <2>2, <1>i DEF Vetted
  <2> QED
    BY <2>1, <2>2, <2>3, <1>i, <1>l, <1>r, <1>n, NoChoice
<1>8. ASSUME NEW k \in db.conflicts, ResolveExisting(k) PROVE ConflictInv' /\ KeptHere
  <2>1. /\ Sound(db') /\ Live(db') \subseteq Live(db) /\ ChosenBefore
        /\ \A f \in Facts : db'.fact[f].content = db.fact[f].content
    BY <1>8, <1>i, ExistingSound
  <2>2. judged \subseteq judged' /\ judged' \subseteq judged \cup Related /\ UNCHANGED <<review, overlooked, reviews>>
    BY <1>8, <1>i DEF ResolveExisting
  <2>3. Vetted \subseteq Vetted' /\ Vetted' \subseteq Related
    BY <2>2, <1>i DEF Vetted
  <2> QED
    BY <2>1, <2>2, <2>3, <1>i, <1>l, <1>r, <1>n, NoChoice
<1>9. ASSUME NEW k \in db.conflicts, NEW c \in Contents, NEW res \in {"candidate", "custom"},
             res = "candidate" => c = k.candidate, ResolveWith(k, c, res)
      PROVE  ConflictInv' /\ KeptHere
  <2>1. Sound(db')
    BY <1>9, <1>i, WithSound
  <2>2. Known(db', Vetted') /\ Vetted' \subseteq Related
    BY <1>9, <1>i, WithKnown
  <2>3. KeptHere
    BY <1>9, <1>i, WithKept
  <2>4. UNCHANGED <<review, overlooked, reviews>>
    BY <1>9 DEF ResolveWith
  <2> QED
    BY <2>1, <2>2, <2>3, <2>4, <1>r, <1>n
<1>10. ASSUME NEW k \in db.conflicts, ResolveCandidate(k) PROVE ConflictInv' /\ KeptHere
  <2>1. k.candidate \in Contents
    BY <1>i DEF Sound, Fit, Table, ConflictRec
  <2>2. ResolveWith(k, k.candidate, "candidate")
    BY <1>10 DEF ResolveCandidate
  <2> QED
    BY <2>1, <2>2, <1>9
<1>11. ASSUME NEW k \in db.conflicts, NEW c \in Contents, ResolveCustom(k, c)
       PROVE  ConflictInv' /\ KeptHere
  <2>1. ResolveWith(k, c, "custom")
    BY <1>11 DEF ResolveCustom
  <2> QED
    BY <2>1, <1>9
<1>12. ASSUME NEW f \in Facts, Forget(f) PROVE ConflictInv' /\ KeptHere
  <2>1. /\ Sound(db') /\ Live(db') \subseteq Live(db) /\ ChosenBefore
        /\ \A g \in Facts : db'.fact[g].content = db.fact[g].content
    BY <1>12, <1>i, ForgetSound
  <2>2. UNCHANGED <<review, judged, overlooked, reviews>>
    BY <1>12 DEF Forget
  <2>3. Vetted \subseteq Vetted' /\ Vetted' \subseteq Related
    BY <2>2, <1>i DEF Vetted
  <2> QED
    BY <2>1, <2>2, <2>3, <1>i, <1>l, <1>r, <1>n, NoChoice
<1>13. ASSUME NEW f \in Facts, NEW c \in Contents, UpdateFact(f, c) PROVE ConflictInv' /\ KeptHere
  <2>1. Sound(db') /\ db'.conflicts = db.conflicts
    BY <1>13, <1>i, UpdateSound
  <2>2. Known(db', Vetted') /\ Vetted' \subseteq Related
    BY <1>13, <1>i, UpdateKnown
  <2>3. UNCHANGED <<review, overlooked, reviews>>
    BY <1>13 DEF UpdateFact
  <2> QED
    BY <2>1, <2>2, <2>3, <1>r, <1>n, NoneClosed
<1>14. CASE UNCHANGED vars
  <2>1. UNCHANGED <<db, judged, overlooked>> /\ UNCHANGED db /\ UNCHANGED review /\ UNCHANGED reviews
    BY <1>14 DEF vars
  <2> QED
    BY <2>1, <1>s, <1>k, <1>r, <1>n
<1>15. ASSUME NEW c \in Contents, NEW e \in Contents
       PROVE  /\ StartBatch(<<c>>) => ConflictInv' /\ KeptHere
              /\ StartBatch(<<c, e>>) => ConflictInv' /\ KeptHere
  BY <1>i, <1>4, ReviewStep
<1> QED
  BY <1>1, <1>2, <1>3, <1>5, <1>6, <1>7, <1>8, <1>10, <1>11, <1>12, <1>13, <1>14, <1>15 DEF Next

LEMMA ConflictInvariant == Spec => []ConflictInv
<1>1. Init => ConflictInv
  BY ConflictInit
<1>2. ConflictInv /\ [Next]_vars => ConflictInv'
  BY ConflictStep
<1> QED
  BY <1>1, <1>2, PTL DEF Spec

-----------------------------------------------------------------------------
(* The theorems                                                            *)

\* The tables of the repository, and what is under review, have their types, for any
\* number of contents, facts and conflicts.
THEOREM MemoryTypes == Spec => []TypeOK
<1>1. ConflictInv => TypeOK
  <2> SUFFICES ASSUME ConflictInv PROVE TypeOK
    OBVIOUS
  <2>1. db.fact \in [Facts -> FactRec] /\ db.conflicts \subseteq ConflictRec
    BY DEF ConflictInv, Sound, Fit, Table
  <2>2. ASSUME NEW r \in Turns \cup {"implicit"}
        PROVE  /\ review[r].again \in BOOLEAN
               /\ Len(review[r].contents) \in 0..2
               /\ review[r].query \subseteq Facts \X {"active", "conflicted"}
               /\ \A i \in DOMAIN review[r].seen :
                     review[r].seen[i] \subseteq Facts \X {"active", "conflicted"}
    <3>1. review[r] \in ReviewRec /\ Len(review[r].contents) \in 0..2
      BY DEF ConflictInv, ReviewsOK
    <3> QED
      BY <3>1 DEF ReviewRec, Snapshot
  <2> QED
    BY <2>1, <2>2 DEF ConflictInv, TypeOK, Vetted
<1> QED
  BY <1>1, ConflictInvariant, PTL

\* A content is held by one fact at most, however notes, batches and the user's
\* decisions about conflicts interleave: a decision about it decides about all there is.
THEOREM ContentHeldOnce == Spec => []OneHolder
<1>1. ConflictInv => OneHolder
  <2> SUFFICES ASSUME ConflictInv, NEW c \in Contents PROVE Cardinality(Holders(db, c)) <= 1
    BY DEF OneHolder
  <2>1. \A f, g \in Holders(db, c) : f = g
    BY DEF ConflictInv, Sound, Fit, Distinct, Holders
  <2>2. CASE Holders(db, c) = {}
    <3>1. Cardinality(Holders(db, c)) = 0
      BY <2>2, FS_EmptySet
    <3> QED
      BY <3>1
  <2>3. CASE Holders(db, c) # {}
    <3>1. PICK f : f \in Holders(db, c)
      BY <2>3
    <3>2. Holders(db, c) = {f}
      BY <2>1, <3>1
    <3>3. Cardinality({f}) = 1
      BY FS_Singleton
    <3> QED
      BY <3>2, <3>3
  <2> QED
    BY <2>2, <2>3
<1> QED
  BY <1>1, ConflictInvariant, PTL

\* While a conflict is pending neither side of it is recalled, and no fact stays in
\* quarantine without a conflict the user can decide.
THEOREM QuarantineHolds == Spec => []QuarantineAgrees
<1>1. ConflictInv => QuarantineAgrees
  BY DEF ConflictInv, Sound, Fit, Sealed, QuarantineAgrees, Quarantined, Released
<1> QED
  BY <1>1, ConflictInvariant, PTL

\* What a review has found can be decided: whatever was decided before, its anchor, or
\* what took its place, is still in quarantine.
THEOREM ConflictsDecidable == Spec => []FoundIsDecidable
<1>1. ConflictInv => FoundIsDecidable
  BY DEF ConflictInv, Sound, Anchored, FoundIsDecidable
<1> QED
  BY <1>1, ConflictInvariant, PTL

\* Related facts are valid side by side only after a review, or the user, has compared
\* them, or one was saved by a review that was shown MaxShown other facts: a fact stored
\* while another was under review does not slip by, for any number a review is shown.
THEOREM SideBySideCompared == Spec => []ActiveTogetherCompared
<1>1. ConflictInv => ActiveTogetherCompared
  <2> SUFFICES ASSUME ConflictInv, NEW f \in Facts, NEW g \in Facts,
                      db.fact[f].status = "active", db.fact[g].status = "active",
                      db.fact[f].content # db.fact[g].content,
                      {db.fact[f].content, db.fact[g].content} \in Related
               PROVE  {db.fact[f].content, db.fact[g].content} \in judged \cup overlooked
    BY DEF ActiveTogetherCompared, SideBySide
  <2>1. f \in Live(db) /\ g \in Live(db)
    BY DEF Live
  <2> QED
    BY <2>1 DEF ConflictInv, Known, Vetted
<1> QED
  BY <1>1, ConflictInvariant, PTL

\* A choice of the user for a content does not reverse an earlier decision that kept
\* another fact over the same content.
THEOREM EarlierDecisionsStay == Spec => KeptStaysKept
<1>1. ConflictInv /\ [Next]_vars => [KeptHere]_vars
  BY ConflictStep
<1>2. KeptStaysKept <=> [][KeptHere]_vars
  BY DEF KeptStaysKept, KeptHere
<1> QED
  BY <1>1, <1>2, ConflictInvariant, PTL DEF Spec


-----------------------------------------------------------------------------
(* The vector index                                                        *)

CONSTANTS Workers, MaxChanges, MaxFailures, MaxCrashes
VARIABLES indexer, retired, changes, faults, outages

Index == INSTANCE VectorIndex

\* What holds of an entry that never had two workers: one carries a job for it at most,
\* and only while it is not completed; a job for an entry that is being processed, and
\* so was not replaced, does what is to be done; and what is completed was done.
EntryTrue(i) ==
    LET e == outbox[i] IN
    /\ i \in live => e.operation = "upsert"
    /\ i \notin contended =>
          /\ \A v, w \in Workers : Index!Carries(v, i) /\ Index!Carries(w, i) => v = w
          /\ \A w \in Workers : Index!Carries(w, i) =>
                /\ e.status # "completed"
                /\ e.status = "processing" =>
                      (indexer[w].jobs[i].operation = "upsert" <=> i \in live)
          /\ e.status = "completed" => (i \in vector <=> i \in live)
    /\ e.status = "none" => /\ i \notin live /\ i \notin vector
                            /\ \A w \in Workers : ~Index!Carries(w, i)

IndexInv == Index!TypeOK /\ \A i \in Index!Items : EntryTrue(i)

LEMMA FreshIs ==
  ASSUME NEW operation \in {"upsert", "delete"}
  PROVE  /\ Index!Fresh(operation) \in Index!Entry
         /\ Index!Fresh(operation).status = "pending"
         /\ Index!Fresh(operation).operation = operation
<1> DEFINE e == [Index!NoEntry EXCEPT !.status = "pending", !.operation = operation]
<1>1. Index!NoEntry \in Index!Entry
  BY IndexAssumption DEF Index!NoEntry, Index!Entry, Index!Operations
<1>2. e \in Index!Entry /\ e.status = "pending" /\ e.operation = operation
  BY <1>1 DEF Index!Entry, Index!Operations
<1> QED
  BY <1>2 DEF Index!Fresh

LEMMA UnbornIs ==
         /\ Index!Unborn \in Index!IndexerRec
         /\ \A i \in Index!Items : Index!Unborn.jobs[i] = Index!NoJob
         /\ \A label \in {"unborn", "preparing", "wait", "round", "embed", "dead"} :
               /\ [Index!Unborn EXCEPT !.pc = label] \in Index!IndexerRec
               /\ \A i \in Index!Items : [Index!Unborn EXCEPT !.pc = label].jobs[i] = Index!NoJob
<1> DEFINE none == [i \in Index!Items |-> Index!NoJob]
<1>1. none \in [Index!Items -> Index!Jobs] /\ \A i \in Index!Items : none[i] = Index!NoJob
  BY IndexAssumption DEF Index!NoJob, Index!Jobs
<1>2. Index!Unborn = [pc |-> "unborn", jobs |-> none]
  BY DEF Index!Unborn
<1> HIDE DEF none
<1> QED
  BY <1>1, <1>2 DEF Index!IndexerRec

\* A worker that goes anywhere by Goto drops its jobs.
LEMMA IndexGoto ==
  ASSUME Index!TypeOK, NEW w \in Workers,
         NEW label \in {"unborn", "preparing", "wait", "round", "embed", "dead"}, Index!Goto(w, label)
  PROVE  /\ indexer' \in [Workers -> Index!IndexerRec]
         /\ \A i \in Index!Items : ~Index!Carries(w, i)'
         /\ \A v \in Workers \ {w} : indexer'[v] = indexer[v]
<1> DEFINE rec == [Index!Unborn EXCEPT !.pc = label]
<1>1. rec \in Index!IndexerRec /\ \A i \in Index!Items : rec.jobs[i] = Index!NoJob
  BY UnbornIs
<1>2. indexer' = [indexer EXCEPT ![w] = rec]
  BY DEF Index!Goto
<1> HIDE DEF rec
<1>3. indexer'[w] = rec /\ \A v \in Workers \ {w} : indexer'[v] = indexer[v]
  BY <1>2 DEF Index!TypeOK
<1> QED
  BY <1>1, <1>2, <1>3 DEF Index!TypeOK, Index!Carries

-----------------------------------------------------------------------------
(* The changes of an entry                                                 *)

\* An entry that is replaced, or set back, is not completed any more.
LEMMA EntryReplaced ==
  ASSUME NEW i \in Index!Items, EntryTrue(i), outbox'[i].status \in {"pending", "failed"},
         i \in live' => outbox'[i].operation = "upsert",
         i \in contended => i \in contended',
         \A w \in Workers : Index!Carries(w, i)' => Index!Carries(w, i)
  PROVE  EntryTrue(i)'
BY DEF EntryTrue

\* A worker that gives its jobs up, or none, leaves the others' entries as they are.
LEMMA EntryStays ==
  ASSUME NEW i \in Index!Items, EntryTrue(i),
         outbox'[i].status = outbox[i].status, outbox'[i].operation = outbox[i].operation,
         i \in live' <=> i \in live, i \in vector' <=> i \in vector,
         i \in contended <=> i \in contended',
         \A w \in Workers : Index!Carries(w, i)' => Index!Carries(w, i) /\ indexer'[w] = indexer[w]
  PROVE  EntryTrue(i)'
BY DEF EntryTrue

\* The entry at i is e from now on.
LEMMA OutboxSet ==
  ASSUME Index!TypeOK, NEW i \in Index!Items, NEW e \in Index!Entry, outbox' = [outbox EXCEPT ![i] = e]
  PROVE  /\ outbox' \in [Index!Items -> Index!Entry] /\ outbox'[i] = e
         /\ \A j \in Index!Items \ {i} : outbox'[j] = outbox[j]
BY DEF Index!TypeOK

LEMMA SameJobs ==
  ASSUME UNCHANGED indexer
  PROVE  \A w \in Workers, i \in Index!Items :
            Index!Carries(w, i)' => Index!Carries(w, i) /\ indexer'[w] = indexer[w]
BY DEF Index!Carries

LEMMA OutboxSteps ==
  ASSUME IndexInv, NEW i \in Index!Items,
         \/ Index!Insert(i) \/ Index!BackoffEnds(i) \/ Index!LeaseExpires(i)
         \/ i \in IndexedFacts /\ Index!ChangeFact(i)
  PROVE  IndexInv'
<1>0. /\ Index!TypeOK /\ \A j \in Index!Items : EntryTrue(j)
      /\ outbox \in [Index!Items -> Index!Entry] /\ outbox[i] \in Index!Entry
      /\ live \subseteq Index!Items /\ UNCHANGED indexer
  BY DEF IndexInv, Index!TypeOK, Index!Insert, Index!BackoffEnds, Index!LeaseExpires, Index!ChangeFact
<1>1. ASSUME NEW e \in Index!Entry, outbox' = [outbox EXCEPT ![i] = e],
             UNCHANGED <<vector, contended>>, live' \subseteq Index!Items, changes' \in Nat,
             UNCHANGED <<retired, faults, outages>>, \A j \in Index!Items \ {i} : j \in live' <=> j \in live,
             EntryTrue(i)'
      PROVE  IndexInv'
  <2>1. /\ outbox' \in [Index!Items -> Index!Entry] /\ outbox'[i] = e
        /\ \A j \in Index!Items \ {i} : outbox'[j] = outbox[j]
    BY <1>0, <1>1, OutboxSet
  <2>2. ASSUME NEW j \in Index!Items \ {i} PROVE EntryTrue(j)'
    BY <1>0, <1>1, <2>1, <2>2, SameJobs, EntryStays
  <2>3. Index!TypeOK'
    BY <1>0, <1>1, <2>1 DEF Index!TypeOK
  <2> QED
    BY <1>1, <2>2, <2>3 DEF IndexInv
<1>2. ASSUME NEW operation \in {"upsert", "delete"},
             outbox' = [outbox EXCEPT ![i] = Index!Fresh(operation)], UNCHANGED <<vector, contended>>,
             live' \subseteq Index!Items, changes' \in Nat, UNCHANGED <<retired, faults, outages>>,
             \A j \in Index!Items \ {i} : j \in live' <=> j \in live,
             i \in live' => operation = "upsert"
      PROVE  IndexInv'
  <2>1. /\ Index!Fresh(operation) \in Index!Entry /\ Index!Fresh(operation).status = "pending"
        /\ Index!Fresh(operation).operation = operation
    BY FreshIs
  <2>2. outbox'[i] = Index!Fresh(operation)
    BY <1>0, <1>2, <2>1, OutboxSet
  <2>3. \A w \in Workers : Index!Carries(w, i)' => Index!Carries(w, i)
    BY <1>0, SameJobs
  <2>4. EntryTrue(i)'
    BY <1>0, <1>2, <2>1, <2>2, <2>3, EntryReplaced
  <2> QED
    BY <1>1, <1>2, <2>1, <2>4
<1>3. CASE Index!Insert(i)
  BY <1>0, <1>2, <1>3 DEF Index!Insert, Index!TypeOK
<1>4. CASE i \in IndexedFacts /\ Index!ChangeFact(i)
  <2>1. /\ UNCHANGED <<vector, contended, retired, faults, outages>> /\ changes' \in Nat
        /\ live' \subseteq Index!Items /\ \A j \in Index!Items \ {i} : j \in live' <=> j \in live
    BY <1>0, <1>4 DEF Index!ChangeFact, Index!TypeOK
  <2>2. CASE i \in live
    <3>1. i \notin live' /\ outbox' = [outbox EXCEPT ![i] = Index!Fresh("delete")]
      BY <1>4, <2>2 DEF Index!ChangeFact
    <3> QED
      BY <1>2, <2>1, <3>1
  <2>3. CASE i \notin live
    <3>1. outbox' = [outbox EXCEPT ![i] = Index!Fresh("upsert")]
      BY <1>4, <2>3 DEF Index!ChangeFact
    <3> QED
      BY <1>2, <2>1, <3>1
  <2> QED
    BY <2>2, <2>3
<1>5. CASE Index!BackoffEnds(i) \/ Index!LeaseExpires(i)
  <2>1. PICK e : /\ e \in {[outbox[i] EXCEPT !.due = TRUE], [outbox[i] EXCEPT !.expired = TRUE]}
                 /\ outbox' = [outbox EXCEPT ![i] = e]
    BY <1>5 DEF Index!BackoffEnds, Index!LeaseExpires
  <2>2. e \in Index!Entry /\ e.status = outbox[i].status /\ e.operation = outbox[i].operation
    BY <1>0, <2>1 DEF Index!Entry
  <2>3. /\ UNCHANGED <<vector, contended, live, changes, retired, faults, outages>>
        /\ changes' \in Nat /\ live' \subseteq Index!Items
    BY <1>0, <1>5 DEF Index!BackoffEnds, Index!LeaseExpires, Index!TypeOK
  <2>4. outbox'[i] = e
    BY <1>0, <2>1, <2>2, OutboxSet
  <2>5. EntryTrue(i)'
    BY <1>0, <2>2, <2>3, <2>4, SameJobs, EntryStays
  <2> QED
    BY <1>1, <2>1, <2>2, <2>3, <2>5
<1> QED
  BY <1>3, <1>4, <1>5

\* Steps that replace several entries by fresh ones: those of set S.
LEMMA ManyReplaced ==
  ASSUME IndexInv, NEW S \in SUBSET Index!Items,
         outbox' \in [Index!Items -> Index!Entry],
         \A i \in Index!Items \ S : outbox'[i] = outbox[i] /\ (i \in live' <=> i \in live)
                                    /\ (i \in vector' <=> i \in vector),
         \A i \in S : /\ outbox'[i].status = "pending"
                      /\ i \in live' => outbox'[i].operation = "upsert",
         live' \subseteq Index!Items, vector' \subseteq Index!Items, UNCHANGED contended,
         indexer' \in [Workers -> Index!IndexerRec],
         \A w \in Workers, i \in Index!Items :
            Index!Carries(w, i)' => Index!Carries(w, i) /\ indexer'[w] = indexer[w],
         changes' \in Nat, UNCHANGED <<retired, faults, outages>>
  PROVE  IndexInv'
<1>0. Index!TypeOK /\ \A j \in Index!Items : EntryTrue(j)
  BY DEF IndexInv
<1>1. ASSUME NEW i \in S PROVE EntryTrue(i)'
  BY <1>0, <1>1, EntryReplaced
<1>2. ASSUME NEW i \in Index!Items \ S PROVE EntryTrue(i)'
  BY <1>0, <1>2, EntryStays
<1>3. Index!TypeOK'
  BY <1>0 DEF Index!TypeOK
<1> QED
  BY <1>1, <1>2, <1>3 DEF IndexInv

LEMMA ReconcileStep ==
  ASSUME IndexInv, NEW hot \in SUBSET Chats, Index!Reconcile(hot)
  PROVE  IndexInv'
<1> DEFINE cold == (live \cap Chats) \ hot
           S == (hot \ live) \cup cold
<1>0. /\ Index!TypeOK /\ live \subseteq Index!Items /\ vector \subseteq Index!Items
      /\ outbox \in [Index!Items -> Index!Entry] /\ hot \subseteq Index!Items
  BY DEF IndexInv, Index!TypeOK, Index!Items
<1>1. /\ live' = (live \cap IndexedFacts) \cup hot /\ vector' = vector \ cold
      /\ outbox' = [i \in Index!Items |-> IF i \in hot \ live THEN Index!Fresh("upsert")
                                          ELSE IF i \in cold THEN Index!Fresh("delete") ELSE outbox[i]]
      /\ UNCHANGED <<indexer, retired, contended, faults, outages>> /\ changes' \in Nat
  BY <1>0 DEF Index!Reconcile, Index!TypeOK
<1>2. /\ Index!Fresh("upsert") \in Index!Entry /\ Index!Fresh("delete") \in Index!Entry
      /\ Index!Fresh("upsert").status = "pending" /\ Index!Fresh("delete").status = "pending"
      /\ Index!Fresh("upsert").operation = "upsert"
  BY FreshIs
<1>3. IndexedFacts \cap Chats = {} /\ Index!Items = IndexedFacts \cup Chats
  BY IndexAssumption DEF Index!Items
<1>4. \A i \in Index!Items \ S : /\ outbox'[i] = outbox[i] /\ (i \in live' <=> i \in live)
                                 /\ (i \in vector' <=> i \in vector)
  BY <1>0, <1>1, <1>3
<1>5. \A i \in S : /\ outbox'[i].status = "pending"
                   /\ i \in live' => outbox'[i].operation = "upsert"
  BY <1>0, <1>1, <1>2, <1>3
<1>6. outbox' \in [Index!Items -> Index!Entry] /\ S \in SUBSET Index!Items
      /\ live' \subseteq Index!Items /\ vector' \subseteq Index!Items
  BY <1>0, <1>1, <1>2, <1>3
<1>7. /\ indexer' \in [Workers -> Index!IndexerRec]
      /\ \A w \in Workers, i \in Index!Items :
            Index!Carries(w, i)' => Index!Carries(w, i) /\ indexer'[w] = indexer[w]
  BY <1>0, <1>1, SameJobs DEF Index!TypeOK
<1> HIDE DEF S, cold
<1> QED
  BY <1>1, <1>4, <1>5, <1>6, <1>7, ManyReplaced

LEMMA PrepareStep ==
  ASSUME IndexInv, NEW w \in Workers, Index!Prepare(w)
  PROVE  IndexInv'
<1> DEFINE S == {i \in (live \cup Chats) \ vector : i \in Index!Items /\ Index!Known(i)}
<1>0. /\ Index!TypeOK /\ live \subseteq Index!Items /\ vector \subseteq Index!Items
      /\ outbox \in [Index!Items -> Index!Entry]
  BY DEF IndexInv, Index!TypeOK
<1>1. /\ outbox' = [i \in Index!Items |->
             IF Index!Known(i) /\ i \in (live \cup Chats) \ vector THEN Index!Fresh("upsert") ELSE outbox[i]]
      /\ Index!Goto(w, "wait")
      /\ UNCHANGED <<live, vector, retired, contended, changes, faults, outages>>
  BY DEF Index!Prepare
<1>2. /\ Index!Fresh("upsert") \in Index!Entry /\ Index!Fresh("upsert").status = "pending"
      /\ Index!Fresh("upsert").operation = "upsert"
  BY FreshIs
<1>3. \A i \in Index!Items : outbox'[i] = IF i \in S THEN Index!Fresh("upsert") ELSE outbox[i]
  BY <1>1
<1>4. outbox' \in [Index!Items -> Index!Entry] /\ S \in SUBSET Index!Items
  BY <1>0, <1>1, <1>2
<1>5. /\ indexer' \in [Workers -> Index!IndexerRec]
      /\ \A v \in Workers, i \in Index!Items :
            Index!Carries(v, i)' => Index!Carries(v, i) /\ indexer'[v] = indexer[v]
  BY <1>0, <1>1, IndexGoto DEF Index!Carries
<1>6. changes' \in Nat /\ live' \subseteq Index!Items /\ vector' \subseteq Index!Items
  BY <1>0, <1>1 DEF Index!TypeOK
<1> HIDE DEF S
<1>7. \A i \in S : /\ outbox'[i].status = "pending"
                   /\ i \in live' => outbox'[i].operation = "upsert"
  BY <1>2, <1>3, <1>4
<1>8. \A i \in Index!Items \ S : outbox'[i] = outbox[i] /\ (i \in live' <=> i \in live)
                                 /\ (i \in vector' <=> i \in vector)
  BY <1>1, <1>3
<1> QED
  BY <1>1, <1>4, <1>5, <1>6, <1>7, <1>8, ManyReplaced

LEMMA RetryStep ==
  ASSUME IndexInv, Index!RetryFailed
  PROVE  IndexInv'
<1> DEFINE S == {i \in Index!Items : outbox[i].status = "failed"}
<1>0. /\ Index!TypeOK /\ live \subseteq Index!Items /\ vector \subseteq Index!Items
      /\ outbox \in [Index!Items -> Index!Entry] /\ indexer \in [Workers -> Index!IndexerRec]
      /\ \A i \in Index!Items : outbox[i].operation \in {"upsert", "delete"} /\ EntryTrue(i)
  BY DEF IndexInv, Index!TypeOK, Index!Entry, Index!Operations
<1>1. /\ outbox' = [i \in Index!Items |->
             IF outbox[i].status = "failed" THEN Index!Fresh(outbox[i].operation) ELSE outbox[i]]
      /\ UNCHANGED <<live, vector, indexer, retired, contended, changes, faults, outages>>
  BY DEF Index!RetryFailed
<1>2. \A i \in Index!Items : /\ Index!Fresh(outbox[i].operation) \in Index!Entry
                             /\ Index!Fresh(outbox[i].operation).status = "pending"
                             /\ Index!Fresh(outbox[i].operation).operation = outbox[i].operation
  BY <1>0, FreshIs
<1>3. \A i \in Index!Items : outbox'[i] = IF i \in S THEN Index!Fresh(outbox[i].operation) ELSE outbox[i]
  BY <1>1
<1>4. outbox' \in [Index!Items -> Index!Entry] /\ S \in SUBSET Index!Items
  BY <1>0, <1>1, <1>2
<1>5. /\ indexer' \in [Workers -> Index!IndexerRec] /\ changes' \in Nat
      /\ live' \subseteq Index!Items /\ vector' \subseteq Index!Items
      /\ \A w \in Workers, i \in Index!Items :
            Index!Carries(w, i)' => Index!Carries(w, i) /\ indexer'[w] = indexer[w]
  BY <1>0, <1>1, SameJobs DEF Index!TypeOK
<1> HIDE DEF S
<1>6. \A i \in S : /\ outbox'[i].status = "pending"
                   /\ i \in live' => outbox'[i].operation = "upsert"
  BY <1>0, <1>1, <1>2, <1>3, <1>4 DEF EntryTrue
<1>7. \A i \in Index!Items \ S : outbox'[i] = outbox[i] /\ (i \in live' <=> i \in live)
                                 /\ (i \in vector' <=> i \in vector)
  BY <1>1, <1>3
<1> QED
  BY <1>1, <1>4, <1>5, <1>6, <1>7, ManyReplaced

LEMMA IndexClaim ==
  ASSUME IndexInv, NEW w \in Workers, Index!Claim(w)
  PROVE  IndexInv'
<1> DEFINE taken == [i \in Index!Items |->
               IF i \in Index!Claimable
               THEN [operation |-> Index!Operation(i), attempts |-> outbox[i].attempts + 1]
               ELSE Index!NoJob]
           rec == [pc |-> "embed", jobs |-> taken]
<1>0. /\ Index!TypeOK /\ outbox \in [Index!Items -> Index!Entry]
      /\ indexer \in [Workers -> Index!IndexerRec] /\ live \subseteq Index!Items
      /\ \A i \in Index!Items : EntryTrue(i) /\ outbox[i] \in Index!Entry
  BY DEF IndexInv, Index!TypeOK
<1>1. /\ outbox' = [i \in Index!Items |->
             IF i \in Index!Claimable
             THEN [outbox[i] EXCEPT !.status = "processing", !.attempts = @ + 1,
                                    !.due = TRUE, !.expired = FALSE]
             ELSE IF i \in Index!Lapsed
             THEN [outbox[i] EXCEPT !.status = "pending", !.expired = FALSE]
             ELSE outbox[i]]
      /\ indexer' = [indexer EXCEPT ![w] = rec]
      /\ contended' = contended \cup {i \in Index!Claimable :
                                        \E v \in Workers \ {w} : Index!Carries(v, i)}
      /\ UNCHANGED <<live, vector, retired, changes, faults, outages>>
  BY DEF Index!Claim
<1>2. Index!Claimable \subseteq Index!Items
  BY DEF Index!Claimable
\* The entries.
<1>3. ASSUME NEW i \in Index!Items
      PROVE  /\ outbox'[i] \in Index!Entry /\ outbox'[i].operation = outbox[i].operation
             /\ i \in Index!Claimable => outbox'[i].status = "processing"
             /\ i \notin Index!Claimable => outbox'[i].status \in {"pending", outbox[i].status}
             /\ outbox'[i].status = "completed" => i \notin Index!Claimable /\ outbox[i].status = "completed"
             /\ i \notin Index!Claimable /\ outbox'[i].status \in {"none", "processing"}
                   => outbox'[i].status = outbox[i].status
             /\ i \in Index!Claimable => outbox[i].status \in {"pending", "processing"}
  <2>1. outbox[i].attempts \in 0..MaxAttempts /\ MaxAttempts \in Nat
    BY <1>0, IndexAssumption DEF Index!Entry
  <2>2. i \in Index!Claimable => outbox[i].attempts + 1 \in 0..MaxAttempts
    BY <2>1 DEF Index!Claimable
  <2>3. CASE i \in Index!Claimable
    <3>1. outbox'[i] = [outbox[i] EXCEPT !.status = "processing", !.attempts = outbox[i].attempts + 1,
                                         !.due = TRUE, !.expired = FALSE]
      BY <1>1, <2>3
    <3>2. outbox[i].status \in {"pending", "processing"}
      BY <2>3 DEF Index!Claimable, Index!Lapsed
    <3> QED
      BY <1>0, <2>2, <2>3, <3>1, <3>2 DEF Index!Entry
  <2>4. CASE i \notin Index!Claimable /\ i \in Index!Lapsed
    <3>1. outbox'[i] = [outbox[i] EXCEPT !.status = "pending", !.expired = FALSE]
      BY <1>1, <2>4
    <3> QED
      BY <1>0, <2>4, <3>1 DEF Index!Entry
  <2>5. CASE i \notin Index!Claimable /\ i \notin Index!Lapsed
    BY <1>0, <1>1, <2>5
  <2> QED
    BY <2>3, <2>4, <2>5
\* The jobs.
<1>4. \A i \in Index!Items : /\ i \in Index!Claimable => taken[i] = [operation |-> Index!Operation(i),
                                                         attempts |-> outbox[i].attempts + 1]
                             /\ i \notin Index!Claimable => taken[i] = Index!NoJob
  OBVIOUS
<1>5. \A i \in Index!Items : /\ Index!Operation(i) \in {"upsert", "delete"}
                             /\ Index!Operation(i) = "upsert" <=> i \in live
  BY <1>0 DEF Index!Operation, Index!Entry, Index!Operations, EntryTrue
<1>6. taken \in [Index!Items -> Index!Jobs]
  <2>1. ASSUME NEW i \in Index!Items PROVE taken[i] \in Index!Jobs
    <3>1. outbox[i].attempts \in 0..MaxAttempts /\ MaxAttempts \in Nat
      BY <1>0, IndexAssumption DEF Index!Entry
    <3>2. CASE i \in Index!Claimable
      <4>1. outbox[i].attempts + 1 \in 0..MaxAttempts
        BY <3>1, <3>2 DEF Index!Claimable
      <4> QED
        BY <1>4, <1>5, <3>2, <4>1 DEF Index!Jobs, Index!Operations
    <3>3. CASE i \notin Index!Claimable
      BY <1>4, <3>1, <3>3 DEF Index!Jobs, Index!NoJob
    <3> QED
      BY <3>2, <3>3
  <2> QED
    BY <2>1
<1>7. rec \in Index!IndexerRec
  BY <1>6 DEF Index!IndexerRec
<1> HIDE DEF taken
<1>8. /\ indexer'[w].jobs = taken /\ indexer' \in [Workers -> Index!IndexerRec]
      /\ \A v \in Workers \ {w} : indexer'[v] = indexer[v]
  BY <1>0, <1>1, <1>7
<1>9. \A i \in Index!Items : Index!Carries(w, i)' => i \in Index!Claimable
                                                    /\ (indexer'[w].jobs[i].operation = "upsert" <=> i \in live)
  <2> SUFFICES ASSUME NEW i \in Index!Items, Index!Carries(w, i)'
               PROVE  i \in Index!Claimable /\ (indexer'[w].jobs[i].operation = "upsert" <=> i \in live)
    OBVIOUS
  <2>1. taken[i] # Index!NoJob
    BY <1>8 DEF Index!Carries
  <2>2. taken[i] = [operation |-> Index!Operation(i), attempts |-> outbox[i].attempts + 1]
    BY <1>4, <2>1
  <2>3. indexer'[w].jobs[i].operation = Index!Operation(i)
    BY <1>8, <2>2
  <2> QED
    BY <1>4, <1>5, <2>1, <2>3
<1>10. \A i \in Index!Items, v \in Workers \ {w} : Index!Carries(v, i)' => Index!Carries(v, i)
  BY <1>8 DEF Index!Carries
<1>11. ASSUME NEW i \in Index!Items PROVE EntryTrue(i)'
  <2>1. EntryTrue(i)
    BY <1>0
  <2>2. CASE i \in Index!Claimable
    <3>1. i \notin contended' => /\ i \notin contended
                                 /\ \A v \in Workers \ {w} : ~Index!Carries(v, i)'
      BY <1>1, <1>10, <2>2
    <3> QED
      <4>1. /\ outbox'[i].status = "processing" /\ outbox'[i].operation = outbox[i].operation
            /\ live' = live
        BY <1>1, <1>3, <2>2
      <4>2. i \in live' => outbox'[i].operation = "upsert"
        BY <2>1, <4>1 DEF EntryTrue
      <4>3. \A v, u \in Workers : i \notin contended' /\ Index!Carries(v, i)' /\ Index!Carries(u, i)'
                                  => v = w /\ u = w
        BY <3>1
      <4>4. Index!Carries(w, i)' => (indexer'[w].jobs[i].operation = "upsert" <=> i \in live')
        BY <1>9, <4>1
      <4>5. \A u \in Workers : i \notin contended' /\ Index!Carries(u, i)'
                  => (indexer'[u].jobs[i].operation = "upsert" <=> i \in live')
        BY <4>3, <4>4
      <4> HIDE DEF rec
      <4> QED
        BY <4>1, <4>2, <4>3, <4>5 DEF EntryTrue
  <2>3. CASE i \notin Index!Claimable
    <3>1. \A v \in Workers : Index!Carries(v, i)' => Index!Carries(v, i) /\ indexer'[v] = indexer[v]
      BY <1>8, <1>9, <1>10, <2>3
    <3>2. i \in contended <=> i \in contended'
      BY <1>1, <2>3
    <3>3. CASE outbox'[i].status = "pending"
      BY <1>1, <1>3, <2>1, <3>1, <3>2, <3>3, EntryReplaced DEF EntryTrue
    <3>4. CASE outbox'[i].status = outbox[i].status
      BY <1>1, <1>3, <2>1, <3>1, <3>2, <3>4, EntryStays
    <3> QED
      BY <1>3, <2>3, <3>3, <3>4
  <2> QED
    BY <2>2, <2>3
<1>12. outbox' \in [Index!Items -> Index!Entry]
  BY <1>1, <1>3
<1>13. Index!TypeOK'
  BY <1>0, <1>1, <1>2, <1>8, <1>12 DEF Index!TypeOK
<1> QED
  BY <1>11, <1>13 DEF IndexInv

\* Complete and Fail: worker w is done with its jobs.
LEMMA IndexEnds ==
  ASSUME IndexInv, NEW w \in Workers, Index!Complete(w) \/ Index!Fail(w)
  PROVE  IndexInv'
<1>0. /\ Index!TypeOK /\ outbox \in [Index!Items -> Index!Entry]
      /\ \A i \in Index!Items : EntryTrue(i) /\ outbox[i] \in Index!Entry
  BY DEF IndexInv, Index!TypeOK
<1>1. /\ indexer' \in [Workers -> Index!IndexerRec]
      /\ \A i \in Index!Items : ~Index!Carries(w, i)'
      /\ \A v \in Workers \ {w} : indexer'[v] = indexer[v]
  <2>1. Index!Goto(w, "round") \/ Index!Goto(w, "wait")
    BY DEF Index!Complete, Index!Fail
  <2> QED
    BY <1>0, <2>1, IndexGoto
<1>2. \A v \in Workers, i \in Index!Items :
         Index!Carries(v, i)' => Index!Carries(v, i) /\ indexer'[v] = indexer[v] /\ v # w
  BY <1>1 DEF Index!Carries
<1>3. UNCHANGED <<live, contended, retired, changes, outages>>
  BY DEF Index!Complete, Index!Fail
<1>4. CASE Index!Fail(w)
  <2>1. \A i \in Index!Items :
           outbox'[i] = IF ~Index!Carries(w, i) THEN outbox[i]
                        ELSE IF indexer[w].jobs[i].attempts >= MaxAttempts
                        THEN [outbox[i] EXCEPT !.status = "failed", !.due = TRUE, !.expired = FALSE]
                        ELSE [outbox[i] EXCEPT !.status = "pending", !.due = FALSE, !.expired = FALSE]
    BY <1>4 DEF Index!Fail
  <2>2. ASSUME NEW i \in Index!Items
        PROVE  /\ outbox'[i] \in Index!Entry /\ outbox'[i].operation = outbox[i].operation
               /\ Index!Carries(w, i) => outbox'[i].status \in {"pending", "failed"}
               /\ ~Index!Carries(w, i) => outbox'[i] = outbox[i]
    <3>1. CASE ~Index!Carries(w, i)
      BY <1>0, <2>1, <3>1
    <3>2. CASE Index!Carries(w, i)
      <4>1. \/ outbox'[i] = [outbox[i] EXCEPT !.status = "failed", !.due = TRUE, !.expired = FALSE]
            \/ outbox'[i] = [outbox[i] EXCEPT !.status = "pending", !.due = FALSE, !.expired = FALSE]
        BY <2>1, <3>2
      <4> QED
        BY <1>0, <3>2, <4>1 DEF Index!Entry
    <3> QED
      BY <3>1, <3>2
  <2>3. UNCHANGED vector
    BY <1>4 DEF Index!Fail
  <2>4. ASSUME NEW i \in Index!Items PROVE EntryTrue(i)'
    <3>1. CASE Index!Carries(w, i)
      BY <1>0, <1>2, <1>3, <2>2, <2>3, <3>1, EntryReplaced DEF EntryTrue
    <3>2. CASE ~Index!Carries(w, i)
      BY <1>0, <1>2, <1>3, <2>2, <2>3, <3>2, EntryStays
    <3> QED
      BY <3>1, <3>2
  <2>5. outbox' \in [Index!Items -> Index!Entry]
    BY <1>4, <2>2 DEF Index!Fail
  <2>6. faults' \in Nat
    <3>1. faults \in Nat
      BY <1>0 DEF Index!TypeOK
    <3>2. faults' = faults + 1
      BY <1>4 DEF Index!Fail
    <3> QED
      BY <3>1, <3>2
  <2> QED
    BY <1>0, <1>1, <1>3, <2>3, <2>4, <2>5, <2>6 DEF IndexInv, Index!TypeOK
<1>5. CASE Index!Complete(w)
  <2>1. /\ vector' = {i \in Index!Items : IF Index!Carries(w, i)
                                          THEN indexer[w].jobs[i].operation = "upsert" ELSE i \in vector}
        /\ UNCHANGED faults
        /\ \A i \in Index!Items :
              outbox'[i] = IF Index!Carries(w, i) /\ outbox[i].status = "processing"
                           THEN [outbox[i] EXCEPT !.status = "completed", !.due = TRUE, !.expired = FALSE]
                           ELSE outbox[i]
    BY <1>5 DEF Index!Complete
  <2>2. ASSUME NEW i \in Index!Items
        PROVE  /\ outbox'[i] \in Index!Entry /\ outbox'[i].operation = outbox[i].operation
               /\ Index!Carries(w, i) /\ outbox[i].status = "processing" => outbox'[i].status = "completed"
               /\ ~(Index!Carries(w, i) /\ outbox[i].status = "processing") => outbox'[i] = outbox[i]
    <3>1. CASE ~(Index!Carries(w, i) /\ outbox[i].status = "processing")
      BY <1>0, <2>1, <3>1
    <3>2. CASE Index!Carries(w, i) /\ outbox[i].status = "processing"
      <4>1. outbox'[i] = [outbox[i] EXCEPT !.status = "completed", !.due = TRUE, !.expired = FALSE]
        BY <2>1, <3>2
      <4> QED
        BY <1>0, <3>2, <4>1 DEF Index!Entry
    <3> QED
      BY <3>1, <3>2
  <2>3. \A i \in Index!Items : /\ Index!Carries(w, i) => (i \in vector' <=> indexer[w].jobs[i].operation = "upsert")
                               /\ ~Index!Carries(w, i) => (i \in vector' <=> i \in vector)
    BY <2>1
  <2>4. ASSUME NEW i \in Index!Items PROVE EntryTrue(i)'
    <3>1. EntryTrue(i)
      BY <1>0
    <3>2. CASE ~Index!Carries(w, i)
      BY <1>2, <1>3, <2>2, <2>3, <3>1, <3>2, EntryStays
    <3>3. CASE Index!Carries(w, i)
      BY <1>2, <1>3, <2>2, <2>3, <3>1, <3>3 DEF EntryTrue
    <3> QED
      BY <3>2, <3>3
  <2>5. outbox' \in [Index!Items -> Index!Entry] /\ vector' \subseteq Index!Items
    BY <1>5, <2>1, <2>2 DEF Index!Complete
  <2> QED
    BY <1>0, <1>1, <1>3, <2>1, <2>4, <2>5 DEF IndexInv, Index!TypeOK
<1> QED
  BY <1>4, <1>5

LEMMA IndexMoves ==
  ASSUME IndexInv, NEW w \in Workers,
         Index!Start(w) \/ Index!Wake(w) \/ Index!ClaimNothing(w) \/ Index!Close(w)
  PROVE  IndexInv'
<1>0. Index!TypeOK /\ \A i \in Index!Items : EntryTrue(i)
  BY DEF IndexInv
<1>1. UNCHANGED <<live, vector, outbox, contended, changes, faults, outages>> /\ retired' \subseteq Workers
  BY <1>0 DEF Index!Start, Index!Wake, Index!ClaimNothing, Index!Close, Index!TypeOK
<1>2. /\ indexer' \in [Workers -> Index!IndexerRec]
      /\ \A v \in Workers, i \in Index!Items :
            Index!Carries(v, i)' => Index!Carries(v, i) /\ indexer'[v] = indexer[v]
  <2>1. CASE Index!Close(w)
    <3>1. UNCHANGED indexer
      BY <2>1 DEF Index!Close
    <3> QED
      BY <1>0, <3>1, SameJobs DEF Index!TypeOK
  <2>2. CASE ~Index!Close(w)
    <3>1. Index!Goto(w, "preparing") \/ Index!Goto(w, "dead") \/ Index!Goto(w, "round") \/ Index!Goto(w, "wait")
      BY <2>2 DEF Index!Start, Index!Wake, Index!ClaimNothing
    <3> QED
      BY <1>0, <3>1, IndexGoto DEF Index!Carries
  <2> QED
    BY <2>1, <2>2
<1>3. ASSUME NEW i \in Index!Items PROVE EntryTrue(i)'
  BY <1>0, <1>1, <1>2, EntryStays
<1>4. Index!TypeOK'
  BY <1>0, <1>1, <1>2 DEF Index!TypeOK
<1> QED
  BY <1>3, <1>4 DEF IndexInv

LEMMA IndexCrash ==
  ASSUME IndexInv, Index!Crash
  PROVE  IndexInv'
<1> DEFINE dead == [Index!Unborn EXCEPT !.pc = "dead"]
<1>0. Index!TypeOK /\ \A i \in Index!Items : EntryTrue(i)
  BY DEF IndexInv
<1>1. /\ UNCHANGED <<live, vector, outbox, contended, changes, faults>> /\ retired' = {}
      /\ indexer' = [w \in Workers |-> IF Index!At(w, "unborn") THEN Index!Unborn ELSE dead]
  BY DEF Index!Crash
<1>2. outages' \in Nat
  <2>1. outages \in Nat /\ outages' = outages + 1
    BY <1>0 DEF Index!TypeOK, Index!Crash
  <2> QED
    BY <2>1
<1>3. /\ Index!Unborn \in Index!IndexerRec /\ dead \in Index!IndexerRec
      /\ \A i \in Index!Items : Index!Unborn.jobs[i] = Index!NoJob /\ dead.jobs[i] = Index!NoJob
  BY UnbornIs
<1> HIDE DEF dead
<1>4. \A w \in Workers, i \in Index!Items : ~Index!Carries(w, i)'
  BY <1>1, <1>3 DEF Index!Carries
<1>5. indexer' \in [Workers -> Index!IndexerRec]
  BY <1>1, <1>3
<1>6. ASSUME NEW i \in Index!Items PROVE EntryTrue(i)'
  BY <1>0, <1>1, <1>4, EntryStays
<1>7. Index!TypeOK'
  BY <1>0, <1>1, <1>2, <1>5 DEF Index!TypeOK
<1> QED
  BY <1>6, <1>7 DEF IndexInv

LEMMA IndexInit ==
  ASSUME Index!Init
  PROVE  IndexInv
<1>1. /\ live = {} /\ vector = {} /\ contended = {} /\ retired = {}
      /\ changes = 0 /\ faults = 0 /\ outages = 0
      /\ outbox = [i \in Index!Items |-> Index!NoEntry]
      /\ indexer = [w \in Workers |-> Index!Unborn]
  BY DEF Index!Init
<1>2. Index!NoEntry \in Index!Entry /\ Index!NoEntry.status = "none"
  BY IndexAssumption DEF Index!NoEntry, Index!Entry, Index!Operations
<1>3. Index!Unborn \in Index!IndexerRec /\ \A i \in Index!Items : Index!Unborn.jobs[i] = Index!NoJob
  BY UnbornIs
<1>4. \A w \in Workers, i \in Index!Items : ~Index!Carries(w, i)
  BY <1>1, <1>3 DEF Index!Carries
<1>5. Index!TypeOK
  BY <1>1, <1>2, <1>3 DEF Index!TypeOK
<1>6. \A i \in Index!Items : EntryTrue(i)
  BY <1>1, <1>2, <1>4 DEF EntryTrue
<1> QED
  BY <1>5, <1>6 DEF IndexInv

LEMMA IndexInvariant == Index!Spec => []IndexInv
<1>1. IndexInv /\ [Index!Next]_(Index!vars) => IndexInv'
  <2> SUFFICES ASSUME IndexInv, [Index!Next]_(Index!vars) PROVE IndexInv'
    OBVIOUS
  <2>1. CASE UNCHANGED Index!vars
    <3>1. UNCHANGED <<live, vector, outbox, indexer, retired, contended, changes, faults, outages>>
      BY <2>1 DEF Index!vars
    <3>2. Index!TypeOK' /\ \A i \in Index!Items : EntryTrue(i)'
      BY <3>1 DEF IndexInv, Index!TypeOK, EntryTrue, Index!Carries
    <3> QED
      BY <3>2 DEF IndexInv
  <2>2. ASSUME NEW i \in Index!Items, Index!Insert(i) \/ Index!BackoffEnds(i) \/ Index!LeaseExpires(i)
        PROVE  IndexInv'
    BY <2>2, OutboxSteps
  <2>3. ASSUME NEW f \in IndexedFacts, Index!ChangeFact(f) PROVE IndexInv'
    BY <2>3, OutboxSteps DEF Index!Items
  <2>4. ASSUME NEW hot \in SUBSET Chats, Index!Reconcile(hot) PROVE IndexInv'
    BY <2>4, ReconcileStep
  <2>5. ASSUME NEW w \in Workers, Index!Step(w) \/ Index!Start(w) \/ Index!Close(w) \/ Index!Fail(w)
        PROVE  IndexInv'
    BY <2>5, PrepareStep, IndexClaim, IndexEnds, IndexMoves DEF Index!Step
  <2> QED
    BY <2>1, <2>2, <2>3, <2>4, <2>5, RetryStep, IndexCrash DEF Index!Next
<1>2. Index!Init => IndexInv
  BY IndexInit
<1> QED
  BY <1>1, <1>2, PTL DEF Index!Spec

\* What the console calls synced is: for any number of facts, lines of chat, services
\* and attempts, when nothing is left in the outbox, the vectors are those of what search
\* should find, although jobs are carried out long after they were claimed, by workers
\* that overlap (but for keys that two of them had a job for at once).
THEOREM SyncedMeansSynced == Index!Spec => []SyncedIsTrue
<1>1. IndexInv => SyncedIsTrue
  <2> SUFFICES ASSUME IndexInv, Synced, NEW i \in Items \ contended
               PROVE  i \in vector <=> i \in live
    BY DEF SyncedIsTrue
  <2>1. EntryTrue(i) /\ outbox[i].status \in {"none", "completed"}
    BY DEF IndexInv, Synced, Items, Index!Items
  <2> QED
    BY <2>1 DEF EntryTrue
<1> QED
  BY <1>1, IndexInvariant, PTL
-----------------------------------------------------------------------------
(* Consolidation                                                           *)

VARIABLES worker, closing, failures, crashes

Work == INSTANCE Consolidation

\* What a batch holds, it holds whole; one that is being processed holds something,
\* unless its exchanges were taken away.
Whole(b) ==
    /\ Work!Held(b) # {} => /\ batch[b].status = "processing"
                            /\ Cardinality(Work!Held(b)) = Size
    /\ batch[b].status = "processing" /\ b \notin reset => Work!Held(b) # {}

\* What the batch of a worker still holds is what the worker was handed: with the lease,
\* a commit finds all of it, or none.
WorkerTrue(w) ==
    /\ worker[w].batch # Work!NoBatch <=> worker[w].pc \in {"model", "failing"}
    /\ worker[w].batch # Work!NoBatch =>
          /\ batch[worker[w].batch].status # "none"
          /\ Work!Held(worker[w].batch) \subseteq worker[w].exchanges
          /\ Cardinality(worker[w].exchanges) = Size

WorkInv ==
    /\ Work!TypeOK /\ Work!SavedOnce
    /\ \A b \in Work!Batches : Whole(b)
    /\ \A w \in Workers : WorkerTrue(w)

\* (The operators of the library, under the names the instance has for them.)
LEMMA SameSize ==
  /\ \A S : Work!IsFiniteSet(S) <=> IsFiniteSet(S)
  /\ \A S : Work!Cardinality(S) = Cardinality(S)
<1>1. \A S : Work!IsFiniteSet(S) <=> IsFiniteSet(S)
  BY DEF Work!IsFiniteSet, IsFiniteSet
<1>2. \A S : Work!Cardinality(S) = Cardinality(S)
  BY Zenon DEF Work!Cardinality, Cardinality
<1> QED
  BY <1>1, <1>2

\* The n oldest of a set are n of them, if it has as many.
LEMMA OldestSize ==
  ASSUME NEW S \in SUBSET Nat, IsFiniteSet(S), NEW n \in Nat, n <= Cardinality(S)
  PROVE  Cardinality(Work!Oldest(S, n)) = n
<1> DEFINE Below(x) == {d \in S : d < x}
           Bad == {k \in Nat : k <= Cardinality(S) /\ Cardinality(Work!Oldest(S, k)) # k}
<1>1. Cardinality(S) \in Nat
  BY FS_CardinalityType
<1>2. \A x \in S : IsFiniteSet(Below(x)) /\ Cardinality(Below(x)) \in Nat
  BY FS_Subset, FS_CardinalityType
<1>3. \A k \in Nat : Work!Oldest(S, k) = {x \in S : Cardinality(Below(x)) < k}
  BY SameSize, Zenon DEF Work!Oldest
<1>4. SUFFICES ASSUME n \in Bad PROVE FALSE
  OBVIOUS
<1>5. PICK m \in Bad : \A y \in Bad : m <= y
  BY <1>4, HasMinimum
<1>6. m # 0
  <2>1. \A x \in S : ~(Cardinality(Below(x)) < 0)
    BY <1>2
  <2>2. Work!Oldest(S, 0) = {}
    BY <2>1, <1>3, Zenon
  <2> QED
    BY <2>2, FS_EmptySet
<1> DEFINE k == m - 1
           O == Work!Oldest(S, k)
<1>7. k \in Nat /\ k < m /\ k <= Cardinality(S) /\ k # Cardinality(S) /\ m \in Nat
  BY <1>1, <1>6
<1>8. Cardinality(O) = k
  <2>1. k \notin Bad
    BY <1>5, <1>7
  <2> QED
    BY <2>1, <1>7
<1>9. O = {x \in S : Cardinality(Below(x)) < k} /\ O \subseteq S
  BY <1>3, <1>7
<1>10. IsFiniteSet(O)
  BY <1>9, FS_Subset
<1>11. Work!Oldest(S, m) = {x \in S : Cardinality(Below(x)) < m}
  BY <1>3, <1>7
<1>12. Cardinality(Work!Oldest(S, m)) # m
  BY <1>5
<1>13. O # S
  BY <1>7, <1>8
<1>14. PICK e \in S \ O : \A y \in S \ O : e <= y
  BY <1>9, <1>13, HasMinimum
<1>e. e \in S /\ e \in Nat /\ e \notin O
  BY <1>14
<1>s. \A x \in S : x \in Nat
  OBVIOUS
<1> HIDE DEF O, k, Bad
<1>15. ASSUME NEW x \in S, e < x PROVE Cardinality(Below(e)) <= Cardinality(Below(x))
  <2>0. ASSUME NEW d \in S, d < e PROVE d < x
    <3>1. d \in Nat /\ x \in Nat /\ e \in Nat /\ e < x
      BY <1>15, <1>e, <1>s
    <3> QED
      BY <2>0, <3>1
  <2>1. Below(e) \subseteq Below(x)
    BY <2>0
  <2> QED
    BY <2>1, <1>2, FS_Subset
<1>16. Below(e) = O
  <2>1. ASSUME NEW x \in S, x < e PROVE x \in O
    BY <1>14, <2>1
  <2>2. ASSUME NEW x \in O PROVE x < e
    <3>1. CASE e < x
      <4>1. Cardinality(Below(e)) <= Cardinality(Below(x))
        BY <1>9, <1>14, <1>15, <3>1, <1>e, <1>s
      <4>2. Cardinality(Below(x)) < k /\ ~(Cardinality(Below(e)) < k)
        BY <1>9, <1>14, <1>e, <1>s
      <4>3. Cardinality(Below(e)) \in Nat /\ Cardinality(Below(x)) \in Nat
        BY <1>2, <1>9, <1>e
      <4> HIDE DEF Below
      <4> QED
        BY <4>1, <4>2, <4>3, <1>7
    <3> QED
      BY <3>1, <1>9, <1>14, <1>e, <1>s
  <2> QED
    BY <2>1, <2>2, <1>9
<1>17. ASSUME NEW x \in S, e < x PROVE ~(Cardinality(Below(x)) < m)
  <2>0. ASSUME NEW d \in S, d < e PROVE d < x
    <3>1. d \in Nat /\ x \in Nat /\ e \in Nat /\ e < x
      BY <1>17, <1>e, <1>s
    <3> QED
      BY <2>0, <3>1
  <2>1. Below(e) \cup {e} \subseteq Below(x)
    BY <2>0, <1>17, <1>e
  <2>2. Cardinality(O \cup {e}) <= Cardinality(Below(x))
    BY <2>1, <1>2, <1>16, FS_Subset
  <2>3. Cardinality(O \cup {e}) = k + 1
    BY <1>8, <1>10, <1>14, FS_AddElement
  <2> QED
    BY <2>2, <2>3, <1>2, <1>7 DEF k
<1>18. Work!Oldest(S, m) = O \cup {e}
  <2>1. ASSUME NEW x \in O PROVE Cardinality(Below(x)) < m
    <3>1. x \in S /\ Cardinality(Below(x)) < k
      BY <1>9
    <3>2. Cardinality(Below(x)) \in Nat
      BY <1>2, <3>1
    <3> HIDE DEF Below
    <3> QED
      BY <3>1, <3>2, <1>7
  <2>2. Cardinality(Below(e)) < m
    BY <1>7, <1>8, <1>16
  <2>3. ASSUME NEW x \in S, Cardinality(Below(x)) < m, x \notin O PROVE x = e
    <3>1. e <= x /\ ~(e < x)
      BY <1>14, <1>17, <2>3
    <3> QED
      BY <3>1
  <2> HIDE DEF Below
  <2> QED
    BY <2>1, <2>2, <2>3, <1>9, <1>11
<1>19. Cardinality(O \cup {e}) = k + 1
  BY <1>8, <1>10, <1>14, FS_AddElement
<1> QED
  BY <1>7, <1>12, <1>18, <1>19 DEF k

\* A part of a finite set that is as large as the set is the set.
LEMMA FullPart ==
  ASSUME NEW S, IsFiniteSet(S), NEW T \in SUBSET S, Cardinality(T) >= Cardinality(S)
  PROVE  T = S
BY FS_Subset, FS_CardinalityType

-----------------------------------------------------------------------------
(* What a step may do to the batches                                       *)

\* A batch keeps what it holds, or loses all of it and is not being processed any more.
BatchKept(b) ==
    \/ /\ Work!Held(b)' = Work!Held(b) /\ batch'[b].status = batch[b].status
       /\ b \in reset => b \in reset'
    \/ /\ Work!Held(b)' = {} /\ batch'[b].status \in {"consolidated", "failed"}

LEMMA WholeKept ==
  ASSUME NEW b \in Work!Batches, Whole(b), BatchKept(b)
  PROVE  Whole(b)'
BY DEF Whole, BatchKept

\* A worker goes on with its batch, or lets go of it.
LEMMA WorkerKept ==
  ASSUME NEW w \in Workers, WorkerTrue(w), Work!TypeOK,
         \A b \in Work!Batches : BatchKept(b),
         \/ /\ worker'[w].batch = worker[w].batch /\ worker'[w].exchanges = worker[w].exchanges
            /\ worker'[w].pc \in {"model", "failing"} <=> worker[w].pc \in {"model", "failing"}
         \/ worker'[w].batch = Work!NoBatch /\ worker'[w].pc \notin {"model", "failing"}
  PROVE  WorkerTrue(w)'
<1>1. CASE worker'[w].batch = Work!NoBatch /\ worker'[w].pc \notin {"model", "failing"}
  BY <1>1 DEF WorkerTrue, Work!NoBatch
<1>2. CASE /\ worker'[w].batch = worker[w].batch /\ worker'[w].exchanges = worker[w].exchanges
           /\ worker'[w].pc \in {"model", "failing"} <=> worker[w].pc \in {"model", "failing"}
  <2>1. CASE worker[w].batch = Work!NoBatch
    BY <1>2, <2>1 DEF WorkerTrue, Work!NoBatch
  <2>2. CASE worker[w].batch # Work!NoBatch
    <3> DEFINE b == worker[w].batch
    <3>1. b \in Work!Batches
      BY <2>2 DEF Work!TypeOK, Work!WorkerRec
    <3>2. BatchKept(b)
      BY <3>1
    <3>3. batch'[b].status # "none" /\ Work!Held(b)' \subseteq worker[w].exchanges
      BY <2>2, <3>2 DEF WorkerTrue, BatchKept
    <3>4. worker'[w].batch = b /\ worker'[w].exchanges = worker[w].exchanges
      BY <1>2
    <3>5. Work!Held(worker[w].batch)' = Work!Held(b)'
      BY <3>4
    <3> QED
      BY <1>2, <2>2, <3>3, <3>4, <3>5 DEF WorkerTrue, Work!NoBatch
  <2> QED
    BY <2>1, <2>2
<1> QED
  BY <1>1, <1>2

\* A step that leaves the status and the batch of every exchange keeps what is held.
LEMMA HeldStays ==
  ASSUME \A e \in Exchanges : chat'[e].status = chat[e].status /\ chat'[e].batch = chat[e].batch
  PROVE  \A b \in Work!Batches : Work!Held(b)' = Work!Held(b)
BY DEF Work!Held

\* A lease ends for all that a batch holds.
LEMMA ExpiredWhole ==
  ASSUME NEW b \in Work!Batches
  PROVE  /\ batch[b].lease = "expired" => Work!Held(b) \subseteq Work!Expired
         /\ batch[b].lease # "expired" => Work!Held(b) \cap Work!Expired = {}
BY DEF Work!Held, Work!Expired

\* What was given back is pending, of no batch; the others stay.
LEMMA GivenBackIs ==
  ASSUME Work!TypeOK, NEW S, NEW due \in BOOLEAN
  PROVE  /\ Work!GivenBack(S, due) \in [Exchanges -> Work!ExchangeRec]
         /\ \A e \in Exchanges :
              /\ e \in S => /\ Work!GivenBack(S, due)[e].status = "pending"
                            /\ Work!GivenBack(S, due)[e].batch = Work!NoBatch
              /\ e \notin S => Work!GivenBack(S, due)[e] = chat[e]
<1> DEFINE rec == [status |-> "pending", batch |-> Work!NoBatch, due |-> due, error |-> TRUE]
           given == [e \in Exchanges |-> IF e \in S THEN rec ELSE chat[e]]
<1>1. rec \in Work!ExchangeRec /\ rec.status = "pending" /\ rec.batch = Work!NoBatch
  BY DEF Work!ExchangeRec
<1>2. Work!GivenBack(S, due) = given
  BY Zenon DEF Work!GivenBack
<1> HIDE DEF rec
<1>3. given \in [Exchanges -> Work!ExchangeRec]
  BY <1>1 DEF Work!TypeOK
<1>4. \A e \in Exchanges : given[e] = IF e \in S THEN rec ELSE chat[e]
  OBVIOUS
<1> HIDE DEF given
<1> QED
  BY <1>1, <1>2, <1>3, <1>4

\* The worker w is where it went, and the others are where they were.
LEMMA WorkerGoes ==
  ASSUME Work!TypeOK, NEW w \in Workers,
         NEW label \in {"unborn", "wait", "claim", "model", "failing", "dead"},
         Work!Goto(w, label)
  PROVE  /\ worker' \in [Workers -> Work!WorkerRec]
         /\ worker'[w].pc = label /\ worker'[w].batch = worker[w].batch
         /\ worker'[w].exchanges = worker[w].exchanges
         /\ \A v \in Workers \ {w} : worker'[v] = worker[v]
<1> DEFINE rec == [worker[w] EXCEPT !.pc = label]
<1>1. worker[w] \in Work!WorkerRec
  BY DEF Work!TypeOK
<1>2. /\ rec \in Work!WorkerRec /\ rec.pc = label /\ rec.batch = worker[w].batch
      /\ rec.exchanges = worker[w].exchanges
  BY <1>1 DEF Work!WorkerRec
<1>3. worker' = [worker EXCEPT ![w] = rec]
  BY DEF Work!Goto
<1> HIDE DEF rec
<1> QED
  BY <1>2, <1>3 DEF Work!TypeOK

LEMMA WorkerLetsGo ==
  ASSUME Work!TypeOK, NEW w \in Workers, NEW label \in {"wait", "claim", "dead"},
         Work!LetGo(w, label)
  PROVE  /\ worker' \in [Workers -> Work!WorkerRec]
         /\ worker'[w].pc = label /\ worker'[w].batch = Work!NoBatch
         /\ \A v \in Workers \ {w} : worker'[v] = worker[v]
<1> DEFINE rec == [Work!Unborn EXCEPT !.pc = label]
<1>1. rec \in Work!WorkerRec /\ rec.pc = label /\ rec.batch = Work!NoBatch
  BY DEF Work!WorkerRec, Work!Unborn
<1>2. worker' = [worker EXCEPT ![w] = rec]
  BY DEF Work!LetGo
<1> HIDE DEF rec
<1> QED
  BY <1>1, <1>2 DEF Work!TypeOK

\* The worker has let go of its batch, or goes on with it.
WorkerMoves(w) ==
    \/ /\ worker'[w].batch = worker[w].batch /\ worker'[w].exchanges = worker[w].exchanges
       /\ worker'[w].pc \in {"model", "failing"} <=> worker[w].pc \in {"model", "failing"}
    \/ worker'[w].batch = Work!NoBatch /\ worker'[w].pc \notin {"model", "failing"}

LEMMA BatchesKept ==
  ASSUME WorkInv, Work!TypeOK', Work!SavedOnce', \A b \in Work!Batches : BatchKept(b),
         \A w \in Workers : WorkerMoves(w)
  PROVE  WorkInv'
<1>1. ASSUME NEW b \in Work!Batches PROVE Whole(b)'
  <2>1. Whole(b) /\ BatchKept(b)
    BY DEF WorkInv
  <2> QED
    BY <2>1, WholeKept
<1>2. ASSUME NEW w \in Workers PROVE WorkerTrue(w)'
  <2>1. WorkerTrue(w) /\ Work!TypeOK
    BY DEF WorkInv
  <2>2. \/ /\ worker'[w].batch = worker[w].batch /\ worker'[w].exchanges = worker[w].exchanges
           /\ worker'[w].pc \in {"model", "failing"} <=> worker[w].pc \in {"model", "failing"}
        \/ worker'[w].batch = Work!NoBatch /\ worker'[w].pc \notin {"model", "failing"}
    BY DEF WorkerMoves
  <2> QED
    BY <2>1, <2>2, WorkerKept
<1> QED
  BY <1>1, <1>2 DEF WorkInv, Work!Batches

-----------------------------------------------------------------------------
(* The steps                                                               *)

\* The answers, the waits and the leases that end.
LEMMA ChatSteps ==
  ASSUME WorkInv,
         \/ \E e \in Exchanges : Work!Complete(e) \/ Work!BackoffEnds(e)
         \/ Work!RetryFailed
         \/ UNCHANGED Work!vars
  PROVE  WorkInv'
<1>1. Work!TypeOK /\ Work!SavedOnce
  BY DEF WorkInv
<1>2. UNCHANGED <<batch, worker, closing, saved, reset, failures, crashes>>
  BY Zenon DEF Work!Complete, Work!BackoffEnds, Work!RetryFailed, Work!vars
<1> DEFINE Grown ==
             /\ chat' \in [Exchanges -> Work!ExchangeRec]
             /\ \A e \in Exchanges :
                   /\ chat'[e].batch = chat[e].batch
                   /\ \/ chat'[e].status = chat[e].status
                      \/ chat[e].status = "incomplete" /\ chat'[e].status = "pending"
<1>3. Grown
  <2>0. chat \in [Exchanges -> Work!ExchangeRec]
    BY <1>1 DEF Work!TypeOK
  <2>1. ASSUME NEW e \in Exchanges
        PROVE  /\ [chat[e] EXCEPT !.status = "pending"] \in Work!ExchangeRec
               /\ [chat[e] EXCEPT !.status = "pending"].status = "pending"
               /\ [chat[e] EXCEPT !.status = "pending"].batch = chat[e].batch
               /\ [chat[e] EXCEPT !.due = TRUE] \in Work!ExchangeRec
               /\ [chat[e] EXCEPT !.due = TRUE].status = chat[e].status
               /\ [chat[e] EXCEPT !.due = TRUE].batch = chat[e].batch
    BY <2>0 DEF Work!ExchangeRec
  <2>2. ASSUME NEW e \in Exchanges, Work!Complete(e) PROVE Grown
    <3> DEFINE rec == [chat[e] EXCEPT !.status = "pending"]
    <3>1. chat' = [chat EXCEPT ![e] = rec] /\ chat[e].status = "incomplete"
      BY <2>2 DEF Work!Complete
    <3>2. rec \in Work!ExchangeRec /\ rec.status = "pending" /\ rec.batch = chat[e].batch
      BY <2>1
    <3> HIDE DEF rec
    <3> QED
      BY <2>0, <3>1, <3>2
  <2>3. ASSUME NEW e \in Exchanges, Work!BackoffEnds(e) PROVE Grown
    <3> DEFINE rec == [chat[e] EXCEPT !.due = TRUE]
    <3>1. chat' = [chat EXCEPT ![e] = rec]
      BY <2>3 DEF Work!BackoffEnds
    <3>2. rec \in Work!ExchangeRec /\ rec.status = chat[e].status /\ rec.batch = chat[e].batch
      BY <2>1
    <3> HIDE DEF rec
    <3> QED
      BY <2>0, <3>1, <3>2
  <2>4. CASE Work!RetryFailed
    BY <2>0, <2>1, <2>4 DEF Work!RetryFailed
  <2>5. CASE UNCHANGED Work!vars
    <3>1. chat' = chat
      BY <2>5 DEF Work!vars
    <3> QED
      BY <2>0, <3>1
  <2> QED
    BY <2>2, <2>3, <2>4, <2>5
<1>4. Work!TypeOK'
  BY <1>1, <1>2, <1>3 DEF Work!TypeOK
<1>5. Work!SavedOnce'
  BY <1>1, <1>2, <1>3 DEF Work!SavedOnce
<1>6. \A b \in Work!Batches : Work!Held(b)' = Work!Held(b)
  BY <1>3 DEF Work!Held
<1>7. \A b \in Work!Batches : BatchKept(b)
  BY <1>2, <1>6 DEF BatchKept
<1>8. \A w \in Workers : WorkerMoves(w)
  BY <1>2 DEF WorkerMoves
<1> QED
  BY <1>4, <1>5, <1>7, <1>8, BatchesKept

LEMMA LeaseStep ==
  ASSUME WorkInv, NEW c \in Work!Batches, Work!LeaseExpires(c)
  PROVE  WorkInv'
<1> DEFINE rec == [batch[c] EXCEPT !.lease = "expired"]
<1>1. Work!TypeOK /\ Work!SavedOnce
  BY DEF WorkInv
<1>2. /\ UNCHANGED <<chat, worker, closing, saved, reset, crashes>>
      /\ batch' = [batch EXCEPT ![c] = rec]
      /\ failures' = failures \/ failures' = failures + 1
  BY DEF Work!LeaseExpires, Work!Fails
<1>3. rec \in Work!BatchRec /\ rec.status = batch[c].status
  BY <1>1 DEF Work!TypeOK, Work!BatchRec
<1> HIDE DEF rec
<1>4. batch' \in [Work!Batches -> Work!BatchRec]
  BY <1>1, <1>2, <1>3 DEF Work!TypeOK
<1>5. \A b \in Work!Batches : batch'[b].status = batch[b].status
  BY <1>1, <1>2, <1>3 DEF Work!TypeOK
<1>6. failures' \in Nat
  BY <1>1, <1>2 DEF Work!TypeOK
<1>7. Work!TypeOK'
  BY <1>1, <1>2, <1>4, <1>6 DEF Work!TypeOK
<1>8. Work!SavedOnce'
  BY <1>1, <1>2 DEF Work!SavedOnce
<1>9. \A b \in Work!Batches : BatchKept(b)
  BY <1>2, <1>5, HeldStays DEF BatchKept
<1>10. \A w \in Workers : WorkerMoves(w)
  BY <1>2 DEF WorkerMoves
<1> QED
  BY <1>7, <1>8, <1>9, <1>10, BatchesKept

\* The workers that come and go, and those that give up.
LEMMA WorkerSteps ==
  ASSUME WorkInv,
         \/ \E w \in Workers : \/ Work!Start(w) \/ Work!Close(w) \/ Work!Stop(w)
                               \/ Work!ClaimNothing(w) \/ Work!CommitRefused(w)
                               \/ Work!Fail(w) \/ Work!DatabaseFails(w)
         \/ Work!Crash
  PROVE  WorkInv'
<1>1. Work!TypeOK /\ Work!SavedOnce
  BY DEF WorkInv
<1>2. UNCHANGED <<chat, batch, saved, reset>>
  BY Zenon DEF Work!Start, Work!Close, Work!Stop, Work!ClaimNothing, Work!CommitRefused,
     Work!Fail, Work!DatabaseFails, Work!Crash
<1>3. failures' \in Nat /\ crashes' \in Nat
  <2>1. failures \in Nat /\ crashes \in Nat
    BY <1>1 DEF Work!TypeOK
  <2>2. /\ failures' = failures \/ failures' = failures + 1
        /\ crashes' = crashes \/ crashes' = crashes + 1
    BY Zenon DEF Work!Start, Work!Close, Work!Stop, Work!ClaimNothing, Work!CommitRefused,
       Work!Fail, Work!DatabaseFails, Work!Crash, Work!Fails
  <2> QED
    BY <2>1, <2>2
<1>4. closing' \subseteq Workers
  <2>1. closing \subseteq Workers
    BY <1>1 DEF Work!TypeOK
  <2>2. closing' = closing \/ closing' = {} \/ \E w \in Workers : closing' = closing \cup {w}
    BY Zenon DEF Work!Start, Work!Close, Work!Stop, Work!ClaimNothing, Work!CommitRefused,
       Work!Fail, Work!DatabaseFails, Work!Crash
  <2> QED
    BY <2>1, <2>2
<1> DEFINE AllMove == worker' \in [Workers -> Work!WorkerRec] /\ \A w \in Workers : WorkerMoves(w)
<1>5. AllMove
  <2>1. \/ worker' = worker
        \/ \E w \in Workers :
             \/ /\ worker[w].pc \in {"unborn", "wait", "claim"}
                /\ Work!Goto(w, "wait") \/ Work!Goto(w, "dead")
             \/ worker[w].pc = "model" /\ Work!Goto(w, "failing")
             \/ Work!LetGo(w, "wait") \/ Work!LetGo(w, "dead")
        \/ worker' = [w \in Workers |->
                         IF Work!At(w, "unborn") THEN Work!Unborn ELSE [Work!Unborn EXCEPT !.pc = "dead"]]
    BY Zenon DEF Work!Start, Work!Close, Work!Stop, Work!ClaimNothing, Work!CommitRefused,
       Work!Fail, Work!DatabaseFails, Work!Crash, Work!At
  <2>2. CASE worker' = worker
    BY <1>1, <2>2 DEF Work!TypeOK, WorkerMoves
  <2>3. ASSUME NEW w \in Workers, worker[w].pc \in {"unborn", "wait", "claim"},
               NEW label \in {"wait", "dead"}, Work!Goto(w, label)
        PROVE  AllMove
    <3>1. /\ worker' \in [Workers -> Work!WorkerRec]
          /\ worker'[w].pc = label /\ worker'[w].batch = worker[w].batch
          /\ worker'[w].exchanges = worker[w].exchanges
          /\ \A v \in Workers \ {w} : worker'[v] = worker[v]
      BY <1>1, <2>3, WorkerGoes
    <3> QED
      BY <2>3, <3>1 DEF WorkerMoves
  <2>4. ASSUME NEW w \in Workers, worker[w].pc = "model", Work!Goto(w, "failing")
        PROVE  AllMove
    <3>1. /\ worker' \in [Workers -> Work!WorkerRec]
          /\ worker'[w].pc = "failing" /\ worker'[w].batch = worker[w].batch
          /\ worker'[w].exchanges = worker[w].exchanges
          /\ \A v \in Workers \ {w} : worker'[v] = worker[v]
      BY <1>1, <2>4, WorkerGoes
    <3> QED
      BY <2>4, <3>1 DEF WorkerMoves
  <2>5. ASSUME NEW w \in Workers, NEW label \in {"wait", "dead"}, Work!LetGo(w, label)
        PROVE  AllMove
    <3>1. /\ worker' \in [Workers -> Work!WorkerRec]
          /\ worker'[w].pc = label /\ worker'[w].batch = Work!NoBatch
          /\ \A v \in Workers \ {w} : worker'[v] = worker[v]
      BY <1>1, <2>5, WorkerLetsGo
    <3> QED
      BY <3>1 DEF WorkerMoves
  <2>6. CASE worker' = [w \in Workers |->
                 IF Work!At(w, "unborn") THEN Work!Unborn ELSE [Work!Unborn EXCEPT !.pc = "dead"]]
    <3> DEFINE gone == [Work!Unborn EXCEPT !.pc = "dead"]
    <3>1. /\ Work!Unborn \in Work!WorkerRec /\ gone \in Work!WorkerRec
          /\ Work!Unborn.batch = Work!NoBatch /\ gone.batch = Work!NoBatch
          /\ Work!Unborn.pc = "unborn" /\ gone.pc = "dead"
      BY DEF Work!WorkerRec, Work!Unborn
    <3>2. \A w \in Workers : worker'[w] \in {Work!Unborn, gone}
      BY <2>6
    <3>3. worker' = [w \in Workers |-> IF Work!At(w, "unborn") THEN Work!Unborn ELSE gone]
      BY <2>6
    <3> HIDE DEF gone
    <3> QED
      BY <3>1, <3>2, <3>3 DEF WorkerMoves
  <2> QED
    BY <2>1, <2>2, <2>3, <2>4, <2>5, <2>6
<1>6. Work!TypeOK'
  BY <1>1, <1>2, <1>3, <1>4, <1>5 DEF Work!TypeOK
<1>7. Work!SavedOnce'
  BY <1>1, <1>2 DEF Work!SavedOnce
<1>8. \A b \in Work!Batches : BatchKept(b)
  BY <1>2, HeldStays DEF BatchKept
<1> QED
  BY <1>5, <1>6, <1>7, <1>8, BatchesKept

\* What is given back is held no longer, and was not saved.
LEMMA GiveBack ==
  ASSUME Work!TypeOK, Work!SavedOnce, NEW S \in SUBSET Exchanges, NEW due \in BOOLEAN,
         \A e \in S : chat[e].status = "processing",
         chat' = Work!GivenBack(S, due), saved' = saved
  PROVE  /\ chat' \in [Exchanges -> Work!ExchangeRec]
         /\ \A e \in Exchanges :
               chat'[e].batch = Work!NoBatch <=> chat'[e].status \in {"incomplete", "pending"}
         /\ Work!SavedOnce'
         /\ \A b \in Work!Batches : Work!Held(b)' = Work!Held(b) \ S
<1>1. /\ chat' \in [Exchanges -> Work!ExchangeRec]
      /\ \A e \in Exchanges :
            /\ e \in S => chat'[e].status = "pending" /\ chat'[e].batch = Work!NoBatch
            /\ e \notin S => chat'[e] = chat[e]
  BY GivenBackIs
<1>2. \A e \in Exchanges :
         chat'[e].batch = Work!NoBatch <=> chat'[e].status \in {"incomplete", "pending"}
  BY <1>1 DEF Work!TypeOK
<1>3. Work!SavedOnce'
  BY <1>1 DEF Work!SavedOnce
<1>4. ASSUME NEW b \in Work!Batches PROVE Work!Held(b)' = Work!Held(b) \ S
  <2>1. \A e \in Exchanges :
           chat'[e].status = "processing" /\ chat'[e].batch = b
           <=> chat[e].status = "processing" /\ chat[e].batch = b /\ e \notin S
    BY <1>1
  <2> QED
    BY <2>1 DEF Work!Held
<1> QED
  BY <1>1, <1>2, <1>3, <1>4

LEMMA RecoverStep ==
  ASSUME WorkInv, NEW w \in Workers, Work!Recover(w)
  PROVE  WorkInv'
<1>1. Work!TypeOK /\ Work!SavedOnce /\ \A b \in Work!Batches : Whole(b)
  BY DEF WorkInv
<1>2. /\ worker[w].pc = "wait" /\ Work!Goto(w, "claim")
      /\ chat' = Work!GivenBack(Work!Expired, TRUE)
      /\ batch' = [b \in Work!Batches |->
                      IF batch[b].status = "processing" /\ Work!Held(b) \cap Work!Expired # {}
                      THEN [batch[b] EXCEPT !.status = "failed"] ELSE batch[b]]
      /\ UNCHANGED <<closing, saved, reset, failures, crashes>>
  BY Zenon DEF Work!Recover, Work!At
<1>3. Work!Expired \in SUBSET Exchanges /\ \A e \in Work!Expired : chat[e].status = "processing"
  BY DEF Work!Expired
<1>4. /\ chat' \in [Exchanges -> Work!ExchangeRec]
      /\ \A e \in Exchanges :
            chat'[e].batch = Work!NoBatch <=> chat'[e].status \in {"incomplete", "pending"}
      /\ Work!SavedOnce'
      /\ \A b \in Work!Batches : Work!Held(b)' = Work!Held(b) \ Work!Expired
  <2>1. TRUE \in BOOLEAN /\ saved' = saved
    BY <1>2
  <2> QED
    BY <1>1, <1>2, <1>3, <2>1, GiveBack
<1>5. ASSUME NEW b \in Work!Batches
      PROVE  /\ batch'[b] \in Work!BatchRec
             /\ IF batch[b].status = "processing" /\ Work!Held(b) \cap Work!Expired # {}
                THEN batch'[b].status = "failed" ELSE batch'[b] = batch[b]
  <2>1. batch[b] \in Work!BatchRec
    BY <1>1 DEF Work!TypeOK
  <2>2. /\ [batch[b] EXCEPT !.status = "failed"] \in Work!BatchRec
        /\ [batch[b] EXCEPT !.status = "failed"].status = "failed"
    BY <2>1 DEF Work!BatchRec
  <2>3. batch'[b] = IF batch[b].status = "processing" /\ Work!Held(b) \cap Work!Expired # {}
                    THEN [batch[b] EXCEPT !.status = "failed"] ELSE batch[b]
    BY <1>2
  <2> QED
    BY <2>1, <2>2, <2>3
<1>6. ASSUME NEW b \in Work!Batches PROVE BatchKept(b)
  <2>1. CASE Work!Held(b) \cap Work!Expired = {}
    <3>1. batch'[b] = batch[b]
      BY <1>5, <2>1
    <3>2. Work!Held(b)' = Work!Held(b) \ Work!Expired
      BY <1>4
    <3> QED
      BY <1>2, <2>1, <3>1, <3>2 DEF BatchKept
  <2>2. CASE Work!Held(b) \cap Work!Expired # {}
    <3>1. Work!Held(b) # {}
      BY <2>2
    <3>2. batch[b].status = "processing"
      BY <1>1, <3>1 DEF Whole
    <3>3. batch'[b].status = "failed"
      BY <1>5, <2>2, <3>2
    <3>4. Work!Held(b) \subseteq Work!Expired
      BY <2>2, ExpiredWhole
    <3>5. Work!Held(b)' = {}
      BY <1>4, <3>4
    <3> QED
      BY <3>3, <3>5 DEF BatchKept
  <2> QED
    BY <2>1, <2>2
<1>7. /\ worker' \in [Workers -> Work!WorkerRec]
      /\ worker'[w].pc = "claim" /\ worker'[w].batch = worker[w].batch
      /\ worker'[w].exchanges = worker[w].exchanges
      /\ \A v \in Workers \ {w} : worker'[v] = worker[v]
  BY <1>1, <1>2, WorkerGoes
<1>8. \A v \in Workers : WorkerMoves(v)
  BY <1>2, <1>7 DEF WorkerMoves
<1>9. batch' \in [Work!Batches -> Work!BatchRec]
  <2>1. \A b \in Work!Batches : batch'[b] \in Work!BatchRec
    BY <1>5
  <2>2. batch' = [b \in Work!Batches |-> batch'[b]]
    BY <1>2
  <2> QED
    BY <2>1, <2>2
<1>10. Work!TypeOK'
  BY <1>1, <1>2, <1>4, <1>7, <1>9 DEF Work!TypeOK
<1> QED
  BY <1>4, <1>6, <1>8, <1>10, BatchesKept

LEMMA ReleaseStep ==
  ASSUME WorkInv, NEW w \in Workers, Work!Release(w)
  PROVE  WorkInv'
<1>0. PICK c : c = worker[w].batch
  OBVIOUS
<1> DEFINE rec == [status |-> "failed", lease |-> "null"]
<1>1. Work!TypeOK /\ Work!SavedOnce /\ WorkerTrue(w)
  BY DEF WorkInv
<1>2. /\ worker[w].pc = "failing" /\ Work!LetGo(w, "wait")
      /\ chat' = Work!GivenBack(Work!Held(c), FALSE)
      /\ batch' = [batch EXCEPT ![c] = rec]
      /\ UNCHANGED <<closing, saved, reset, failures, crashes>>
  BY <1>0, Zenon DEF Work!Release, Work!At
<1>3. c \in Work!Batches
  BY <1>0, <1>1, <1>2 DEF WorkerTrue, Work!TypeOK, Work!WorkerRec
<1>4. Work!Held(c) \in SUBSET Exchanges /\ \A e \in Work!Held(c) : chat[e].status = "processing"
  BY DEF Work!Held
<1>5. /\ chat' \in [Exchanges -> Work!ExchangeRec]
      /\ \A e \in Exchanges :
            chat'[e].batch = Work!NoBatch <=> chat'[e].status \in {"incomplete", "pending"}
      /\ Work!SavedOnce'
      /\ \A b \in Work!Batches : Work!Held(b)' = Work!Held(b) \ Work!Held(c)
  <2>1. FALSE \in BOOLEAN /\ saved' = saved
    BY <1>2
  <2> QED
    BY <1>1, <1>2, <1>4, <2>1, GiveBack
<1>6. /\ batch' \in [Work!Batches -> Work!BatchRec] /\ batch'[c].status = "failed"
      /\ \A b \in Work!Batches \ {c} : batch'[b] = batch[b]
  BY <1>1, <1>2, <1>3 DEF Work!TypeOK, Work!BatchRec
<1> HIDE DEF rec
<1>7. ASSUME NEW b \in Work!Batches PROVE BatchKept(b)
  <2>1. CASE b = c
    <3>1. Work!Held(c)' = {}
      BY <1>3, <1>5
    <3> QED
      BY <2>1, <3>1, <1>6 DEF BatchKept
  <2>2. CASE b # c
    <3>1. Work!Held(b) \cap Work!Held(c) = {}
      BY <2>2 DEF Work!Held
    <3>2. Work!Held(b)' = Work!Held(b) \ Work!Held(c)
      BY <1>5
    <3> QED
      BY <1>2, <1>6, <2>2, <3>1, <3>2 DEF BatchKept
  <2> QED
    BY <2>1, <2>2
<1>8. /\ worker' \in [Workers -> Work!WorkerRec]
      /\ worker'[w].pc = "wait" /\ worker'[w].batch = Work!NoBatch
      /\ \A v \in Workers \ {w} : worker'[v] = worker[v]
  BY <1>1, <1>2, WorkerLetsGo
<1>9. \A v \in Workers : WorkerMoves(v)
  BY <1>8 DEF WorkerMoves
<1>10. Work!TypeOK'
  BY <1>1, <1>2, <1>5, <1>6, <1>8 DEF Work!TypeOK
<1> QED
  BY <1>5, <1>7, <1>9, <1>10, BatchesKept

\* With the lease, the batch still holds all that the worker was handed, and nothing else.
LEMMA CommitStep ==
  ASSUME WorkInv, NEW w \in Workers, Work!Commit(w)
  PROVE  WorkInv'
<1>0. PICK c : c = worker[w].batch
  OBVIOUS
<1> DEFINE rec == [status |-> "consolidated", lease |-> "null"]
           done(e) == [chat[e] EXCEPT !.status = "consolidated", !.error = FALSE]
<1>1. Work!TypeOK /\ Work!SavedOnce /\ WorkerTrue(w) /\ \A b \in Work!Batches : Whole(b)
  BY DEF WorkInv
<1>2. /\ worker[w].pc = "model" /\ Work!LetGo(w, "claim") /\ Work!LeaseHeld(c)
      /\ chat' = [e \in Exchanges |-> IF e \in Work!Held(c) THEN done(e) ELSE chat[e]]
      /\ batch' = [batch EXCEPT ![c] = rec]
      /\ saved' = [e \in Exchanges |-> saved[e] + IF e \in worker[w].exchanges THEN 1 ELSE 0]
      /\ UNCHANGED <<closing, reset, failures, crashes>>
  BY <1>0, Zenon DEF Work!Commit, Work!At
<1>3. c \in Work!Batches /\ c # Work!NoBatch
  BY <1>0, <1>1, <1>2 DEF WorkerTrue, Work!TypeOK, Work!WorkerRec
<1>4. Work!Held(c) = worker[w].exchanges
  <2>1. /\ Work!Held(c) \subseteq worker[w].exchanges /\ Cardinality(worker[w].exchanges) = Size
        /\ worker[w].exchanges \subseteq Exchanges
    BY <1>0, <1>1, <1>3 DEF WorkerTrue, Work!TypeOK, Work!WorkerRec
  <2>2. Cardinality(Work!Held(c)) >= Size
    BY <1>2, SameSize DEF Work!LeaseHeld
  <2>3. IsFiniteSet(worker[w].exchanges)
    BY <2>1, SameSize, FS_Subset, ExchangesAssumption
  <2> QED
    BY <2>1, <2>2, <2>3, FullPart
<1>5. ASSUME NEW e \in Exchanges
      PROVE  /\ done(e) \in Work!ExchangeRec /\ done(e).status = "consolidated"
             /\ done(e).batch = chat[e].batch
  BY <1>1 DEF Work!TypeOK, Work!ExchangeRec
<1> HIDE DEF done
<1>6. /\ chat' \in [Exchanges -> Work!ExchangeRec]
      /\ \A e \in Exchanges :
            /\ chat'[e].batch = chat[e].batch
            /\ e \in Work!Held(c) => chat'[e].status = "consolidated"
            /\ e \notin Work!Held(c) => chat'[e].status = chat[e].status
  BY <1>1, <1>2, <1>5 DEF Work!TypeOK
<1>7. \A e \in Work!Held(c) : e \in Exchanges /\ chat[e].status = "processing" /\ chat[e].batch = c
  BY DEF Work!Held
<1>8. /\ batch' \in [Work!Batches -> Work!BatchRec] /\ batch'[c].status = "consolidated"
      /\ \A b \in Work!Batches \ {c} : batch'[b] = batch[b]
  BY <1>1, <1>2, <1>3 DEF Work!TypeOK, Work!BatchRec
<1> HIDE DEF rec
<1>9. Work!SavedOnce' /\ saved' \in [Exchanges -> Nat]
  <2>1. saved \in [Exchanges -> Nat]
    BY <1>1 DEF Work!TypeOK
  <2>2. \A e \in Exchanges : saved'[e] = saved[e] + IF e \in Work!Held(c) THEN 1 ELSE 0
    BY <1>2, <1>4
  <2>3. saved' \in [Exchanges -> Nat]
    BY <1>2, <2>1
  <2>4. ASSUME NEW e \in Exchanges
        PROVE  saved'[e] = IF chat'[e].status = "consolidated" THEN 1 ELSE 0
    <3>1. saved[e] = IF chat[e].status = "consolidated" THEN 1 ELSE 0
      BY <1>1 DEF Work!SavedOnce
    <3> QED
      BY <1>6, <1>7, <2>2, <3>1
  <2> QED
    BY <2>3, <2>4 DEF Work!SavedOnce
<1>10. ASSUME NEW b \in Work!Batches PROVE BatchKept(b)
  <2>1. CASE b = c
    <3>1. Work!Held(c)' = {}
      <4>1. \A e \in Exchanges : ~(chat'[e].status = "processing" /\ chat'[e].batch = c)
        BY <1>6 DEF Work!Held
      <4> QED
        BY <4>1 DEF Work!Held
    <3> QED
      BY <2>1, <3>1, <1>8 DEF BatchKept
  <2>2. CASE b # c
    <3>1. \A e \in Exchanges : chat'[e].status = "processing" /\ chat'[e].batch = b
                               <=> chat[e].status = "processing" /\ chat[e].batch = b
      BY <1>6, <1>7, <2>2
    <3>2. Work!Held(b)' = Work!Held(b)
      BY <3>1 DEF Work!Held
    <3> QED
      BY <1>2, <1>8, <2>2, <3>2 DEF BatchKept
  <2> QED
    BY <2>1, <2>2
<1>11. /\ worker' \in [Workers -> Work!WorkerRec]
       /\ worker'[w].pc = "claim" /\ worker'[w].batch = Work!NoBatch
       /\ \A v \in Workers \ {w} : worker'[v] = worker[v]
  BY <1>1, <1>2, WorkerLetsGo
<1>12. \A v \in Workers : WorkerMoves(v)
  BY <1>11 DEF WorkerMoves
<1>13. \A e \in Exchanges :
          chat'[e].batch = Work!NoBatch <=> chat'[e].status \in {"incomplete", "pending"}
  BY <1>1, <1>3, <1>6, <1>7 DEF Work!TypeOK
<1>14. Work!TypeOK'
  BY <1>1, <1>2, <1>6, <1>8, <1>9, <1>11, <1>13 DEF Work!TypeOK
<1> QED
  BY <1>9, <1>10, <1>12, <1>14, BatchesKept

\* A new batch holds its exchanges, as many as it should; the others keep theirs, or have
\* lost all of them to it.
LEMMA WorkClaim ==
  ASSUME WorkInv, NEW w \in Workers, Work!Claim(w)
  PROVE  WorkInv'
<1> DEFINE free == {b \in Work!Batches : batch[b].status = "none"}
           first == CHOOSE b \in Work!Batches :
                       batch[b].status = "none"
                       /\ \A d \in Work!Batches : d < b => batch[d].status # "none"
<1>0. PICK mine, c : mine = Work!Oldest(Work!Claimable, Size) /\ c = first
  OBVIOUS
<1> DEFINE handed == [pc |-> "model", batch |-> c, exchanges |-> mine]
           claimed == [status |-> "processing", batch |-> c, due |-> TRUE, error |-> FALSE]
           running == [status |-> "processing", lease |-> "running"]
<1>1. Work!TypeOK /\ Work!SavedOnce /\ \A b \in Work!Batches : Whole(b)
  BY DEF WorkInv
<1>2. /\ worker[w].pc = "claim" /\ Work!Cardinality(Work!Claimable) >= Size
      /\ \E b \in Work!Batches : batch[b].status = "none"
      /\ chat' = [e \in Exchanges |->
                     IF e \in mine THEN claimed ELSE Work!GivenBack(Work!Expired, TRUE)[e]]
      /\ batch' = [batch EXCEPT ![c] = running]
      /\ worker' = [worker EXCEPT ![w] = handed]
      /\ reset' = reset \cup {chat[e].batch : e \in Work!Expired}
      /\ UNCHANGED <<closing, saved, failures, crashes>>
  BY <1>0, Zenon DEF Work!Claim, Work!At
<1>3. c \in Work!Batches /\ batch[c].status = "none" /\ c # Work!NoBatch
  <2>1. free # {} /\ free \subseteq Nat /\ Work!Batches \subseteq Nat /\ 0 \notin Work!Batches
    BY <1>2, ExchangesAssumption DEF Work!Batches
  <2>2. PICK b \in free : \A d \in free : b <= d
    BY <2>1, HasMinimum
  <2>3. b \in Work!Batches /\ batch[b].status = "none"
    BY <2>2
  <2>4. ASSUME NEW d \in Work!Batches, d < b PROVE batch[d].status # "none"
    <3>1. d \in free => b <= d
      BY <2>2
    <3>2. d \in Nat /\ b \in Nat
      BY <2>1, <2>3
    <3>3. d \notin free
      BY <2>4, <3>1, <3>2
    <3> QED
      BY <3>3
  <2>5. /\ first \in Work!Batches /\ batch[first].status = "none"
    BY <2>3, <2>4, Zenon
  <2> QED
    BY <1>0, <2>1, <2>5 DEF Work!NoBatch
<1> HIDE DEF first, free
<1>4. /\ mine \subseteq Work!Claimable /\ Cardinality(mine) = Size
      /\ IsFiniteSet(mine) /\ mine \subseteq Exchanges /\ mine # {}
  <2>1. Work!Claimable \subseteq Exchanges
    BY DEF Work!Claimable, Work!Expired
  <2>2. IsFiniteSet(Exchanges) /\ Exchanges \subseteq Nat /\ Size \in Nat \ {0}
    BY SameSize, ExchangesAssumption
  <2>3. Work!Claimable \in SUBSET Nat /\ IsFiniteSet(Work!Claimable)
    BY <2>1, <2>2, FS_Subset
  <2>4. Size \in Nat /\ Size <= Cardinality(Work!Claimable)
    BY <1>2, <2>2, <2>3, SameSize, FS_CardinalityType
  <2>5. Cardinality(mine) = Size
    BY <1>0, <2>3, <2>4, OldestSize
  <2>6. mine \subseteq Work!Claimable
    BY <1>0 DEF Work!Oldest
  <2>7. IsFiniteSet(mine) /\ mine \subseteq Exchanges
    BY <2>1, <2>2, <2>6, FS_Subset
  <2>8. mine # {}
    BY <2>2, <2>5, FS_EmptySet
  <2> QED
    BY <2>5, <2>6, <2>7, <2>8
<1>5. \A e \in Work!Expired : e \in Exchanges /\ chat[e].status = "processing"
  BY DEF Work!Expired
<1>6. \A e \in mine : chat[e].status = "pending" \/ e \in Work!Expired
  BY <1>4 DEF Work!Claimable
<1>7. /\ Work!GivenBack(Work!Expired, TRUE) \in [Exchanges -> Work!ExchangeRec]
      /\ \A e \in Exchanges :
           /\ e \in Work!Expired =>
                 /\ Work!GivenBack(Work!Expired, TRUE)[e].status = "pending"
                 /\ Work!GivenBack(Work!Expired, TRUE)[e].batch = Work!NoBatch
           /\ e \notin Work!Expired => Work!GivenBack(Work!Expired, TRUE)[e] = chat[e]
  BY <1>1, GivenBackIs
<1>8. claimed \in Work!ExchangeRec /\ claimed.status = "processing" /\ claimed.batch = c
  BY <1>3 DEF Work!ExchangeRec
<1>9. /\ handed \in Work!WorkerRec /\ handed.pc = "model" /\ handed.batch = c
      /\ handed.exchanges = mine
  BY <1>3, <1>4 DEF Work!WorkerRec
<1>10. running \in Work!BatchRec /\ running.status = "processing"
  BY DEF Work!BatchRec
<1> HIDE DEF claimed, handed, running
<1>11. /\ chat' \in [Exchanges -> Work!ExchangeRec]
       /\ \A e \in Exchanges :
             /\ e \in mine => chat'[e].status = "processing" /\ chat'[e].batch = c
             /\ e \notin mine /\ e \in Work!Expired =>
                   chat'[e].status = "pending" /\ chat'[e].batch = Work!NoBatch
             /\ e \notin mine /\ e \notin Work!Expired => chat'[e] = chat[e]
  BY <1>2, <1>7, <1>8
<1>12. /\ batch' \in [Work!Batches -> Work!BatchRec] /\ batch'[c].status = "processing"
       /\ \A b \in Work!Batches \ {c} : batch'[b] = batch[b]
  BY <1>1, <1>2, <1>3, <1>10 DEF Work!TypeOK
<1>13. /\ worker' \in [Workers -> Work!WorkerRec]
       /\ worker'[w].pc = "model" /\ worker'[w].batch = c /\ worker'[w].exchanges = mine
       /\ \A v \in Workers \ {w} : worker'[v] = worker[v]
  BY <1>1, <1>2, <1>9 DEF Work!TypeOK
<1>14. reset' \subseteq Work!Batches
  <2>1. \A e \in Work!Expired : chat[e].batch \in Work!Batches
    BY <1>1, <1>5 DEF Work!TypeOK, Work!ExchangeRec
  <2> QED
    BY <1>1, <1>2, <2>1 DEF Work!TypeOK
<1>15. \A e \in Exchanges :
          chat'[e].batch = Work!NoBatch <=> chat'[e].status \in {"incomplete", "pending"}
  BY <1>1, <1>3, <1>11 DEF Work!TypeOK
<1>16. Work!TypeOK'
  BY <1>1, <1>2, <1>11, <1>12, <1>13, <1>14, <1>15 DEF Work!TypeOK
<1>17. Work!SavedOnce'
  <2>1. \A e \in Exchanges : chat'[e].status = "consolidated" <=> chat[e].status = "consolidated"
    BY <1>5, <1>6, <1>11
  <2> QED
    BY <1>1, <1>2, <2>1 DEF Work!SavedOnce
<1>18. Work!Held(c)' = mine
  <2>1. Work!Held(c) = {}
    BY <1>1, <1>3 DEF Whole
  <2>2. \A e \in Exchanges : chat'[e].status = "processing" /\ chat'[e].batch = c <=> e \in mine
    BY <1>11, <2>1 DEF Work!Held
  <2> QED
    BY <1>4, <2>2 DEF Work!Held
<1>19. ASSUME NEW b \in Work!Batches, b # c
       PROVE  /\ Work!Held(b)' = Work!Held(b) \ Work!Expired
              /\ Work!Held(b)' = Work!Held(b) \/ (Work!Held(b)' = {} /\ b \in reset')
  <2>1. \A e \in Exchanges : chat'[e].status = "processing" /\ chat'[e].batch = b
           <=> chat[e].status = "processing" /\ chat[e].batch = b /\ e \notin Work!Expired
    BY <1>6, <1>11, <1>19
  <2>2. Work!Held(b)' = Work!Held(b) \ Work!Expired
    BY <2>1 DEF Work!Held
  <2>3. CASE batch[b].lease = "expired" /\ Work!Held(b) # {}
    <3>1. Work!Held(b) \subseteq Work!Expired
      BY <2>3, ExpiredWhole
    <3>2. PICK e \in Work!Held(b) : e \in Work!Expired
      BY <2>3, <3>1
    <3>3. chat[e].batch = b
      BY DEF Work!Held
    <3>4. b \in reset'
      BY <1>2, <3>2, <3>3
    <3> QED
      BY <2>2, <3>1, <3>4
  <2>4. CASE batch[b].lease # "expired" \/ Work!Held(b) = {}
    <3>1. Work!Held(b) \cap Work!Expired = {}
      BY <2>4, ExpiredWhole
    <3> QED
      BY <2>2, <3>1
  <2> QED
    BY <2>3, <2>4
<1>20. ASSUME NEW b \in Work!Batches PROVE Whole(b)'
  <2>1. CASE b = c
    <3>1. Work!Held(b)' = mine
      BY <1>18, <2>1
    <3> QED
      BY <1>4, <1>12, <2>1, <3>1 DEF Whole
  <2>2. CASE b # c
    <3>1. Whole(b) /\ batch'[b] = batch[b]
      BY <1>1, <1>12, <2>2
    <3>2. Work!Held(b)' = Work!Held(b) \/ (Work!Held(b)' = {} /\ b \in reset')
      BY <1>19, <2>2
    <3>3. b \in reset => b \in reset'
      BY <1>2
    <3> QED
      BY <3>1, <3>2, <3>3 DEF Whole
  <2> QED
    BY <2>1, <2>2
<1>21. ASSUME NEW v \in Workers PROVE WorkerTrue(v)'
  <2>1. CASE v = w
    <3>1. Work!Held(worker[w].batch)' = Work!Held(c)'
      BY <1>13
    <3> QED
      BY <1>3, <1>4, <1>12, <1>13, <1>18, <2>1, <3>1 DEF WorkerTrue, Work!NoBatch
  <2>2. CASE v # w
    <3>1. WorkerTrue(v) /\ worker'[v] = worker[v]
      BY <1>13, <2>2 DEF WorkInv
    <3>2. CASE worker[v].batch = Work!NoBatch
      BY <3>1, <3>2 DEF WorkerTrue, Work!NoBatch
    <3>3. CASE worker[v].batch # Work!NoBatch
      <4>0. PICK b : b = worker[v].batch
        OBVIOUS
      <4>1. b \in Work!Batches
        BY <1>1, <3>3, <4>0 DEF Work!TypeOK, Work!WorkerRec
      <4>2. b # c
        BY <1>3, <3>1, <3>3, <4>0 DEF WorkerTrue
      <4>3. Work!Held(b)' \subseteq Work!Held(b) /\ batch'[b] = batch[b]
        BY <1>12, <1>19, <4>1, <4>2
      <4>4. Work!Held(worker[v].batch)' = Work!Held(b)'
        BY <3>1, <4>0
      <4> QED
        BY <3>1, <3>3, <4>0, <4>3, <4>4 DEF WorkerTrue, Work!NoBatch
    <3> QED
      BY <3>2, <3>3
  <2> QED
    BY <2>1, <2>2
<1> QED
  BY <1>16, <1>17, <1>20, <1>21 DEF WorkInv, Work!Batches

LEMMA WorkInvariant == Work!Spec => []WorkInv
<1>1. Work!Init => WorkInv
  <2> SUFFICES ASSUME Work!Init PROVE WorkInv
    OBVIOUS
  <2> DEFINE fresh == [status |-> "incomplete", batch |-> Work!NoBatch, due |-> TRUE, error |-> FALSE]
             none == [status |-> "none", lease |-> "null"]
  <2>1. /\ chat = [e \in Exchanges |-> fresh] /\ batch = [b \in Work!Batches |-> none]
        /\ worker = [w \in Workers |-> Work!Unborn] /\ saved = [e \in Exchanges |-> 0]
        /\ closing = {} /\ reset = {} /\ failures = 0 /\ crashes = 0
    BY Zenon DEF Work!Init
  <2>2. /\ fresh \in Work!ExchangeRec /\ fresh.status = "incomplete" /\ fresh.batch = Work!NoBatch
        /\ none \in Work!BatchRec /\ none.status = "none"
        /\ Work!Unborn \in Work!WorkerRec /\ Work!Unborn.pc = "unborn"
        /\ Work!Unborn.batch = Work!NoBatch
    BY DEF Work!ExchangeRec, Work!BatchRec, Work!WorkerRec, Work!Unborn
  <2> HIDE DEF fresh, none
  <2>3. Work!TypeOK
    BY <2>1, <2>2 DEF Work!TypeOK
  <2>4. Work!SavedOnce
    BY <2>1, <2>2 DEF Work!SavedOnce
  <2>5. ASSUME NEW b \in Work!Batches PROVE Whole(b)
    <3>1. Work!Held(b) = {} /\ batch[b].status = "none"
      BY <2>1, <2>2 DEF Work!Held
    <3> QED
      BY <3>1 DEF Whole
  <2>6. ASSUME NEW w \in Workers PROVE WorkerTrue(w)
    <3>1. worker[w].batch = Work!NoBatch /\ worker[w].pc = "unborn"
      BY <2>1, <2>2
    <3> QED
      BY <3>1 DEF WorkerTrue, Work!NoBatch
  <2> QED
    BY <2>3, <2>4, <2>5, <2>6 DEF WorkInv
<1>2. WorkInv /\ [Work!Next]_(Work!vars) => WorkInv'
  <2> SUFFICES ASSUME WorkInv, [Work!Next]_(Work!vars) PROVE WorkInv'
    OBVIOUS
  <2>1. CASE \E e \in Exchanges : Work!Complete(e) \/ Work!BackoffEnds(e)
    BY <2>1, ChatSteps
  <2>2. CASE Work!RetryFailed \/ UNCHANGED Work!vars
    BY <2>2, ChatSteps
  <2>3. ASSUME NEW b \in Work!Batches, Work!LeaseExpires(b) PROVE WorkInv'
    BY <2>3, LeaseStep
  <2>4. ASSUME NEW w \in Workers, \/ Work!Start(w) \/ Work!Close(w) \/ Work!Stop(w)
                                  \/ Work!ClaimNothing(w) \/ Work!CommitRefused(w)
                                  \/ Work!Fail(w) \/ Work!DatabaseFails(w)
        PROVE  WorkInv'
    BY <2>4, WorkerSteps
  <2>5. ASSUME NEW w \in Workers,
               Work!Recover(w) \/ Work!Claim(w) \/ Work!Commit(w) \/ Work!Release(w)
        PROVE  WorkInv'
    BY <2>5, RecoverStep, WorkClaim, CommitStep, ReleaseStep
  <2>6. CASE Work!Crash
    BY <2>6, WorkerSteps
  <2> QED
    BY <2>1, <2>2, <2>3, <2>4, <2>5, <2>6, Zenon DEF Work!Next, Work!Step
<1> QED
  BY <1>1, <1>2, PTL DEF Work!Spec

\* For any number of exchanges, workers and batches, and any size of a batch: what is
\* said in an exchange becomes memory once, whatever leases end under a worker, whoever
\* takes the exchanges over, and wherever the process dies.
THEOREM ExchangeSavedOnce ==
  Work!Spec => []SavedOnce
<1>1. WorkInv => SavedOnce
  BY DEF WorkInv, SavedOnce, Work!SavedOnce
<1> QED
  BY <1>1, WorkInvariant, PTL

\* The rows of the chat log and those of the batches agree: a batch has all of its
\* exchanges or none, only one that is being processed has any, and it has them unless a
\* claim took them away.
THEOREM RowsAgree ==
  Work!Spec => []BatchAgrees
<1>1. \A b : Held(b) = Work!Held(b)
  BY DEF Held, Work!Held
<1>2. WorkInv => BatchAgrees
  BY <1>1 DEF WorkInv, Whole, BatchAgrees, Intact, ProcessingIsKnown, Batches, Work!Batches
<1> QED
  BY <1>2, WorkInvariant, PTL

=============================================================================

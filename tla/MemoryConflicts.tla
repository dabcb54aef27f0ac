---------------------------- MODULE MemoryConflicts ----------------------------
(***************************************************************************)
(* The facts of the memory of gugugaga/memory/repository.py and the        *)
(* conflicts between them.  A fact that is to be saved is reviewed against *)
(* the facts that are stored; the review takes a call of the model, during *)
(* which the store goes on changing, and is checked against the store when *)
(* its result is applied.  A contradiction is not decided by the program:  *)
(* it puts both facts in quarantine until the user has decided.            *)
(*                                                                         *)
(* Every method of the repository is one transaction: one step, that sets  *)
(* db.  A fact keeps its content for good, so that a conflict's            *)
(* anchor_hash is always the hash of its anchor.                           *)
(***************************************************************************)
EXTENDS Naturals, FiniteSets, FiniteSetsExt, Sequences

CONSTANTS
    Contents,   \* subject and content of a fact: what fact_hash tells apart
    Related,    \* {c, d}: contents that share a subject or a word
    Turns,      \* turns in which save_note is called
    NoContent,  \* what a fact that is not stored yet holds
    MaxShown,   \* how many facts a review is shown at most: 20
    MaxFacts,   \* bound on the facts ever stored
    MaxConflicts, \* bound on the conflicts ever recorded
    MaxReviews  \* bound on the reviews of notes and batches

ASSUME ConflictsAssumption ==
    /\ Related \subseteq SUBSET Contents
    /\ NoContent \notin Contents
    /\ MaxShown \in Nat \ {0}
    /\ MaxFacts \in Nat \ {0} /\ MaxConflicts \in Nat /\ MaxReviews \in Nat
    /\ {"implicit", "manual"} \cap Turns = {}

Facts == 1..MaxFacts
Origins == Turns \cup {"implicit", "manual"}
Resolutions == {"existing", "candidate", "custom", "neither"}

VARIABLES
    db,     \* the tables facts and memory_conflicts
    review, \* what is under review, for each turn and for the batch of the worker
    judged, \* history: pairs of contents that a review or the user has compared
    overlooked, \* history: pairs whose one side was saved after a review that was shown
                \* as many facts as it may be, but not the other side
    reviews \* how many reviews there were

vars == <<db, review, judged, overlooked, reviews>>

\* A row of memory_conflicts: existing_fact_id, original_fact_id, the candidate, its
\* source, and "pending", "cancelled" or the resolution.  Rows that agree in all of
\* this are one.
ConflictRec == [anchor: Facts, original: Facts, candidate: Contents,
                origin: Origins, status: Resolutions \cup {"pending", "cancelled"}]

FactRec == [content: Contents \cup {NoContent},
            status: {"none", "active", "conflicted", "superseded", "forgotten"}]

Blank == [content |-> NoContent, status |-> "none"]
NoReview == [contents |-> <<>>, seen |-> <<>>, query |-> {}, again |-> FALSE]

Init ==
    /\ db = [fact |-> [f \in Facts |-> Blank], conflicts |-> {}]
    /\ review = [r \in Turns \cup {"implicit"} |-> NoReview]
    /\ judged = {} /\ overlooked = {}
    /\ reviews = 0

-----------------------------------------------------------------------------
(* Reading the tables                                                      *)

Live(d) == {f \in Facts : d.fact[f].status \in {"active", "conflicted"}}
Holders(d, c) == {f \in Live(d) : d.fact[f].content = c}
Unused(d) == {f \in Facts : d.fact[f].status = "none"}
Pending(d) == {k \in d.conflicts : k.status = "pending"}

\* The pending conflicts fact f is part of, on either side.
Against(d, f) ==
    {k \in Pending(d) : k.anchor = f \/ k.candidate = d.fact[f].content}

Similar(c, e) == c = e \/ {c, e} \in Related

\* What a review may see, the facts and their status: of the facts in S, the MaxShown
\* that come first.  Which those are depends on words and times: any.
Snapshots(d, S) ==
    {{<<f, d.fact[f].status>> : f \in T} : T \in
        IF Cardinality(S) <= MaxShown THEN {S} ELSE kSubset(MaxShown, S)}

\* The review of a content, and that of the source of a batch.
Candidates(d, c) == Snapshots(d, {f \in Live(d) : Similar(c, d.fact[f].content)})
AllCandidates(d) == Snapshots(d, Live(d))

-----------------------------------------------------------------------------
(* Changes to the tables                                                   *)

SetStatus(d, S, status) ==
    [d EXCEPT !.fact = [f \in Facts |->
        IF f \in S THEN [d.fact[f] EXCEPT !.status = status] ELSE d.fact[f]]]

\* A retry of an operation whose conflict was decided.
Decided(d, f, c, origin) ==
    LET same == {k \in d.conflicts :
                    k.original = f /\ k.candidate = c /\ k.origin = origin} IN
    origin \in Turns /\ same # {} /\ same \cap Pending(d) = {}

\* _create_conflict_unlocked, for every fact of anchors: it raises unless ...
MayOpen(d, anchors, c, origin) ==
    \A f \in anchors : Decided(d, f, c, origin) \/ (f \in Live(d) /\ d.fact[f].content # c)

Open(d, anchors, c, origin) ==
    LET new == {f \in anchors :
                   /\ ~Decided(d, f, c, origin)
                   /\ ~\E k \in Pending(d) : k.anchor = f /\ k.candidate = c}
        proposed == {f \in Facts : d.fact[f].status = "active" /\ d.fact[f].content = c}
        quarantined == IF new = {} THEN {} ELSE new \cup proposed IN
    [SetStatus(d, quarantined, "conflicted") EXCEPT
        !.conflicts = @ \cup {[anchor |-> f, original |-> f, candidate |-> c,
                               origin |-> origin, status |-> "pending"] : f \in new}]

\* (Fault: facts in quarantine are overlooked.)
AddFaulty(d, c) ==
    IF \E f \in Holders(d, c) : d.fact[f].status = "active" THEN d
    ELSE LET f == CHOOSE g \in Unused(d) : \A h \in Unused(d) : g <= h
             contested == \E k \in Pending(d) : k.candidate = c IN
         [d EXCEPT !.fact[f] = [content |-> c,
                                status |-> IF contested THEN "conflicted" ELSE "active"]]
\* _add_fact: the fact that holds this content already is seen once more.
Add(d, c) ==
    IF Holders(d, c) # {} THEN d
    ELSE LET f == CHOOSE g \in Unused(d) : \A h \in Unused(d) : g <= h
             contested == \E k \in Pending(d) : k.candidate = c IN
         [d EXCEPT !.fact[f] = [content |-> c,
                                status |-> IF contested THEN "conflicted" ELSE "active"]]

\* There is one at most (OneHolder).
Holder(d, c) == CHOOSE f \in Holders(d, c) : TRUE

\* (Fault: they stay where they are.)
RebaseFaulty(d, K, f) == d
\* The conflicts of set K are now about fact f.
Rebase(d, K, f) ==
    [d EXCEPT !.conflicts = (@ \ K) \cup {[k EXCEPT !.anchor = f] : k \in K}]

Close(d, K, status) ==
    [d EXCEPT !.conflicts = (@ \ K) \cup {[k EXCEPT !.status = status] : k \in K}]

\* The bounds.
Room(d, n) == Cardinality(Unused(d)) >= n
Fits(d) == Cardinality(d.conflicts) <= MaxConflicts

-----------------------------------------------------------------------------
(* Saving what was reviewed                                                *)

Idle(r) == review[r].contents = <<>>
Reviews == reviews < MaxReviews /\ reviews' = reviews + 1

\* service.save_note: the review of a note ...
StartNote(t, c) ==
    /\ Idle(t)
    /\ \E shown \in Candidates(db, c) :
          review' = [review EXCEPT ![t] = [contents |-> <<c>>, seen |-> <<shown>>, query |-> {}, again |-> FALSE]]
    /\ Reviews
    /\ UNCHANGED <<db, judged, overlooked>>

\* The facts that the review of the i-th content of r was shown.
Seen(r, i) == {p[1] : p \in review[r].seen[i]}
Queried == {p[1] : p \in review["implicit"].query}

\* A content that was found to be stored already is not compared with anything.
Repeats(r, i, c) == \E f \in Seen(r, i) : db.fact[f].content = c
Compared(r, i, c) ==
    IF Repeats(r, i, c) THEN {} ELSE Related \cap {{c, db.fact[f].content} : f \in Seen(r, i)}

\* What it was not compared with because others came first.
LeftOut(r, i, c) ==
    IF Cardinality(Seen(r, i)) < MaxShown THEN {}
    ELSE Related \cap {{c, db.fact[f].content} : f \in Live(db) \ Seen(r, i)}

\* What the review of a fact may find it to contradict: nothing if it is
\* stored already.
Found(r, i, c) == IF Repeats(r, i, c) THEN {{}} ELSE SUBSET Seen(r, i)

\* (Fault: whatever has changed in between.)
SaveNoteFaulty(t, anchors) ==
    LET c == review[t].contents[1] IN
    /\ ~Idle(t)
    /\ anchors \in Found(t, 1, c)
    /\ MayOpen(db, anchors, c, t)
    /\ anchors = {} => Room(db, 1)
    /\ db' = IF anchors # {} THEN Open(db, anchors, c, t) ELSE Add(db, c)
    /\ Fits(db')
    /\ judged' = judged \cup Compared(t, 1, c)
    /\ overlooked' = overlooked \cup (IF anchors = {} THEN LeftOut(t, 1, c) ELSE {})
    /\ review' = [review EXCEPT ![t] = NoReview]
    /\ UNCHANGED reviews
\* ... and its end.  anchors: what the review takes it to contradict.
SaveNote(t, anchors) ==
    LET c == review[t].contents[1] IN
    /\ ~Idle(t)
    /\ review[t].seen[1] \in Candidates(db, c)
    /\ anchors \in Found(t, 1, c)
    /\ MayOpen(db, anchors, c, t)
    /\ anchors = {} => Room(db, 1)
    /\ db' = IF anchors # {} THEN Open(db, anchors, c, t) ELSE Add(db, c)
    /\ Fits(db')
    /\ judged' = judged \cup Compared(t, 1, c)
    /\ overlooked' = overlooked \cup (IF anchors = {} THEN LeftOut(t, 1, c) ELSE {})
    /\ review' = [review EXCEPT ![t] = NoReview]
    /\ UNCHANGED reviews

\* The store has changed: the note is reviewed once more, then it fails.
StaleNote(t) ==
    /\ ~Idle(t)
    /\ \E now \in Candidates(db, review[t].contents[1]) :
          /\ review[t].seen[1] # now
          /\ review' = [review EXCEPT ![t] =
                IF @.again THEN NoReview ELSE [@ EXCEPT !.seen = <<now>>, !.again = TRUE]]
    /\ UNCHANGED <<db, judged, overlooked, reviews>>

\* service._review_consolidation, for one or two facts drawn from a batch: the source
\* is reviewed, then each fact.
StartBatch(contents) ==
    /\ Idle("implicit")
    /\ \E query \in AllCandidates(db),
          one \in Candidates(db, contents[1]), two \in Candidates(db, contents[Len(contents)]) :
          /\ contents[1] = contents[Len(contents)] => one = two
          /\ review' = [review EXCEPT !["implicit"] =
                [contents |-> contents, seen |-> <<one, two>>, query |-> query, again |-> FALSE]]
    /\ Reviews
    /\ UNCHANGED <<db, judged, overlooked>>

\* One fact of the batch: it was compared with what is stored and with the facts
\* before it.
SaveReviewed(d, anchors, c) == IF anchors # {} THEN Open(d, anchors, c, "implicit") ELSE Add(d, c)

\* commit_batch.  probes: facts the source itself contradicts, with what it says;
\* one, two: what the facts of the batch contradict; within: the second contradicts
\* the first.
Commit(probes, said, one, two, within) ==
    LET contents == review["implicit"].contents
        n == Len(contents)
        first == contents[1]
        second == contents[n]
        d1 == SaveReviewed(Open(db, probes, said, "implicit"), one, first)
        anchors == two \cup (IF within THEN {Holder(d1, first)} ELSE {}) IN
    /\ within => one = {} /\ first # second /\ ~Repeats("implicit", n, second)
    /\ MayOpen(db, probes, said, "implicit")
    /\ MayOpen(db, one, first, "implicit") /\ MayOpen(db, two, second, "implicit")
    /\ one = {} /\ first = second => two = {}
    /\ db' = IF n = 1 THEN d1 ELSE SaveReviewed(d1, anchors, second)
    /\ Fits(db')
    /\ judged' = judged \cup Compared("implicit", 1, first)
                        \cup Compared("implicit", n, second)
                        \cup (IF one = {} THEN Related \cap {{first, second}} ELSE {})
    /\ overlooked' = overlooked \cup (IF one = {} THEN LeftOut("implicit", 1, first) ELSE {})
                                \cup (IF two = {} THEN LeftOut("implicit", n, second) ELSE {})

\* Nothing that was shown for the batch has changed.
ReviewHolds(contents) ==
    /\ review["implicit"].query \in AllCandidates(db)
    /\ \A i \in 1..Len(contents) : review["implicit"].seen[i] \in Candidates(db, contents[i])

CommitBatch ==
    LET contents == review["implicit"].contents
        n == Len(contents) IN
    /\ ~Idle("implicit")
    /\ ReviewHolds(contents)
    /\ Room(db, n)
    /\ \E said \in Contents :
       \E probes \in SUBSET Queried,
          one \in Found("implicit", 1, contents[1]), two \in Found("implicit", n, contents[n]),
          within \in BOOLEAN :
            /\ n = 1 => two = {} /\ ~within
            /\ Commit(probes, said, one, two, within)
    /\ review' = [review EXCEPT !["implicit"] = NoReview]
    /\ UNCHANGED reviews

\* The batch is released, to be tried again.
StaleBatch ==
    LET contents == review["implicit"].contents IN
    /\ ~Idle("implicit")
    /\ \/ AllCandidates(db) # {review["implicit"].query}
       \/ \E i \in 1..Len(contents) : Candidates(db, contents[i]) # {review["implicit"].seen[i]}
    /\ review' = [review EXCEPT !["implicit"] = NoReview]
    /\ UNCHANGED <<db, judged, overlooked, reviews>>

-----------------------------------------------------------------------------
(* What the user does                                                      *)

\* Anchors an earlier decision kept over content c.
KeptOver(d, c, a) ==
    {f \in Live(d) \ {a} : \E k \in d.conflicts :
        k.status = "existing" /\ k.anchor = f /\ k.candidate = c}

\* The winner of a decision is released unless something is pending against it.
Release(d, S) ==
    [d EXCEPT !.fact = [f \in Facts |->
        IF f \in S
        THEN [d.fact[f] EXCEPT !.status = IF Against(d, f) # {} THEN "conflicted" ELSE "active"]
        ELSE d.fact[f]]]

\* (Fault: they stay closed.)
ReopenFaulty(d, anchors, c) == d
\* The comparisons that an earlier decision closed are opened again.
Reopen(d, anchors, c) == Open(d, anchors, c, "manual")

\* resolve_conflict, when neither the anchor nor the candidate is to stay.
ResolveNeither(k) ==
    LET others == Holders(db, k.candidate) \ {k.anchor} IN
    /\ k \in Pending(db)
    /\ db.fact[k.anchor].status = "conflicted"
    /\ ~\E o \in Pending(db) \ {k} : o.anchor \in {k.anchor} \cup others
    /\ db' = Close(SetStatus(db, {k.anchor} \cup others, "forgotten"), {k}, "neither")
    /\ UNCHANGED <<review, judged, overlooked, reviews>>

\* ... when the anchor stays: a candidate that was stored loses, and what is pending
\* against it is now about the anchor.
ResolveExisting(k) ==
    LET others == Holders(db, k.candidate) \ {k.anchor}
        moved == {o \in Pending(db) \ {k} : o.anchor \in others}
        d1 == Rebase(SetStatus(db, others, "superseded"), moved, k.anchor) IN
    /\ k \in Pending(db)
    /\ db.fact[k.anchor].status = "conflicted"
    /\ db' = Release(Close(d1, {k}, "existing"), {k.anchor})
    /\ judged' = judged \cup (Related \cap {{k.candidate, db.fact[k.anchor].content}})
    /\ UNCHANGED <<review, overlooked, reviews>>

\* ... when content c takes the place of the anchor, be it the candidate or the
\* user's own words, which beat a stored candidate too.
ResolveWith(k, c, resolution) ==
    LET others == Holders(db, k.candidate) \ {k.anchor}
        siblings == {o \in Pending(db) \ {k} : o.anchor = k.anchor}
        cousins == {o \in Pending(db) \ {k} : o.anchor \in others}
        kept == KeptOver(db, c, k.anchor)
        d1 == Add(SetStatus(Reopen(db, kept, c), {k.anchor}, "superseded"), c)
        winner == Holder(d1, c)
        d2 == Rebase(d1, siblings, winner)
        losers == IF resolution = "custom" THEN others \ {winner} ELSE {}
        moved == IF cousins = {} THEN {} ELSE {o \in Pending(d2) \ {k} : o.anchor \in losers}
        d3 == Rebase(SetStatus(d2, losers, "superseded"), moved, winner) IN
    /\ k \in Pending(db)
    /\ db.fact[k.anchor].status = "conflicted"
    /\ MayOpen(db, kept, c, "manual")
    /\ Room(db, 1)
    /\ db' = Release(Close(d3, {k}, resolution), {winner})
    /\ Fits(db')
    /\ judged' = judged \cup {p \in Related : c \in p}
    /\ UNCHANGED <<review, overlooked, reviews>>

ResolveCandidate(k) == ResolveWith(k, k.candidate, "candidate")
ResolveCustom(k, c) == ResolveWith(k, c, "custom")

\* update_fact: an active fact gets a new content, unless a fact holds it already.
UpdateFact(f, c) ==
    /\ db.fact[f].status = "active"
    /\ ~\E k \in Pending(db) : k.anchor = f
    /\ Holders(db, c) \subseteq {f}
    /\ Room(db, 1)
    /\ db' = Add(SetStatus(db, {f}, "superseded"), c)
    /\ judged' = judged \cup {p \in Related : c \in p}
    /\ UNCHANGED <<review, overlooked, reviews>>

\* (Fault: only anchors are released.)
ForgetFaulty(f) ==
    LET cancelled == Against(db, f)
        affected == {k.anchor : k \in cancelled}
        d1 == SetStatus(Close(db, cancelled, "cancelled"), {f}, "forgotten") IN
    /\ db.fact[f].status \notin {"none", "forgotten"}
    /\ db' = Release(d1, {g \in affected \ {f} : d1.fact[g].status = "conflicted"})
    /\ UNCHANGED <<review, judged, overlooked, reviews>>
\* forget: what is pending against the fact is cancelled, and the other side of it
\* is released.
Forget(f) ==
    LET cancelled == Against(db, f)
        affected == {k.anchor : k \in cancelled}
                    \cup UNION {{g \in Facts : /\ db.fact[g].status = "conflicted"
                                               /\ db.fact[g].content = k.candidate} : k \in cancelled}
        d1 == SetStatus(Close(db, cancelled, "cancelled"), {f}, "forgotten") IN
    /\ db.fact[f].status \notin {"none", "forgotten"}
    /\ db' = Release(d1, {g \in affected \ {f} : d1.fact[g].status = "conflicted"})
    /\ UNCHANGED <<review, judged, overlooked, reviews>>

-----------------------------------------------------------------------------
Next ==
    \/ \E t \in Turns :
          \/ \E c \in Contents : StartNote(t, c)
          \/ \E anchors \in SUBSET Facts : SaveNote(t, anchors)
          \/ StaleNote(t)
    \/ \E c \in Contents : StartBatch(<<c>>) \/ \E e \in Contents : StartBatch(<<c, e>>)
    \/ CommitBatch
    \/ StaleBatch
    \/ \E k \in db.conflicts :
          \/ ResolveNeither(k) \/ ResolveExisting(k) \/ ResolveCandidate(k)
          \/ \E c \in Contents : ResolveCustom(k, c)
    \/ \E f \in Facts : Forget(f) \/ \E c \in Contents : UpdateFact(f, c)

Spec == Init /\ [][Next]_vars

-----------------------------------------------------------------------------
(* Properties                                                              *)

TypeOK ==
    /\ db.fact \in [Facts -> FactRec]
    /\ db.conflicts \subseteq ConflictRec
    /\ judged \subseteq Related /\ overlooked \subseteq Related
    /\ reviews \in 0..MaxReviews
    /\ \A r \in Turns \cup {"implicit"} :
          /\ review[r].again \in BOOLEAN
          /\ Len(review[r].contents) \in 0..2
          /\ review[r].query \subseteq Facts \X {"active", "conflicted"}
          /\ \A i \in DOMAIN review[r].seen :
                review[r].seen[i] \subseteq Facts \X {"active", "conflicted"}

\* A content is held by one fact, however it came to be stored: a decision about it
\* decides about all there is.
OneHolder == \A c \in Contents : Cardinality(Holders(db, c)) <= 1

\* "Both leave the recall of valid facts": while a conflict is pending neither its
\* anchor nor a stored fact that says what its candidate says is active, and no fact is
\* in quarantine without a conflict the user can decide, whichever of the conflicts
\* of a fact are decided, forgotten or opened again.
Quarantined(f) == Against(db, f) # {} => db.fact[f].status # "active"
Released(f) == db.fact[f].status = "conflicted" => Against(db, f) # {}
QuarantineAgrees == \A f \in Facts : Quarantined(f) /\ Released(f)

\* What a review has found can be decided, whatever was decided before: the anchor
\* of the conflict, or what took its place, is still there.
FoundIsDecidable ==
    \A k \in Pending(db) : k.origin # "manual" => db.fact[k.anchor].status = "conflicted"

\* The same of every conflict, those included that resolve_conflict has opened again.
Decidable == \A k \in Pending(db) : db.fact[k.anchor].status = "conflicted"

\* Related facts that are active side by side are in set pairs.
SideBySide(pairs) ==
    \A f, g \in Facts :
        LET c == db.fact[f].content
            e == db.fact[g].content IN
        /\ db.fact[f].status = "active" /\ db.fact[g].status = "active"
        /\ c # e /\ {c, e} \in Related
        => {c, e} \in pairs

\* Two related facts are only ever active side by side after a review, or the user,
\* has compared them, unless one was saved by a review that was shown as many facts
\* as it may be, all of them others: none that came up during a review slips by.
ActiveTogetherCompared == SideBySide(judged \cup overlooked)

\* The same without the exception: that a saved fact is checked against every related one.
EveryPairCompared == SideBySide(judged)

\* A conflict is decided for the candidate, or for the user's own words.
ChoiceMade ==
    \E k \in Pending(db), choice \in {"candidate", "custom"} :
        k \notin db'.conflicts /\ [k EXCEPT !.status = choice] \in db'.conflicts

\* The comment of resolve_conflict: a later choice does not silently reverse an
\* earlier decision about another anchor.
KeptStaysKept ==
    [][ChoiceMade =>
          \A k \in db.conflicts : \A f \in Facts \ {k.anchor} :
             /\ k.status = "existing"
             /\ db.fact[f].status # "active" /\ db'.fact[f].status = "active"
             /\ db'.fact[f].content = k.candidate
             => db'.fact[k.anchor].status # "active"]_vars

=============================================================================

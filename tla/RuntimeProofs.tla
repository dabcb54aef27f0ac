------------------------------ MODULE RuntimeProofs ------------------------------
(***************************************************************************)
(* What a runtime keeps for the Lead, whatever the number of messages,     *)
(* tasks, commands, jobs, runtimes and crashes: its mailbox and the outbox *)
(* of matching requests, the background commands, and the scheduled jobs.  *)
(***************************************************************************)
EXTENDS LeadInbox, Background, Cron, WellFoundedInduction, TLAPS

-----------------------------------------------------------------------------
(* The mailbox                                                             *)

LEMMA HasMinimum ==
  ASSUME NEW S \in SUBSET Nat, S # {}
  PROVE  \E x \in S : \A y \in S : x <= y
<1> DEFINE Below == {ss \in Nat \X Nat : ss[1] < ss[2]}
<1>1. IsWellFoundedOn(Below, Nat)
  BY NatLessThanWellFounded, Zenon DEF OpToRel
<1>2. PICK x \in S : \A y \in S : <<y, x>> \notin Below
  BY <1>1, WFMin, Zenon
<1>3. ASSUME NEW y \in S PROVE x <= y
  <2>1. ~(y < x)
    BY <1>2
  <2> QED
    BY <2>1
<1> QED
  BY <1>3

\* What was read of a batch up to line n, and before it.
Line(batch, n, before) ==
    IF n = 0 THEN <<>> ELSE IF batch[n] \in Malformed THEN before ELSE Append(before, batch[n])

LEMMA ReadingExists ==
  ASSUME NEW batch \in Seq(Messages)
  PROVE  \E g : g = [n \in 0..Len(batch) |-> Line(batch, n, g[n - 1])]
<1> DEFINE fails == {n \in 0..Len(batch) : ~\E g : g = [k \in 0..n |-> Line(batch, k, g[k - 1])]}
<1>1. ASSUME fails # {} PROVE FALSE
  <2>1. fails \in SUBSET Nat
    OBVIOUS
  <2>2. PICK n \in fails : \A m \in fails : n <= m
    BY <1>1, <2>1, HasMinimum
  <2>3. CASE n = 0
    <3> DEFINE g == [k \in 0..0 |-> <<>>]
    <3>1. g = [k \in 0..0 |-> Line(batch, k, g[k - 1])]
      BY DEF Line
    <3> QED
      BY <2>2, <2>3, <3>1
  <2>4. CASE n # 0
    <3>1. n - 1 \in 0..Len(batch) /\ n - 1 \notin fails /\ n \in Nat
      BY <2>2, <2>4
    <3>2. PICK g : g = [k \in 0..(n - 1) |-> Line(batch, k, g[k - 1])]
      BY <3>1
    <3> DEFINE h == [k \in 0..n |-> IF k = n THEN Line(batch, n, g[n - 1]) ELSE g[k]]
    <3>3. ASSUME NEW k \in 0..n PROVE h[k] = Line(batch, k, h[k - 1])
      <4>1. CASE k = n
        BY <2>4, <3>1, <4>1
      <4>2. CASE k = 0 /\ k # n
        <5>1. h[k] = Line(batch, k, g[k - 1])
          BY <3>1, <3>2, <4>2
        <5> QED
          BY <4>2, <5>1 DEF Line
      <4>3. CASE k # 0 /\ k # n
        <5>1. k \in 0..(n - 1) /\ k - 1 \in 0..n /\ k - 1 # n
          BY <3>1, <4>3
        <5>2. g[k] = Line(batch, k, g[k - 1])
          BY <3>2, <5>1
        <5>3. h[k] = g[k] /\ h[k - 1] = g[k - 1]
          BY <4>3, <5>1
        <5> QED
          BY <5>2, <5>3
      <4> QED
        BY <4>1, <4>2, <4>3
    <3>4. h = [k \in 0..n |-> Line(batch, k, h[k - 1])]
      <4>1. h = [k \in 0..n |-> h[k]]
        OBVIOUS
      <4> HIDE DEF h
      <4> QED
        BY <3>3, <4>1
    <3> QED
      BY <2>2, <3>4
  <2> QED
    BY <2>3, <2>4
<1>2. Len(batch) \in 0..Len(batch)
  OBVIOUS
<1> QED
  BY <1>1, <1>2

LEMMA AppendRange ==
  ASSUME NEW s \in Seq(Messages), NEW m \in Messages
  PROVE  Range(Append(s, m)) = Range(s) \cup {m}
<1>1. /\ Len(Append(s, m)) = Len(s) + 1 /\ Append(s, m)[Len(s) + 1] = m
      /\ \A i \in 1..Len(s) : Append(s, m)[i] = s[i]
      /\ DOMAIN s = 1..Len(s) /\ DOMAIN Append(s, m) = 1..(Len(s) + 1)
  OBVIOUS
<1>2. 1..(Len(s) + 1) = 1..Len(s) \cup {Len(s) + 1}
  OBVIOUS
<1> QED
  BY <1>1, <1>2 DEF Range

LEMMA ConcatRange ==
  ASSUME NEW s \in Seq(Messages), NEW r \in Seq(Messages)
  PROVE  s \o r \in Seq(Messages) /\ Range(s \o r) = Range(s) \cup Range(r)
<1>1. s \o r \in Seq(Messages) /\ Len(s \o r) = Len(s) + Len(r)
  OBVIOUS
<1>2. \A i \in 1..Len(s) : i \in 1..Len(s \o r) /\ (s \o r)[i] = s[i]
  BY <1>1
<1>3. \A i \in 1..Len(r) : Len(s) + i \in 1..Len(s \o r) /\ (s \o r)[Len(s) + i] = r[i]
  BY <1>1
<1>4. ASSUME NEW i \in 1..Len(s \o r)
      PROVE  i \in 1..Len(s) \/ (i - Len(s) \in 1..Len(r) /\ i = Len(s) + (i - Len(s)))
  BY <1>1
<1>5. DOMAIN s = 1..Len(s) /\ DOMAIN r = 1..Len(r) /\ DOMAIN (s \o r) = 1..Len(s \o r)
  BY <1>1
<1>6. ASSUME NEW i \in 1..Len(s \o r) PROVE (s \o r)[i] \in Range(s) \cup Range(r)
  <2>1. CASE i \in 1..Len(s)
    BY <1>2, <1>5, <2>1 DEF Range
  <2>2. CASE i \notin 1..Len(s)
    <3> DEFINE j == i - Len(s)
    <3>1. j \in 1..Len(r) /\ i = Len(s) + j
      BY <1>4, <2>2
    <3> HIDE DEF j
    <3>2. (s \o r)[i] = r[j]
      BY <1>3, <3>1
    <3> QED
      BY <1>5, <3>1, <3>2 DEF Range
  <2> QED
    BY <2>1, <2>2
<1>7. \A i \in 1..Len(s) : s[i] \in Range(s \o r)
  <2> SUFFICES ASSUME NEW i \in 1..Len(s) PROVE s[i] \in Range(s \o r)
    OBVIOUS
  <2>1. i \in DOMAIN (s \o r) /\ (s \o r)[i] = s[i]
    BY <1>2, <1>5
  <2> QED
    BY <2>1 DEF Range
<1>8. \A i \in 1..Len(r) : r[i] \in Range(s \o r)
  <2> SUFFICES ASSUME NEW i \in 1..Len(r) PROVE r[i] \in Range(s \o r)
    OBVIOUS
  <2>1. Len(s) + i \in DOMAIN (s \o r) /\ (s \o r)[Len(s) + i] = r[i]
    BY <1>3, <1>5
  <2> QED
    BY <2>1 DEF Range
<1> QED
  BY <1>1, <1>5, <1>6, <1>7, <1>8 DEF Range

LEMMA WellFormedIs ==
  ASSUME NEW batch \in Seq(Messages)
  PROVE  /\ WellFormed(batch) \in Seq(Messages)
         /\ Range(WellFormed(batch)) = Range(batch) \ Malformed
<1> DEFINE read == CHOOSE g : g = [n \in 0..Len(batch) |-> Line(batch, n, g[n - 1])]
<1>1. WellFormed(batch) = read[Len(batch)]
  BY DEF WellFormed, Line
<1>2. read = [n \in 0..Len(batch) |-> Line(batch, n, read[n - 1])]
  BY ReadingExists
<1> HIDE DEF read
<1> DEFINE right(n) == /\ read[n] \in Seq(Messages)
                       /\ Range(read[n]) = {batch[i] : i \in 1..n} \ Malformed
           wrong == {n \in 0..Len(batch) : ~right(n)}
<1>3. right(0)
  <2>1. read[0] = <<>>
    BY <1>2 DEF Line
  <2> QED
    BY <2>1 DEF Range
<1>4. ASSUME NEW n \in 1..Len(batch), right(n - 1) PROVE right(n)
  <2>1. /\ n - 1 \in 0..Len(batch) /\ n \in 0..Len(batch) /\ n # 0 /\ batch[n] \in Messages
        /\ {batch[i] : i \in 1..n} = {batch[i] : i \in 1..(n - 1)} \cup {batch[n]}
    OBVIOUS
  <2>2. read[n] = IF batch[n] \in Malformed THEN read[n - 1] ELSE Append(read[n - 1], batch[n])
    BY <1>2, <2>1 DEF Line
  <2>3. CASE batch[n] \in Malformed
    BY <1>4, <2>1, <2>2, <2>3
  <2>4. CASE batch[n] \notin Malformed
    <3>1. read[n - 1] \in Seq(Messages) /\ read[n] = Append(read[n - 1], batch[n])
      BY <1>4, <2>2, <2>4
    <3>2. Range(read[n]) = Range(read[n - 1]) \cup {batch[n]}
      BY <2>1, <3>1, AppendRange
    <3> QED
      BY <1>4, <2>1, <2>4, <3>1, <3>2
  <2> QED
    BY <2>3, <2>4
<1> HIDE DEF right
<1>5. wrong = {}
  <2>1. wrong \in SUBSET Nat
    OBVIOUS
  <2>2. ASSUME wrong # {} PROVE FALSE
    <3>1. PICK n \in wrong : \A m \in wrong : n <= m
      BY <2>1, <2>2, HasMinimum
    <3>2. n # 0 /\ n \in 1..Len(batch) /\ n - 1 \in 0..Len(batch) /\ n - 1 \notin wrong
      BY <1>3, <3>1
    <3> QED
      BY <1>4, <3>1, <3>2
  <2> QED
    BY <2>2
<1>6. right(Len(batch))
  BY <1>5
<1>7. {batch[i] : i \in 1..Len(batch)} = Range(batch)
  BY DEF Range
<1> QED
  BY <1>1, <1>6, <1>7 DEF right

LEMMA BatchRange ==
  ASSUME NEW b \in Seq(Messages)
  PROVE  Range(b) \in SUBSET Messages /\ b # NoFile
BY MailboxAssumption DEF Range

-----------------------------------------------------------------------------
(* Where the mail of the Lead is                                           *)

\* Where a message may be.
In(m) == m \in Range(inbox)
Left(m) == \E b \in orphans : m \in Range(b)
Coll(m) == m \in Range(recovered)
Has(c, m) == m \in Content(held[c])
Somewhere(m) == In(m) \/ Left(m) \/ Coll(m) \/ \E c \in Consumers : Has(c, m)

LEMMA UnreadIs ==
  ASSUME NEW m
  PROVE  m \in Unread <=> In(m) \/ Left(m) \/ \E c \in Consumers : Has(c, m)
<1>1. m \in UNION {Range(b) : b \in orphans} <=> \E b \in orphans : m \in Range(b)
  OBVIOUS
<1>2. m \in UNION {Content(held[c]) : c \in Consumers} <=> \E c \in Consumers : m \in Content(held[c])
  OBVIOUS
<1>3. m \in Unread <=> \/ m \in Range(inbox)
                          \/ m \in UNION {Range(b) : b \in orphans}
                          \/ m \in UNION {Content(held[c]) : c \in Consumers}
  BY Zenon DEF Unread
<1> QED
  BY <1>1, <1>2, <1>3 DEF In, Left, Has

\* No message gets lost between the files; each that is in one of them was not handled
\* yet; and no two readers have it, nor one of them and the inbox, but for a batch that a
\* nack has written back and not removed.
Kept(m) ==
    m \in sent => Somewhere(m) \/ m \in handled \/ m \in dead \/ m \in lost
Once(m) ==
    /\ Somewhere(m) => m \in sent /\ m \notin handled
    /\ m \in handled => m \in sent
    /\ \A c, d \in Consumers : Has(c, m) /\ Has(d, m) => c = d
    /\ \A c \in Consumers \ nacking : ~(Has(c, m) /\ In(m))
Nacked(m) ==
    /\ \A c, d \in nacking : c = d
    /\ \A c \in nacking : Has(c, m) => In(m)

\* What a crash left behind was collected by the time anybody holds a batch, for each
\* claim of the Lead collects all of it.
LeftAlone ==
    /\ orphans # {} \/ recovered # <<>> => crashes > 0 /\ \A c \in Consumers : held[c] = NoFile
    /\ lost # {} => crashes > 1

LeadMailInv ==
    /\ MailboxType
    /\ sent \subseteq Messages /\ handled \subseteq Messages /\ crashes \in Nat
    /\ LeftAlone
    /\ \A m \in Messages : Kept(m) /\ Once(m) /\ Nacked(m)

\* The operations on the mailbox that the Lead uses.
LeadOperation ==
    \/ UNCHANGED mailbox \/ MailboxCrash \/ \E m \in Messages : SendTo(m)
    \/ \E c \in Consumers : \/ CollectLeft(c) \/ WriteRecovered(c) \/ ClaimRecovered(c)
                            \/ AckInbox(c) \/ NackWrite(c) \/ NackUnlink(c)

\* The types of the Lead's mailbox, through every operation on it.
LEMMA LeadMailType ==
  ASSUME MailboxType, LeadOperation
  PROVE  MailboxType'
<1> USE DEF MailboxType
<1>1. CASE UNCHANGED mailbox
  BY <1>1 DEF mailbox, recovery
<1>2. CASE MailboxCrash
  <2>1. {held[c] : c \in Consumers} \ {NoFile} \subseteq Seq(Messages)
    BY DEF Batches
  <2>2. Range(recovered) \subseteq Messages
    BY BatchRange
  <2>3. Returning \subseteq Messages
    <3>1. ASSUME NEW c \in nacking PROVE Content(held[c]) \subseteq Messages
      <4>1. held[c] \in Seq(Messages) \/ held[c] = NoFile
        BY DEF Batches
      <4> QED
        BY <4>1, BatchRange DEF Content
    <3> QED
      BY <3>1 DEF Returning
  <2>4. /\ inbox' = inbox /\ orphans' \subseteq Seq(Messages) /\ dead' = dead
        /\ held' \in [Consumers -> Batches]
        /\ nacking' = {} /\ recovering' = {} /\ recovered' = <<>>
    BY <1>2, <2>1 DEF MailboxCrash, Batches
  <2>5. lost' \subseteq Messages /\ doubled' \subseteq Messages
    BY <1>2, <2>2, <2>3 DEF MailboxCrash
  <2> QED
    BY <2>4, <2>5
<1>3. ASSUME NEW m \in Messages, SendTo(m) PROVE MailboxType'
  BY <1>3 DEF SendTo, recovery
<1>4. ASSUME NEW c \in Consumers, AckInbox(c) \/ NackUnlink(c) PROVE MailboxType'
  BY <1>4 DEF AckInbox, NackUnlink, Batches, recovery
<1>5. ASSUME NEW c \in Consumers, Hold(c, inbox), inbox' = <<>>, orphans' = orphans, recovering' = {}
      PROVE  MailboxType'
  <2>1. WellFormed(inbox) \in Seq(Messages)
    BY WellFormedIs
  <2>2. Range(inbox) \cap Malformed \subseteq Messages
    BY MailboxAssumption
  <2> QED
    BY <1>5, <2>1, <2>2 DEF Content, Hold, Batches
<1>6. ASSUME NEW c \in Consumers, ClaimRecovered(c) PROVE MailboxType'
  <2>1. CASE Hold(c, inbox) /\ inbox' = <<>> /\ UNCHANGED orphans
    BY <1>5, <1>6, <2>1 DEF ClaimRecovered
  <2>2. CASE UNCHANGED <<inbox, held, orphans, nacking, recovered, dead, lost, doubled>>
    BY <1>6, <2>2 DEF ClaimRecovered
  <2> QED
    BY <1>6, <2>1, <2>2 DEF ClaimRecovered
<1>7. ASSUME NEW c \in Consumers, NackWrite(c) PROVE MailboxType'
  <2>1. held[c] \in Seq(Messages) /\ inbox' = held[c] \o inbox
    BY <1>7 DEF NackWrite, Batches
  <2>2. inbox' \in Seq(Messages)
    BY <2>1, ConcatRange
  <2> QED
    BY <1>7, <2>2 DEF NackWrite, recovery
<1>8. ASSUME NEW c \in Consumers, CollectLeft(c) PROVE MailboxType'
  <2>1. PICK b \in orphans : orphans' = orphans \ {b} /\ recovered' = recovered \o b
    BY <1>8 DEF CollectLeft
  <2>2. recovered' \in Seq(Messages)
    BY <2>1, ConcatRange
  <2> QED
    BY <1>8, <2>1, <2>2 DEF CollectLeft
<1>9. ASSUME NEW c \in Consumers, WriteRecovered(c) PROVE MailboxType'
  <2>1. inbox' \in Seq(Messages)
    BY <1>9, ConcatRange DEF WriteRecovered
  <2> QED
    BY <1>9, <2>1 DEF WriteRecovered
<1> QED
  BY <1>1, <1>2, <1>3, <1>4, <1>6, <1>7, <1>8, <1>9 DEF LeadOperation

\* Where a message goes, by each operation.
LEMMA SendMoves ==
  ASSUME MailboxType, NEW x \in Messages, SendTo(x), NEW m \in Messages
  PROVE  /\ In(m)' <=> In(m) \/ m = x
         /\ Left(m)' <=> Left(m)
         /\ Coll(m)' <=> Coll(m)
         /\ \A c \in Consumers : Has(c, m)' <=> Has(c, m)
         /\ UNCHANGED <<orphans, nacking, recovered, held, dead, lost>>
<1>1. Range(inbox') = Range(inbox) \cup {x}
  BY AppendRange DEF SendTo, MailboxType
<1> QED
  BY <1>1 DEF Content, SendTo, In, Left, Coll, Has, recovery

LEMMA HoldMoves ==
  ASSUME MailboxType, NEW c \in Consumers, NEW b \in Seq(Messages), Hold(c, b),
         NEW m \in Messages
  PROVE  /\ Has(c, m)' <=> m \in Range(b) /\ m \notin Malformed
         /\ \A d \in Consumers \ {c} : Has(d, m)' <=> Has(d, m)
         /\ m \in dead' <=> m \in dead \/ (m \in Range(b) /\ m \in Malformed)
<1> DEFINE f == WellFormed(b)
<1>1. f \in Seq(Messages) /\ Range(f) = Range(b) \ Malformed
  BY WellFormedIs
<1>2. f # NoFile
  BY <1>1, BatchRange
<1>3. held' = [held EXCEPT ![c] = f] /\ dead' = dead \cup (Range(b) \cap Malformed)
  BY DEF Content, Hold
<1> HIDE DEF f
<1>4. held'[c] = f /\ \A d \in Consumers \ {c} : held'[d] = held[d]
  BY <1>3 DEF MailboxType
<1> QED
  BY <1>1, <1>2, <1>3, <1>4 DEF Content, Has

\* A claim after the recovery: the whole inbox becomes the batch.
LEMMA ClaimMoves ==
  ASSUME MailboxType, NEW c \in Consumers, ClaimRecovered(c), NEW m \in Messages
  PROVE  /\ nacking = {} /\ ~Has(c, m)
         /\ \A d \in Consumers \ {c} : Has(d, m)' <=> Has(d, m)
         /\ ~Left(m) /\ ~Coll(m)
         /\ ~In(m)'
         /\ Has(c, m)' <=> In(m) /\ m \notin Malformed
         /\ m \in dead' <=> m \in dead \/ (In(m) /\ m \in Malformed)
         /\ UNCHANGED <<orphans, nacking, recovered, lost>>
<1>1. nacking = {} /\ ~Has(c, m) /\ ~Left(m) /\ ~Coll(m)
  BY DEF Content, ClaimRecovered, Recovers, Has, Left, Coll, Range
<1>2. CASE Hold(c, inbox) /\ inbox' = <<>> /\ UNCHANGED orphans
  <2>1. inbox \in Seq(Messages) /\ Range(inbox') = {}
    BY <1>2 DEF MailboxType, Range
  <2>2. UNCHANGED <<nacking, recovered, lost>>
    BY <1>2 DEF Hold
  <2> QED
    BY <1>1, <1>2, <2>1, <2>2, HoldMoves DEF In
<1>3. CASE inbox = <<>> /\ UNCHANGED <<inbox, held, orphans, nacking, recovered, dead, lost, doubled>>
  BY <1>1, <1>3 DEF Content, In, Has, Range
<1> QED
  BY <1>2, <1>3 DEF ClaimRecovered

LEMMA CollectMoves ==
  ASSUME MailboxType, NEW c \in Consumers, CollectLeft(c), NEW m \in Messages
  PROVE  /\ In(m)' <=> In(m)
         /\ Left(m)' \/ Coll(m)' <=> Left(m) \/ Coll(m)
         /\ \A d \in Consumers : Has(d, m)' <=> Has(d, m)
         /\ UNCHANGED <<held, nacking, dead, lost>> /\ orphans # {}
<1>1. PICK b \in orphans : orphans' = orphans \ {b} /\ recovered' = recovered \o b
  BY DEF CollectLeft
<1>2. Range(recovered') = Range(recovered) \cup Range(b)
  BY <1>1, ConcatRange DEF MailboxType
<1>3. Left(m)' \/ Coll(m)' <=> Left(m) \/ Coll(m)
  BY <1>1, <1>2 DEF Left, Coll
<1> QED
  BY <1>3 DEF CollectLeft, In, Has, Content

LEMMA WriteMoves ==
  ASSUME MailboxType, NEW c \in Consumers, WriteRecovered(c), NEW m \in Messages
  PROVE  /\ In(m)' <=> In(m) \/ Coll(m)
         /\ ~Left(m) /\ ~Left(m)' /\ ~Coll(m)'
         /\ \A d \in Consumers : Has(d, m)' <=> Has(d, m)
         /\ UNCHANGED <<orphans, held, nacking, dead, lost>> /\ recovered # <<>> /\ recovered' = <<>>
<1>1. Range(inbox') = Range(inbox) \cup Range(recovered)
  BY ConcatRange DEF WriteRecovered, MailboxType
<1>2. /\ orphans = {} /\ recovered # <<>> /\ recovered' = <<>>
      /\ UNCHANGED <<orphans, held, nacking, dead, lost>>
  BY DEF WriteRecovered
<1>3. Range(recovered') = {}
  BY <1>2 DEF Range
<1> QED
  BY <1>1, <1>2, <1>3 DEF In, Left, Coll, Has, Content

LEMMA DropMoves ==
  ASSUME MailboxType, NEW c \in Consumers, AckInbox(c) \/ NackUnlink(c),
         NEW m \in Messages
  PROVE  /\ In(m)' <=> In(m)
         /\ Left(m)' <=> Left(m)
         /\ Coll(m)' <=> Coll(m)
         /\ ~Has(c, m)' /\ \A d \in Consumers \ {c} : Has(d, m)' <=> Has(d, m)
         /\ nacking' = {} /\ UNCHANGED <<orphans, recovered, dead, lost>>
<1>1. held'[c] = NoFile /\ \A d \in Consumers \ {c} : held'[d] = held[d]
  BY DEF AckInbox, NackUnlink, MailboxType
<1>2. nacking' = {} /\ UNCHANGED <<inbox, orphans, recovered, dead, lost>>
  BY DEF AckInbox, NackUnlink, Unlocked, recovery
<1> QED
  BY <1>1, <1>2 DEF Content, In, Left, Coll, Has

LEMMA NackMoves ==
  ASSUME MailboxType, NEW c \in Consumers, NackWrite(c), NEW m \in Messages
  PROVE  /\ In(m)' <=> In(m) \/ Has(c, m)
         /\ Left(m)' <=> Left(m)
         /\ Coll(m)' <=> Coll(m)
         /\ \A d \in Consumers : Has(d, m)' <=> Has(d, m)
         /\ nacking = {} /\ nacking' = {c} /\ UNCHANGED <<orphans, recovered, held, dead, lost>>
<1>1. held[c] \in Seq(Messages) /\ held[c] # NoFile /\ inbox' = held[c] \o inbox
  BY DEF NackWrite, MailboxType, Batches
<1>2. Range(inbox') = Range(held[c]) \cup Range(inbox)
  BY <1>1, ConcatRange DEF MailboxType
<1> QED
  BY <1>1, <1>2 DEF Content, NackWrite, Unlocked, In, Left, Coll, Has, recovery

LEMMA CrashMoves ==
  ASSUME MailboxType, MailboxCrash, NEW m \in Messages
  PROVE  /\ In(m)' <=> In(m)
         /\ Left(m)' <=> Left(m) \/ \E c \in Consumers : Has(c, m)
         /\ ~Coll(m)'
         /\ \A d \in Consumers : ~Has(d, m)' /\ held'[d] = NoFile
         /\ nacking' = {} /\ recovered' = <<>> /\ UNCHANGED dead
         /\ m \in lost' <=> \/ m \in lost
                            \/ Coll(m) /\ ~In(m) /\ ~Left(m) /\ ~\E c \in Consumers : Has(c, m)
<1>1. \A d \in Consumers : held'[d] = NoFile
  BY DEF MailboxCrash
<1>2. orphans' = orphans \cup ({held[c] : c \in Consumers} \ {NoFile})
  BY DEF MailboxCrash
<1>3. Left(m)' <=> Left(m) \/ \E c \in Consumers : Has(c, m)
  BY <1>2 DEF Content, Left, Has
<1>4. m \in lost' <=> m \in lost \/ (Coll(m) /\ m \notin Unread)
  BY DEF MailboxCrash, Coll
<1>5. ~Coll(m)' /\ recovered' = <<>> /\ nacking' = {} /\ UNCHANGED <<inbox, dead>>
  BY DEF MailboxCrash, Coll, Range
<1> QED
  BY <1>1, <1>3, <1>4, <1>5, UnreadIs DEF Content, In, Has

\* Every step of the Lead's specification but those on the mailbox leaves the mail alone.
mail == <<inbox, held, orphans, nacking, recovering, recovered, dead, lost, doubled,
          sent, handled, crashes>>

LEMMA LeadSteps ==
  ASSUME Next
  PROVE  \/ \E m \in Messages : Send(m)
         \/ \E c \in Consumers : Recover(c) \/ Claim(c) \/ AckMail(c) \/ Unlink(c)
         \/ \E c \in Consumers : Fail(c) /\ NackWrite(c)
         \/ Crash
         \/ UNCHANGED mail
<1>0. UNCHANGED mailbox => UNCHANGED <<inbox, held, orphans, nacking, recovering, recovered,
                                     dead, lost, doubled>>
  BY DEF mailbox, recovery
<1>1. ASSUME NEW c \in Consumers, ConsumerStep(c) \/ Fail(c)
      PROVE  \/ Recover(c) \/ Claim(c) \/ AckMail(c) \/ Unlink(c) \/ (Fail(c) /\ NackWrite(c))
             \/ UNCHANGED mail
  <2>1. ClearEvent(c) \/ ReadRequests(c) \/ Recheck(c) => UNCHANGED mail
    BY <1>0 DEF ClearEvent, ReadRequests, Recheck, mail
  <2>2. CompareRequests(c) \/ Signal(c) \/ Requeued(c) => UNCHANGED mail
    BY <1>0 DEF CompareRequests, Signal, Requeued, mail
  <2>3. ASSUME NEW t \in Tasks, AckRequest(c, t)
        PROVE  UNCHANGED mail
    BY <1>0, <2>3 DEF AckRequest, mail
  <2>4. Fail(c) => NackWrite(c) \/ UNCHANGED mail
    BY <1>0 DEF Fail, mail
  <2> QED
    BY <1>1, <2>1, <2>2, <2>3, <2>4 DEF ConsumerStep
<1>2. ASSUME NEW t \in Tasks, RequestRematch(t) \/ TakeOver(t) \/ GiveBack(t) \/ Match(t)
      PROVE  UNCHANGED mail
  BY <1>0, <1>2 DEF RequestRematch, TakeOver, GiveBack, Match, mail
<1>3. Ring \/ Boot \/ LoopTurn \/ UserTurn \/ CheckInbox => UNCHANGED mail
  BY <1>0 DEF Ring, Boot, LoopTurn, UserTurn, CheckInbox, mail
<1> QED
  BY <1>1, <1>2, <1>3 DEF Next

LEMMA LeadMailStep ==
  ASSUME LeadMailInv, [Next]_vars
  PROVE  LeadMailInv'
<1> USE DEF Kept, Once, Nacked, Somewhere
<1>0. /\ MailboxType /\ sent \subseteq Messages /\ handled \subseteq Messages /\ crashes \in Nat
      /\ LeftAlone
      /\ \A m \in Messages : Kept(m) /\ Once(m) /\ Nacked(m)
  BY DEF LeadMailInv
<1>a. ASSUME NEW m \in Messages, NEW c \in Consumers, Has(c, m)
      PROVE  /\ ~Left(m) /\ ~Coll(m) /\ orphans = {} /\ recovered = <<>>
             /\ m \in sent /\ m \notin handled
  <2>1. held[c] # NoFile
    BY <1>a DEF Has, Content
  <2>2. orphans = {} /\ recovered = <<>>
    BY <1>0, <2>1 DEF LeftAlone
  <2> QED
    BY <1>0, <1>a, <2>2 DEF Left, Coll, Range
<1> SUFFICES /\ MailboxType' /\ sent' \subseteq Messages /\ handled' \subseteq Messages
             /\ crashes' \in Nat /\ LeftAlone'
             /\ \A m \in Messages : (Kept(m) /\ Once(m) /\ Nacked(m))'
  BY DEF LeadMailInv
<1>1. ASSUME NEW x \in Messages, Send(x)
      PROVE  /\ MailboxType' /\ sent' \subseteq Messages /\ handled' \subseteq Messages
             /\ crashes' \in Nat /\ LeftAlone'
             /\ \A m \in Messages : (Kept(m) /\ Once(m) /\ Nacked(m))'
  <2>1. /\ SendTo(x) /\ nacking = {} /\ x \notin sent /\ sent' = sent \cup {x}
        /\ UNCHANGED <<handled, crashes, orphans, recovered, held, lost>>
    BY <1>1 DEF Send, SendTo, Unlocked, recovery
  <2>2. MailboxType'
    BY <1>0, <2>1, LeadMailType DEF LeadOperation
  <2>3. ASSUME NEW m \in Messages PROVE (Kept(m) /\ Once(m) /\ Nacked(m))'
    <3>1. /\ In(m)' <=> In(m) \/ m = x
          /\ Left(m)' <=> Left(m)
          /\ Coll(m)' <=> Coll(m)
          /\ \A c \in Consumers : Has(c, m)' <=> Has(c, m)
          /\ UNCHANGED <<orphans, nacking, recovered, held, dead, lost>>
      BY <1>0, <2>1, SendMoves
    <3> QED
      BY <1>0, <1>a, <2>1, <3>1
  <2>4. LeftAlone'
    BY <1>0, <2>1 DEF LeftAlone
  <2> QED
    BY <1>0, <2>1, <2>2, <2>3, <2>4
<1>2. ASSUME NEW c \in Consumers, Claim(c)
      PROVE  /\ MailboxType' /\ sent' \subseteq Messages /\ handled' \subseteq Messages
             /\ crashes' \in Nat /\ LeftAlone'
             /\ \A m \in Messages : (Kept(m) /\ Once(m) /\ Nacked(m))'
  <2>1. ClaimRecovered(c) /\ orphans = {} /\ recovered = <<>> /\ UNCHANGED <<sent, handled, crashes>>
    BY <1>2 DEF Claim, ClaimRecovered
  <2>2. MailboxType'
    BY <1>0, <2>1, LeadMailType DEF LeadOperation
  <2>3. ASSUME NEW m \in Messages PROVE (Kept(m) /\ Once(m) /\ Nacked(m))'
    <3>1. /\ nacking = {} /\ ~Has(c, m)
          /\ \A d \in Consumers \ {c} : Has(d, m)' <=> Has(d, m)
          /\ ~Left(m) /\ ~Coll(m)
          /\ ~In(m)'
          /\ Has(c, m)' <=> In(m) /\ m \notin Malformed
          /\ m \in dead' <=> m \in dead \/ (In(m) /\ m \in Malformed)
          /\ UNCHANGED <<orphans, nacking, recovered, lost>>
      BY <1>0, <2>1, ClaimMoves
    <3>2. ~Left(m)' /\ ~Coll(m)'
      BY <2>1, <3>1 DEF Left, Coll, Range
    <3> QED
      BY <1>0, <1>a, <2>1, <3>1, <3>2
  <2>4. LeftAlone'
    <3>1. UNCHANGED <<orphans, recovered, lost>>
      BY <2>1 DEF ClaimRecovered, Hold
    <3> QED
      BY <1>0, <2>1, <3>1 DEF LeftAlone
  <2> QED
    BY <1>0, <2>1, <2>2, <2>3, <2>4
<1>3. ASSUME NEW c \in Consumers, AckMail(c)
      PROVE  /\ MailboxType' /\ sent' \subseteq Messages /\ handled' \subseteq Messages
             /\ crashes' \in Nat /\ LeftAlone'
             /\ \A m \in Messages : (Kept(m) /\ Once(m) /\ Nacked(m))'
  <2>1. /\ AckInbox(c) /\ nacking = {} /\ UNCHANGED <<sent, crashes, orphans, recovered, lost>>
        /\ handled' = handled \cup Content(held[c])
    BY <1>3 DEF AckMail, AckInbox, Unlocked, recovery
  <2>2. MailboxType'
    BY <1>0, <2>1, LeadMailType DEF LeadOperation
  <2>5. Content(held[c]) \subseteq Messages
    <3>1. held[c] \in Seq(Messages) \/ held[c] = NoFile
      BY <1>0 DEF MailboxType, Batches
    <3> QED
      BY <3>1, BatchRange DEF Content
  <2>3. ASSUME NEW m \in Messages PROVE (Kept(m) /\ Once(m) /\ Nacked(m))'
    <3>1. /\ In(m)' <=> In(m)
          /\ Left(m)' <=> Left(m)
          /\ Coll(m)' <=> Coll(m)
          /\ ~Has(c, m)' /\ \A d \in Consumers \ {c} : Has(d, m)' <=> Has(d, m)
          /\ nacking' = {} /\ UNCHANGED <<orphans, recovered, dead, lost>>
      BY <1>0, <2>1, DropMoves
    <3>2. m \in handled' <=> m \in handled \/ Has(c, m)
      BY <2>1 DEF Has
    <3> QED
      BY <1>0, <1>a, <2>1, <3>1, <3>2
  <2>4. LeftAlone'
    <3>1. \A d \in Consumers : held'[d] \in {held[d], NoFile}
      BY <1>0, <2>1 DEF AckInbox, MailboxType
    <3> QED
      BY <1>0, <2>1, <3>1 DEF LeftAlone
  <2> QED
    BY <1>0, <2>1, <2>2, <2>3, <2>4, <2>5
<1>4. ASSUME NEW c \in Consumers, Unlink(c)
      PROVE  /\ MailboxType' /\ sent' \subseteq Messages /\ handled' \subseteq Messages
             /\ crashes' \in Nat /\ LeftAlone'
             /\ \A m \in Messages : (Kept(m) /\ Once(m) /\ Nacked(m))'
  <2>1. /\ NackUnlink(c) /\ c \in nacking
        /\ UNCHANGED <<sent, handled, crashes, orphans, recovered, lost>>
    BY <1>4 DEF Unlink, NackUnlink, recovery
  <2>2. MailboxType'
    BY <1>0, <2>1, LeadMailType DEF LeadOperation
  <2>3. ASSUME NEW m \in Messages PROVE (Kept(m) /\ Once(m) /\ Nacked(m))'
    <3>1. /\ In(m)' <=> In(m)
          /\ Left(m)' <=> Left(m)
          /\ Coll(m)' <=> Coll(m)
          /\ ~Has(c, m)' /\ \A d \in Consumers \ {c} : Has(d, m)' <=> Has(d, m)
          /\ nacking' = {} /\ UNCHANGED <<orphans, recovered, dead, lost>>
      BY <1>0, <2>1, DropMoves
    <3> QED
      BY <1>0, <1>a, <2>1, <3>1
  <2>4. LeftAlone'
    <3>1. \A d \in Consumers : held'[d] \in {held[d], NoFile}
      BY <1>0, <2>1 DEF NackUnlink, MailboxType
    <3> QED
      BY <1>0, <2>1, <3>1 DEF LeftAlone
  <2> QED
    BY <1>0, <2>1, <2>2, <2>3, <2>4
<1>5. ASSUME NEW c \in Consumers, Fail(c), NackWrite(c)
      PROVE  /\ MailboxType' /\ sent' \subseteq Messages /\ handled' \subseteq Messages
             /\ crashes' \in Nat /\ LeftAlone'
             /\ \A m \in Messages : (Kept(m) /\ Once(m) /\ Nacked(m))'
  <2>1. /\ NackWrite(c) /\ UNCHANGED <<sent, handled, crashes, orphans, recovered, held, lost>>
    BY <1>5 DEF Fail, NackWrite, recovery
  <2>2. MailboxType'
    BY <1>0, <2>1, LeadMailType DEF LeadOperation
  <2>3. ASSUME NEW m \in Messages PROVE (Kept(m) /\ Once(m) /\ Nacked(m))'
    <3>1. /\ In(m)' <=> In(m) \/ Has(c, m)
          /\ Left(m)' <=> Left(m)
          /\ Coll(m)' <=> Coll(m)
          /\ \A d \in Consumers : Has(d, m)' <=> Has(d, m)
          /\ nacking = {} /\ nacking' = {c} /\ UNCHANGED <<orphans, recovered, held, dead, lost>>
      BY <1>0, <2>1, NackMoves
    <3> QED
      BY <1>0, <1>a, <2>1, <3>1
  <2>4. LeftAlone'
    BY <1>0, <2>1 DEF LeftAlone
  <2> QED
    BY <1>0, <2>1, <2>2, <2>3, <2>4
<1>6. ASSUME Crash
      PROVE  /\ MailboxType' /\ sent' \subseteq Messages /\ handled' \subseteq Messages
             /\ crashes' \in Nat /\ LeftAlone'
             /\ \A m \in Messages : (Kept(m) /\ Once(m) /\ Nacked(m))'
  <2>1. /\ MailboxCrash /\ UNCHANGED <<sent, handled>> /\ crashes' = crashes + 1
    BY <1>6 DEF Crash
  <2>2. MailboxType'
    BY <1>0, <2>1, LeadMailType DEF LeadOperation
  <2>3. ASSUME NEW m \in Messages PROVE (Kept(m) /\ Once(m) /\ Nacked(m))'
    <3>1. /\ In(m)' <=> In(m)
          /\ Left(m)' <=> Left(m) \/ \E c \in Consumers : Has(c, m)
          /\ ~Coll(m)'
          /\ \A d \in Consumers : ~Has(d, m)' /\ held'[d] = NoFile
          /\ nacking' = {} /\ recovered' = <<>> /\ UNCHANGED dead
          /\ m \in lost' <=> \/ m \in lost
                             \/ Coll(m) /\ ~In(m) /\ ~Left(m) /\ ~\E c \in Consumers : Has(c, m)
      BY <1>0, <2>1, CrashMoves
    <3> QED
      BY <1>0, <1>a, <2>1, <3>1
  <2>4. LeftAlone'
    <3>1. \A c \in Consumers : held'[c] = NoFile
      BY <2>1 DEF MailboxCrash
    <3>2. lost' # {} => lost # {} \/ recovered # <<>>
      BY <2>1 DEF MailboxCrash, Range
    <3> QED
      BY <1>0, <2>1, <3>1, <3>2 DEF LeftAlone
  <2> QED
    BY <1>0, <2>1, <2>2, <2>3, <2>4
<1>7. ASSUME NEW c \in Consumers, Recover(c), CollectLeft(c)
      PROVE  /\ MailboxType' /\ sent' \subseteq Messages /\ handled' \subseteq Messages
             /\ crashes' \in Nat /\ LeftAlone'
             /\ \A m \in Messages : (Kept(m) /\ Once(m) /\ Nacked(m))'
  <2>1. /\ CollectLeft(c) /\ orphans # {} /\ UNCHANGED <<sent, handled, crashes, held, lost, nacking>>
    BY <1>7 DEF Recover, CollectLeft, leadVars
  <2>2. MailboxType'
    BY <1>0, <2>1, LeadMailType DEF LeadOperation
  <2>3. ASSUME NEW m \in Messages PROVE (Kept(m) /\ Once(m) /\ Nacked(m))'
    <3>1. /\ In(m)' <=> In(m)
          /\ Left(m)' \/ Coll(m)' <=> Left(m) \/ Coll(m)
          /\ \A d \in Consumers : Has(d, m)' <=> Has(d, m)
          /\ UNCHANGED <<held, nacking, dead, lost>> /\ orphans # {}
      BY <1>0, <2>1, CollectMoves
    <3>2. nacking \subseteq Consumers
      BY <1>0 DEF MailboxType
    <3> QED
      BY <1>0, <1>a, <2>1, <3>1, <3>2
  <2>4. LeftAlone'
    BY <1>0, <2>1 DEF LeftAlone
  <2> QED
    BY <1>0, <2>1, <2>2, <2>3, <2>4
<1>8. ASSUME NEW c \in Consumers, Recover(c), WriteRecovered(c)
      PROVE  /\ MailboxType' /\ sent' \subseteq Messages /\ handled' \subseteq Messages
             /\ crashes' \in Nat /\ LeftAlone'
             /\ \A m \in Messages : (Kept(m) /\ Once(m) /\ Nacked(m))'
  <2>1. /\ WriteRecovered(c) /\ recovered # <<>>
        /\ UNCHANGED <<sent, handled, crashes, orphans, held, lost, nacking>>
    BY <1>8 DEF Recover, WriteRecovered, leadVars
  <2>2. MailboxType'
    BY <1>0, <2>1, LeadMailType DEF LeadOperation
  <2>3. ASSUME NEW m \in Messages PROVE (Kept(m) /\ Once(m) /\ Nacked(m))'
    <3>1. /\ In(m)' <=> In(m) \/ Coll(m)
          /\ ~Left(m) /\ ~Left(m)' /\ ~Coll(m)'
          /\ \A d \in Consumers : Has(d, m)' <=> Has(d, m)
          /\ UNCHANGED <<orphans, held, nacking, dead, lost>> /\ recovered # <<>> /\ recovered' = <<>>
      BY <1>0, <2>1, WriteMoves
    <3>2. nacking \subseteq Consumers
      BY <1>0 DEF MailboxType
    <3> QED
      BY <1>0, <1>a, <2>1, <3>1, <3>2
  <2>4. LeftAlone'
    <3>1. orphans' = {} /\ recovered' = <<>>
      BY <2>1 DEF WriteRecovered
    <3> QED
      BY <1>0, <2>1, <3>1 DEF LeftAlone
  <2> QED
    BY <1>0, <2>1, <2>2, <2>3, <2>4
<1>9. CASE UNCHANGED mail
  <2> USE DEF mail
  <2>1. MailboxType' /\ LeftAlone'
    BY <1>0, <1>9 DEF MailboxType, LeftAlone
  <2>2. ASSUME NEW m \in Messages PROVE (Kept(m) /\ Once(m) /\ Nacked(m))'
    <3>1. /\ In(m)' <=> In(m)
          /\ Left(m)' <=> Left(m)
          /\ Coll(m)' <=> Coll(m)
          /\ \A c \in Consumers : Has(c, m)' <=> Has(c, m)
      BY <1>9 DEF In, Left, Coll, Has
    <3>2. UNCHANGED <<nacking, dead, lost, sent, handled, crashes>>
      BY <1>9
    <3>3. Kept(m) /\ Once(m) /\ Nacked(m)
      BY <1>0
    <3>4. Kept(m)'
      BY <3>1, <3>2, <3>3 DEF Kept
    <3>5. Once(m)'
      BY <3>1, <3>2, <3>3 DEF Once
    <3>6. Nacked(m)'
      BY <1>0, <3>1, <3>2, <3>3 DEF Nacked, MailboxType
    <3> QED
      BY <3>4, <3>5, <3>6
  <2> QED
    BY <1>0, <1>9, <2>1, <2>2
<1>10. UNCHANGED vars => UNCHANGED mail
  BY DEF vars, mailbox, recovery, leadVars, mail
<1> QED
  BY <1>1, <1>2, <1>3, <1>4, <1>5, <1>6, <1>7, <1>8, <1>9, <1>10, LeadSteps DEF Recover

-----------------------------------------------------------------------------
(* The outbox of matching requests                                         *)

\* A record is acknowledged in revisions it has had, and in its own only when it does
\* not need the Lead.
RecordTrue(r) ==
    /\ r \in Record
    /\ r.notified <= r.rev
    /\ Unresolved(r) => r.notified < r.rev

\* A revision v that a turn was shown is one the record has had, and an older one
\* once it was compared with the record, if that still needs the Lead.
MarkTrue(r, v, compared) ==
    /\ v \in 0..MaxRev /\ v <= r.rev
    /\ compared /\ v # 0 /\ Unresolved(r) => v < r.rev

OutboxInv ==
    /\ record \in [Tasks -> Record]
    /\ versions \in [Consumers -> [Tasks -> 0..MaxRev]]
    /\ \A t \in Tasks : RecordTrue(record[t])
    /\ \A t \in Tasks, c \in Consumers : MarkTrue(record[t], versions[c][t], pc[c] = "notified")

\* What the operations on a record have in common.
Follows(r, s) ==
    /\ RecordTrue(s)
    /\ r.rev <= s.rev
    /\ Unresolved(s) /\ s.rev = r.rev => Unresolved(r)

LEMMA MarkStays ==
  ASSUME NEW r, RecordTrue(r), NEW s, Follows(r, s), NEW v, NEW compared,
         MarkTrue(r, v, compared)
  PROVE  MarkTrue(s, v, compared)
BY LeadAssumption DEF RecordTrue, Follows, MarkTrue, Record

LEMMA RematchedFollows ==
  ASSUME NEW r, RecordTrue(r), r.rev < MaxRev
  PROVE  /\ Follows(r, Rematched(r))
         /\ Follows(r, [Rematched(r) EXCEPT !.state = "open"])
<1> DEFINE q == Rematched(r)
           s == [q EXCEPT !.state = "open"]
<1>0. /\ r \in Record /\ r.rev + 1 \in 1..MaxRev
      /\ q = [r EXCEPT !.rev = r.rev + 1, !.settled = FALSE]
  BY LeadAssumption DEF RecordTrue, Record, Rematched
<1>1. /\ q.state = r.state /\ q.settled = FALSE /\ q.rev = r.rev + 1 /\ q.notified = r.notified
      /\ q \in Record
  BY <1>0 DEF Record
<1> HIDE DEF q
<1>2. /\ s.settled = FALSE /\ s.rev = q.rev /\ s.notified = q.notified /\ s \in Record
  BY <1>1 DEF Record
<1> HIDE DEF s
<1>3. r.rev \in 1..MaxRev /\ r.notified \in 0..MaxRev /\ r.notified <= r.rev
  BY DEF RecordTrue, Record
<1>4. Follows(r, q)
  BY <1>1, <1>3, LeadAssumption DEF Follows, RecordTrue
<1>5. Follows(r, s)
  BY <1>1, <1>2, <1>3, LeadAssumption DEF Follows, RecordTrue
<1> QED
  BY <1>4, <1>5 DEF q, s

LEMMA TakenFollows ==
  ASSUME NEW r, RecordTrue(r), NEW state \in {"assigned", "owned"}
  PROVE  Follows(r, [r EXCEPT !.state = state])
<1> DEFINE s == [r EXCEPT !.state = state]
<1>1. s.state = state /\ s.rev = r.rev /\ s.notified = r.notified /\ s \in Record
  BY DEF RecordTrue, Record
<1> HIDE DEF s
<1>2. r.rev \in 1..MaxRev /\ r.notified \in 0..MaxRev /\ r.notified <= r.rev
  BY DEF RecordTrue, Record
<1>3. Follows(r, s)
  BY <1>1, <1>2, LeadAssumption DEF Follows, RecordTrue, Unresolved
<1> QED
  BY <1>3 DEF s

LEMMA MatchedFollows ==
  ASSUME NEW r, RecordTrue(r)
  PROVE  Follows(r, [r EXCEPT !.settled = TRUE, !.notified = r.rev])
<1> DEFINE s == [r EXCEPT !.settled = TRUE, !.notified = r.rev]
<1>1. r.rev \in 1..MaxRev /\ r.rev \in 0..MaxRev
  BY LeadAssumption DEF RecordTrue, Record
<1>2. s.settled = TRUE /\ s.rev = r.rev /\ s.notified = r.rev /\ s \in Record
  BY <1>1 DEF RecordTrue, Record
<1> HIDE DEF s
<1>3. Follows(r, s)
  BY <1>1, <1>2, LeadAssumption DEF Follows, RecordTrue, Unresolved
<1> QED
  BY <1>3 DEF s

LEMMA AckedFollows ==
  ASSUME NEW r, RecordTrue(r), NEW v, MarkTrue(r, v, TRUE), v # 0
  PROVE  Follows(r, Acked(r, v))
<1> DEFINE s == [r EXCEPT !.notified = v]
<1>1. /\ r.rev \in 1..MaxRev /\ r.notified \in 0..MaxRev /\ r.notified <= r.rev
      /\ v \in 0..MaxRev /\ v <= r.rev
  BY DEF RecordTrue, Record, MarkTrue
<1>2. (IF v < r.rev THEN v ELSE r.rev) = v
  BY <1>1, LeadAssumption
<1>3. Acked(r, v) \in {r, s}
  BY <1>2 DEF Acked
<1>4. Follows(r, r)
  BY <1>1, LeadAssumption DEF Follows
<1>5. s.state = r.state /\ s.settled = r.settled /\ s.rev = r.rev /\ s.notified = v /\ s \in Record
  BY <1>1 DEF RecordTrue, Record
<1> HIDE DEF s
<1>6. Follows(r, s)
  BY <1>1, <1>5, LeadAssumption DEF Follows, RecordTrue, MarkTrue, Unresolved
<1> QED
  BY <1>3, <1>4, <1>6

\* The steps of the outbox: a record is changed, a reader looks at the records or
\* compares what it saw with them, or goes from "notified" on when it has nothing left.
RecordStep(t) ==
    /\ \E s : record' = [record EXCEPT ![t] = s] /\ Follows(record[t], s)
    /\ UNCHANGED pc
    /\ \A c \in Consumers, u \in Tasks : versions'[c][u] \in {versions[c][u], 0}
    /\ versions' \in [Consumers -> [Tasks -> 0..MaxRev]]
ReaderStep(c) ==
    /\ UNCHANGED record
    /\ versions' \in [Consumers -> [Tasks -> 0..MaxRev]]
    /\ \A d \in Consumers \ {c} : versions'[d] = versions[d] /\ pc'[d] = pc[d]
    /\ \A t \in Tasks : \/ versions'[c][t] = 0
                        \/ pc'[c] # "notified" /\ versions'[c][t] \in {versions[c][t], record[t].rev}
                        \/ versions'[c][t] = versions[c][t] /\ pc[c] = pc'[c]
                        \/ versions'[c][t] = versions[c][t] /\ ~Keeps(record[t], versions[c][t])

LEMMA RecordStepOK ==
  ASSUME OutboxInv, NEW t \in Tasks, RecordStep(t)
  PROVE  OutboxInv'
<1>1. PICK s : record' = [record EXCEPT ![t] = s] /\ Follows(record[t], s)
  BY DEF RecordStep
<1>2. record'[t] = s /\ \A u \in Tasks \ {t} : record'[u] = record[u]
  BY <1>1 DEF OutboxInv
<1>3. record' \in [Tasks -> Record] /\ \A u \in Tasks : RecordTrue(record'[u])
  BY <1>1, <1>2 DEF OutboxInv, Follows, RecordTrue
<1>4. ASSUME NEW u \in Tasks, NEW c \in Consumers
      PROVE  MarkTrue(record'[u], versions'[c][u], pc'[c] = "notified")
  <2>1. MarkTrue(record[u], versions[c][u], pc[c] = "notified") /\ UNCHANGED pc
    BY DEF OutboxInv, RecordStep
  <2>2. MarkTrue(record'[u], versions[c][u], pc'[c] = "notified")
    BY <1>1, <1>2, <2>1, MarkStays DEF OutboxInv
  <2>3. versions'[c][u] = versions[c][u] \/ versions'[c][u] = 0
    BY DEF RecordStep
  <2> QED
    BY <1>3, <2>2, <2>3, LeadAssumption DEF MarkTrue, RecordTrue, Record
<1> QED
  BY <1>3, <1>4 DEF OutboxInv, RecordStep

LEMMA ReaderStepOK ==
  ASSUME OutboxInv, NEW c \in Consumers, ReaderStep(c)
  PROVE  OutboxInv'
<1>1. ASSUME NEW t \in Tasks, NEW d \in Consumers
      PROVE  MarkTrue(record[t], versions'[d][t], pc'[d] = "notified")
  <2>1. /\ MarkTrue(record[t], versions[d][t], pc[d] = "notified") /\ RecordTrue(record[t])
        /\ record[t].rev \in 1..MaxRev
    BY DEF OutboxInv, Record
  <2>2. CASE d # c
    BY <2>1, <2>2 DEF ReaderStep
  <2>3. CASE d = c /\ versions'[c][t] = 0
    BY <2>1, <2>3, LeadAssumption DEF MarkTrue
  <2>4. CASE d = c /\ pc'[c] # "notified" /\ versions'[c][t] \in {versions[c][t], record[t].rev}
    BY <2>1, <2>4, LeadAssumption DEF MarkTrue
  <2>5. CASE d = c /\ versions'[c][t] = versions[c][t] /\ pc[c] = pc'[c]
    BY <2>1, <2>5
  <2>6. CASE d = c /\ versions'[c][t] = versions[c][t] /\ ~Keeps(record[t], versions[c][t])
    BY <2>1, <2>6, LeadAssumption DEF MarkTrue, Keeps
  <2> QED
    BY <2>2, <2>3, <2>4, <2>5, <2>6 DEF ReaderStep
<1> QED
  BY <1>1 DEF OutboxInv, ReaderStep

LEMMA RecordSteps ==
  ASSUME OutboxInv, NEW t \in Tasks,
         RequestRematch(t) \/ TakeOver(t) \/ GiveBack(t) \/ Match(t)
  PROVE  RecordStep(t)
<1>0. /\ RecordTrue(record[t]) /\ versions \in [Consumers -> [Tasks -> 0..MaxRev]]
      /\ record \in [Tasks -> Record]
  BY DEF OutboxInv
<1>1. UNCHANGED <<pc, versions>>
  BY DEF RequestRematch, TakeOver, GiveBack, Match
<1>2. ASSUME NEW s, record' = [record EXCEPT ![t] = s], Follows(record[t], s) PROVE RecordStep(t)
  BY <1>0, <1>1, <1>2 DEF RecordStep
<1>3. CASE RequestRematch(t)
  <2>1. record' = [record EXCEPT ![t] = Rematched(record[t])] /\ record[t].rev < MaxRev
    BY <1>3 DEF RequestRematch
  <2> QED
    BY <1>0, <1>2, <2>1, RematchedFollows
<1>4. CASE TakeOver(t)
  <2>1. \E state \in {"assigned", "owned"} : record' = [record EXCEPT ![t].state = state]
    BY <1>4 DEF TakeOver
  <2>2. PICK state \in {"assigned", "owned"} :
           record' = [record EXCEPT ![t] = [record[t] EXCEPT !.state = state]]
    BY <2>1
  <2> QED
    BY <1>0, <1>2, <2>2, TakenFollows
<1>5. CASE GiveBack(t)
  <2>1. record' = [record EXCEPT ![t] = [Rematched(record[t]) EXCEPT !.state = "open"]]
    BY <1>5 DEF GiveBack
  <2>2. record[t].rev < MaxRev
    BY <1>5 DEF GiveBack
  <2> QED
    BY <1>0, <1>2, <2>1, <2>2, RematchedFollows
<1>6. CASE Match(t)
  <2>1. record' = [record EXCEPT ![t].settled = TRUE, ![t].notified = record[t].rev]
    BY <1>6 DEF Match
  <2>2. record' = [record EXCEPT ![t] = [record[t] EXCEPT !.settled = TRUE, !.notified = record[t].rev]]
    BY <1>0, <2>1
  <2> QED
    BY <1>0, <1>2, <2>2, MatchedFollows
<1> QED
  BY <1>3, <1>4, <1>5, <1>6

LEMMA AckRequestStep ==
  ASSUME OutboxInv, NEW c \in Consumers, NEW t \in Tasks, AckRequest(c, t)
  PROVE  RecordStep(t)
<1>1. /\ pc[c] = "notified" /\ versions[c][t] # 0 /\ UNCHANGED pc
      /\ record' = [record EXCEPT ![t] = Acked(record[t], versions[c][t])]
      /\ versions' = [versions EXCEPT ![c][t] = 0]
  BY DEF AckRequest
<1>2. /\ RecordTrue(record[t]) /\ MarkTrue(record[t], versions[c][t], TRUE)
      /\ versions \in [Consumers -> [Tasks -> 0..MaxRev]]
  BY <1>1 DEF OutboxInv
<1>3. Follows(record[t], Acked(record[t], versions[c][t]))
  BY <1>1, <1>2, AckedFollows
<1>4. versions' \in [Consumers -> [Tasks -> 0..MaxRev]]
  BY <1>1, <1>2, LeadAssumption
<1>5. \A d \in Consumers, u \in Tasks : versions'[d][u] \in {versions[d][u], 0}
  BY <1>1, <1>2
<1> QED
  BY <1>1, <1>3, <1>4, <1>5 DEF RecordStep

LeadLabels == {"idle", "clear", "claim", "requests", "recheck", "run", "compare", "notified",
               "unlink", "requeued"}

\* Where the reader goes on to, by each action of its own.
LEMMA ReaderSteps ==
  ASSUME OutboxInv, pc \in [Consumers -> LeadLabels], NEW c \in Consumers,
         \/ ClearEvent(c) \/ Claim(c) \/ ReadRequests(c) \/ Recheck(c)
         \/ AckMail(c) \/ CompareRequests(c) \/ Signal(c) \/ Unlink(c)
         \/ Requeued(c) \/ Fail(c)
  PROVE  ReaderStep(c) /\ pc' \in [Consumers -> LeadLabels]
<1>0. versions \in [Consumers -> [Tasks -> 0..MaxRev]] /\ record \in [Tasks -> Record]
  BY DEF OutboxInv
<1>1. ASSUME NEW label \in LeadLabels, pc' = [pc EXCEPT ![c] = label]
      PROVE  /\ pc' \in [Consumers -> LeadLabels] /\ pc'[c] = label
             /\ \A d \in Consumers \ {c} : pc'[d] = pc[d]
  BY <1>1
<1>2. ASSUME NEW label \in LeadLabels, pc' = [pc EXCEPT ![c] = label], label # "notified",
             UNCHANGED <<record, versions>>
      PROVE  ReaderStep(c) /\ pc' \in [Consumers -> LeadLabels]
  BY <1>0, <1>1, <1>2 DEF ReaderStep
<1>3. ASSUME NEW label \in LeadLabels, pc' = [pc EXCEPT ![c] = label], UNCHANGED record,
             NEW f \in [Tasks -> 0..MaxRev], versions' = [versions EXCEPT ![c] = f],
             \A t \in Tasks : \/ f[t] = 0
                              \/ label # "notified" /\ f[t] \in {versions[c][t], record[t].rev}
                              \/ f[t] = versions[c][t] /\ ~Keeps(record[t], versions[c][t])
      PROVE  ReaderStep(c) /\ pc' \in [Consumers -> LeadLabels]
  <2>1. /\ versions'[c] = f /\ versions' \in [Consumers -> [Tasks -> 0..MaxRev]]
        /\ \A d \in Consumers \ {c} : versions'[d] = versions[d]
    BY <1>0, <1>3
  <2> QED
    BY <1>0, <1>1, <1>3, <2>1 DEF ReaderStep
<1>4. CASE ClearEvent(c) \/ Claim(c) \/ Recheck(c) \/ AckMail(c)
           \/ Unlink(c) \/ Fail(c) \/ Signal(c)
  <2>1. /\ UNCHANGED <<record, versions>>
        /\ \/ pc' = [pc EXCEPT ![c] = "claim"] \/ pc' = [pc EXCEPT ![c] = "requests"]
           \/ pc' = [pc EXCEPT ![c] = "run"] \/ pc' = [pc EXCEPT ![c] = "compare"]
           \/ pc' = [pc EXCEPT ![c] = "requeued"] \/ pc' = [pc EXCEPT ![c] = "unlink"]
           \/ pc' = [pc EXCEPT ![c] = "idle"]
    BY <1>4 DEF ClearEvent, Claim, Recheck, AckMail, Unlink, Fail,
       Signal, Goto
  <2> QED
    BY <1>2, <2>1 DEF LeadLabels
<1>5. CASE ReadRequests(c)
  <2> DEFINE f == [t \in Tasks |-> IF t \in PendingRequests THEN record[t].rev ELSE 0]
  <2>1. /\ versions' = [versions EXCEPT ![c] = f] /\ pc' = [pc EXCEPT ![c] = "recheck"]
        /\ UNCHANGED record
    BY <1>5 DEF ReadRequests, Goto
  <2>2. f \in [Tasks -> 0..MaxRev] /\ \A t \in Tasks : f[t] \in {0, record[t].rev}
    BY <1>0, LeadAssumption DEF Record
  <2>h. /\ "recheck" \in LeadLabels /\ UNCHANGED record
        /\ \A t \in Tasks : \/ f[t] = 0
                            \/ "recheck" # "notified" /\ f[t] \in {versions[c][t], record[t].rev}
                            \/ f[t] = versions[c][t] /\ ~Keeps(record[t], versions[c][t])
    BY <2>1, <2>2 DEF LeadLabels
  <2> HIDE DEF f
  <2> QED
    BY <1>3, <2>1, <2>2, <2>h
<1>6. CASE CompareRequests(c)
  <2> DEFINE f == [t \in Tasks |-> IF Keeps(record[t], versions[c][t]) THEN 0 ELSE versions[c][t]]
  <2>1. /\ versions' = [versions EXCEPT ![c] = f] /\ pc' = [pc EXCEPT ![c] = "notified"]
        /\ UNCHANGED record
    BY <1>0, <1>6 DEF CompareRequests, Goto
  <2>2. f \in [Tasks -> 0..MaxRev]
    BY <1>0, LeadAssumption
  <2>3. \A t \in Tasks : f[t] = 0 \/ (f[t] = versions[c][t] /\ ~Keeps(record[t], versions[c][t]))
    OBVIOUS
  <2>h. /\ "notified" \in LeadLabels /\ UNCHANGED record
        /\ \A t \in Tasks : \/ f[t] = 0
                            \/ "notified" # "notified" /\ f[t] \in {versions[c][t], record[t].rev}
                            \/ f[t] = versions[c][t] /\ ~Keeps(record[t], versions[c][t])
    BY <2>1, <2>3 DEF LeadLabels
  <2> HIDE DEF f
  <2> QED
    BY <1>3, <2>1, <2>2, <2>h
<1>7. CASE Requeued(c)
  <2> DEFINE f == [t \in Tasks |-> 0]
  <2>1. /\ versions' = [versions EXCEPT ![c] = f] /\ pc' = [pc EXCEPT ![c] = "idle"]
        /\ UNCHANGED record
    BY <1>7 DEF Requeued, Goto
  <2>2. f \in [Tasks -> 0..MaxRev] /\ \A t \in Tasks : f[t] = 0
    BY LeadAssumption
  <2>h. /\ "idle" \in LeadLabels /\ UNCHANGED record
        /\ \A t \in Tasks : \/ f[t] = 0
                            \/ "idle" # "notified" /\ f[t] \in {versions[c][t], record[t].rev}
                            \/ f[t] = versions[c][t] /\ ~Keeps(record[t], versions[c][t])
    BY <2>1, <2>2 DEF LeadLabels
  <2> HIDE DEF f
  <2> QED
    BY <1>3, <2>1, <2>2, <2>h
<1> QED
  BY <1>4, <1>5, <1>6, <1>7

LEMMA OutboxStep ==
  ASSUME OutboxInv, pc \in [Consumers -> LeadLabels], [Next]_vars
  PROVE  OutboxInv' /\ pc' \in [Consumers -> LeadLabels]
<1>1. ASSUME NEW t \in Tasks,
             RequestRematch(t) \/ TakeOver(t) \/ GiveBack(t) \/ Match(t)
      PROVE  OutboxInv' /\ pc' \in [Consumers -> LeadLabels]
  <2>1. RecordStep(t)
    BY <1>1, RecordSteps
  <2> QED
    BY <2>1, RecordStepOK DEF RecordStep
<1>2. ASSUME NEW c \in Consumers, NEW t \in Tasks, AckRequest(c, t)
      PROVE  OutboxInv' /\ pc' \in [Consumers -> LeadLabels]
  <2>1. RecordStep(t)
    BY <1>2, AckRequestStep
  <2> QED
    BY <2>1, RecordStepOK DEF RecordStep
<1>3. ASSUME NEW c \in Consumers,
             \/ ClearEvent(c) \/ Claim(c) \/ ReadRequests(c) \/ Recheck(c)
             \/ AckMail(c) \/ CompareRequests(c) \/ Signal(c) \/ Unlink(c)
             \/ Requeued(c) \/ Fail(c)
      PROVE  OutboxInv' /\ pc' \in [Consumers -> LeadLabels]
  <2>1. ReaderStep(c) /\ pc' \in [Consumers -> LeadLabels]
    BY <1>3, ReaderSteps
  <2> QED
    BY <2>1, ReaderStepOK
<1>4. CASE LoopTurn \/ UserTurn \/ CheckInbox
  <2>1. PICK c \in Consumers : pc' = [pc EXCEPT ![c] = "clear"]
    BY <1>4, LeadAssumption DEF LoopTurn, UserTurn, CheckInbox, Goto
  <2>2. UNCHANGED <<record, versions>>
    BY <1>4 DEF LoopTurn, UserTurn, CheckInbox
  <2>3. pc' \in [Consumers -> LeadLabels]
    BY <2>1 DEF LeadLabels
  <2>4. \A d \in Consumers : pc'[d] = "notified" => pc[d] = "notified"
    BY <2>1
  <2> QED
    BY <2>2, <2>3, <2>4 DEF OutboxInv, MarkTrue
<1>5. CASE Crash
  <2>1. /\ UNCHANGED record /\ pc' = [c \in Consumers |-> "idle"]
        /\ versions' = [c \in Consumers |-> [t \in Tasks |-> 0]]
    BY <1>5 DEF Crash
  <2>2. versions' \in [Consumers -> [Tasks -> 0..MaxRev]] /\ \A c \in Consumers, t \in Tasks : versions'[c][t] = 0
    BY <2>1, LeadAssumption
  <2> QED
    BY <2>1, <2>2, LeadAssumption DEF OutboxInv, MarkTrue, RecordTrue, Record, LeadLabels
<1>6. CASE UNCHANGED <<record, versions, pc>>
  BY <1>6 DEF OutboxInv
<1>7. ASSUME NEW c \in Consumers, Recover(c) PROVE UNCHANGED <<record, versions, pc>>
  BY <1>7 DEF Recover, leadVars
<1> QED
  <2>1. ASSUME NEW m \in Messages, Send(m) PROVE UNCHANGED <<record, versions, pc>>
    BY <2>1 DEF Send
  <2>2. Ring \/ Boot => UNCHANGED <<record, versions, pc>>
    BY DEF Ring, Boot
  <2> QED
    BY <1>1, <1>2, <1>3, <1>4, <1>5, <1>6, <1>7, <2>1, <2>2
       DEF Next, ConsumerStep, vars, leadVars

-----------------------------------------------------------------------------
(* The theorems about the Lead                                             *)

LeadInv == LeadMailInv /\ OutboxInv /\ pc \in [Consumers -> LeadLabels]

LEMMA LeadInit == Init => LeadInv
<1> SUFFICES ASSUME Init PROVE LeadInv
  OBVIOUS
<1>1. /\ inbox = <<>> /\ orphans = {} /\ nacking = {} /\ dead = {}
      /\ recovering = {} /\ recovered = <<>> /\ lost = {} /\ doubled = {}
      /\ held = [c \in Consumers |-> NoFile] /\ sent = {} /\ handled = {} /\ crashes = 0
      /\ pc = [c \in Consumers |-> "idle"] /\ versions = [c \in Consumers |-> [t \in Tasks |-> 0]]
      /\ record = [t \in Tasks |-> [state |-> "open", settled |-> FALSE, rev |-> 1, notified |-> 0]]
  BY DEF Init, MailboxInit
<1>2. MailboxType
  BY <1>1 DEF MailboxType, Batches
<1>3. \A m : ~In(m) /\ ~Left(m) /\ ~Coll(m) /\ \A c \in Consumers : ~Has(c, m)
  BY <1>1 DEF Content, In, Left, Coll, Has, Range
<1>4. LeadMailInv
  BY <1>1, <1>2, <1>3 DEF LeadMailInv, LeftAlone, Kept, Once, Nacked, Somewhere
<1>5. \A t \in Tasks : /\ record[t].state = "open" /\ record[t].rev = 1 /\ record[t].notified = 0
                       /\ record[t] \in Record
  BY <1>1, LeadAssumption DEF Record
<1>6. record \in [Tasks -> Record] /\ versions \in [Consumers -> [Tasks -> 0..MaxRev]]
  BY <1>1, <1>5, LeadAssumption
<1>7. \A t \in Tasks, c \in Consumers : versions[c][t] = 0
  BY <1>1
<1> QED
  BY <1>1, <1>4, <1>5, <1>6, <1>7, LeadAssumption DEF LeadInv, OutboxInv, RecordTrue, MarkTrue, LeadLabels

LEMMA LeadInvariant == Spec => []LeadInv
<1>1. LeadInv /\ [Next]_vars => LeadInv'
  BY LeadMailStep, OutboxStep DEF LeadInv
<1>2. Init => LeadInv
  BY LeadInit
<1> QED
  BY <1>1, <1>2, PTL DEF Spec

\* The Lead's mail is in a file or in the hands of the claim that recovers it until it was
\* handled, and nothing that was handled is anywhere any more, wherever the process dies
\* (but for what a claim had collected when it died for the second time): for any number
\* of messages, crashes, and tasks that make turns overlap with their check_inbox.
THEOREM LeadMailDelivered == Spec => []DeliveredOnce
<1>1. LeadInv => DeliveredOnce
  <2> SUFFICES ASSUME LeadInv PROVE DeliveredOnce
    OBVIOUS
  <2>0. LeftAlone /\ \A m \in Messages : Kept(m) /\ Once(m)
    BY DEF LeadInv, LeadMailInv
  <2>1. ASSUME NEW m \in sent
        PROVE  m \in Unread \/ m \in Range(recovered) \/ m \in handled \/ m \in dead \/ m \in lost
    <3>1. m \in Messages
      BY <2>1 DEF LeadInv, LeadMailInv
    <3> QED
      BY <2>0, <2>1, <3>1, UnreadIs DEF Kept, Somewhere, Coll
  <2>2. ASSUME NEW m \in handled, m \in Unread \/ m \in Range(recovered) PROVE FALSE
    <3>1. m \in Messages
      BY <2>2 DEF LeadInv, LeadMailInv
    <3> QED
      BY <2>0, <2>2, <3>1, UnreadIs DEF Once, Somewhere, Coll
  <2>3. lost # {} => crashes > 1
    BY <2>0 DEF LeftAlone
  <2> QED
    BY <2>1, <2>2, <2>3 DEF DeliveredOnce
<1> QED
  BY <1>1, LeadInvariant, PTL

\* No request of a task that still needs the Lead is acknowledged in its present
\* revision, for any number of tasks, although ack_lead_inbox compares the records with
\* what the turn was shown before it writes, and without their locks.
THEOREM LeadRequestsStay ==
  Spec => []UnresolvedStaysPending
<1>1. LeadInv => UnresolvedStaysPending
  BY DEF LeadInv, OutboxInv, RecordTrue, UnresolvedStaysPending, PendingRequests, Record
<1> QED
  BY <1>1, LeadInvariant, PTL

-----------------------------------------------------------------------------
(* The Lead's mailbox is a Mailbox                                         *)

boxVars == <<Waiting, Taken, Returning, LeftBehind, dead, sent, lost>>

\* What waits, is taken, is being returned or was left behind, message by message.
BoxIs ==
    /\ Waiting \in SUBSET Messages /\ LeftBehind \in SUBSET Messages /\ Returning \in SUBSET Messages
    /\ Taken \in [Consumers -> SUBSET Messages]
    /\ \A m \in Messages :
          /\ m \in Waiting <=> In(m) \/ Left(m) \/ Coll(m)
          /\ m \in LeftBehind <=> Left(m) \/ Coll(m)
          /\ m \in Returning <=> \E c \in nacking : Has(c, m)
          /\ \A c \in Consumers : m \in Taken[c] <=> c \notin nacking /\ Has(c, m)

LEMMA BoxNow == MailboxType => BoxIs
<1> SUFFICES ASSUME MailboxType PROVE BoxIs
  OBVIOUS
<1>1. /\ Range(inbox) \in SUBSET Messages /\ Range(recovered) \in SUBSET Messages
      /\ \A b \in orphans : Range(b) \in SUBSET Messages
  BY BatchRange DEF MailboxType
<1>2. ASSUME NEW c \in Consumers PROVE Content(held[c]) \in SUBSET Messages
  <2>1. held[c] \in Seq(Messages) \/ held[c] = NoFile
    BY DEF MailboxType, Batches
  <2> QED
    BY <2>1, BatchRange DEF Content
<1>3. /\ LeftBehind \in SUBSET Messages
      /\ \A m \in Messages : m \in LeftBehind <=> Left(m) \/ Coll(m)
  BY <1>1, Zenon DEF LeftBehind, Left, Coll
<1>4. /\ Waiting \in SUBSET Messages
      /\ \A m \in Messages : m \in Waiting <=> In(m) \/ Left(m) \/ Coll(m)
  BY <1>1, <1>3, Zenon DEF Waiting, In
<1>5. /\ Taken \in [Consumers -> SUBSET Messages]
      /\ \A m \in Messages, c \in Consumers : m \in Taken[c] <=> c \notin nacking /\ Has(c, m)
  BY <1>2 DEF Taken, Has
<1>6. /\ Returning \in SUBSET Messages
      /\ \A m \in Messages : m \in Returning <=> \E c \in nacking : Has(c, m)
  <2>1. nacking \subseteq Consumers
    BY DEF MailboxType
  <2> QED
    BY <1>2, <2>1 DEF Returning, Has
<1> QED
  BY <1>3, <1>4, <1>5, <1>6 DEF BoxIs

LEMMA BoxLater == MailboxType' => BoxIs'
BY BoxNow, PTL

\* What waits and what is taken follows from where an operation moves each message.
LEMMA BoxFollows ==
  ASSUME BoxIs, BoxIs', NEW S \in SUBSET Messages, NEW f \in [Consumers -> SUBSET Messages],
         \A m \in Messages : m \in S <=> In(m)' \/ Left(m)' \/ Coll(m)',
         \A m \in Messages, c \in Consumers : m \in f[c] <=> c \notin nacking' /\ Has(c, m)'
  PROVE  Waiting' = S /\ Taken' = f
<1>1. Waiting' = S
  BY DEF BoxIs
<1>2. ASSUME NEW c \in Consumers PROVE Taken'[c] = f[c]
  <2>1. \A m \in Messages : m \in Taken'[c] <=> m \in f[c]
    BY DEF BoxIs
  <2> QED
    BY <2>1 DEF BoxIs
<1>3. Taken' = [c \in Consumers |-> Taken'[c]] /\ f = [c \in Consumers |-> f[c]]
  BY DEF BoxIs
<1> QED
  BY <1>1, <1>2, <1>3, Zenon

LEMMA LeftFollows ==
  ASSUME BoxIs, BoxIs', NEW L \in SUBSET Messages, NEW R \in SUBSET Messages,
         \A m \in Messages : m \in L <=> Left(m)' \/ Coll(m)',
         \A m \in Messages : m \in R <=> \E c \in nacking' : Has(c, m)'
  PROVE  LeftBehind' = L /\ Returning' = R
BY DEF BoxIs

LEMMA LeadBoxStep ==
  ASSUME LeadMailInv, LeadMailInv', [Next]_vars
  PROVE  Box!Next \/ UNCHANGED boxVars
<1>0. /\ MailboxType /\ MailboxType' /\ BoxIs /\ BoxIs'
      /\ \A m \in Messages : Once(m) /\ Nacked(m)
  BY BoxNow, BoxLater DEF LeadMailInv
<1>b. /\ Waiting \in SUBSET Messages /\ Taken \in [Consumers -> SUBSET Messages]
      /\ LeftBehind \in SUBSET Messages /\ Returning \in SUBSET Messages
  BY <1>0 DEF BoxIs
<1>n. nacking \subseteq Consumers
  BY <1>0 DEF MailboxType
<1>1. ASSUME NEW x \in Messages, Send(x) PROVE Box!Deposit(x)
  <2>1. SendTo(x) /\ x \notin sent /\ sent' = sent \cup {x}
    BY <1>1 DEF Send
  <2>2. \A m \in Messages : /\ In(m)' <=> In(m) \/ m = x
                            /\ Left(m)' <=> Left(m)
                            /\ Coll(m)' <=> Coll(m)
                            /\ \A c \in Consumers : Has(c, m)' <=> Has(c, m)
    BY <1>0, <2>1, SendMoves
  <2>3. UNCHANGED <<nacking, dead, lost>>
    BY <2>1 DEF SendTo
  <2>4. Waiting \cup {x} \in SUBSET Messages
    BY <1>b
  <2>5. Waiting' = Waiting \cup {x} /\ Taken' = Taken
    <3>1. \A m \in Messages : m \in Waiting \cup {x} <=> In(m)' \/ Left(m)' \/ Coll(m)'
      BY <1>0, <2>2 DEF BoxIs
    <3>2. \A m \in Messages, c \in Consumers : m \in Taken[c] <=> c \notin nacking' /\ Has(c, m)'
      BY <1>0, <2>2, <2>3 DEF BoxIs
    <3> QED
      BY <1>0, <1>b, <2>4, <3>1, <3>2, BoxFollows
  <2>6. LeftBehind' = LeftBehind /\ Returning' = Returning
    BY <1>0, <1>n, <2>2, <2>3 DEF BoxIs
  <2> QED
    BY <2>1, <2>3, <2>5, <2>6 DEF Box!Deposit
<1>2. ASSUME NEW c \in Consumers, Claim(c) PROVE Box!Take(c) \/ UNCHANGED boxVars
  <2>1. ClaimRecovered(c) /\ UNCHANGED sent
    BY <1>2 DEF Claim
  <2>2. \A m \in Messages :
           /\ nacking = {} /\ ~Has(c, m)
           /\ \A d \in Consumers \ {c} : Has(d, m)' <=> Has(d, m)
           /\ ~Left(m) /\ ~Coll(m)
           /\ ~In(m)'
           /\ Has(c, m)' <=> In(m) /\ m \notin Malformed
           /\ m \in dead' <=> m \in dead \/ (In(m) /\ m \in Malformed)
           /\ UNCHANGED <<orphans, nacking, recovered, lost>>
    BY <1>0, <2>1, ClaimMoves
  <2>3. /\ nacking = {} /\ nacking' = {} /\ UNCHANGED <<orphans, recovered, lost>>
        /\ orphans = {} /\ recovered = <<>>
    BY <2>1 DEF ClaimRecovered, Recovers, Hold
  <2>4. \A m \in Messages : ~Left(m)' /\ ~Coll(m)'
    BY <2>3 DEF Left, Coll, Range
  <2> DEFINE batch == Waiting
             f == [Taken EXCEPT ![c] = batch \ Malformed]
  <2>5. f \in [Consumers -> SUBSET Messages] /\ f[c] = Waiting \ Malformed
        /\ \A d \in Consumers \ {c} : f[d] = Taken[d]
    BY <1>b
  <2>6. Waiting' = {} /\ Taken' = f
    <3> HIDE DEF f
    <3>1. {} \in SUBSET Messages /\ \A m \in Messages : m \in {} <=> In(m)' \/ Left(m)' \/ Coll(m)'
      BY <2>2, <2>4
    <3>2. \A m \in Messages, d \in Consumers : m \in f[d] <=> d \notin nacking' /\ Has(d, m)'
      BY <1>0, <2>2, <2>3, <2>5 DEF BoxIs
    <3> QED
      BY <1>0, <2>5, <3>1, <3>2, BoxFollows
  <2>7. LeftBehind = {} /\ LeftBehind' = {} /\ Returning = {} /\ Returning' = {}
    BY <1>0, <2>2, <2>3, <2>4 DEF BoxIs
  <2>8. dead' = dead \cup (batch \cap Malformed)
    <3>1. dead \in SUBSET Messages /\ dead' \in SUBSET Messages
      BY <1>0 DEF MailboxType
    <3>2. \A m \in Messages : m \in dead' <=> m \in dead \cup (batch \cap Malformed)
      BY <1>0, <2>2 DEF BoxIs
    <3> QED
      BY <1>b, <3>1, <3>2
  <2>9. Taken[c] = {}
    BY <1>0, <2>2 DEF BoxIs
  <2> QED
    <3>1. batch \in SUBSET Waiting /\ {} \in SUBSET (batch \cap {}) /\ {} \in SUBSET batch
          /\ {} = (Waiting \ batch) \cup {} /\ LeftBehind' = LeftBehind \ {}
      BY <2>7
    <3> QED
      BY <2>1, <2>3, <2>6, <2>7, <2>8, <2>9, <3>1 DEF Box!Take
<1>3. ASSUME NEW c \in Consumers, AckMail(c) PROVE Box!Acknowledge(c)
  <2>1. AckInbox(c) /\ nacking = {} /\ UNCHANGED sent
    BY <1>3 DEF AckMail, AckInbox, Unlocked
  <2>2. \A m \in Messages :
           /\ In(m)' <=> In(m)
           /\ Left(m)' <=> Left(m)
           /\ Coll(m)' <=> Coll(m)
           /\ ~Has(c, m)' /\ \A d \in Consumers \ {c} : Has(d, m)' <=> Has(d, m)
    BY <1>0, <2>1, DropMoves
  <2>3. UNCHANGED <<nacking, dead, lost>>
    BY <2>1 DEF AckInbox
  <2> DEFINE f == [Taken EXCEPT ![c] = {}]
  <2>4. f \in [Consumers -> SUBSET Messages] /\ f[c] = {} /\ \A d \in Consumers \ {c} : f[d] = Taken[d]
    BY <1>b
  <2> HIDE DEF f
  <2>5. Waiting' = Waiting /\ Taken' = f
    <3>1. \A m \in Messages : m \in Waiting <=> In(m)' \/ Left(m)' \/ Coll(m)'
      BY <1>0, <2>2 DEF BoxIs
    <3>2. \A m \in Messages, d \in Consumers : m \in f[d] <=> d \notin nacking' /\ Has(d, m)'
      BY <1>0, <2>2, <2>3, <2>4 DEF BoxIs
    <3> QED
      BY <1>0, <1>b, <2>4, <3>1, <3>2, BoxFollows
  <2>6. LeftBehind' = LeftBehind /\ Returning' = Returning
    BY <1>0, <2>1, <2>2, <2>3 DEF BoxIs
  <2> QED
    BY <2>1, <2>3, <2>5, <2>6 DEF f, Box!Acknowledge
<1>4. ASSUME NEW c \in Consumers, Unlink(c) PROVE Box!Returned
  <2>1. NackUnlink(c) /\ c \in nacking /\ UNCHANGED sent
    BY <1>4 DEF Unlink, NackUnlink
  <2>2. \A m \in Messages :
           /\ In(m)' <=> In(m)
           /\ Left(m)' <=> Left(m)
           /\ Coll(m)' <=> Coll(m)
           /\ ~Has(c, m)' /\ \A d \in Consumers \ {c} : Has(d, m)' <=> Has(d, m)
    BY <1>0, <2>1, DropMoves
  <2>3. nacking' = {} /\ UNCHANGED <<dead, lost>>
    BY <2>1 DEF NackUnlink
  <2>4. Waiting' = Waiting /\ Taken' = Taken
    <3>1. \A m \in Messages : m \in Waiting <=> In(m)' \/ Left(m)' \/ Coll(m)'
      BY <1>0, <2>2 DEF BoxIs
    <3>2. ASSUME NEW m \in Messages, NEW d \in Consumers
          PROVE  m \in Taken[d] <=> d \notin nacking' /\ Has(d, m)'
      <4>1. d \in nacking <=> d = c
        BY <1>0, <2>1, <3>2 DEF Nacked
      <4> QED
        BY <1>0, <2>2, <2>3, <4>1 DEF BoxIs
    <3> QED
      BY <1>0, <1>b, <3>1, <3>2, BoxFollows
  <2>5. LeftBehind' = LeftBehind /\ Returning' = {}
    BY <1>0, <2>2, <2>3 DEF BoxIs
  <2> QED
    BY <2>1, <2>3, <2>4, <2>5 DEF Box!Returned
<1>5. ASSUME NEW c \in Consumers, Fail(c), NackWrite(c) PROVE Box!Return(c)
  <2>1. UNCHANGED sent
    BY <1>5 DEF Fail
  <2>2. \A m \in Messages :
           /\ In(m)' <=> In(m) \/ Has(c, m)
           /\ Left(m)' <=> Left(m)
           /\ Coll(m)' <=> Coll(m)
           /\ \A d \in Consumers : Has(d, m)' <=> Has(d, m)
    BY <1>0, <1>5, NackMoves
  <2>3. nacking = {} /\ nacking' = {c} /\ UNCHANGED <<dead, lost>>
    BY <1>5 DEF NackWrite, Unlocked
  <2> DEFINE f == [Taken EXCEPT ![c] = {}]
  <2>4. f \in [Consumers -> SUBSET Messages] /\ f[c] = {} /\ \A d \in Consumers \ {c} : f[d] = Taken[d]
    BY <1>b
  <2> HIDE DEF f
  <2>5. Waiting \cup Taken[c] \in SUBSET Messages /\ Returning \cup Taken[c] \in SUBSET Messages
    BY <1>b
  <2>6. Waiting' = Waiting \cup Taken[c] /\ Taken' = f
    <3>1. \A m \in Messages : m \in Waiting \cup Taken[c] <=> In(m)' \/ Left(m)' \/ Coll(m)'
      BY <1>0, <2>2, <2>3 DEF BoxIs
    <3>2. \A m \in Messages, d \in Consumers : m \in f[d] <=> d \notin nacking' /\ Has(d, m)'
      BY <1>0, <2>2, <2>3, <2>4 DEF BoxIs
    <3> QED
      BY <1>0, <2>4, <2>5, <3>1, <3>2, BoxFollows
  <2>7. LeftBehind' = LeftBehind /\ Returning' = Returning \cup Taken[c]
    <3>1. \A m \in Messages : m \in LeftBehind <=> Left(m)' \/ Coll(m)'
      BY <1>0, <2>2 DEF BoxIs
    <3>2. \A m \in Messages : m \in Returning \cup Taken[c] <=> \E d \in nacking' : Has(d, m)'
      BY <1>0, <2>2, <2>3 DEF BoxIs
    <3> QED
      BY <1>0, <1>b, <2>5, <3>1, <3>2, LeftFollows
  <2> QED
    BY <2>1, <2>3, <2>6, <2>7 DEF f, Box!Return
<1>6. ASSUME Crash PROVE Box!Die
  <2>1. MailboxCrash /\ UNCHANGED sent
    BY <1>6 DEF Crash
  <2>2. \A m \in Messages :
           /\ In(m)' <=> In(m)
           /\ Left(m)' <=> Left(m) \/ \E c \in Consumers : Has(c, m)
           /\ ~Coll(m)'
           /\ \A d \in Consumers : ~Has(d, m)' /\ held'[d] = NoFile
           /\ nacking' = {} /\ recovered' = <<>> /\ UNCHANGED dead
           /\ m \in lost' <=> \/ m \in lost
                              \/ Coll(m) /\ ~In(m) /\ ~Left(m) /\ ~\E c \in Consumers : Has(c, m)
    BY <1>0, <2>1, CrashMoves
  <2>3. UNCHANGED dead /\ nacking' = {}
    BY <2>1 DEF MailboxCrash
  <2> DEFINE S == UNION {Taken[c] : c \in Consumers}
             f == [c \in Consumers |-> {}]
             found == LeftBehind \ LeftBehind'
             gone == {m \in Messages : Coll(m) /\ ~In(m) /\ ~Left(m) /\ ~\E c \in Consumers : Has(c, m)}
  <2>4. /\ S \in SUBSET Messages /\ f \in [Consumers -> SUBSET Messages]
        /\ \A m : m \in S <=> \E c \in Consumers : m \in Taken[c]
        /\ \A c \in Consumers : f[c] = {}
    BY <1>b
  <2>5. LeftBehind' \in SUBSET Messages /\ \A m \in Messages : m \in LeftBehind' <=> Left(m)'
    BY <1>0, <2>2 DEF BoxIs
  <2>6. found \in SUBSET LeftBehind /\ gone \in SUBSET found
    BY <1>0, <2>2, <2>5 DEF BoxIs
  <2>7. lost' = lost \cup gone
    <3>1. lost \in SUBSET Messages /\ lost' \in SUBSET Messages
      BY <1>0 DEF MailboxType
    <3> QED
      BY <2>2, <3>1
  <2>8. ASSUME NEW m \in Messages
        PROVE  (\E c \in Consumers : Has(c, m)) <=> m \in S \/ m \in Returning
    BY <1>0, <1>n, <2>4 DEF BoxIs
  <2>9. LeftBehind' = (LeftBehind \ found) \cup Returning \cup S
    <3>1. ASSUME NEW m \in Messages
          PROVE  m \in LeftBehind' <=> m \in (LeftBehind \ found) \cup Returning \cup S
      <4>1. m \in LeftBehind' <=> Left(m) \/ m \in S \/ m \in Returning
        BY <2>2, <2>5, <2>8
      <4>2. Left(m) => m \in LeftBehind
        BY <1>0 DEF BoxIs
      <4> HIDE DEF S
      <4> QED
        BY <4>1, <4>2
    <3> QED
      BY <1>b, <2>4, <2>5, <3>1
  <2>10. \A m \in Messages : m \in Returning => In(m)
    BY <1>0 DEF BoxIs, Nacked
  <2>11. \A m \in Messages : m \in gone <=> Coll(m) /\ ~In(m) /\ ~Left(m) /\ ~(m \in S \/ m \in Returning)
    BY <2>8
  <2>12. (Waiting \ gone) \cup S \in SUBSET Messages
    BY <1>b, <2>4
  <2> HIDE DEF S, f, gone, found
  <2>13. Waiting' = (Waiting \ gone) \cup S /\ Taken' = f
    <3>1. ASSUME NEW m \in Messages
          PROVE  m \in (Waiting \ gone) \cup S <=> In(m)' \/ Left(m)' \/ Coll(m)'
      <4>1. m \in Waiting <=> In(m) \/ Left(m) \/ Coll(m)
        BY <1>0 DEF BoxIs
      <4>2. In(m)' \/ Left(m)' \/ Coll(m)' <=> In(m) \/ Left(m) \/ m \in S \/ m \in Returning
        BY <2>2, <2>8
      <4> QED
        BY <2>10, <2>11, <4>1, <4>2
    <3>2. \A m \in Messages, d \in Consumers : m \in f[d] <=> d \notin nacking' /\ Has(d, m)'
      BY <2>2, <2>4
    <3> QED
      BY <1>0, <2>4, <2>12, <3>1, <3>2, BoxFollows
  <2>14. Returning' = {}
    BY <1>0, <2>3 DEF BoxIs
  <2>15. {} \in SUBSET Returning /\ {} = {} \cup {}
    OBVIOUS
  <2> HIDE DEF S, f
  <2>16. S = UNION {Taken[r] : r \in Consumers} /\ f = [r \in Consumers |-> {}]
    BY DEF S, f
  <2>17. \E copies \in SUBSET Returning : {} = {} \cup copies
    BY <2>15
  <2>18. /\ Waiting' = (Waiting \ gone) \cup UNION {Taken[r] : r \in Consumers}
         /\ LeftBehind' = (LeftBehind \ found) \cup Returning \cup UNION {Taken[r] : r \in Consumers}
         /\ Taken' = [r \in Consumers |-> {}]
         /\ Returning' = {}
         /\ lost' = lost \cup gone
         /\ UNCHANGED <<dead, sent>>
    BY <2>1, <2>3, <2>7, <2>9, <2>13, <2>14, <2>16
  <2> QED
    BY <2>6, <2>17, <2>18, Zenon DEF Box!Die
<1>7. ASSUME NEW c \in Consumers, Recover(c), CollectLeft(c) PROVE UNCHANGED boxVars
  <2>1. \A m \in Messages :
           /\ In(m)' <=> In(m)
           /\ Left(m)' \/ Coll(m)' <=> Left(m) \/ Coll(m)
           /\ \A d \in Consumers : Has(d, m)' <=> Has(d, m)
    BY <1>0, <1>7, CollectMoves
  <2>2. UNCHANGED <<nacking, dead, lost, sent>>
    BY <1>7 DEF CollectLeft, Recover, leadVars
  <2>3. Waiting' = Waiting /\ Taken' = Taken
    <3>1. \A m \in Messages : m \in Waiting <=> In(m)' \/ Left(m)' \/ Coll(m)'
      BY <1>0, <2>1 DEF BoxIs
    <3>2. \A m \in Messages, d \in Consumers : m \in Taken[d] <=> d \notin nacking' /\ Has(d, m)'
      BY <1>0, <2>1, <2>2 DEF BoxIs
    <3> QED
      BY <1>0, <1>b, <3>1, <3>2, BoxFollows
  <2>4. LeftBehind' = LeftBehind /\ Returning' = Returning
    BY <1>0, <1>n, <2>1, <2>2 DEF BoxIs
  <2> QED
    BY <2>2, <2>3, <2>4 DEF boxVars
<1>8. ASSUME NEW c \in Consumers, Recover(c), WriteRecovered(c) PROVE Box!Find
  <2>1. \A m \in Messages :
           /\ In(m)' <=> In(m) \/ Coll(m)
           /\ ~Left(m) /\ ~Left(m)' /\ ~Coll(m)'
           /\ \A d \in Consumers : Has(d, m)' <=> Has(d, m)
    BY <1>0, <1>8, WriteMoves
  <2>2. UNCHANGED <<nacking, dead, lost, sent>>
    BY <1>8 DEF WriteRecovered, Recover, leadVars
  <2>3. Waiting' = Waiting /\ Taken' = Taken
    <3>1. \A m \in Messages : m \in Waiting <=> In(m)' \/ Left(m)' \/ Coll(m)'
      BY <1>0, <2>1 DEF BoxIs
    <3>2. \A m \in Messages, d \in Consumers : m \in Taken[d] <=> d \notin nacking' /\ Has(d, m)'
      BY <1>0, <2>1, <2>2 DEF BoxIs
    <3> QED
      BY <1>0, <1>b, <3>1, <3>2, BoxFollows
  <2>4. LeftBehind' = {} /\ Returning' = Returning
    BY <1>0, <1>n, <2>1, <2>2 DEF BoxIs
  <2>5. LeftBehind \in SUBSET LeftBehind /\ LeftBehind' = LeftBehind \ LeftBehind
    BY <2>4
  <2> QED
    BY <2>2, <2>3, <2>4, <2>5 DEF Box!Find
<1>9. UNCHANGED mail => UNCHANGED boxVars
  BY DEF mail, boxVars, Waiting, Taken, LeftBehind, Returning
<1>10. UNCHANGED vars => UNCHANGED mail
  BY DEF vars, mailbox, recovery, leadVars, mail
<1> QED
  BY <1>1, <1>2, <1>3, <1>4, <1>5, <1>6, <1>7, <1>8, <1>9, <1>10, LeadSteps DEF Box!Next, Recover

\* The Lead's mailbox keeps what Mailbox promises, for any number of messages, requests,
\* failed turns and crashes: two consumers, a nack of two steps, and files that a crash
\* leaves behind and each claim collects one by one look like one place where a message
\* waits, is taken by one reader, never twice, and stays with it until it is
\* acknowledged, returned, or the process dies; only what one death left behind and was
\* not found again may be lost in the next.
THEOREM LeadMailboxKept == Spec => ImplementsMailbox
<1>1. Init => Box!Init
  <2> SUFFICES ASSUME Init PROVE Box!Init
    OBVIOUS
  <2>1. /\ inbox = <<>> /\ orphans = {} /\ nacking = {} /\ dead = {} /\ sent = {}
        /\ recovered = <<>> /\ lost = {} /\ held = [c \in Consumers |-> NoFile]
    BY DEF Init, MailboxInit
  <2>2. /\ Waiting = {} /\ Taken = [c \in Consumers |-> {}]
        /\ LeftBehind = {} /\ Returning = {}
    BY <2>1 DEF Waiting, Taken, LeftBehind, Returning, Content, Range
  <2> QED
    BY <2>1, <2>2 DEF Box!Init
<1>2. LeadInv /\ LeadInv' /\ [Next]_vars => [Box!Next]_<<Waiting, Taken, Returning, LeftBehind, dead, sent, lost, {}>>
  BY LeadBoxStep DEF LeadInv, boxVars
<1> QED
  BY <1>1, <1>2, LeadInvariant, PTL DEF Spec, ImplementsMailbox, Box!Spec

-----------------------------------------------------------------------------
(* Background commands and scheduled jobs                                  *)

\* Services brings both together; its steps are taken from an instance, for the Lead's
\* inbox has a next-state relation of its own.
VARIABLES open, autorun
Runtime == INSTANCE Services

\* A command that is still running is one of the present runtime, and its record says
\* that it runs; so the runtime is not built anew before the command has ended.
CommandsInv ==
  /\ runtime \in 0..MaxRuntimes
  /\ task \in [Runtime!Ids -> Runtime!TaskRec]
  /\ worker \in [Runtime!Threads -> {"none", "running", "over"}]
  /\ \A id \in Runtime!Ids : task[id].by = task[id].of
  /\ \A id \in Runtime!Ids : task[id].status # "none" => task[id].of = runtime
  /\ \A r \in Runtime!Runtimes, id \in Runtime!Ids :
       worker[<<r, id>>] = "running" => r = runtime /\ task[id].status = "running"

\* A dropped job is nowhere it could come back from: not in the file, nor in what a
\* tool call has read to be written; and neither is the one that a call cancels.
JobsInv ==
  /\ known \subseteq Jobs
  /\ scheduled \subseteq known /\ dropped \subseteq known
  /\ file \subseteq known \cap Durable
  /\ tool \in Runtime!ToolRec
  /\ tool.saved \subseteq known \cap Durable /\ tool.cancels \subseteq known
  /\ dropped \cap (scheduled \cup file \cup tool.saved) = {}
  /\ tool.cancels \cap (scheduled \cup tool.saved) = {}
  /\ open \/ tool = Runtime!NoTool

-----------------------------------------------------------------------------
LEMMA CommandsInitially == Runtime!BackgroundInit => CommandsInv
BY BackgroundAssumption
   DEF Runtime!BackgroundInit, CommandsInv, Runtime!TaskRec, Runtime!NoTask, Runtime!Threads, Runtime!Runtimes, Runtime!Ids

LEMMA StartTaskStep ==
  ASSUME CommandsInv, Runtime!StartTask
  PROVE  CommandsInv'
<1>1. PICK id \in Runtime!Ids :
        /\ task' = [task EXCEPT ![id] = [status |-> "running", of |-> runtime, by |-> runtime]]
        /\ worker' = [worker EXCEPT ![<<runtime, id>>] = "running"]
        /\ UNCHANGED runtime
  BY DEF Runtime!StartTask
<1>2. [status |-> "running", of |-> runtime, by |-> runtime] \in Runtime!TaskRec
  BY DEF CommandsInv, Runtime!TaskRec
<1>3. task' \in [Runtime!Ids -> Runtime!TaskRec] /\ worker' \in [Runtime!Threads -> {"none", "running", "over"}]
  BY <1>1, <1>2 DEF CommandsInv
<1>4. \A n \in Runtime!Ids : task'[n].by = task'[n].of
                     /\ (task'[n].status # "none" => task'[n].of = runtime')
  BY <1>1 DEF CommandsInv
<1>5. \A r \in Runtime!Runtimes, n \in Runtime!Ids :
        worker'[<<r, n>>] = "running" => r = runtime' /\ task'[n].status = "running"
  <2>. SUFFICES ASSUME NEW r \in Runtime!Runtimes, NEW n \in Runtime!Ids, worker'[<<r, n>>] = "running"
                PROVE  r = runtime /\ task'[n].status = "running"
    BY <1>1
  <2>1. <<r, n>> \in Runtime!Threads
    BY DEF Runtime!Threads
  <2>2. CASE <<r, n>> = <<runtime, id>>
    BY <2>2, <1>1 DEF CommandsInv
  <2>3. CASE <<r, n>> # <<runtime, id>>
    <3>1. worker[<<r, n>>] = "running"
      BY <2>1, <2>3, <1>1 DEF CommandsInv
    <3>. QED  BY <3>1, <1>1 DEF CommandsInv
  <2>. QED  BY <2>2, <2>3
<1>. QED  BY <1>1, <1>3, <1>4, <1>5 DEF CommandsInv

LEMMA CommandEndsStep ==
  ASSUME CommandsInv, NEW t \in Runtime!Threads, Runtime!CommandEnds(t)
  PROVE  CommandsInv'
<1>1. PICK r \in Runtime!Runtimes, id \in Runtime!Ids : t = <<r, id>>
  BY DEF Runtime!Threads
<1>2. /\ worker[t] = "running" /\ r = runtime /\ task[id].of = runtime
      /\ UNCHANGED runtime /\ worker' = [worker EXCEPT ![t] = "over"]
  BY <1>1 DEF Runtime!CommandEnds, CommandsInv
<1>3. \/ task' = task
      \/ \E status \in {"cancelled", "completed"} :
           task' = [task EXCEPT ![id].status = status, ![id].by = runtime]
  BY <1>1, <1>2 DEF Runtime!CommandEnds
<1>4. task' \in [Runtime!Ids -> Runtime!TaskRec] /\ worker' \in [Runtime!Threads -> {"none", "running", "over"}]
  BY <1>2, <1>3 DEF CommandsInv, Runtime!TaskRec
<1>5. \A n \in Runtime!Ids : task'[n].by = task'[n].of
                     /\ (task'[n].status # "none" => task'[n].of = runtime')
  BY <1>2, <1>3 DEF CommandsInv, Runtime!TaskRec
<1>6. \A q \in Runtime!Runtimes, n \in Runtime!Ids :
        worker'[<<q, n>>] = "running" => q = runtime' /\ task'[n].status = "running"
  <2>. SUFFICES ASSUME NEW q \in Runtime!Runtimes, NEW n \in Runtime!Ids, worker'[<<q, n>>] = "running"
                PROVE  q = runtime /\ task'[n].status = "running"
    BY <1>2
  <2>1. <<q, n>> \in Runtime!Threads
    BY DEF Runtime!Threads
  <2>2. worker[<<q, n>>] = "running" /\ <<q, n>> # t
    BY <2>1, <1>2 DEF CommandsInv
  <2>3. q = runtime /\ task[n].status = "running" /\ n # id
    BY <2>2, <1>1, <1>2 DEF CommandsInv
  <2>. QED  BY <2>3, <1>3 DEF CommandsInv
<1>. QED  BY <1>2, <1>4, <1>5, <1>6 DEF CommandsInv

\* A command whose result is collected has ended.
LEMMA CollectStep ==
  ASSUME CommandsInv, Runtime!Collect, UNCHANGED <<runtime, worker>>
  PROVE  CommandsInv'
<1>1. Runtime!NoTask \in Runtime!TaskRec /\ Runtime!NoTask.by = Runtime!NoTask.of /\ Runtime!NoTask.status = "none"
  BY BackgroundAssumption DEF Runtime!NoTask, Runtime!TaskRec
<1>2. task' \in [Runtime!Ids -> Runtime!TaskRec]
  BY <1>1 DEF Runtime!Collect, CommandsInv
<1>3. \A id \in Runtime!Ids : task'[id] = task[id] \/ (task'[id] = Runtime!NoTask /\ task[id].status = "completed")
  BY DEF Runtime!Collect, CommandsInv
<1>. QED  BY <1>1, <1>2, <1>3 DEF CommandsInv

LEMMA InitializeTasksStep ==
  ASSUME CommandsInv, Runtime!InitializeTasks
  PROVE  CommandsInv'
<1>1. Runtime!NoTask \in Runtime!TaskRec /\ Runtime!NoTask.by = Runtime!NoTask.of /\ Runtime!NoTask.status = "none"
  BY BackgroundAssumption DEF Runtime!NoTask, Runtime!TaskRec
<1>2. \A r \in Runtime!Runtimes, id \in Runtime!Ids : worker[<<r, id>>] # "running"
  BY DEF Runtime!InitializeTasks, CommandsInv
<1>3. /\ runtime' \in 0..MaxRuntimes /\ worker' = worker
      /\ task' = [id \in Runtime!Ids |-> Runtime!NoTask]
  BY BackgroundAssumption DEF Runtime!InitializeTasks, CommandsInv
<1>. QED  BY <1>1, <1>2, <1>3 DEF CommandsInv

LEMMA LoseTasksStep ==
  ASSUME CommandsInv, Runtime!LoseTasks
  PROVE  CommandsInv'
<1>1. Runtime!NoTask \in Runtime!TaskRec /\ Runtime!NoTask.by = Runtime!NoTask.of /\ Runtime!NoTask.status = "none"
  BY BackgroundAssumption DEF Runtime!NoTask, Runtime!TaskRec
<1>2. worker' \in [Runtime!Threads -> {"none", "running", "over"}]
  BY DEF Runtime!LoseTasks, CommandsInv
<1>3. \A t \in Runtime!Threads : worker'[t] # "running"
  BY DEF Runtime!LoseTasks, CommandsInv
<1>4. \A r \in Runtime!Runtimes, id \in Runtime!Ids : worker'[<<r, id>>] # "running"
  BY <1>3 DEF Runtime!Threads
<1>. QED  BY <1>1, <1>2, <1>4 DEF Runtime!LoseTasks, CommandsInv

LEMMA CommandsStep ==
  ASSUME CommandsInv, [Runtime!Next]_(Runtime!vars)
  PROVE  CommandsInv'
<1>1. CASE Runtime!Build
  BY <1>1, InitializeTasksStep DEF Runtime!Build
<1>2. CASE Runtime!Close
  BY <1>2 DEF Runtime!Close, Runtime!ShutdownTasks, CommandsInv
<1>3. CASE Runtime!Crash
  BY <1>3, LoseTasksStep DEF Runtime!Crash
<1>4. CASE Runtime!LeadCollects
  BY <1>4, CollectStep DEF Runtime!LeadCollects
<1>5. CASE Runtime!Works
  <2>1. CASE Runtime!StartTask
    BY <2>1, StartTaskStep
  <2>2. CASE \E t \in Runtime!Threads : Runtime!CommandEnds(t)
    BY <2>2, CommandEndsStep
  <2>3. CASE UNCHANGED Runtime!backgroundVars
    BY <2>3 DEF Runtime!backgroundVars, CommandsInv
  <2>. QED  BY <1>5, <2>1, <2>2, <2>3 DEF Runtime!Works
<1>6. CASE Runtime!Autorun \/ UNCHANGED Runtime!vars
  BY <1>6 DEF Runtime!Autorun, Runtime!vars, Runtime!backgroundVars, CommandsInv
<1>. QED  BY <1>1, <1>2, <1>3, <1>4, <1>5, <1>6 DEF Runtime!Next

\* The Lead is told the result of the command it started, for any number of commands
\* and of runtimes that follow each other while threads of the last are still at work
\* (background.py:29-40).
THEOREM ServicesResultOfItsCommand == Runtime!Spec => []ResultOfItsCommand
<1>1. Runtime!Init => CommandsInv
  BY CommandsInitially DEF Runtime!Init
<1>2. CommandsInv /\ [Runtime!Next]_(Runtime!vars) => CommandsInv'
  BY CommandsStep
<1>3. CommandsInv => ResultOfItsCommand
  BY DEF CommandsInv, ResultOfItsCommand, Ids, Runtime!Ids
<1>. QED  BY <1>1, <1>2, <1>3, PTL DEF Runtime!Spec

-----------------------------------------------------------------------------
\* Scheduled jobs.

LEMMA JobsInitially == Runtime!Init => JobsInv
BY DEF Runtime!Init, Runtime!CronInit, JobsInv, Runtime!NoTool, Runtime!ToolRec

\* The passes of the scheduler, which saves under the lock.
LEMMA PassStep ==
  ASSUME JobsInv, UNCHANGED Runtime!lifeVars, Runtime!MinuteBegins \/ Runtime!Pass \/ Runtime!PassSaves
  PROVE  JobsInv'
BY DEF JobsInv, Runtime!lifeVars, Runtime!MinuteBegins, Runtime!Pass, Runtime!PassSaves

\* The first step of the tools: the job comes or goes.
LEMMA ToolBegins ==
  ASSUME JobsInv, open, UNCHANGED Runtime!lifeVars, NEW j \in Jobs, Runtime!Schedule(j) \/ Runtime!Cancel(j)
  PROVE  JobsInv'
<1>1. tool = Runtime!NoTool /\ tool.saved = {} /\ tool.cancels = {}
  BY DEF Runtime!Schedule, Runtime!Cancel, Runtime!NoTool
<1>2. CASE Runtime!Schedule(j)
  <2>1. /\ j \notin known /\ known' = known \cup {j} /\ scheduled' = scheduled \cup {j}
        /\ UNCHANGED <<file, dropped, open>>
    BY <1>2 DEF Runtime!Schedule, Runtime!lifeVars
  <2>2. tool' \in Runtime!ToolRec /\ tool'.saved = {} /\ tool'.cancels = {}
    BY <1>1, <1>2 DEF Runtime!Schedule, Runtime!NoTool, Runtime!ToolRec
  <2>. QED  BY <1>1, <2>1, <2>2 DEF JobsInv
<1>3. CASE Runtime!Cancel(j)
  <2>1. /\ scheduled' = scheduled \ {j} /\ j \in scheduled
        /\ UNCHANGED <<known, file, open>>
    BY <1>3 DEF Runtime!Cancel, Runtime!lifeVars
  <2>2. CASE j \in Durable
    <3>1. tool' = [at |-> "save", cancels |-> {j}, saved |-> {}] /\ dropped' = dropped
      BY <1>3, <2>2 DEF Runtime!Cancel, Runtime!NoTool
    <3>2. tool' \in Runtime!ToolRec /\ tool'.saved = {} /\ tool'.cancels = {j}
      BY <3>1 DEF Runtime!ToolRec
    <3>. QED  BY <1>1, <2>1, <3>1, <3>2 DEF JobsInv
  <2>3. CASE j \notin Durable
    <3>1. tool' = tool /\ dropped' = dropped \cup {j}
      BY <1>3, <2>3 DEF Runtime!Cancel
    <3>. QED  BY <1>1, <2>1, <2>3, <3>1 DEF JobsInv
  <2>. QED  BY <2>2, <2>3
<1>. QED  BY <1>2, <1>3

\* The save that follows without the lock: what it has read holds no job that is
\* dropped until it is written, for the tool calls of the Lead come one by one.
LEMMA ToolSaves ==
  ASSUME JobsInv, open, UNCHANGED Runtime!lifeVars, Runtime!ToolReads \/ Runtime!ToolWrites \/ Runtime!ToolRaises
  PROVE  JobsInv'
<1>1. CASE Runtime!ToolReads
  <2>1. /\ tool' \in Runtime!ToolRec /\ tool'.saved = scheduled \cap Durable
        /\ tool'.cancels = tool.cancels
    BY <1>1, CronAssumption DEF Runtime!ToolReads, JobsInv, Runtime!ToolRec
  <2>. QED  BY <1>1, <2>1 DEF Runtime!ToolReads, JobsInv, Runtime!lifeVars
<1>2. CASE Runtime!ToolWrites
  <2>1. tool' \in Runtime!ToolRec /\ tool'.saved = {} /\ tool'.cancels = {}
    BY <1>2 DEF Runtime!ToolWrites, Runtime!NoTool, Runtime!ToolRec
  <2>. QED  BY <1>2, <2>1 DEF Runtime!ToolWrites, JobsInv, Runtime!lifeVars
<1>3. CASE Runtime!ToolRaises
  <2>1. tool' \in Runtime!ToolRec /\ tool'.saved = {} /\ tool'.cancels = {}
    BY <1>3 DEF Runtime!ToolRaises, Runtime!NoTool, Runtime!ToolRec
  <2>. QED  BY <1>3, <2>1 DEF Runtime!ToolRaises, JobsInv, Runtime!lifeVars
<1>. QED  BY <1>1, <1>2, <1>3

LEMMA CrashStep ==
  ASSUME JobsInv, Runtime!Crash
  PROVE  JobsInv'
<1>1. tool' = Runtime!NoTool /\ tool' \in Runtime!ToolRec /\ tool'.saved = {} /\ tool'.cancels = {}
  BY DEF Runtime!Crash, Runtime!LoseJobs, Runtime!NoTool, Runtime!ToolRec
<1>2. file' \subseteq file /\ scheduled' = {} /\ UNCHANGED <<known, dropped>>
  BY DEF Runtime!Crash, Runtime!LoseJobs
<1>. QED  BY <1>1, <1>2 DEF JobsInv

LEMMA JobsStep ==
  ASSUME JobsInv, [Runtime!Next]_(Runtime!vars)
  PROVE  JobsInv'
<1>1. CASE Runtime!Build
  <2>1. tool = Runtime!NoTool /\ tool.cancels = {}
    BY <1>1 DEF Runtime!Build, JobsInv, Runtime!NoTool
  <2>. QED  BY <1>1, <2>1 DEF Runtime!Build, Runtime!Load, JobsInv
<1>2. CASE Runtime!Close
  BY <1>2 DEF Runtime!Close, Runtime!cronVars, JobsInv
<1>3. CASE Runtime!Crash
  BY <1>3, CrashStep
<1>4. CASE Runtime!LeadCollects \/ Runtime!Autorun \/ UNCHANGED Runtime!vars
  BY <1>4 DEF Runtime!LeadCollects, Runtime!Autorun, Runtime!vars, Runtime!cronVars, Runtime!lifeVars, JobsInv
<1>5. CASE Runtime!Works
  <2>1. CASE UNCHANGED <<Runtime!cronVars, Runtime!lifeVars>>
    BY <2>1 DEF Runtime!cronVars, Runtime!lifeVars, JobsInv
  <2>2. CASE open /\ UNCHANGED Runtime!lifeVars /\ (Runtime!MinuteBegins \/ Runtime!Pass \/ Runtime!PassSaves)
    BY <2>2, PassStep
  <2>3. CASE open /\ UNCHANGED Runtime!lifeVars /\ (Runtime!ToolReads \/ Runtime!ToolWrites \/ Runtime!ToolRaises)
    BY <2>3, ToolSaves
  <2>4. CASE open /\ UNCHANGED Runtime!lifeVars /\ \E j \in Jobs : Runtime!Schedule(j) \/ Runtime!Cancel(j)
    BY <2>4, ToolBegins
  <2>. QED  BY <1>5, <2>1, <2>2, <2>3, <2>4 DEF Runtime!Works
<1>. QED  BY <1>1, <1>2, <1>3, <1>4, <1>5 DEF Runtime!Next

\* A job whose cancellation was reported stays cancelled, for any number of jobs, saves
\* that overlap those of the scheduler, reloads and restarts (cron.py:162-169).
THEOREM ServicesCancelSticks == Runtime!Spec => []CancelSticks
<1>1. Runtime!Init => JobsInv
  BY JobsInitially
<1>2. JobsInv /\ [Runtime!Next]_(Runtime!vars) => JobsInv'
  BY JobsStep
<1>3. JobsInv => CancelSticks
  BY DEF JobsInv, CancelSticks
<1>. QED  BY <1>1, <1>2, <1>3, PTL DEF Runtime!Spec

=============================================================================

------------------------------- MODULE TeamProofs -------------------------------
(***************************************************************************)
(* The members of a team and their mailboxes, for any number of workers,   *)
(* messages and plans.                                                     *)
(***************************************************************************)
EXTENDS TeamMember, WellFoundedInduction, TLAPS

-----------------------------------------------------------------------------
(* The inductive invariant                                                 *)

\* A worker that is registered and has not removed its entries yet.
Busy(w) == worker[w].pc \notin {"unborn", "restart", "dead"}
Starting(w) == worker[w].pc \in {"spawning", "registered"}

\* The entries of a registered worker are its own; nobody is registered while its
\* profile is being deleted.
EntriesTrue ==
    missed = {} => \A w \in Workers : Busy(w) =>
        active /\ event = w /\ (At(w, "spawning") \/ thread = w)

\* A worker starts with the profile of the registry, and is told when it changes.
ProfilesTrue ==
    missed = {} => \A w \in Workers :
        /\ Starting(w) => worker[w].conf = profile
        /\ Running(w) => \/ worker[w].conf = profile
                         \/ reload \/ w \in stopped \/ closing = "refusing"

\* A task that is bound to the member, or on its way to another, has a member; and
\* nothing binds one once the deletion has looked at the tasks.
TasksTrue ==
    /\ active => profile # 0
    /\ deleting # "no" => ~active
    /\ task # "none" /\ ~stranded => profile # 0
    /\ deleting = "commit" /\ ~stranded => ~Bound

MemberInv ==
    /\ TypeOK /\ EntriesTrue /\ ProfilesTrue /\ TasksTrue /\ ApprovedMeansApproved

-----------------------------------------------------------------------------
(* The mailbox                                                             *)

LEMMA HasMinimum ==
  ASSUME NEW S \in SUBSET Nat, S # {}
  PROVE  \E x \in S : \A y \in S : x <= y
<1> DEFINE Below == {ss \in Nat \X Nat : ss[1] < ss[2]}
<1>1. IsWellFoundedOn(Below, Nat)
  BY NatLessThanWellFounded, Zenon DEF OpToRel
<1>2. PICK x \in S : \A y \in S : <<y, x>> \notin Below
  BY <1>1, WFMin, Zenon
<1>3. ASSUME NEW y \in S PROVE x <= y
  <2>1. ~(y < x)
    BY <1>2
  <2> QED
    BY <2>1
<1> QED
  BY <1>3

\* What was read of a batch up to line n, and before it.
Line(batch, n, before) ==
    IF n = 0 THEN <<>> ELSE IF batch[n] \in Malformed THEN before ELSE Append(before, batch[n])

LEMMA ReadingExists ==
  ASSUME NEW batch \in Seq(Messages)
  PROVE  \E g : g = [n \in 0..Len(batch) |-> Line(batch, n, g[n - 1])]
<1> DEFINE fails == {n \in 0..Len(batch) : ~\E g : g = [k \in 0..n |-> Line(batch, k, g[k - 1])]}
<1>1. ASSUME fails # {} PROVE FALSE
  <2>1. fails \in SUBSET Nat
    OBVIOUS
  <2>2. PICK n \in fails : \A m \in fails : n <= m
    BY <1>1, <2>1, HasMinimum
  <2>3. CASE n = 0
    <3> DEFINE g == [k \in 0..0 |-> <<>>]
    <3>1. g = [k \in 0..0 |-> Line(batch, k, g[k - 1])]
      BY DEF Line
    <3> QED
      BY <2>2, <2>3, <3>1
  <2>4. CASE n # 0
    <3>1. n - 1 \in 0..Len(batch) /\ n - 1 \notin fails /\ n \in Nat
      BY <2>2, <2>4
    <3>2. PICK g : g = [k \in 0..(n - 1) |-> Line(batch, k, g[k - 1])]
      BY <3>1
    <3> DEFINE h == [k \in 0..n |-> IF k = n THEN Line(batch, n, g[n - 1]) ELSE g[k]]
    <3>3. ASSUME NEW k \in 0..n PROVE h[k] = Line(batch, k, h[k - 1])
      <4>1. CASE k = n
        BY <2>4, <3>1, <4>1
      <4>2. CASE k = 0 /\ k # n
        <5>1. h[k] = Line(batch, k, g[k - 1])
          BY <3>1, <3>2, <4>2
        <5> QED
          BY <4>2, <5>1 DEF Line
      <4>3. CASE k # 0 /\ k # n
        <5>1. k \in 0..(n - 1) /\ k - 1 \in 0..n /\ k - 1 # n
          BY <3>1, <4>3
        <5>2. g[k] = Line(batch, k, g[k - 1])
          BY <3>2, <5>1
        <5>3. h[k] = g[k] /\ h[k - 1] = g[k - 1]
          BY <4>3, <5>1
        <5> QED
          BY <5>2, <5>3
      <4> QED
        BY <4>1, <4>2, <4>3
    <3>4. h = [k \in 0..n |-> Line(batch, k, h[k - 1])]
      <4>1. h = [k \in 0..n |-> h[k]]
        OBVIOUS
      <4> HIDE DEF h
      <4> QED
        BY <3>3, <4>1
    <3> QED
      BY <2>2, <3>4
  <2> QED
    BY <2>3, <2>4
<1>2. Len(batch) \in 0..Len(batch)
  OBVIOUS
<1> QED
  BY <1>1, <1>2

LEMMA AppendRange ==
  ASSUME NEW s \in Seq(Messages), NEW m \in Messages
  PROVE  Range(Append(s, m)) = Range(s) \cup {m}
<1>1. /\ Len(Append(s, m)) = Len(s) + 1 /\ Append(s, m)[Len(s) + 1] = m
      /\ \A i \in 1..Len(s) : Append(s, m)[i] = s[i]
      /\ DOMAIN s = 1..Len(s) /\ DOMAIN Append(s, m) = 1..(Len(s) + 1)
  OBVIOUS
<1>2. 1..(Len(s) + 1) = 1..Len(s) \cup {Len(s) + 1}
  OBVIOUS
<1> QED
  BY <1>1, <1>2 DEF Range

LEMMA ConcatRange ==
  ASSUME NEW s \in Seq(Messages), NEW r \in Seq(Messages)
  PROVE  s \o r \in Seq(Messages) /\ Range(s \o r) = Range(s) \cup Range(r)
<1>1. s \o r \in Seq(Messages) /\ Len(s \o r) = Len(s) + Len(r)
  OBVIOUS
<1>2. \A i \in 1..Len(s) : i \in 1..Len(s \o r) /\ (s \o r)[i] = s[i]
  BY <1>1
<1>3. \A i \in 1..Len(r) : Len(s) + i \in 1..Len(s \o r) /\ (s \o r)[Len(s) + i] = r[i]
  BY <1>1
<1>4. ASSUME NEW i \in 1..Len(s \o r)
      PROVE  i \in 1..Len(s) \/ (i - Len(s) \in 1..Len(r) /\ i = Len(s) + (i - Len(s)))
  BY <1>1
<1>5. DOMAIN s = 1..Len(s) /\ DOMAIN r = 1..Len(r) /\ DOMAIN (s \o r) = 1..Len(s \o r)
  BY <1>1
<1>6. ASSUME NEW i \in 1..Len(s \o r) PROVE (s \o r)[i] \in Range(s) \cup Range(r)
  <2>1. CASE i \in 1..Len(s)
    BY <1>2, <1>5, <2>1 DEF Range
  <2>2. CASE i \notin 1..Len(s)
    <3> DEFINE j == i - Len(s)
    <3>1. j \in 1..Len(r) /\ i = Len(s) + j
      BY <1>4, <2>2
    <3> HIDE DEF j
    <3>2. (s \o r)[i] = r[j]
      BY <1>3, <3>1
    <3> QED
      BY <1>5, <3>1, <3>2 DEF Range
  <2> QED
    BY <2>1, <2>2
<1>7. \A i \in 1..Len(s) : s[i] \in Range(s \o r)
  <2> SUFFICES ASSUME NEW i \in 1..Len(s) PROVE s[i] \in Range(s \o r)
    OBVIOUS
  <2>1. i \in DOMAIN (s \o r) /\ (s \o r)[i] = s[i]
    BY <1>2, <1>5
  <2> QED
    BY <2>1 DEF Range
<1>8. \A i \in 1..Len(r) : r[i] \in Range(s \o r)
  <2> SUFFICES ASSUME NEW i \in 1..Len(r) PROVE r[i] \in Range(s \o r)
    OBVIOUS
  <2>1. Len(s) + i \in DOMAIN (s \o r) /\ (s \o r)[Len(s) + i] = r[i]
    BY <1>3, <1>5
  <2> QED
    BY <2>1 DEF Range
<1> QED
  BY <1>1, <1>5, <1>6, <1>7, <1>8 DEF Range

LEMMA WellFormedIs ==
  ASSUME NEW batch \in Seq(Messages)
  PROVE  /\ WellFormed(batch) \in Seq(Messages)
         /\ Range(WellFormed(batch)) = Range(batch) \ Malformed
<1> DEFINE read == CHOOSE g : g = [n \in 0..Len(batch) |-> Line(batch, n, g[n - 1])]
<1>1. WellFormed(batch) = read[Len(batch)]
  BY DEF WellFormed, Line
<1>2. read = [n \in 0..Len(batch) |-> Line(batch, n, read[n - 1])]
  BY ReadingExists
<1> HIDE DEF read
<1> DEFINE right(n) == /\ read[n] \in Seq(Messages)
                       /\ Range(read[n]) = {batch[i] : i \in 1..n} \ Malformed
           wrong == {n \in 0..Len(batch) : ~right(n)}
<1>3. right(0)
  <2>1. read[0] = <<>>
    BY <1>2 DEF Line
  <2> QED
    BY <2>1 DEF Range
<1>4. ASSUME NEW n \in 1..Len(batch), right(n - 1) PROVE right(n)
  <2>1. /\ n - 1 \in 0..Len(batch) /\ n \in 0..Len(batch) /\ n # 0 /\ batch[n] \in Messages
        /\ {batch[i] : i \in 1..n} = {batch[i] : i \in 1..(n - 1)} \cup {batch[n]}
    OBVIOUS
  <2>2. read[n] = IF batch[n] \in Malformed THEN read[n - 1] ELSE Append(read[n - 1], batch[n])
    BY <1>2, <2>1 DEF Line
  <2>3. CASE batch[n] \in Malformed
    BY <1>4, <2>1, <2>2, <2>3
  <2>4. CASE batch[n] \notin Malformed
    <3>1. read[n - 1] \in Seq(Messages) /\ read[n] = Append(read[n - 1], batch[n])
      BY <1>4, <2>2, <2>4
    <3>2. Range(read[n]) = Range(read[n - 1]) \cup {batch[n]}
      BY <2>1, <3>1, AppendRange
    <3> QED
      BY <1>4, <2>1, <2>4, <3>1, <3>2
  <2> QED
    BY <2>3, <2>4
<1> HIDE DEF right
<1>5. wrong = {}
  <2>1. wrong \in SUBSET Nat
    OBVIOUS
  <2>2. ASSUME wrong # {} PROVE FALSE
    <3>1. PICK n \in wrong : \A m \in wrong : n <= m
      BY <2>1, <2>2, HasMinimum
    <3>2. n # 0 /\ n \in 1..Len(batch) /\ n - 1 \in 0..Len(batch) /\ n - 1 \notin wrong
      BY <1>3, <3>1
    <3> QED
      BY <1>4, <3>1, <3>2
  <2> QED
    BY <2>2
<1>6. right(Len(batch))
  BY <1>5
<1>7. {batch[i] : i \in 1..Len(batch)} = Range(batch)
  BY DEF Range
<1> QED
  BY <1>1, <1>6, <1>7 DEF right

LEMMA BatchRange ==
  ASSUME NEW b \in Seq(Messages)
  PROVE  Range(b) \in SUBSET Messages /\ b # NoFile
BY MailboxAssumption DEF Range

LEMMA MailboxSteps ==
  ASSUME MailboxType, UNCHANGED mailbox \/ MailboxCrash
                      \/ (\E m \in Messages : SendTo(m))
                      \/ (\E c \in Consumers : \/ ClaimInbox(c) \/ AckInbox(c)
                                              \/ NackWrite(c) \/ NackUnlink(c))
  PROVE  MailboxType'
<1> USE DEF MailboxType
<1>1. CASE UNCHANGED mailbox
  BY <1>1 DEF mailbox, recovery
<1>2. CASE MailboxCrash
  <2>1. {held[c] : c \in Consumers} \ {NoFile} \subseteq Seq(Messages)
    BY DEF Batches
  <2>2. Range(recovered) \subseteq Messages
    BY BatchRange
  <2>3. Returning \subseteq Messages
    <3>1. ASSUME NEW c \in nacking PROVE Content(held[c]) \subseteq Messages
      <4>1. held[c] \in Seq(Messages) \/ held[c] = NoFile
        BY DEF Batches
      <4> QED
        BY <4>1, BatchRange DEF Content
    <3> QED
      BY <3>1 DEF Returning
  <2>4. /\ inbox' = inbox /\ orphans' \subseteq Seq(Messages) /\ dead' = dead
        /\ held' \in [Consumers -> Batches]
        /\ nacking' = {} /\ recovering' = {} /\ recovered' = <<>>
    BY <1>2, <2>1 DEF MailboxCrash, Batches
  <2>5. lost' \subseteq Messages /\ doubled' \subseteq Messages
    BY <1>2, <2>2, <2>3 DEF MailboxCrash
  <2> QED
    BY <2>4, <2>5
<1>3. ASSUME NEW m \in Messages, SendTo(m) PROVE MailboxType'
  BY <1>3 DEF SendTo, recovery
<1>4. ASSUME NEW c \in Consumers, AckInbox(c) \/ NackUnlink(c) PROVE MailboxType'
  BY <1>4 DEF AckInbox, NackUnlink, Batches, recovery
<1>5. ASSUME NEW c \in Consumers, NEW b \in Seq(Messages), Hold(c, b), inbox' \in Seq(Messages),
             orphans' \subseteq orphans, recovering' = recovering
      PROVE  MailboxType'
  <2>1. WellFormed(b) \in Seq(Messages)
    BY WellFormedIs
  <2>2. Range(b) \cap Malformed \subseteq Messages
    BY MailboxAssumption
  <2> QED
    BY <1>5, <2>1, <2>2 DEF Hold, Batches
<1>6. ASSUME NEW c \in Consumers, ClaimInbox(c) PROVE MailboxType'
  <2>1. CASE (\E b \in orphans : Hold(c, b) /\ orphans' = orphans \ {b}) /\ UNCHANGED <<inbox, recovering>>
    BY <1>5, <2>1
  <2>2. CASE Hold(c, inbox) /\ inbox' = <<>> /\ UNCHANGED <<orphans, recovering>>
    BY <1>5, <2>2
  <2>3. CASE UNCHANGED mailbox
    BY <2>3 DEF mailbox, recovery
  <2> QED
    BY <1>6, <2>1, <2>2, <2>3 DEF ClaimInbox
<1>7. ASSUME NEW c \in Consumers, NackWrite(c) PROVE MailboxType'
  <2>1. held[c] \in Seq(Messages) /\ inbox' = held[c] \o inbox
    BY <1>7 DEF NackWrite, Batches
  <2>2. inbox' \in Seq(Messages)
    BY <2>1, ConcatRange
  <2> QED
    BY <1>7, <2>2 DEF NackWrite, recovery
<1> QED
  BY <1>1, <1>2, <1>3, <1>4, <1>6, <1>7

-----------------------------------------------------------------------------
(* What a worker does in its loop                                          *)

LEMMA WorkerSet ==
  ASSUME worker \in [Workers -> WorkerRec], NEW w \in Workers, NEW label \in Labels
  PROVE  /\ [worker EXCEPT ![w].pc = label] \in [Workers -> WorkerRec]
         /\ [worker EXCEPT ![w].pc = label][w].pc = label
         /\ [worker EXCEPT ![w].pc = label][w].conf = worker[w].conf
         /\ \A v \in Workers \ {w} : [worker EXCEPT ![w].pc = label][v] = worker[v]
BY DEF WorkerRec

\* Its worker goes on to a place where it runs, and the registry stays as it is.
GoesOn(w) ==
    /\ Running(w) /\ worker' \in [Workers -> WorkerRec]
    /\ worker'[w].pc \notin {"unborn", "spawning", "registered", "restart", "dead"}
    /\ worker'[w].conf = worker[w].conf /\ \A v \in Workers \ {w} : worker'[v] = worker[v]
    /\ UNCHANGED <<profile, active, thread, event, reload, closing, deleting, missed, stranded>>
    /\ stopped \subseteq stopped' /\ stopped' \subseteq stopped \cup {w}

LEMMA RoundsType == 0 \in 0..(MaxRounds - 1) /\ 0 \in 0..MaxProfile
BY MemberAssumption

LEMMA NextRoundIs ==
  ASSUME worker \in [Workers -> WorkerRec], NEW w \in Workers, NextRound(w)
  PROVE  /\ worker' \in [Workers -> WorkerRec] /\ worker'[w].pc \in {"final", "round"}
         /\ worker'[w].conf = worker[w].conf /\ \A v \in Workers \ {w} : worker'[v] = worker[v]
<1> DEFINE n == worker[w].rounds + 1
<1>1. worker[w] \in WorkerRec /\ worker[w].rounds \in 0..(MaxRounds - 1)
  BY DEF WorkerRec
<1>2. CASE n = MaxRounds
  <2>1. worker' = [worker EXCEPT ![w].pc = "final", ![w].rounds = 0, ![w].failed = TRUE]
    BY <1>2 DEF NextRound
  <2> QED
    BY <1>1, <2>1, RoundsType DEF WorkerRec, Labels
<1>3. CASE n # MaxRounds
  <2>1. worker' = [worker EXCEPT ![w].pc = "round", ![w].rounds = n]
    BY <1>3 DEF NextRound
  <2>2. n \in 0..(MaxRounds - 1)
    BY <1>1, <1>3, MemberAssumption
  <2> QED
    BY <1>1, <2>1, <2>2 DEF WorkerRec, Labels
<1> QED
  BY <1>2, <1>3

LEMMA LeaveIs ==
  ASSUME worker \in [Workers -> WorkerRec], NEW w \in Workers, NEW label \in Labels, Leave(w, label)
  PROVE  /\ worker' \in [Workers -> WorkerRec] /\ worker'[w].pc = label
         /\ worker'[w].conf = worker[w].conf /\ \A v \in Workers \ {w} : worker'[v] = worker[v]
<1>1. worker' = [worker EXCEPT ![w].pc = label, ![w].rounds = 0]
  BY DEF Leave
<1> QED
  BY <1>1, RoundsType DEF WorkerRec

Loops(w) ==
    \/ Enter(w) \/ Poll(w) \/ PollMail(w) \/ Scan(w) \/ Top(w) \/ Round(w) \/ Mail(w)
    \/ PlanTimeout(w) \/ Wait(w) \/ Model(w) \/ ModelEnds(w) \/ Check(w) \/ Final(w)
    \/ MailFails(w) \/ Unlink(w)

LEMMA LoopGoesOn ==
  ASSUME worker \in [Workers -> WorkerRec], NEW w \in Workers, Loops(w)
  PROVE  GoesOn(w)
<1>0. worker[w] \in WorkerRec
  OBVIOUS
<1>g. ASSUME NEW label \in {"poll", "pollmail", "scan", "top", "round", "mail", "wait", "model",
                            "check", "final", "cleanup", "entering"}, Goto(w, label)
      PROVE  /\ worker' \in [Workers -> WorkerRec] /\ worker'[w].pc = label
             /\ worker'[w].conf = worker[w].conf /\ \A v \in Workers \ {w} : worker'[v] = worker[v]
  <2>1. label \in Labels /\ worker' = [worker EXCEPT ![w].pc = label]
    BY <1>g DEF Goto, Labels
  <2> QED
    BY <2>1, WorkerSet
<1> USE DEF GoesOn, Running, At, registry, ghosts
<1>1. CASE Enter(w)
  BY <1>1, <1>g DEF Enter
<1>2. CASE Poll(w)
  BY <1>2, <1>g DEF Poll
<1>3. CASE PollMail(w)
  BY <1>3, <1>g DEF PollMail
<1>4. CASE Scan(w)
  BY <1>4, <1>g DEF Scan
<1>5. CASE Top(w)
  <2>1. CASE Goto(w, "final")
    BY <1>5, <1>g, <2>1 DEF Top
  <2>2. CASE worker' = [worker EXCEPT ![w].pc = "round", ![w].rounds = 0]
    BY <1>0, <1>5, <2>2, RoundsType DEF Top, WorkerRec, Labels
  <2> QED
    BY <1>5, <2>1, <2>2 DEF Top
<1>6. CASE Round(w)
  BY <1>6, <1>g DEF Round
<1>7. CASE Mail(w)
  <2>0. At(w, "mail") /\ UNCHANGED <<profile, active, thread, event, reload, closing, deleting,
                                    missed, stranded, stopped>>
    BY <1>7 DEF Mail
  <2>1. CASE Goto(w, "final")
    BY <1>g, <2>0, <2>1
  <2>2. ASSUME NEW p \in Plans \cup {0}, NEW label \in {"wait", "model"},
               worker' = [worker EXCEPT ![w].waiting = p, ![w].pc = label]
        PROVE  GoesOn(w)
    BY <1>0, <2>0, <2>2 DEF WorkerRec, Labels
  <2>3. CASE ~Goto(w, "final")
    <3>1. worker[w].waiting \in Plans \cup {0}
      BY <1>0 DEF WorkerRec
    <3>2. \E p \in Plans \cup {0}, label \in {"wait", "model"} :
             worker' = [worker EXCEPT ![w].waiting = p, ![w].pc = label]
      BY <1>7, <2>3, <3>1 DEF Mail
    <3> QED
      BY <2>2, <3>2
  <2> QED
    BY <2>1, <2>3
<1>8. CASE PlanTimeout(w)
  BY <1>0, <1>8 DEF PlanTimeout, WorkerRec, Labels
<1>9. CASE Wait(w)
  BY <1>9, <1>g DEF Wait
<1>10. CASE Model(w)
  <2>1. CASE NextRound(w)
    BY <1>10, <2>1, NextRoundIs DEF Model
  <2>2. CASE Leave(w, "check")
    BY <1>10, <2>2, LeaveIs DEF Model, Labels
  <2>3. CASE \E p \in Plans : worker' = [worker EXCEPT ![w].waiting = p, ![w].pc = "top"]
    <3>1. PICK p \in Plans : worker' = [worker EXCEPT ![w].waiting = p, ![w].pc = "top"]
      BY <2>3
    <3>2. At(w, "model") /\ UNCHANGED <<profile, active, thread, event, reload, closing, deleting,
                                       missed, stranded, stopped>>
      BY <1>10 DEF Model
    <3>3. worker' \in [Workers -> WorkerRec]
      BY <1>0, <3>1 DEF WorkerRec, Labels
    <3> QED
      BY <1>0, <3>1, <3>2, <3>3 DEF WorkerRec
  <2> QED
    BY <1>10, <2>1, <2>2, <2>3 DEF Model
<1>11. CASE ModelEnds(w)
  BY <1>0, <1>11, RoundsType DEF ModelEnds, WorkerRec, Labels, StopSet
<1>12. CASE Check(w)
  BY <1>12, <1>g DEF Check
<1>13. CASE Final(w)
  BY <1>13, <1>g DEF Final
<1>14. CASE MailFails(w)
  BY <1>0, <1>14, RoundsType DEF MailFails, WorkerRec, Labels
<1>15. CASE Unlink(w)
  BY <1>15, <1>g DEF Unlink
<1> QED
  BY <1>1, <1>2, <1>3, <1>4, <1>5, <1>6, <1>7, <1>8, <1>9, <1>10, <1>11, <1>12, <1>13, <1>14,
     <1>15 DEF Loops

-----------------------------------------------------------------------------
(* Types                                                                   *)

LEMMA BatchIs ==
  ASSUME TypeOK, NEW w \in Workers
  PROVE  Batch(w) \in Seq(Messages) /\ \A j \in DOMAIN Batch(w) : Batch(w)[j] \in Messages
<1>1. Batch(w) \in Seq(Messages)
  BY DEF Batch, TypeOK, MailboxType, Batches, Workers
<1> QED
  BY <1>1

\* What Mail tells a worker was approved is the plan it waits for.
LEMMA ToldIs ==
  ASSUME TypeOK, NEW w \in Workers, Mail(w), NEW p \in told', p \notin told
  PROVE  p = worker[w].waiting /\ p \in Plans /\ plan[p] = "approved"
<1>1. PICK m : Answers(w, m) /\ plan[Reviews[m]] = "approved" /\ p = worker[w].waiting
  BY DEF Mail
<1> QED
  BY <1>1, MemberAssumption DEF Answers

\* The data that a worker in its loop changes.
LEMMA LoopData ==
  ASSUME TypeOK, NEW w \in Workers, Loops(w)
  PROVE  /\ MailboxType'
         /\ status' \in {"none", "running", "idle", "stopping", "restarting", "stopped", "error"}
         /\ task' \in {"none", "assigned", "owned", "moving"}
         /\ plan' \in [Plans -> {"none", "pending", "approved", "rejected", "expired"}]
         /\ sent' \subseteq Messages /\ unseen' \subseteq Messages /\ told' \subseteq Plans
         /\ events' \in Nat
<1> USE DEF TypeOK, registry, ghosts
<1>u. MailboxType /\ (UNCHANGED mailbox => MailboxType')
  BY MailboxSteps
<1>c. w \in Consumers /\ (ClaimInbox(w) \/ AckInbox(w) \/ NackWrite(w) \/ NackUnlink(w) => MailboxType')
  BY MailboxSteps DEF Workers
<1>1. CASE Enter(w)
  BY <1>1, <1>u DEF Enter
<1>2. CASE Poll(w)
  BY <1>2, <1>u, <1>c DEF Poll
<1>3. CASE PollMail(w)
  <2>1. unseen' \subseteq Messages
    BY <1>3, BatchIs DEF PollMail
  <2>2. /\ status' \in {status, "running"} /\ task' \in {task, "owned"}
        /\ UNCHANGED <<plan, sent, told, events>> /\ AckInbox(w)
    BY <1>3 DEF PollMail
  <2> QED
    BY <2>1, <2>2, <1>c
<1>4. CASE Scan(w)
  BY <1>4, <1>u DEF Scan
<1>5. CASE Top(w)
  BY <1>5, <1>u DEF Top
<1>6. CASE Round(w)
  BY <1>6, <1>u, <1>c DEF Round
<1>7. CASE Mail(w)
  <2>1. unseen' \subseteq Messages
    BY <1>7, BatchIs DEF Mail
  <2>2. told' \subseteq Plans
    BY <1>7, ToldIs
  <2>3. UNCHANGED <<status, task, plan, sent, events>> /\ AckInbox(w)
    BY <1>7 DEF Mail
  <2> QED
    BY <2>1, <2>2, <2>3, <1>c
<1>8. CASE PlanTimeout(w)
  <2> DEFINE p == worker[w].waiting
  <2>1. /\ plan' = [plan EXCEPT ![p] = IF plan[p] = "pending" THEN "expired" ELSE plan[p]]
        /\ UNCHANGED <<mailbox, status, task, sent, unseen, told, events>>
    BY <1>8 DEF PlanTimeout
  <2> HIDE DEF p
  <2>2. plan' \in [Plans -> {"none", "pending", "approved", "rejected", "expired"}]
    BY <2>1
  <2> QED
    BY <2>1, <2>2, <1>u
<1>9. CASE Wait(w)
  BY <1>9, <1>u DEF Wait
<1>10. CASE Model(w)
  <2>1. /\ UNCHANGED <<mailbox, sent, unseen, told>> /\ status' \in {status, "running"}
        /\ task' \in {task, "none", "owned"} /\ events' \in {events, events + 1}
        /\ UNCHANGED plan \/ \E p \in Plans : plan' = [plan EXCEPT ![p] = "pending"]
    BY <1>10 DEF Model, Befalls
  <2> QED
    BY <2>1, <1>u
<1>11. CASE ModelEnds(w)
  BY <1>11, <1>u DEF ModelEnds
<1>12. CASE Check(w)
  BY <1>12, <1>u DEF Check
<1>13. CASE Final(w)
  BY <1>13, <1>u DEF Final
<1>14. CASE MailFails(w) \/ Unlink(w)
  BY <1>14, <1>c DEF MailFails, Unlink
<1> QED
  BY <1>1, <1>2, <1>3, <1>4, <1>5, <1>6, <1>7, <1>8, <1>9, <1>10, <1>11, <1>12, <1>13, <1>14 DEF Loops

LEMMA LoopTypes ==
  ASSUME TypeOK, NEW w \in Workers, Loops(w)
  PROVE  TypeOK'
<1>1. GoesOn(w)
  BY LoopGoesOn DEF TypeOK
<1> QED
  BY <1>1, LoopData DEF GoesOn, TypeOK

\* A worker is registered, by spawn_teammate, restart_teammate or another worker.
Registers(v, version) ==
    /\ Register(v, version) /\ LifecycleFree /\ version \in 1..MaxProfile
    /\ profile # 0 => version \in {profile, profile + 1}
    /\ worker'[v].pc = "spawning" /\ worker'[v].conf = version
    /\ worker' \in [Workers -> WorkerRec]
    /\ \A u \in Workers \ {v} : worker'[u] = worker[u] \/ (worker[u].pc = "restart" /\ worker'[u].pc = "dead")
    /\ UNCHANGED <<mailbox, closing, deleting, stopped, task, plan, ghosts, events>>

LEMMA RegistersIs ==
  ASSUME TypeOK, NEW w \in Workers
  PROVE  /\ Spawn(w) => Registers(w, profile + 1)
         /\ Restart(w) => Registers(w, profile)
         /\ RestartSelf(w) => \/ \E v \in Workers : Registers(v, profile)
                              \/ Goto(w, "dead") /\ At(w, "restart") /\ UNCHANGED registry
                                 /\ UNCHANGED <<mailbox, closing, deleting, stopped, task, plan, ghosts, events>>
<1>0. worker \in [Workers -> WorkerRec] /\ profile \in 0..MaxProfile
  BY DEF TypeOK
<1>1. ASSUME NEW v \in Workers, NEW version \in 1..MaxProfile,
             worker' = [worker EXCEPT ![v].pc = "spawning", ![v].conf = version]
      PROVE  /\ worker'[v].pc = "spawning" /\ worker'[v].conf = version
             /\ worker' \in [Workers -> WorkerRec]
             /\ \A u \in Workers \ {v} : worker'[u] = worker[u]
  <2>1. version \in 0..MaxProfile
    BY MemberAssumption
  <2>2. worker[v] \in WorkerRec
    BY <1>0
  <2> QED
    BY <1>0, <1>1, <2>1, <2>2 DEF WorkerRec, Labels
<1>2. Spawn(w) => Registers(w, profile + 1)
  <2> SUFFICES ASSUME Spawn(w) PROVE Registers(w, profile + 1)
    OBVIOUS
  <2>1. profile + 1 \in 1..MaxProfile
    BY <1>0, MemberAssumption DEF Spawn
  <2>2. worker' = [worker EXCEPT ![w].pc = "spawning", ![w].conf = profile + 1]
    BY DEF Spawn
  <2> QED
    BY <1>1, <2>1, <2>2 DEF Spawn, Registers
<1>3. Restart(w) => Registers(w, profile)
  <2> SUFFICES ASSUME Restart(w) PROVE Registers(w, profile)
    OBVIOUS
  <2>1. profile \in 1..MaxProfile
    BY <1>0, MemberAssumption DEF Restart
  <2>2. worker' = [worker EXCEPT ![w].pc = "spawning", ![w].conf = profile]
    BY DEF Restart
  <2> QED
    BY <1>1, <2>1, <2>2 DEF Restart, Registers
<1>4. ASSUME RestartSelf(w), ~(Goto(w, "dead") /\ UNCHANGED registry)
      PROVE  \E v \in Workers : Registers(v, profile)
  <2>1. /\ profile \in 1..MaxProfile /\ At(w, "restart") /\ LifecycleFree
        /\ UNCHANGED <<mailbox, closing, deleting, stopped, task, plan, ghosts, events>>
    BY <1>0, <1>4, MemberAssumption DEF RestartSelf
  <2>2. PICK v \in Workers :
          /\ Register(v, profile)
          /\ worker' = [worker EXCEPT ![w].pc = "dead", ![v].pc = "spawning", ![v].conf = profile]
    BY <1>4 DEF RestartSelf
  <2>3. v # w
    BY <2>1, <2>2 DEF Register, Newborn, At
  <2>4. /\ worker'[v].pc = "spawning" /\ worker'[v].conf = profile
        /\ worker' \in [Workers -> WorkerRec] /\ worker'[w].pc = "dead"
        /\ \A u \in Workers \ {v, w} : worker'[u] = worker[u]
    <3>1. worker[v] \in WorkerRec /\ worker[w] \in WorkerRec
      BY <1>0
    <3>2. [worker EXCEPT ![w].pc = "dead"] \in [Workers -> WorkerRec]
      BY <1>0, WorkerSet DEF Labels
    <3> QED
      BY <1>0, <2>2, <2>3, <3>1, <3>2 DEF WorkerRec, Labels
  <2>5. \A u \in Workers \ {v} : worker'[u] = worker[u] \/ (worker[u].pc = "restart" /\ worker'[u].pc = "dead")
    BY <2>1, <2>4 DEF At
  <2>6. Registers(v, profile)
    BY <2>1, <2>2, <2>4, <2>5 DEF Registers
  <2> QED
    BY <2>6
<1> QED
  BY <1>2, <1>3, <1>4 DEF RestartSelf

LEMMA StartsIs ==
  ASSUME worker \in [Workers -> WorkerRec], NEW w \in Workers, RegisterThread(w) \/ Start(w)
  PROVE  /\ worker' \in [Workers -> WorkerRec] /\ worker'[w].conf = worker[w].conf
         /\ \A v \in Workers \ {w} : worker'[v] = worker[v]
         /\ RegisterThread(w) => At(w, "spawning") /\ worker'[w].pc = "registered"
         /\ Start(w) => At(w, "registered") /\ worker'[w].pc = "entering"
<1>1. CASE RegisterThread(w)
  <2>1. worker' = [worker EXCEPT ![w].pc = "registered"] /\ At(w, "spawning")
    BY <1>1 DEF RegisterThread, Goto
  <2>2. "registered" \in Labels /\ ~Start(w)
    BY <2>1 DEF Labels, Start, At
  <2> QED
    BY <2>1, <2>2, WorkerSet
<1>2. CASE Start(w)
  <2>1. worker' = [worker EXCEPT ![w].pc = "entering"] /\ At(w, "registered")
    BY <1>2 DEF Start, Goto
  <2>2. "entering" \in Labels /\ ~RegisterThread(w)
    BY <2>1 DEF Labels, RegisterThread, At
  <2> QED
    BY <2>1, <2>2, WorkerSet
<1> QED
  BY <1>1, <1>2

LEMMA GoneIs ==
  ASSUME NEW label
  PROVE  /\ [Unborn EXCEPT !.pc = label] =
              [pc |-> label, conf |-> 0, waiting |-> 0, rounds |-> 0, failed |-> FALSE]
         /\ \A w : [Gone(w) EXCEPT !.pc = label] = [Unborn EXCEPT !.pc = label]
<1>1. ASSUME NEW l
      PROVE  [Unborn EXCEPT !.pc = l] =
                [pc |-> l, conf |-> 0, waiting |-> 0, rounds |-> 0, failed |-> FALSE]
  <2>1. ASSUME NEW a, NEW b
        PROVE  [[pc |-> a, conf |-> 0, waiting |-> 0, rounds |-> 0, failed |-> b] EXCEPT !.pc = l] =
                  [pc |-> l, conf |-> 0, waiting |-> 0, rounds |-> 0, failed |-> b]
    OBVIOUS
  <2> QED
    BY <2>1, Zenon DEF Unborn
<1>2. \A w : Gone(w) = [pc |-> "dead", conf |-> 0, waiting |-> 0, rounds |-> 0, failed |-> FALSE]
  BY <1>1 DEF Gone
<1> QED
  BY <1>1, <1>2

LEMMA CleanupIs ==
  ASSUME worker \in [Workers -> WorkerRec], NEW w \in Workers, Cleanup(w)
  PROVE  /\ worker' \in [Workers -> WorkerRec] /\ worker'[w].pc \in {"restart", "dead"}
         /\ \A v \in Workers \ {w} : worker'[v] = worker[v]
<1> DEFINE label == IF reload /\ ~worker[w].failed /\ closing = "open" THEN "restart" ELSE "dead"
           rec == [pc |-> label, conf |-> 0, waiting |-> 0, rounds |-> 0, failed |-> FALSE]
<1>1. worker' = [worker EXCEPT ![w] = rec]
  BY GoneIs DEF Cleanup
<1>2. rec \in WorkerRec /\ rec.pc \in {"restart", "dead"}
  BY RoundsType DEF WorkerRec, Labels
<1> HIDE DEF rec
<1> QED
  BY <1>1, <1>2

LEMMA CrashIs ==
  ASSUME worker \in [Workers -> WorkerRec], Crash
  PROVE  /\ worker' \in [Workers -> WorkerRec]
         /\ \A w \in Workers : worker'[w].pc \in {"unborn", "dead"}
<1> DEFINE rec(label) == [pc |-> label, conf |-> 0, waiting |-> 0, rounds |-> 0, failed |-> FALSE]
<1>1. worker' = [w \in Workers |-> IF At(w, "unborn") THEN rec("unborn") ELSE rec("dead")]
  BY GoneIs DEF Crash, Gone, Unborn
<1>2. \A label \in {"unborn", "dead"} : rec(label) \in WorkerRec /\ rec(label).pc = label
  BY RoundsType DEF WorkerRec, Labels
<1> HIDE DEF rec
<1> QED
  BY <1>1, <1>2

\* What happens to the member from outside, and its worker goes on.
Outside ==
    \/ StopTeammate \/ UpdateProfile \/ DeleteCheck \/ DeleteTasks \/ DeleteCommit
    \/ StopAccepting \/ StopAll \/ Joined \/ Reopen
    \/ \E m \in Messages :
          SendMessage(m) \/ AssignTask(m) \/ (\E approve \in BOOLEAN : ReviewPlan(m, approve))
    \/ QueueTask \/ MoveTask \/ MoveDone \/ WithdrawTask

LEMMA OutsideIs == Outside => UNCHANGED worker
BY DEF Outside, StopTeammate, UpdateProfile, DeleteCheck, DeleteTasks, DeleteCommit,
       StopAccepting, StopAll, Joined, Reopen, SendMessage, AssignTask, ReviewPlan,
       QueueTask, MoveTask, MoveDone, WithdrawTask

\* Every step is one of these.
LEMMA Steps ==
  ASSUME Next
  PROVE  \/ \E w \in Workers : \/ Spawn(w) \/ Restart(w) \/ RegisterThread(w) \/ Start(w)
                               \/ Loops(w) \/ Cleanup(w) \/ RestartSelf(w)
         \/ Outside \/ Crash
BY DEF Next, LoopStep, Loops, Outside

LEMMA OutsideTypes ==
  ASSUME TypeOK, Outside
  PROVE  TypeOK'
<1> USE DEF TypeOK, registry, ghosts, Befalls
<1>u. MailboxType /\ (UNCHANGED mailbox => MailboxType')
  BY MailboxSteps
<1>1. CASE StopTeammate
  <2>1. event \in Workers /\ stopped' = stopped \cup {event} /\ events' = events + 1
    BY <1>1 DEF StopTeammate
  <2>2. reload' \in BOOLEAN
    BY <1>1 DEF StopTeammate
  <2> QED
    BY <1>1, <1>u, <2>1, <2>2 DEF StopTeammate
<1>2. CASE UpdateProfile
  <2>1. profile + 1 \in 0..MaxProfile
    BY <1>2, MemberAssumption DEF UpdateProfile
  <2> QED
    BY <1>2, <1>u, <2>1 DEF UpdateProfile
<1>3. CASE DeleteCheck
  BY <1>3, <1>u DEF DeleteCheck
<1>4. CASE DeleteTasks
  BY <1>4, <1>u DEF DeleteTasks
<1>5. CASE DeleteCommit
  <2>1. profile' \in 0..MaxProfile
    BY <1>5, RoundsType DEF DeleteCommit
  <2>2. reload' \in BOOLEAN /\ active' \in BOOLEAN
    BY <1>5 DEF DeleteCommit
  <2> QED
    BY <1>5, <1>u, <2>1, <2>2 DEF DeleteCommit
<1>6. CASE StopAccepting
  <2>1. reload' \in BOOLEAN
    BY <1>6 DEF StopAccepting
  <2> QED
    BY <1>6, <1>u, <2>1 DEF StopAccepting
<1>7. CASE StopAll
  BY <1>7, <1>u DEF StopAll
<1>8. CASE Joined
  <2>1. /\ thread' \in Workers \cup {0} /\ event' \in Workers \cup {0} /\ active' \in BOOLEAN
        /\ status' \in {status, "stopped"} /\ missed' \subseteq Workers /\ closing' = "closed"
        /\ UNCHANGED <<mailbox, profile, reload, deleting, worker, stopped, task, plan,
                       sent, unseen, told, stranded, events>>
    BY <1>8 DEF Joined
  <2> QED
    BY <1>u, <2>1
<1>9. CASE Reopen
  BY <1>9, <1>u DEF Reopen
<1>s. ASSUME NEW m \in Messages, Post(m) PROVE MailboxType' /\ sent' \subseteq Messages
  BY <1>s, <1>u, MailboxSteps DEF Post
<1>10. ASSUME NEW m \in Messages, SendMessage(m) PROVE TypeOK'
  BY <1>10, <1>s DEF SendMessage
<1>11. ASSUME NEW m \in Messages, AssignTask(m) PROVE TypeOK'
  BY <1>11, <1>s DEF AssignTask
<1>12. ASSUME NEW m \in Messages, NEW approve \in BOOLEAN, ReviewPlan(m, approve) PROVE TypeOK'
  <2>1. plan' \in [Plans -> {"none", "pending", "approved", "rejected", "expired"}]
    BY <1>12 DEF ReviewPlan
  <2> QED
    BY <1>12, <1>s, <2>1 DEF ReviewPlan
<1>13. CASE QueueTask
  BY <1>13, <1>u DEF QueueTask
<1>14. CASE MoveTask
  BY <1>14, <1>u DEF MoveTask
<1>15. CASE MoveDone
  <2>1. stranded' \in BOOLEAN /\ task' \in {"none", "assigned"}
    BY <1>15 DEF MoveDone
  <2>2. UNCHANGED <<mailbox, registry, closing, deleting, worker, stopped, plan,
                    sent, unseen, told, missed, events>>
    BY <1>15 DEF MoveDone
  <2> QED
    BY <1>u, <2>1, <2>2
<1>16. CASE WithdrawTask
  BY <1>16, <1>u DEF WithdrawTask
<1> QED
  BY <1>1, <1>2, <1>3, <1>4, <1>5, <1>6, <1>7, <1>8, <1>9, <1>10, <1>11, <1>12, <1>13, <1>14,
     <1>15, <1>16 DEF Outside

LEMMA RegistersTypes ==
  ASSUME TypeOK, NEW v \in Workers, NEW version, Registers(v, version)
  PROVE  TypeOK'
<1>1. MailboxType'
  BY MailboxSteps DEF TypeOK, Registers
<1>2. version \in 0..MaxProfile
  BY MemberAssumption DEF Registers
<1> QED
  BY <1>1, <1>2 DEF TypeOK, Registers, Register, ghosts

LEMMA TypeStep == TypeOK /\ [Next]_vars => TypeOK'
<1> SUFFICES ASSUME TypeOK, [Next]_vars PROVE TypeOK'
  OBVIOUS
<1>0. worker \in [Workers -> WorkerRec]
  BY DEF TypeOK
<1>u. MailboxType /\ (UNCHANGED mailbox \/ MailboxCrash => MailboxType')
  BY MailboxSteps DEF TypeOK
<1>1. ASSUME NEW w \in Workers, NEW v \in Workers, NEW version, Registers(v, version) PROVE TypeOK'
  BY <1>1, RegistersTypes
<1>2. ASSUME NEW w \in Workers, RegisterThread(w) \/ Start(w) PROVE TypeOK'
  BY <1>0, <1>2, <1>u, StartsIs DEF TypeOK, RegisterThread, Start, registry, ghosts
<1>3. ASSUME NEW w \in Workers, Cleanup(w) PROVE TypeOK'
  <2>1. worker' \in [Workers -> WorkerRec]
    BY <1>0, <1>3, CleanupIs
  <2>2. /\ stopped' \subseteq stopped /\ reload' = FALSE /\ active' = FALSE /\ thread' = 0 /\ event' = 0
        /\ status' \in {"none", "error", "stopped"}
        /\ UNCHANGED <<mailbox, profile, closing, deleting, task, plan, ghosts, events>>
    BY <1>3 DEF Cleanup
  <2> QED
    BY <1>u, <2>1, <2>2 DEF TypeOK, ghosts
<1>4. ASSUME NEW w \in Workers, RestartSelf(w) PROVE TypeOK'
  <2>1. CASE Goto(w, "dead") /\ UNCHANGED registry
            /\ UNCHANGED <<mailbox, closing, deleting, stopped, task, plan, ghosts, events>>
    <3>1. worker' \in [Workers -> WorkerRec]
      BY <1>0, <2>1, WorkerSet DEF Goto, Labels
    <3> QED
      BY <1>u, <2>1, <3>1 DEF TypeOK, registry, ghosts
  <2> QED
    BY <1>4, <2>1, RegistersIs, RegistersTypes
<1>5. CASE Crash
  <2>1. reload' \in BOOLEAN /\ active' \in BOOLEAN /\ MailboxType'
    BY <1>5, <1>u DEF Crash
  <2>2. worker' \in [Workers -> WorkerRec]
    BY <1>0, <1>5, CrashIs
  <2> QED
    BY <1>5, <2>1, <2>2 DEF TypeOK, Crash, Befalls
<1>6. ASSUME NEW w \in Workers, Spawn(w) \/ Restart(w) PROVE TypeOK'
  BY <1>6, RegistersIs, RegistersTypes
<1>7. CASE UNCHANGED vars
  BY <1>7, <1>u DEF TypeOK, vars, registry, ghosts
<1> QED
  BY <1>2, <1>3, <1>4, <1>5, <1>6, <1>7, Steps, LoopTypes, OutsideTypes

LEMMA TypeInit == Init => TypeOK
<1> SUFFICES ASSUME Init PROVE TypeOK
  OBVIOUS
<1>1. Unborn \in WorkerRec
  BY RoundsType DEF Unborn, WorkerRec, Labels
<1>2. MailboxType
  BY DEF Init, MailboxInit, MailboxType, Batches
<1>3. profile \in 0..MaxProfile /\ active \in BOOLEAN /\ reload \in BOOLEAN /\ stranded \in BOOLEAN
  BY RoundsType DEF Init
<1> QED
  BY <1>1, <1>2, <1>3 DEF Init, TypeOK

-----------------------------------------------------------------------------
(* The entries of the registry                                             *)

\* Who is started was not there before, and nobody is registered beside it.
LEMMA RegistersAlone ==
  ASSUME TypeOK, EntriesTrue, NEW v \in Workers, NEW version, Registers(v, version), missed = {}
  PROVE  /\ \A u \in Workers : ~Busy(u)
         /\ \A u \in Workers \ {v} : worker'[u].pc \in {"unborn", "restart", "dead"}
<1>1. \A u \in Workers : ~Busy(u)
  BY DEF EntriesTrue, Registers, Register
<1> QED
  BY <1>1 DEF Busy, Registers

LEMMA OutsideEntries ==
  ASSUME TypeOK, EntriesTrue, TasksTrue, Outside
  PROVE  EntriesTrue'
<1>1. UNCHANGED worker
  BY OutsideIs
<1> SUFFICES ASSUME missed' = {}, NEW w \in Workers, Busy(w)
             PROVE  active' /\ event' = w /\ (At(w, "spawning") \/ thread' = w)
  BY <1>1 DEF EntriesTrue, Busy, At
<1>2. missed = {}
  BY DEF Outside, StopTeammate, UpdateProfile, DeleteCheck, DeleteTasks, DeleteCommit,
         StopAccepting, StopAll, Joined, Reopen, SendMessage, AssignTask, ReviewPlan,
         QueueTask, MoveTask, MoveDone, WithdrawTask, ghosts
<1>3. active /\ event = w /\ (At(w, "spawning") \/ thread = w)
  BY <1>2 DEF EntriesTrue
<1>4. CASE UNCHANGED <<active, event, thread>>
  BY <1>3, <1>4
<1>5. CASE DeleteCommit
  BY <1>3, <1>5 DEF DeleteCommit, TasksTrue
<1>6. CASE Joined
  BY <1>3, <1>6 DEF Joined
<1> QED
  BY <1>4, <1>5, <1>6
     DEF Outside, StopTeammate, UpdateProfile, DeleteCheck, DeleteTasks,
         StopAccepting, StopAll, Reopen, SendMessage, AssignTask, ReviewPlan,
         QueueTask, MoveTask, MoveDone, WithdrawTask, registry

LEMMA EntriesStep == MemberInv /\ [Next]_vars => EntriesTrue'
<1> SUFFICES ASSUME MemberInv, [Next]_vars PROVE EntriesTrue'
  OBVIOUS
<1>0. TypeOK /\ EntriesTrue /\ TasksTrue /\ worker \in [Workers -> WorkerRec]
  BY DEF MemberInv, TypeOK
<1>1. ASSUME NEW v \in Workers, NEW version, Registers(v, version) PROVE EntriesTrue'
  <2> SUFFICES ASSUME missed' = {}, NEW w \in Workers, Busy(w)'
               PROVE  active' /\ event' = w /\ (At(w, "spawning")' \/ thread' = w)
    BY DEF EntriesTrue
  <2>1. missed = {}
    BY <1>1 DEF Registers, ghosts
  <2>2. w = v
    BY <1>0, <1>1, <2>1, RegistersAlone DEF Busy
  <2> QED
    BY <1>1, <2>2 DEF Registers, Register, At
<1>2. ASSUME NEW v \in Workers, RegisterThread(v) PROVE EntriesTrue'
  <2>1. /\ UNCHANGED <<active, event, missed>> /\ thread' = v /\ Busy(v)
    BY <1>2 DEF RegisterThread, ghosts, Busy, At
  <2>2. \A w \in Workers \ {v} : worker'[w] = worker[w]
    BY <1>0, <1>2, StartsIs
  <2> QED
    BY <1>0, <2>1, <2>2 DEF EntriesTrue, Busy, At
<1>3. ASSUME NEW v \in Workers, Start(v) PROVE EntriesTrue'
  <2>1. /\ UNCHANGED <<active, event, thread, missed>> /\ Busy(v) /\ ~At(v, "spawning")
    BY <1>3 DEF Start, registry, ghosts, Busy, At
  <2>2. \A w \in Workers \ {v} : worker'[w] = worker[w]
    BY <1>0, <1>3, StartsIs
  <2> QED
    BY <1>0, <2>1, <2>2 DEF EntriesTrue, Busy, At
<1>4. ASSUME NEW v \in Workers, Loops(v) PROVE EntriesTrue'
  <2>1. GoesOn(v)
    BY <1>0, <1>4, LoopGoesOn
  <2> QED
    BY <1>0, <2>1 DEF GoesOn, Running, EntriesTrue, Busy, At
<1>5. ASSUME NEW v \in Workers, Cleanup(v) PROVE EntriesTrue'
  <2>1. UNCHANGED missed /\ Busy(v)
    BY <1>5 DEF Cleanup, ghosts, Busy, At
  <2>2. \A w \in Workers \ {v} : worker'[w] = worker[w]
    BY <1>0, <1>5, CleanupIs
  <2>3. ~Busy(v)'
    BY <1>0, <1>5, CleanupIs DEF Busy
  <2>4. missed = {} => \A w \in Workers \ {v} : ~Busy(w)
    BY <1>0, <2>1 DEF EntriesTrue
  <2> QED
    BY <2>1, <2>2, <2>3, <2>4 DEF EntriesTrue, Busy
<1>6. ASSUME NEW v \in Workers, RestartSelf(v) PROVE EntriesTrue'
  <2>1. CASE Goto(v, "dead") /\ At(v, "restart") /\ UNCHANGED registry /\ UNCHANGED ghosts
    <3>1. worker'[v].pc = "dead" /\ \A w \in Workers \ {v} : worker'[w] = worker[w]
      BY <1>0, <2>1, WorkerSet DEF Goto, Labels
    <3> QED
      BY <1>0, <2>1, <3>1 DEF EntriesTrue, Busy, At, registry, ghosts
  <2> QED
    BY <1>0, <1>1, <1>6, <2>1, RegistersIs
<1>7. ASSUME NEW v \in Workers, Spawn(v) \/ Restart(v) PROVE EntriesTrue'
  BY <1>0, <1>1, <1>7, RegistersIs
<1>8. CASE Crash
  BY <1>0, <1>8, CrashIs DEF EntriesTrue, Busy
<1>9. CASE UNCHANGED vars
  BY <1>0, <1>9 DEF EntriesTrue, Busy, At, vars, registry, ghosts
<1>10. CASE Outside
  BY <1>0, <1>10, OutsideEntries
<1> QED
  BY <1>2, <1>3, <1>4, <1>5, <1>6, <1>7, <1>8, <1>9, <1>10, Steps

-----------------------------------------------------------------------------
(* Profiles                                                                *)

LEMMA OutsideProfiles ==
  ASSUME TypeOK, EntriesTrue, ProfilesTrue, TasksTrue, Outside
  PROVE  ProfilesTrue'
<1>1. UNCHANGED worker
  BY OutsideIs
<1> SUFFICES ASSUME missed' = {}, NEW w \in Workers
             PROVE  /\ Starting(w) => worker[w].conf = profile'
                    /\ Running(w) => \/ worker[w].conf = profile'
                                     \/ reload' \/ w \in stopped' \/ closing' = "refusing"
  BY <1>1 DEF ProfilesTrue, Starting, Running
<1>2. missed = {}
  BY DEF Outside, StopTeammate, UpdateProfile, DeleteCheck, DeleteTasks, DeleteCommit,
         StopAccepting, StopAll, Joined, Reopen, SendMessage, AssignTask, ReviewPlan,
         QueueTask, MoveTask, MoveDone, WithdrawTask, ghosts
<1>3. /\ Starting(w) \/ Running(w) => active /\ event = w
      /\ Starting(w) => worker[w].conf = profile
      /\ Running(w) => \/ worker[w].conf = profile
                       \/ reload \/ w \in stopped \/ closing = "refusing"
  BY <1>2 DEF EntriesTrue, ProfilesTrue, Starting, Running, Busy
<1>4. CASE UNCHANGED <<profile, reload, closing>> /\ stopped \subseteq stopped'
  BY <1>3, <1>4
<1>5. CASE StopTeammate
  BY <1>3, <1>5 DEF StopTeammate
<1>6. CASE UpdateProfile
  <2>1. ~Starting(w)
    BY <1>6 DEF UpdateProfile, LifecycleFree, Starting, At
  <2> QED
    BY <1>3, <1>6, <2>1 DEF UpdateProfile
<1>7. CASE DeleteCommit
  BY <1>3, <1>7 DEF DeleteCommit, TasksTrue
<1>8. CASE StopAccepting
  BY <1>3, <1>8 DEF StopAccepting
<1>9. CASE StopAll
  <2>1. w \in Nat \ {0}
    BY MemberAssumption DEF Workers
  <2> QED
    BY <1>3, <1>9, <2>1 DEF StopAll, registry
<1>10. CASE Joined \/ Reopen
  BY <1>3, <1>10 DEF Joined, Reopen, registry
<1> QED
  BY <1>4, <1>5, <1>6, <1>7, <1>8, <1>9, <1>10
     DEF Outside, DeleteCheck, DeleteTasks, SendMessage, AssignTask, ReviewPlan,
         QueueTask, MoveTask, MoveDone, WithdrawTask, registry

LEMMA ProfilesStep == MemberInv /\ [Next]_vars => ProfilesTrue'
<1> SUFFICES ASSUME MemberInv, [Next]_vars PROVE ProfilesTrue'
  OBVIOUS
<1>0. TypeOK /\ EntriesTrue /\ ProfilesTrue /\ TasksTrue /\ worker \in [Workers -> WorkerRec]
  BY DEF MemberInv, TypeOK
<1>1. ASSUME NEW v \in Workers, NEW version, Registers(v, version) PROVE ProfilesTrue'
  <2> SUFFICES ASSUME missed' = {}, NEW w \in Workers, Busy(w)'
               PROVE  worker'[w].conf = profile'
    BY DEF ProfilesTrue, Starting, Running, Busy
  <2>1. missed = {}
    BY <1>1 DEF Registers, ghosts
  <2>2. w = v
    BY <1>0, <1>1, <2>1, RegistersAlone DEF Busy
  <2> QED
    BY <1>1, <2>2 DEF Registers, Register
<1>2. ASSUME NEW v \in Workers, RegisterThread(v) \/ Start(v) PROVE ProfilesTrue'
  <2>1. UNCHANGED <<profile, reload, stopped, closing, missed>> /\ Starting(v)
    BY <1>2 DEF RegisterThread, Start, registry, ghosts, Starting, At
  <2>2. worker'[v].conf = worker[v].conf /\ \A w \in Workers \ {v} : worker'[w] = worker[w]
    BY <1>0, <1>2, StartsIs
  <2> QED
    BY <1>0, <2>1, <2>2 DEF ProfilesTrue, Starting, Running
<1>4. ASSUME NEW v \in Workers, Loops(v) PROVE ProfilesTrue'
  <2>1. GoesOn(v)
    BY <1>0, <1>4, LoopGoesOn
  <2> QED
    BY <1>0, <2>1 DEF GoesOn, Running, ProfilesTrue, Starting
<1>5. ASSUME NEW v \in Workers, Cleanup(v) PROVE ProfilesTrue'
  <2>1. UNCHANGED missed /\ Busy(v)
    BY <1>5 DEF Cleanup, ghosts, Busy, At
  <2>2. \A w \in Workers \ {v} : worker'[w] = worker[w]
    BY <1>0, <1>5, CleanupIs
  <2>3. ~Busy(v)'
    BY <1>0, <1>5, CleanupIs DEF Busy
  <2>4. missed = {} => \A w \in Workers \ {v} : ~Busy(w)
    BY <1>0, <2>1 DEF EntriesTrue
  <2> QED
    BY <2>1, <2>2, <2>3, <2>4 DEF ProfilesTrue, Busy, Starting, Running
<1>6. ASSUME NEW v \in Workers, RestartSelf(v) PROVE ProfilesTrue'
  <2>1. CASE Goto(v, "dead") /\ UNCHANGED <<registry, closing, stopped, ghosts>>
    <3>1. worker'[v].pc = "dead" /\ \A w \in Workers \ {v} : worker'[w] = worker[w]
      BY <1>0, <2>1, WorkerSet DEF Goto, Labels
    <3> QED
      BY <1>0, <2>1, <3>1 DEF ProfilesTrue, Starting, Running, registry, ghosts
  <2> QED
    BY <1>0, <1>1, <1>6, <2>1, RegistersIs
<1>7. ASSUME NEW v \in Workers, Spawn(v) \/ Restart(v) PROVE ProfilesTrue'
  BY <1>0, <1>1, <1>7, RegistersIs
<1>8. CASE Crash
  BY <1>0, <1>8, CrashIs DEF ProfilesTrue, Starting, Running
<1>9. CASE UNCHANGED vars
  BY <1>0, <1>9 DEF ProfilesTrue, Starting, Running, vars, registry, ghosts
<1>10. CASE Outside
  BY <1>0, <1>10, OutsideProfiles
<1> QED
  BY <1>2, <1>4, <1>5, <1>6, <1>7, <1>8, <1>9, <1>10, Steps

-----------------------------------------------------------------------------
(* The member's task                                                       *)

LEMMA OutsideTasks ==
  ASSUME TypeOK, TasksTrue, Outside
  PROVE  TasksTrue'
<1> USE DEF TasksTrue, Bound, registry, ghosts
<1>1. CASE StopTeammate \/ StopAccepting \/ StopAll \/ Reopen
  BY <1>1 DEF StopTeammate, StopAccepting, StopAll, Reopen
<1>2. CASE UpdateProfile
  <2>1. profile' # 0
    BY <1>2, MemberAssumption DEF UpdateProfile
  <2> QED
    BY <1>2, <2>1 DEF UpdateProfile
<1>3. CASE DeleteCheck
  BY <1>3 DEF DeleteCheck
<1>4. CASE DeleteTasks
  BY <1>4 DEF DeleteTasks
<1>5. CASE DeleteCommit
  BY <1>5 DEF DeleteCommit, TeamFree, TypeOK
<1>6. CASE Joined
  BY <1>6 DEF Joined
<1>7. ASSUME NEW m \in Messages, SendMessage(m) \/ AssignTask(m) \/ ReviewPlan(m, TRUE) \/ ReviewPlan(m, FALSE)
      PROVE  TasksTrue'
  BY <1>7 DEF SendMessage, AssignTask, ReviewPlan, Online
<1>8. CASE QueueTask
  BY <1>8 DEF QueueTask, LifecycleFree
<1>9. CASE MoveTask
  BY <1>9 DEF MoveTask
<1>10. CASE MoveDone
  BY <1>10 DEF MoveDone
<1>11. CASE WithdrawTask
  BY <1>11 DEF WithdrawTask
<1> QED
  BY <1>1, <1>2, <1>3, <1>4, <1>5, <1>6, <1>7, <1>8, <1>9, <1>10, <1>11 DEF Outside

\* What First finds is a message of the batch, of the kinds asked for.
LEMMA FirstHit ==
  ASSUME NEW batch \in Seq(Messages), NEW kinds, First(batch, kinds) # 0
  PROVE  First(batch, kinds) \in DOMAIN batch /\ Kind[batch[First(batch, kinds)]] \in kinds
<1> DEFINE hits == {i \in DOMAIN batch : Kind[batch[i]] \in kinds}
           least(i) == i \in hits /\ \A j \in hits : i <= j
<1>1. First(batch, kinds) = IF hits = {} THEN 0 ELSE CHOOSE i \in hits : \A j \in hits : i <= j
  BY DEF First
<1>2. hits # {} /\ hits \in SUBSET Nat
  BY <1>1
<1>3. \E i \in hits : \A j \in hits : i <= j
  BY <1>2, HasMinimum
<1>4. First(batch, kinds) \in hits
  BY <1>1, <1>2, <1>3
<1> QED
  BY <1>4

\* A worker takes a task only that is reserved for it.
LEMMA LoopTask ==
  ASSUME TypeOK, NEW w \in Workers, Loops(w)
  PROVE  \/ task' \in {task, "none"}
         \/ task' = "owned" /\ task = "assigned"
         \/ task' = "assigned" /\ task = "owned"
<1>1. CASE PollMail(w)
  <2> DEFINE i == First(Batch(w), {"shutdown_request"})
  <2>1. CASE Claimable
    BY <1>1, <2>1 DEF PollMail, Claimable
  <2>2. CASE ~Claimable
    <3>1. Batch(w) \in Seq(Messages)
      BY BatchIs
    <3>2. i # 0 => Kind[Batch(w)[i]] = "shutdown_request"
      BY <3>1, FirstHit
    <3> QED
      BY <1>1, <2>2, <3>2 DEF PollMail
  <2> QED
    BY <2>1, <2>2
<1>2. CASE Scan(w)
  BY <1>2 DEF Scan, Claimable
<1>3. CASE Model(w)
  <2>1. \/ task' \in {task, "none"}
        \/ Claimable /\ task' = "owned"
    BY <1>3 DEF Model
  <2> QED
    BY <2>1 DEF Claimable
<1>4. CASE Final(w)
  BY <1>4 DEF Final
<1>5. CASE UNCHANGED task
  BY <1>5
<1> QED
  BY <1>1, <1>2, <1>3, <1>4, <1>5
     DEF Loops, Enter, Poll, Top, Round, Mail, PlanTimeout, Wait, ModelEnds, Check, MailFails, Unlink

LEMMA TasksStep == MemberInv /\ [Next]_vars => TasksTrue'
<1> SUFFICES ASSUME MemberInv, [Next]_vars PROVE TasksTrue'
  OBVIOUS
<1>0. TypeOK /\ TasksTrue /\ worker \in [Workers -> WorkerRec]
  BY DEF MemberInv, TypeOK
<1> USE DEF TasksTrue, Bound, registry, ghosts
<1>1. ASSUME NEW v \in Workers, NEW version, Registers(v, version) PROVE TasksTrue'
  <2>1. version # 0
    BY <1>1, MemberAssumption DEF Registers
  <2> QED
    BY <1>0, <1>1, <2>1 DEF Registers, Register, LifecycleFree
<1>2. ASSUME NEW v \in Workers, RegisterThread(v) \/ Start(v) PROVE TasksTrue'
  BY <1>0, <1>2 DEF RegisterThread, Start
<1>3. ASSUME NEW v \in Workers, Loops(v) PROVE TasksTrue'
  <2>1. GoesOn(v)
    BY <1>0, <1>3, LoopGoesOn
  <2> QED
    BY <1>0, <1>3, <2>1, LoopTask DEF GoesOn
<1>4. ASSUME NEW v \in Workers, Cleanup(v) PROVE TasksTrue'
  BY <1>0, <1>4 DEF Cleanup
<1>5. ASSUME NEW v \in Workers, RestartSelf(v) PROVE TasksTrue'
  <2>1. CASE UNCHANGED registry /\ UNCHANGED <<deleting, task, ghosts>>
    BY <1>0, <2>1
  <2> QED
    BY <1>0, <1>1, <1>5, <2>1, RegistersIs
<1>6. ASSUME NEW v \in Workers, Spawn(v) \/ Restart(v) PROVE TasksTrue'
  BY <1>0, <1>1, <1>6, RegistersIs
<1>7. CASE Crash
  BY <1>0, <1>7 DEF Crash
<1>8. CASE UNCHANGED vars
  BY <1>0, <1>8 DEF vars
<1>9. CASE Outside
  BY <1>0, <1>9, OutsideTasks
<1> QED
  BY <1>2, <1>3, <1>4, <1>5, <1>6, <1>7, <1>8, <1>9, Steps

-----------------------------------------------------------------------------
(* Plans                                                                   *)

\* What was decided about a plan is never changed.
LEMMA ApprovedStays ==
  ASSUME TypeOK, [Next]_vars, NEW p \in Plans, plan[p] = "approved"
  PROVE  plan'[p] = "approved"
<1>1. UNCHANGED plan
      \/ \E q \in Plans : plan[q] \in {"none", "pending"} /\ \A r \in Plans \ {q} : plan'[r] = plan[r]
  <2>1. ASSUME NEW w \in Workers, Loops(w), ~UNCHANGED plan
        PROVE  \E q \in Plans : plan[q] \in {"none", "pending"} /\ \A r \in Plans \ {q} : plan'[r] = plan[r]
    <3>1. CASE PlanTimeout(w)
      <4> DEFINE q == worker[w].waiting
      <4>1. plan' = [plan EXCEPT ![q] = IF plan[q] = "pending" THEN "expired" ELSE plan[q]]
        BY <3>1 DEF PlanTimeout
      <4> HIDE DEF q
      <4>2. q \in Plans /\ plan[q] = "pending"
        BY <2>1, <4>1 DEF TypeOK
      <4>3. \A r \in Plans \ {q} : plan'[r] = plan[r]
        BY <4>1 DEF TypeOK
      <4> QED
        BY <4>2, <4>3
    <3>2. CASE Model(w)
      <4>1. PICK q \in Plans : plan[q] = "none" /\ plan' = [plan EXCEPT ![q] = "pending"]
        BY <2>1, <3>2 DEF Model
      <4>2. \A r \in Plans \ {q} : plan'[r] = plan[r]
        BY <4>1 DEF TypeOK
      <4> QED
        BY <4>1, <4>2
    <3> QED
      BY <2>1, <3>1, <3>2 DEF Loops, Enter, Poll, PollMail, Scan, Top, Round, Mail, Wait, ModelEnds,
                              Check, Final, MailFails, Unlink
  <2>2. ASSUME NEW w \in Workers, Spawn(w) \/ Restart(w) \/ RegisterThread(w) \/ Start(w)
                                  \/ Cleanup(w) \/ RestartSelf(w)
        PROVE  UNCHANGED plan
    BY <2>2 DEF Spawn, Restart, RegisterThread, Start, Cleanup, RestartSelf
  <2>3. ASSUME NEW m \in Messages, NEW approve \in BOOLEAN, ReviewPlan(m, approve)
        PROVE  \E q \in Plans : plan[q] \in {"none", "pending"} /\ \A r \in Plans \ {q} : plan'[r] = plan[r]
    <3>1. m \in DOMAIN Reviews /\ Reviews[m] \in Plans /\ plan[Reviews[m]] = "pending"
      BY <2>3, MemberAssumption DEF ReviewPlan
    <3> DEFINE q == Reviews[m]
    <3>2. plan' = [plan EXCEPT ![q] = IF approve THEN "approved" ELSE "rejected"]
      BY <2>3 DEF ReviewPlan
    <3>3. q \in Plans /\ plan[q] = "pending"
      BY <3>1
    <3> HIDE DEF q
    <3>4. \A r \in Plans \ {q} : plan'[r] = plan[r]
      BY <3>2 DEF TypeOK
    <3> QED
      BY <3>3, <3>4
  <2>4. CASE Outside /\ ~\E m \in Messages, approve \in BOOLEAN : ReviewPlan(m, approve)
    BY <2>4 DEF Outside, StopTeammate, UpdateProfile, DeleteCheck, DeleteTasks, DeleteCommit,
         StopAccepting, StopAll, Joined, Reopen, SendMessage, AssignTask,
         QueueTask, MoveTask, MoveDone, WithdrawTask
  <2>5. Crash \/ UNCHANGED vars => UNCHANGED plan
    BY DEF Crash, vars
  <2> QED
    BY <2>1, <2>2, <2>3, <2>4, <2>5, Steps
<1>2. plan \in [Plans -> {"none", "pending", "approved", "rejected", "expired"}]
  BY DEF TypeOK
<1> QED
  BY <1>1, <1>2

LEMMA PlansStep == MemberInv /\ [Next]_vars => ApprovedMeansApproved'
<1> SUFFICES ASSUME MemberInv, [Next]_vars, NEW p \in told' PROVE plan'[p] = "approved"
  BY DEF ApprovedMeansApproved
<1>0. TypeOK /\ ApprovedMeansApproved /\ told \subseteq Plans
  BY DEF MemberInv, TypeOK
<1>1. CASE p \in told
  BY <1>0, <1>1, ApprovedStays DEF ApprovedMeansApproved
<1>2. CASE p \notin told
  <2>1. PICK w \in Workers : Mail(w)
    <3>1. ASSUME NEW w \in Workers, Loops(w) PROVE Mail(w)
      BY <1>2, <3>1 DEF Loops, Enter, Poll, PollMail, Scan, Top, Round, PlanTimeout, Wait, Model, ModelEnds,
                        Check, Final, MailFails, Unlink, ghosts
    <3>2. ASSUME NEW w \in Workers, Spawn(w) \/ Restart(w) \/ RegisterThread(w) \/ Start(w)
                                    \/ Cleanup(w) \/ RestartSelf(w)
          PROVE FALSE
      BY <1>2, <3>2 DEF Spawn, Restart, RegisterThread, Start, Cleanup, RestartSelf, ghosts
    <3>3. CASE Outside
      BY <1>2, <3>3 DEF Outside, StopTeammate, UpdateProfile, DeleteCheck, DeleteTasks, DeleteCommit,
         StopAccepting, StopAll, Joined, Reopen, SendMessage, AssignTask, ReviewPlan,
         QueueTask, MoveTask, MoveDone, WithdrawTask, ghosts
    <3>4. ~(Crash \/ UNCHANGED vars)
      BY <1>2 DEF Crash, vars, ghosts
    <3> QED
      BY <3>1, <3>2, <3>3, <3>4, Steps
  <2>2. p \in Plans /\ plan[p] = "approved"
    BY <1>0, <1>2, <2>1, ToldIs
  <2> QED
    BY <1>0, <2>2, ApprovedStays
<1> QED
  BY <1>1, <1>2

-----------------------------------------------------------------------------
(* The theorems about one member                                           *)

LEMMA MemberInit == Init => MemberInv
<1> SUFFICES ASSUME Init PROVE MemberInv
  OBVIOUS
<1>1. \A w \in Workers : worker[w].pc = "unborn"
  BY DEF Init, Unborn
<1>2. EntriesTrue /\ ProfilesTrue
  BY <1>1 DEF EntriesTrue, ProfilesTrue, Busy, Starting, Running
<1>3. TasksTrue /\ ApprovedMeansApproved
  BY DEF Init, TasksTrue, Bound, ApprovedMeansApproved
<1> QED
  BY <1>2, <1>3, TypeInit DEF MemberInv

LEMMA MemberInvariant == Spec => []MemberInv
<1>1. MemberInv /\ [Next]_vars => MemberInv'
  BY TypeStep, EntriesStep, ProfilesStep, TasksStep, PlansStep DEF MemberInv
<1> QED
  BY <1>1, MemberInit, PTL DEF Spec

\* The registry, the workers, the mailbox and the plans have their types, for any number
\* of workers, messages and plans.
THEOREM MemberTypes == Spec => []TypeOK
<1>1. MemberInv => TypeOK
  BY DEF MemberInv
<1> QED
  BY <1>1, MemberInvariant, PTL

\* A worker that runs is the one the registry shows, so that a stop reaches it and no
\* second one is started under its name, and one whose profile is outdated is marked for
\* a reload or stopped, however starts, reloads, edits, a deletion, a crash and the
\* closing of the application interleave (unless the closing took a thread that had not
\* started yet for a dead one).
THEOREM WorkersReached == Spec => []EveryWorkerReached
<1>1. MemberInv => EveryWorkerReached
  <2> SUFFICES ASSUME MemberInv, missed = {}, NEW w \in Workers, Running(w)
               PROVE  /\ Stoppable(w)
                      /\ Outdated(w) => reload \/ w \in stopped \/ closing = "refusing"
    BY DEF EveryWorkerReached
  <2>1. Stoppable(w)
    BY DEF MemberInv, EntriesTrue, Stoppable, Running, Busy, At
  <2>2. Outdated(w) => reload \/ w \in stopped \/ closing = "refusing"
    BY DEF MemberInv, ProfilesTrue, Outdated
  <2> QED
    BY <2>1, <2>2
<1> QED
  BY <1>1, MemberInvariant, PTL

\* A task waits for a member that exists, although delete_teammate looks at the tasks
\* without a lock that would keep them as they are (unless a failed notice gave one back).
THEOREM AssigneeKnown == Spec => []KnownAssignee
<1>1. MemberInv => KnownAssignee
  BY DEF MemberInv, TasksTrue, KnownAssignee, Bound
<1> QED
  BY <1>1, MemberInvariant, PTL

\* A worker goes on with a plan only when that very plan was approved, for any number of
\* plans and of workers one after the other.
THEOREM PlansApproved == Spec => []ApprovedMeansApproved
<1>1. MemberInv => ApprovedMeansApproved
  BY DEF MemberInv
<1> QED
  BY <1>1, MemberInvariant, PTL

-----------------------------------------------------------------------------
(* The member's mailbox is a Mailbox                                       *)

mail == <<inbox, held, orphans, nacking, recovering, recovered, dead, lost, doubled, sent>>

\* Where a message may be.
In(m) == m \in Range(inbox)
Left(m) == \E b \in orphans : m \in Range(b)
Has(w, m) == m \in Content(held[w])

\* A message that was sent is in one file, but for a batch that is being returned, which
\* is in the inbox already, and for what was being returned when the process died.
InFile(m) == In(m) \/ Left(m) \/ \E w \in Workers : Has(w, m)
InOne(m) ==
    /\ ~(In(m) /\ Left(m))
    /\ \A w \in Workers : Has(w, m) => ~Left(m)
    /\ \A w \in Workers \ nacking : Has(w, m) => ~In(m)
    /\ \A v, w \in Workers : Has(v, m) /\ Has(w, m) => v = w
    /\ \A b, d \in orphans : m \in Range(b) /\ m \in Range(d) => b = d
Alone(m) ==
    /\ InFile(m) => m \in sent
    /\ \A w \in nacking : Has(w, m) => In(m)
    /\ m \notin doubled => InOne(m)

\* A member collects nothing, so that nothing is in no file.
FilesApart ==
    /\ recovering = {} /\ recovered = <<>> /\ lost = {}
    /\ \A v, w \in nacking : v = w
    /\ \A m \in Messages : Alone(m)
MailInv == MailboxType /\ FilesApart

\* What happens to the mailbox in a step of the member.
LEMMA MailSteps ==
  ASSUME [Next]_vars
  PROVE  \/ \E m \in Messages : Post(m)
         \/ \E w \in Workers : /\ ClaimInbox(w) \/ AckInbox(w) \/ NackWrite(w) \/ NackUnlink(w)
                               /\ UNCHANGED sent
         \/ MailboxCrash /\ UNCHANGED sent
         \/ UNCHANGED mail
<1> USE DEF mail, mailbox, recovery
<1>1. ASSUME NEW w \in Workers, Spawn(w) \/ Restart(w) \/ RegisterThread(w) \/ Start(w)
                                \/ Cleanup(w) \/ RestartSelf(w)
      PROVE  UNCHANGED mail
  BY <1>1 DEF Spawn, Restart, RegisterThread, Start, Cleanup, RestartSelf, ghosts
<1>2. ASSUME NEW w \in Workers, Poll(w) \/ PollMail(w) \/ Round(w) \/ Mail(w)
      PROVE  \/ (ClaimInbox(w) \/ AckInbox(w)) /\ UNCHANGED sent
             \/ UNCHANGED mail
  BY <1>2 DEF Poll, PollMail, Round, Mail, ghosts
<1>3. ASSUME NEW w \in Workers, Enter(w) \/ Scan(w) \/ Top(w) \/ PlanTimeout(w) \/ Wait(w)
                                \/ Model(w) \/ ModelEnds(w) \/ Check(w) \/ Final(w)
      PROVE  UNCHANGED mail
  BY <1>3 DEF Enter, Scan, Top, PlanTimeout, Wait, Model, ModelEnds, Check, Final, ghosts
<1>4. ASSUME NEW m \in Messages, \/ SendMessage(m) \/ AssignTask(m)
                                 \/ \E approve \in BOOLEAN : ReviewPlan(m, approve)
      PROVE  Post(m)
  BY <1>4 DEF SendMessage, AssignTask, ReviewPlan
<1>5. CASE \/ StopTeammate \/ UpdateProfile \/ DeleteCheck \/ DeleteTasks \/ DeleteCommit
           \/ StopAccepting \/ StopAll \/ Joined \/ Reopen
           \/ QueueTask \/ MoveTask \/ MoveDone \/ WithdrawTask
  BY <1>5 DEF StopTeammate, UpdateProfile, DeleteCheck, DeleteTasks, DeleteCommit,
              StopAccepting, StopAll, Joined, Reopen,
              QueueTask, MoveTask, MoveDone, WithdrawTask, ghosts
<1>6. Crash => MailboxCrash /\ UNCHANGED sent
  BY DEF Crash
<1>7. UNCHANGED vars => UNCHANGED mail
  BY DEF vars, ghosts
<1>8. ASSUME NEW w \in Workers, MailFails(w) \/ Unlink(w)
      PROVE  (NackWrite(w) \/ NackUnlink(w)) /\ UNCHANGED sent
  BY <1>8 DEF MailFails, Unlink, ghosts
<1> HIDE DEF mail, mailbox, recovery
<1> QED
  BY <1>1, <1>2, <1>3, <1>4, <1>5, <1>6, <1>7, <1>8 DEF Next, LoopStep

\* Where a message goes, by each operation.
LEMMA SendMoves ==
  ASSUME MailboxType, NEW x \in Messages, SendTo(x), NEW m \in Messages
  PROVE  /\ In(m)' <=> In(m) \/ m = x
         /\ Left(m)' <=> Left(m)
         /\ \A w \in Workers : Has(w, m)' <=> Has(w, m)
<1>1. Range(inbox') = Range(inbox) \cup {x}
  BY AppendRange DEF SendTo, MailboxType
<1> QED
  BY <1>1 DEF Content, SendTo, In, Left, Has

LEMMA HoldMoves ==
  ASSUME MailboxType, NEW w \in Workers, NEW b \in Seq(Messages), Hold(w, b),
         NEW m \in Messages
  PROVE  /\ Has(w, m)' <=> m \in Range(b) /\ m \notin Malformed
         /\ \A v \in Workers \ {w} : Has(v, m)' <=> Has(v, m)
<1> DEFINE f == WellFormed(b)
<1>1. f \in Seq(Messages) /\ Range(f) = Range(b) \ Malformed
  BY WellFormedIs
<1>2. f # NoFile
  BY <1>1, BatchRange
<1>3. held' = [held EXCEPT ![w] = f]
  BY DEF Hold
<1> HIDE DEF f
<1>4. held'[w] = f /\ \A v \in Workers \ {w} : held'[v] = held[v]
  BY <1>3 DEF MailboxType, Workers
<1> QED
  BY <1>1, <1>2, <1>4 DEF Content, Has

\* An acknowledgement, and the end of a return.
LEMMA DropMoves ==
  ASSUME MailboxType, NEW w \in Workers, AckInbox(w) \/ NackUnlink(w), NEW m \in Messages
  PROVE  /\ In(m)' <=> In(m)
         /\ Left(m)' <=> Left(m)
         /\ ~Has(w, m)' /\ \A v \in Workers \ {w} : Has(v, m)' <=> Has(v, m)
         /\ UNCHANGED <<orphans, dead, lost, doubled, recovering, recovered>>
<1>1. held'[w] = NoFile /\ \A v \in Workers \ {w} : held'[v] = held[v]
  BY DEF AckInbox, NackUnlink, MailboxType, Workers
<1> QED
  BY <1>1 DEF Content, AckInbox, NackUnlink, In, Left, Has, recovery

LEMMA NackMoves ==
  ASSUME MailboxType, NEW w \in Workers, NackWrite(w), NEW m \in Messages
  PROVE  /\ In(m)' <=> In(m) \/ Has(w, m)
         /\ Left(m)' <=> Left(m)
         /\ \A v \in Workers : Has(v, m)' <=> Has(v, m)
<1>1. held[w] \in Seq(Messages) /\ held[w] # NoFile /\ inbox' = held[w] \o inbox
  BY DEF NackWrite, MailboxType, Batches, Workers
<1>2. Range(inbox') = Range(held[w]) \cup Range(inbox)
  BY <1>1, ConcatRange DEF MailboxType
<1> QED
  BY <1>1, <1>2 DEF Content, NackWrite, In, Left, Has

LEMMA CrashMoves ==
  ASSUME MailboxType, MailboxCrash, NEW m \in Messages
  PROVE  /\ In(m)' <=> In(m)
         /\ Left(m)' <=> Left(m) \/ \E w \in Workers : Has(w, m)
         /\ \A w \in Workers : ~Has(w, m)'
<1>1. orphans' = orphans \cup ({held[w] : w \in Workers} \ {NoFile})
  BY DEF MailboxCrash, Workers
<1>2. \A w \in Workers : held'[w] = NoFile
  BY DEF MailboxCrash, Workers
<1>3. Left(m)' <=> Left(m) \/ \E w \in Workers : Has(w, m)
  BY <1>1 DEF Left, Has, Content
<1> QED
  BY <1>2, <1>3 DEF MailboxCrash, In, Has, Content

\* The batch a claim takes: one that was left behind, or all of the inbox.
Takes(w, b) ==
    /\ Hold(w, b) /\ held[w] = NoFile /\ nacking = {}
    /\ UNCHANGED <<nacking, recovering, recovered, lost, doubled>>
    /\ \A m \in Range(b) : In(m) \/ Left(m)
    /\ \A m \in Messages \ Range(b) : (In(m)' <=> In(m)) /\ (Left(m)' <=> Left(m))
    /\ \A m \in Range(b) : m \notin doubled => ~In(m)' /\ ~Left(m)'
    /\ \A m \in Messages : (In(m)' => In(m)) /\ (Left(m)' => Left(m))
    /\ orphans' \subseteq orphans

LEMMA ClaimTakes ==
  ASSUME MailInv, NEW w \in Workers, ClaimInbox(w)
  PROVE  UNCHANGED mailbox \/ \E b \in Seq(Messages) : Takes(w, b)
<1>0. MailboxType /\ \A m \in Messages : Alone(m)
  BY DEF MailInv, FilesApart
<1>1. nacking = {} /\ held[w] = NoFile
  BY DEF ClaimInbox, Unlocked
<1>2. ASSUME NEW b \in orphans, Hold(w, b), orphans' = orphans \ {b}, UNCHANGED <<inbox, recovering>>
      PROVE  Takes(w, b) /\ b \in Seq(Messages)
  <2>1. b \in Seq(Messages) /\ Range(b) \in SUBSET Messages
    BY <1>0, BatchRange DEF MailboxType
  <2>2. \A m \in Range(b) : Left(m)
    BY DEF Left
  <2>3. \A m \in Range(b) : m \notin doubled => ~In(m)' /\ ~Left(m)'
    BY <1>0, <1>2, <2>1, <2>2 DEF Alone, InOne, In, Left
  <2>4. \A m \in Messages \ Range(b) : (In(m)' <=> In(m)) /\ (Left(m)' <=> Left(m))
    BY <1>2 DEF In, Left
  <2>5. \A m \in Messages : (In(m)' => In(m)) /\ (Left(m)' => Left(m))
    BY <1>2 DEF In, Left
  <2>6. UNCHANGED <<nacking, recovering, recovered, lost, doubled>>
    BY <1>2 DEF Hold
  <2> QED
    BY <1>1, <1>2, <2>1, <2>2, <2>3, <2>4, <2>5, <2>6 DEF Takes
<1>3. ASSUME orphans = {}, Hold(w, inbox), inbox' = <<>>, UNCHANGED <<orphans, recovering>>
      PROVE  Takes(w, inbox) /\ inbox \in Seq(Messages)
  <2>1. inbox \in Seq(Messages) /\ Range(inbox) \in SUBSET Messages
    BY <1>0, BatchRange DEF MailboxType
  <2>2. \A m : (In(m) <=> m \in Range(inbox)) /\ ~Left(m) /\ ~In(m)' /\ ~Left(m)'
    BY <1>3 DEF In, Left, Range
  <2>3. UNCHANGED <<nacking, recovering, recovered, lost, doubled>>
    BY <1>3 DEF Hold
  <2> QED
    BY <1>1, <1>3, <2>1, <2>2, <2>3 DEF Takes
<1> QED
  BY <1>0, <1>2, <1>3 DEF ClaimInbox, MailboxType

\* The files stay apart.
LEMMA ApartStep ==
  ASSUME MailInv, [Next]_vars
  PROVE  FilesApart'
<1>0. /\ MailboxType /\ recovering = {} /\ recovered = <<>> /\ lost = {}
      /\ \A v, w \in nacking : v = w
      /\ \A m \in Messages : Alone(m)
  BY DEF MailInv, FilesApart
<1>n. nacking \subseteq Workers
  BY <1>0 DEF MailboxType, Workers
<1>1. ASSUME NEW x \in Messages, Post(x) PROVE FilesApart'
  <2>1. SendTo(x) /\ x \notin sent /\ sent' = sent \cup {x}
    BY <1>1 DEF Post
  <2>2. UNCHANGED <<orphans, nacking, recovering, recovered, lost, doubled>>
    BY <2>1 DEF SendTo, recovery
  <2>3. ASSUME NEW m \in Messages PROVE Alone(m)'
    <3>1. /\ In(m)' <=> In(m) \/ m = x
          /\ Left(m)' <=> Left(m)
          /\ \A w \in Workers : Has(w, m)' <=> Has(w, m)
      BY <1>0, <2>1, SendMoves
    <3>2. Alone(m)
      BY <1>0
    <3> QED
      BY <1>n, <2>1, <2>2, <3>1, <3>2 DEF Alone, InOne, InFile
  <2> QED
    BY <1>0, <2>2, <2>3 DEF FilesApart
<1>2. ASSUME NEW w \in Workers, NEW b \in Seq(Messages), Takes(w, b), UNCHANGED sent
      PROVE  FilesApart'
  <2>0. nacking = {} /\ UNCHANGED <<nacking, recovering, recovered, lost, doubled>> /\ orphans' \subseteq orphans
    BY <1>2 DEF Takes
  <2>1. ASSUME NEW m \in Messages PROVE Alone(m)'
    <3>1. Alone(m) /\ ~Has(w, m)
      BY <1>0, <1>2 DEF Takes, Has, Content
    <3>2. /\ Has(w, m)' <=> m \in Range(b) /\ m \notin Malformed
          /\ \A v \in Workers \ {w} : Has(v, m)' <=> Has(v, m)
      BY <1>0, <1>2, HoldMoves DEF Takes
    <3>3. (In(m)' => In(m)) /\ (Left(m)' => Left(m))
      BY <1>2 DEF Takes
    <3>4. CASE m \in Range(b)
      <4>1. (In(m) \/ Left(m)) /\ (m \notin doubled => ~In(m)' /\ ~Left(m)')
        BY <1>2, <3>4 DEF Takes
      <4>2. InFile(m)' => m \in sent'
        BY <1>2, <3>1, <4>1 DEF Alone, InFile
      <4>3. m \notin doubled => InOne(m)'
        BY <2>0, <3>1, <3>2, <4>1 DEF Alone, InOne
      <4> QED
        BY <2>0, <4>2, <4>3 DEF Alone
    <3>5. CASE m \notin Range(b)
      <4>1. (In(m)' <=> In(m)) /\ (Left(m)' <=> Left(m))
        BY <1>2, <3>5 DEF Takes
      <4>2. InFile(m)' => m \in sent'
        BY <1>2, <3>1, <3>2, <3>5, <4>1 DEF Alone, InFile
      <4>3. m \notin doubled => InOne(m)'
        BY <2>0, <3>1, <3>2, <3>5, <4>1 DEF Alone, InOne
      <4> QED
        BY <2>0, <4>2, <4>3 DEF Alone
    <3> QED
      BY <3>4, <3>5
  <2> QED
    BY <1>0, <2>0, <2>1 DEF FilesApart
<1>3. ASSUME NEW w \in Workers, AckInbox(w) \/ NackUnlink(w), UNCHANGED sent PROVE FilesApart'
  <2>0. nacking' = {} /\ (AckInbox(w) => nacking = {}) /\ (NackUnlink(w) => w \in nacking)
    BY <1>3 DEF AckInbox, NackUnlink, Unlocked
  <2>1. ASSUME NEW m \in Messages PROVE Alone(m)'
    <3>1. /\ In(m)' <=> In(m)
          /\ Left(m)' <=> Left(m)
          /\ ~Has(w, m)' /\ \A v \in Workers \ {w} : Has(v, m)' <=> Has(v, m)
          /\ UNCHANGED <<orphans, doubled>>
      BY <1>0, <1>3, DropMoves
    <3>2. Alone(m) /\ \A v \in Workers \ {w} : v \notin nacking
      BY <1>0, <1>3, <2>0
    <3> QED
      BY <1>3, <2>0, <3>1, <3>2 DEF Alone, InOne, InFile
  <2>2. UNCHANGED <<recovering, recovered, lost>>
    BY <1>3 DEF AckInbox, NackUnlink, recovery
  <2> QED
    BY <1>0, <2>0, <2>1, <2>2 DEF FilesApart
<1>4. ASSUME NEW w \in Workers, NackWrite(w), UNCHANGED sent PROVE FilesApart'
  <2>0. nacking = {} /\ nacking' = {w} /\ UNCHANGED <<orphans, recovering, recovered, lost, doubled>>
    BY <1>4 DEF NackWrite, Unlocked, recovery
  <2>1. ASSUME NEW m \in Messages PROVE Alone(m)'
    <3>1. /\ In(m)' <=> In(m) \/ Has(w, m)
          /\ Left(m)' <=> Left(m)
          /\ \A v \in Workers : Has(v, m)' <=> Has(v, m)
      BY <1>0, <1>4, NackMoves
    <3>2. Alone(m)
      BY <1>0
    <3>3. InFile(m)' => m \in sent'
      BY <1>4, <3>1, <3>2 DEF Alone, InFile
    <3>4. m \notin doubled' => InOne(m)'
      BY <1>4, <2>0, <3>1, <3>2 DEF Alone, InOne
    <3> QED
      BY <1>4, <2>0, <3>1, <3>3, <3>4 DEF Alone
  <2> QED
    BY <1>0, <2>0, <2>1 DEF FilesApart
<1>5. ASSUME MailboxCrash, UNCHANGED sent PROVE FilesApart'
  <2>0. /\ nacking' = {} /\ recovering' = {} /\ recovered' = <<>> /\ lost' = {}
        /\ doubled' = doubled \cup Returning
    BY <1>0, <1>5 DEF MailboxCrash, Range
  <2>1. ASSUME NEW m \in Messages PROVE Alone(m)'
    <3>1. /\ In(m)' <=> In(m)
          /\ Left(m)' <=> Left(m) \/ \E w \in Workers : Has(w, m)
          /\ \A w \in Workers : ~Has(w, m)'
      BY <1>0, <1>5, CrashMoves
    <3>2. Alone(m)
      BY <1>0
    <3>3. \A b \in orphans' : m \in Range(b)
             => (b \in orphans /\ Left(m)) \/ \E w \in Workers : b = held[w] /\ Has(w, m)
      BY <1>5 DEF MailboxCrash, Left, Has, Content, Workers
    <3>4. InFile(m)' => m \in sent'
      BY <1>5, <3>1, <3>2 DEF Alone, InFile
    <3>5. ASSUME m \notin doubled' PROVE InOne(m)'
      <4>1. InOne(m) /\ \A w \in nacking : ~Has(w, m)
        BY <2>0, <3>2, <3>5 DEF Alone, Returning, Has
      <4>2. \A b, d \in orphans' : m \in Range(b) /\ m \in Range(d) => b = d
        BY <3>3, <4>1 DEF InOne
      <4>3. ~(In(m)' /\ Left(m)')
        BY <3>1, <4>1 DEF InOne
      <4> QED
        BY <3>1, <4>2, <4>3 DEF InOne
    <3> QED
      BY <2>0, <3>4, <3>5 DEF Alone
  <2> QED
    BY <2>0, <2>1 DEF FilesApart
<1>6. ASSUME UNCHANGED mail PROVE FilesApart'
  BY <1>0, <1>6 DEF mail, FilesApart, Alone, InOne, InFile, In, Left, Has
<1>7. UNCHANGED <<mailbox, sent>> => UNCHANGED mail
  BY DEF mail, mailbox, recovery
<1>8. ASSUME NEW w \in Workers, ClaimInbox(w), UNCHANGED sent PROVE FilesApart'
  BY <1>2, <1>6, <1>7, <1>8, ClaimTakes
<1> QED
  BY <1>1, <1>3, <1>4, <1>5, <1>6, <1>8, MailSteps

LEMMA MailInvariant == Spec => []MailInv
<1>1. Init => MailInv
  <2> SUFFICES ASSUME Init PROVE MailInv
    OBVIOUS
  <2>1. MailboxType
    BY TypeInit DEF TypeOK
  <2>2. /\ inbox = <<>> /\ orphans = {} /\ nacking = {}
        /\ recovering = {} /\ recovered = <<>> /\ lost = {}
        /\ held = [w \in Workers |-> NoFile]
    BY DEF Init, MailboxInit, Workers
  <2>3. \A m : ~In(m) /\ ~Left(m) /\ \A w \in Workers : ~Has(w, m)
    BY <2>2 DEF Content, In, Left, Has, Range
  <2> QED
    BY <2>1, <2>2, <2>3 DEF MailInv, FilesApart, Alone, InOne, InFile
<1>2. TypeOK' => MailboxType'
  BY DEF TypeOK
<1>3. MailInv /\ TypeOK' /\ [Next]_vars => MailInv'
  BY <1>2, ApartStep DEF MailInv
<1> QED
  BY <1>1, <1>3, MemberTypes, PTL DEF Spec

boxVars == <<Waiting, Taken, Returning, LeftBehind, dead, sent, lost, doubled>>

\* What waits, is taken, is being returned or was left behind, message by message.
BoxIs ==
    /\ Waiting \in SUBSET Messages /\ LeftBehind \in SUBSET Messages /\ Returning \in SUBSET Messages
    /\ Taken \in [Workers -> SUBSET Messages]
    /\ \A m \in Messages :
          /\ m \in Waiting <=> In(m) \/ Left(m)
          /\ m \in LeftBehind <=> Left(m)
          /\ m \in Returning <=> \E w \in nacking : Has(w, m)
          /\ \A w \in Workers : m \in Taken[w] <=> w \notin nacking /\ Has(w, m)

LEMMA BoxNow == MailInv => BoxIs
<1> SUFFICES ASSUME MailInv PROVE BoxIs
  OBVIOUS
<1>0. MailboxType /\ Range(recovered) = {} /\ nacking \subseteq Workers
  BY DEF MailInv, FilesApart, MailboxType, Workers, Range
<1>1. Range(inbox) \in SUBSET Messages /\ \A b \in orphans : Range(b) \in SUBSET Messages
  BY <1>0, BatchRange DEF MailboxType
<1>2. ASSUME NEW w \in Workers PROVE Content(held[w]) \in SUBSET Messages
  <2>1. held[w] \in Seq(Messages) \/ held[w] = NoFile
    BY <1>0 DEF MailboxType, Batches, Workers
  <2> QED
    BY <2>1, BatchRange DEF Content
<1>3. LeftBehind \in SUBSET Messages /\ \A m \in Messages : m \in LeftBehind <=> Left(m)
  BY <1>0, <1>1, Zenon DEF LeftBehind, Left
<1>4. Waiting \in SUBSET Messages /\ \A m \in Messages : m \in Waiting <=> In(m) \/ Left(m)
  BY <1>1, <1>3, Zenon DEF Waiting, In
<1>5. /\ Taken \in [Workers -> SUBSET Messages]
      /\ \A m \in Messages, w \in Workers : m \in Taken[w] <=> w \notin nacking /\ Has(w, m)
  BY <1>2 DEF Taken, Has, Workers
<1>6. Returning \in SUBSET Messages /\ \A m \in Messages : m \in Returning <=> \E w \in nacking : Has(w, m)
  BY <1>0, <1>2 DEF Returning, Has
<1> QED
  BY <1>3, <1>4, <1>5, <1>6 DEF BoxIs

LEMMA BoxLater == MailInv' => BoxIs'
BY BoxNow, PTL

\* What waits and what is taken follows from where an operation moves each message.
LEMMA BoxFollows ==
  ASSUME BoxIs, BoxIs', NEW S \in SUBSET Messages, NEW f \in [Workers -> SUBSET Messages],
         \A m \in Messages : m \in S <=> In(m)' \/ Left(m)',
         \A m \in Messages, w \in Workers : m \in f[w] <=> w \notin nacking' /\ Has(w, m)'
  PROVE  Waiting' = S /\ Taken' = f
<1>1. Waiting' = S
  BY DEF BoxIs
<1>2. ASSUME NEW w \in Workers PROVE Taken'[w] = f[w]
  <2>1. \A m \in Messages : m \in Taken'[w] <=> m \in f[w]
    BY DEF BoxIs
  <2> QED
    BY <2>1 DEF BoxIs
<1>3. Taken' = [w \in Workers |-> Taken'[w]] /\ f = [w \in Workers |-> f[w]]
  BY DEF BoxIs
<1> QED
  BY <1>1, <1>2, <1>3, Zenon

LEMMA LeftFollows ==
  ASSUME BoxIs, BoxIs', NEW L \in SUBSET Messages, NEW R \in SUBSET Messages,
         \A m \in Messages : m \in L <=> Left(m)',
         \A m \in Messages : m \in R <=> \E w \in nacking' : Has(w, m)'
  PROVE  LeftBehind' = L /\ Returning' = R
BY DEF BoxIs

LEMMA MemberBoxStep ==
  ASSUME MailInv, MailInv', [Next]_vars
  PROVE  Box!Next \/ UNCHANGED boxVars
<1>0. /\ MailboxType /\ MailboxType' /\ BoxIs /\ BoxIs'
      /\ \A v, w \in nacking : v = w
      /\ \A m \in Messages : Alone(m)
  BY BoxNow, BoxLater DEF MailInv, FilesApart
<1>b. /\ Waiting \in SUBSET Messages /\ Taken \in [Workers -> SUBSET Messages]
      /\ LeftBehind \in SUBSET Messages /\ Returning \in SUBSET Messages
  BY <1>0 DEF BoxIs
<1>n. nacking \subseteq Workers /\ lost' = lost
  BY <1>0 DEF MailboxType, Workers, MailInv, FilesApart
<1>1. ASSUME NEW x \in Messages, Post(x) PROVE Box!Deposit(x)
  <2>1. SendTo(x) /\ x \notin sent /\ sent' = sent \cup {x}
    BY <1>1 DEF Post
  <2>2. \A m \in Messages : /\ In(m)' <=> In(m) \/ m = x
                            /\ Left(m)' <=> Left(m)
                            /\ \A w \in Workers : Has(w, m)' <=> Has(w, m)
    BY <1>0, <2>1, SendMoves
  <2>3. UNCHANGED <<nacking, dead, lost, doubled>>
    BY <2>1 DEF SendTo
  <2>4. Waiting \cup {x} \in SUBSET Messages
    BY <1>b
  <2>5. Waiting' = Waiting \cup {x} /\ Taken' = Taken
    <3>1. \A m \in Messages : m \in Waiting \cup {x} <=> In(m)' \/ Left(m)'
      BY <1>0, <2>2 DEF BoxIs
    <3>2. \A m \in Messages, w \in Workers : m \in Taken[w] <=> w \notin nacking' /\ Has(w, m)'
      BY <1>0, <2>2, <2>3 DEF BoxIs
    <3> QED
      BY <1>0, <1>b, <2>4, <3>1, <3>2, BoxFollows
  <2>6. LeftBehind' = LeftBehind /\ Returning' = Returning
    BY <1>0, <1>n, <2>2, <2>3 DEF BoxIs
  <2> QED
    BY <2>1, <2>3, <2>5, <2>6 DEF Box!Deposit
<1>2. ASSUME NEW w \in Workers, NEW b \in Seq(Messages), Takes(w, b), UNCHANGED sent
      PROVE  Box!Take(w)
  <2> DEFINE batch == Range(b)
             copies == batch \cap Waiting'
             found == batch \ LeftBehind'
             f == [Taken EXCEPT ![w] = batch \ Malformed]
  <2>0. nacking = {} /\ nacking' = {} /\ UNCHANGED <<lost, doubled>>
    BY <1>2 DEF Takes
  <2>1. batch \in SUBSET Messages /\ dead' = dead \cup (batch \cap Malformed)
    BY <1>2, BatchRange DEF Takes, Hold
  <2>2. batch \in SUBSET Waiting /\ Taken[w] = {}
    BY <1>0, <1>2, <2>1 DEF Takes, BoxIs, Has, Content
  <2>3. \A m \in Messages : (In(m)' => In(m)) /\ (Left(m)' => Left(m))
    BY <1>2 DEF Takes
  <2>4. \A m \in Messages \ batch : (In(m)' <=> In(m)) /\ (Left(m)' <=> Left(m))
    BY <1>2 DEF Takes
  <2>5. copies \in SUBSET (batch \cap doubled)
    <3>1. ASSUME NEW m \in batch, m \notin doubled PROVE m \notin Waiting'
      <4>1. ~In(m)' /\ ~Left(m)' /\ m \in Messages
        BY <1>2, <2>1, <3>1 DEF Takes
      <4> QED
        BY <1>0, <4>1 DEF BoxIs
    <3> QED
      BY <3>1
  <2>6. Waiting' = (Waiting \ batch) \cup copies
    <3>1. ASSUME NEW m \in Messages, m \notin batch PROVE m \in Waiting' <=> m \in Waiting
      BY <1>0, <2>4, <3>1 DEF BoxIs
    <3>2. Waiting' \in SUBSET Messages
      BY <1>0 DEF BoxIs
    <3> QED
      BY <1>b, <2>1, <3>1, <3>2
  <2>7. found \in SUBSET batch /\ LeftBehind' = LeftBehind \ found
    <3>1. LeftBehind' \in SUBSET Messages /\ \A m \in LeftBehind' : m \in LeftBehind
      BY <1>0, <2>3 DEF BoxIs
    <3>2. ASSUME NEW m \in Messages, m \notin batch PROVE m \in LeftBehind' <=> m \in LeftBehind
      BY <1>0, <2>4, <3>2 DEF BoxIs
    <3> QED
      BY <1>b, <3>1, <3>2
  <2>8. Taken' = f
    <3>1. /\ f \in [Workers -> SUBSET Messages] /\ f[w] = batch \ Malformed
          /\ \A v \in Workers \ {w} : f[v] = Taken[v]
      BY <1>b, <2>1
    <3>2. \A m \in Messages : /\ Has(w, m)' <=> m \in batch \ Malformed
                              /\ \A v \in Workers \ {w} : Has(v, m)' <=> Has(v, m)
      BY <1>0, <1>2, HoldMoves DEF Takes
    <3> HIDE DEF f
    <3>3. \A m \in Messages, v \in Workers : m \in f[v] <=> v \notin nacking' /\ Has(v, m)'
      BY <1>0, <2>0, <3>1, <3>2 DEF BoxIs
    <3>4. Waiting' \in SUBSET Messages /\ \A m \in Messages : m \in Waiting' <=> In(m)' \/ Left(m)'
      BY <1>0 DEF BoxIs
    <3> QED
      BY <1>0, <3>1, <3>3, <3>4, BoxFollows
  <2>9. Returning' = Returning
    BY <2>0 DEF Returning
  <2> HIDE DEF batch, copies, found
  <2> QED
    BY <1>2, <2>0, <2>1, <2>2, <2>5, <2>6, <2>7, <2>8, <2>9 DEF f, Box!Take
<1>3. ASSUME NEW w \in Workers, AckInbox(w), UNCHANGED sent PROVE Box!Acknowledge(w)
  <2> DEFINE f == [Taken EXCEPT ![w] = {}]
  <2>0. nacking = {} /\ nacking' = {} /\ UNCHANGED <<dead, lost, doubled>>
    BY <1>3 DEF AckInbox, Unlocked
  <2>1. \A m \in Messages :
           /\ In(m)' <=> In(m)
           /\ Left(m)' <=> Left(m)
           /\ ~Has(w, m)' /\ \A v \in Workers \ {w} : Has(v, m)' <=> Has(v, m)
    BY <1>0, <1>3, DropMoves
  <2>2. f \in [Workers -> SUBSET Messages] /\ f[w] = {} /\ \A v \in Workers \ {w} : f[v] = Taken[v]
    BY <1>b
  <2> HIDE DEF f
  <2>3. \A m \in Messages : m \in Waiting <=> In(m)' \/ Left(m)'
    BY <1>0, <2>1 DEF BoxIs
  <2>4. \A m \in Messages, v \in Workers : m \in f[v] <=> v \notin nacking' /\ Has(v, m)'
    BY <1>0, <2>0, <2>1, <2>2 DEF BoxIs
  <2>5. Waiting' = Waiting /\ Taken' = f
    BY <1>0, <1>b, <2>2, <2>3, <2>4, BoxFollows
  <2>6. LeftBehind' = LeftBehind /\ Returning' = Returning
    BY <1>0, <2>0, <2>1 DEF BoxIs
  <2> QED
    BY <1>3, <2>0, <2>5, <2>6 DEF f, Box!Acknowledge
<1>4. ASSUME NEW w \in Workers, NackWrite(w), UNCHANGED sent PROVE Box!Return(w)
  <2> DEFINE f == [Taken EXCEPT ![w] = {}]
  <2>0. nacking = {} /\ nacking' = {w} /\ UNCHANGED <<dead, lost, doubled>>
    BY <1>4 DEF NackWrite, Unlocked
  <2>1. \A m \in Messages :
           /\ In(m)' <=> In(m) \/ Has(w, m)
           /\ Left(m)' <=> Left(m)
           /\ \A v \in Workers : Has(v, m)' <=> Has(v, m)
    BY <1>0, <1>4, NackMoves
  <2>2. f \in [Workers -> SUBSET Messages] /\ f[w] = {} /\ \A v \in Workers \ {w} : f[v] = Taken[v]
    BY <1>b
  <2> HIDE DEF f
  <2>3. Waiting \cup Taken[w] \in SUBSET Messages /\ Returning \cup Taken[w] \in SUBSET Messages
    BY <1>b
  <2>4. Waiting' = Waiting \cup Taken[w] /\ Taken' = f
    <3>1. \A m \in Messages : m \in Waiting \cup Taken[w] <=> In(m)' \/ Left(m)'
      BY <1>0, <2>0, <2>1 DEF BoxIs
    <3>2. \A m \in Messages, v \in Workers : m \in f[v] <=> v \notin nacking' /\ Has(v, m)'
      BY <1>0, <2>0, <2>1, <2>2 DEF BoxIs
    <3> QED
      BY <1>0, <2>2, <2>3, <3>1, <3>2, BoxFollows
  <2>5. LeftBehind' = LeftBehind /\ Returning' = Returning \cup Taken[w]
    <3>1. \A m \in Messages : m \in LeftBehind <=> Left(m)'
      BY <1>0, <2>1 DEF BoxIs
    <3>2. \A m \in Messages : m \in Returning \cup Taken[w] <=> \E v \in nacking' : Has(v, m)'
      BY <1>0, <2>0, <2>1 DEF BoxIs
    <3> QED
      BY <1>0, <1>b, <2>3, <3>1, <3>2, LeftFollows
  <2> QED
    BY <1>4, <2>0, <2>4, <2>5 DEF f, Box!Return
<1>5. ASSUME NEW w \in Workers, NackUnlink(w), UNCHANGED sent PROVE Box!Returned
  <2>0. w \in nacking /\ nacking' = {} /\ UNCHANGED <<dead, lost, doubled>>
    BY <1>5 DEF NackUnlink
  <2>1. \A m \in Messages :
           /\ In(m)' <=> In(m)
           /\ Left(m)' <=> Left(m)
           /\ ~Has(w, m)' /\ \A v \in Workers \ {w} : Has(v, m)' <=> Has(v, m)
    BY <1>0, <1>5, DropMoves
  <2>2. Waiting' = Waiting /\ Taken' = Taken
    <3>1. \A m \in Messages : m \in Waiting <=> In(m)' \/ Left(m)'
      BY <1>0, <2>1 DEF BoxIs
    <3>2. ASSUME NEW m \in Messages, NEW v \in Workers
          PROVE  m \in Taken[v] <=> v \notin nacking' /\ Has(v, m)'
      <4>1. v \in nacking <=> v = w
        BY <1>0, <2>0
      <4> QED
        BY <1>0, <2>0, <2>1, <4>1 DEF BoxIs
    <3> QED
      BY <1>0, <1>b, <3>1, <3>2, BoxFollows
  <2>3. LeftBehind' = LeftBehind /\ Returning' = {}
    BY <1>0, <2>0, <2>1 DEF BoxIs
  <2> QED
    BY <1>5, <2>0, <2>2, <2>3 DEF Box!Returned
<1>6. ASSUME MailboxCrash, UNCHANGED sent PROVE Box!Die
  <2> DEFINE S == UNION {Taken[w] : w \in Workers}
             f == [w \in Workers |-> {}]
  <2>0. nacking' = {} /\ doubled' = doubled \cup Returning /\ UNCHANGED dead
    BY <1>6 DEF MailboxCrash
  <2>1. \A m \in Messages :
           /\ In(m)' <=> In(m)
           /\ Left(m)' <=> Left(m) \/ \E w \in Workers : Has(w, m)
           /\ \A w \in Workers : ~Has(w, m)'
    BY <1>0, <1>6, CrashMoves
  <2>2. /\ S \in SUBSET Messages /\ f \in [Workers -> SUBSET Messages]
        /\ \A m : m \in S <=> \E w \in Workers : m \in Taken[w]
        /\ \A w \in Workers : f[w] = {}
    BY <1>b
  <2> HIDE DEF S, f
  <2>3. ASSUME NEW m \in Messages
        PROVE  (\E w \in Workers : Has(w, m)) <=> m \in S \/ m \in Returning
    BY <1>0, <1>n, <2>2 DEF BoxIs
  <2>4. \A m \in Messages : m \in Returning => In(m)
    BY <1>0 DEF BoxIs, Alone
  <2>5. Waiting' = Waiting \cup S /\ Taken' = f
    <3>1. ASSUME NEW m \in Messages
          PROVE  m \in Waiting \cup S <=> In(m)' \/ Left(m)'
      <4>1. m \in Waiting <=> In(m) \/ Left(m)
        BY <1>0 DEF BoxIs
      <4> QED
        BY <2>1, <2>3, <2>4, <4>1
    <3>2. \A m \in Messages, w \in Workers : m \in f[w] <=> w \notin nacking' /\ Has(w, m)'
      BY <2>1, <2>2
    <3>3. Waiting \cup S \in SUBSET Messages
      BY <1>b, <2>2
    <3> QED
      BY <1>0, <2>2, <3>1, <3>2, <3>3, BoxFollows
  <2>6. LeftBehind' = LeftBehind \cup Returning \cup S
    <3>1. LeftBehind' \in SUBSET Messages /\ \A m \in Messages : m \in LeftBehind' <=> Left(m)'
      BY <1>0 DEF BoxIs
    <3>2. ASSUME NEW m \in Messages
          PROVE  m \in LeftBehind' <=> m \in LeftBehind \cup Returning \cup S
      <4>1. m \in LeftBehind <=> Left(m)
        BY <1>0 DEF BoxIs
      <4> QED
        BY <2>1, <2>3, <3>1, <4>1
    <3> QED
      BY <1>b, <2>2, <3>1, <3>2
  <2>7. Returning' = {}
    BY <1>0, <2>0 DEF BoxIs
  <2>8. S = UNION {Taken[r] : r \in Workers} /\ f = [r \in Workers |-> {}]
    BY DEF S, f
  <2>9. \E copies \in SUBSET Returning : doubled' = doubled \cup copies
    BY <2>0
  <2> DEFINE found == {}
             gone == {}
  <2>10. found \in SUBSET LeftBehind /\ gone \in SUBSET found
    OBVIOUS
  <2>11. /\ Waiting' = (Waiting \ gone) \cup UNION {Taken[r] : r \in Workers}
         /\ LeftBehind' = (LeftBehind \ found) \cup Returning \cup UNION {Taken[r] : r \in Workers}
         /\ Taken' = [r \in Workers |-> {}]
         /\ Returning' = {}
         /\ lost' = lost \cup gone
         /\ UNCHANGED <<dead, sent>>
    BY <1>6, <1>n, <2>0, <2>5, <2>6, <2>7, <2>8
  <2> HIDE DEF found, gone
  <2> QED
    BY <2>9, <2>10, <2>11, Zenon DEF Box!Die
<1>7. ASSUME UNCHANGED mail PROVE UNCHANGED boxVars
  BY <1>7 DEF mail, boxVars, Waiting, Taken, LeftBehind, Returning
<1>8. UNCHANGED <<mailbox, sent>> => UNCHANGED mail
  BY DEF mail, mailbox, recovery
<1>9. ASSUME NEW w \in Workers, ClaimInbox(w), UNCHANGED sent
      PROVE  Box!Take(w) \/ UNCHANGED boxVars
  BY <1>2, <1>7, <1>8, <1>9, ClaimTakes
<1> QED
  BY <1>1, <1>3, <1>4, <1>5, <1>6, <1>7, <1>9, MailSteps DEF Box!Next

\* The mailbox of a member keeps what Mailbox promises, for any number of messages and of
\* workers that consume it one after the other, return a batch in two file operations when
\* an exception ends their loop, and may die with the process anywhere: a message waits or
\* is with one worker, and is there twice only if it was being returned when the process
\* died; none is lost.
THEOREM MemberMailboxKept == Spec => ImplementsMailbox
<1>1. Init => Box!Init
  <2> SUFFICES ASSUME Init PROVE Box!Init
    OBVIOUS
  <2>1. /\ inbox = <<>> /\ orphans = {} /\ nacking = {} /\ dead = {} /\ sent = {}
        /\ recovered = <<>> /\ lost = {} /\ doubled = {} /\ held = [w \in Workers |-> NoFile]
    BY DEF Init, MailboxInit, Workers
  <2>2. /\ Waiting = {} /\ Taken = [w \in Workers |-> {}]
        /\ LeftBehind = {} /\ Returning = {}
    BY <2>1 DEF Waiting, Taken, LeftBehind, Returning, Content, Range, Workers
  <2> QED
    BY <2>1, <2>2 DEF Box!Init
<1>2. MailInv /\ MailInv' /\ [Next]_vars => [Box!Next]_boxVars
  BY MemberBoxStep
<1> QED
  BY <1>1, <1>2, MailInvariant, PTL DEF Spec, ImplementsMailbox, Box!Spec, boxVars

=============================================================================

------------------------------ MODULE MessageBus ------------------------------
(***************************************************************************)
(* One mailbox of the MessageBus in gugugaga/teams.py, as files: the inbox *)
(* <agent>.jsonl, the batches renamed to .inflight files, and dead letters.*)
(* Every operation runs under the mailbox's file lock; nack replaces the   *)
(* inbox and then removes the batch, so that a crash can come in between.  *)
(* A batch that a crash left behind is claimed as it is by a member; the   *)
(* Lead first collects all of them, the file of each removed at once, and  *)
(* then writes them behind its inbox (the mailboxes of its former names go *)
(* the same way and are not told apart from batches here).                 *)
(* The actions constrain the mailbox's variables only: the modules that    *)
(* extend this one add who consumes the mailbox and when.                  *)
(***************************************************************************)
EXTENDS Sequences, SequencesExt

CONSTANTS
    Messages,   \* identifiers; a message is sent once
    Malformed,  \* those whose line cannot be parsed
    Consumers,  \* the readers that may each hold one batch
    NoFile      \* what state.claimed holds for the others

ASSUME MailboxAssumption ==
    /\ Malformed \subseteq Messages
    /\ NoFile \notin Seq(Messages)

VARIABLES
    inbox,      \* the messages of the inbox file, oldest first
    held,       \* state.claimed: the inflight file each consumer holds
    orphans,    \* inflight files nobody in this process has claimed
    nacking,    \* consumers whose batch is in the inbox again, and not removed yet
    recovering, \* the consumer that collects what was left behind, with the lock
    recovered,  \* what it has collected: in its memory, and in no file
    dead,       \* the dead-letter file
    lost,       \* history: collected when the process died, and in no file
    doubled     \* history: in the inbox and in a batch when the process died

recovery == <<recovering, recovered>>
mailbox == <<inbox, held, orphans, nacking, recovery, dead, lost, doubled>>

Batches == Seq(Messages) \cup {NoFile}

Content(batch) == IF batch = NoFile THEN {} ELSE Range(batch)
\* The lines that can be parsed, in their order.
WellFormed(batch) ==
    LET read[n \in 0..Len(batch)] ==
            IF n = 0 THEN <<>>
            ELSE IF batch[n] \in Malformed THEN read[n - 1] ELSE Append(read[n - 1], batch[n])
    IN  read[Len(batch)]

MailboxInit ==
    /\ inbox = <<>>
    /\ held = [c \in Consumers |-> NoFile]
    /\ orphans = {}
    /\ nacking = {}
    /\ recovering = {} /\ recovered = <<>>
    /\ dead = {} /\ lost = {} /\ doubled = {}

MailboxType ==
    /\ inbox \in Seq(Messages)
    /\ held \in [Consumers -> Batches]
    /\ orphans \subseteq Seq(Messages)
    /\ nacking \subseteq Consumers
    /\ recovering \subseteq Consumers /\ recovered \in Seq(Messages)
    /\ dead \subseteq Messages /\ lost \subseteq Messages /\ doubled \subseteq Messages

\* has_unread: the inbox, or a batch that was left behind.
HasUnread == inbox # <<>> \/ orphans # {}

\* The mailbox's lock is held throughout a nack, and through a recovery.
Unlocked == nacking = {} /\ recovering = {}

\* What is in some file.
Unread ==
    Range(inbox) \cup (UNION {Range(b) : b \in orphans})
                 \cup (UNION {Content(held[c]) : c \in Consumers})

\* As Mailbox has it: what waits for a reader, what of that was left behind, what each
\* reader has, and what is being returned, which waits already.
LeftBehind == (UNION {Range(b) : b \in orphans}) \cup Range(recovered)
Waiting == Range(inbox) \cup LeftBehind
Taken == [c \in Consumers |-> IF c \in nacking THEN {} ELSE Content(held[c])]
Returning == UNION {Content(held[c]) : c \in nacking}

SendTo(m) ==
    /\ Unlocked
    /\ inbox' = Append(inbox, m)
    /\ UNCHANGED <<held, orphans, nacking, recovery, dead, lost, doubled>>

\* The file becomes a claimed batch; what cannot be parsed becomes a dead letter.
Hold(c, batch) ==
    /\ held' = [held EXCEPT ![c] = WellFormed(batch)]
    /\ dead' = dead \cup (Range(batch) \cap Malformed)
    /\ UNCHANGED <<nacking, recovered, lost, doubled>>

\* A member's claim.  A batch that was left behind comes before the inbox, any of
\* them first (they are sorted by a random name).
ClaimInbox(c) ==
    /\ Unlocked
    /\ held[c] = NoFile
    /\ \/ /\ \E b \in orphans : Hold(c, b) /\ orphans' = orphans \ {b}
          /\ UNCHANGED <<inbox, recovering>>
       \/ /\ orphans = {} /\ inbox # <<>>
          /\ Hold(c, inbox) /\ inbox' = <<>> /\ UNCHANGED <<orphans, recovering>>
       \/ ~HasUnread /\ UNCHANGED mailbox

\* The Lead's claim, under one lock: _recover_lead_alias_mailboxes_locked reads and
\* removes one file after the other, ...
Recovers(c) == nacking = {} /\ recovering \subseteq {c} /\ held[c] = NoFile

CollectLeft(c) ==
    /\ Recovers(c)
    /\ \E b \in orphans : orphans' = orphans \ {b} /\ recovered' = recovered \o b
    /\ recovering' = {c}
    /\ UNCHANGED <<inbox, held, nacking, dead, lost, doubled>>

\* ... writes what it has collected behind the newer mail, ...
\* (Fault: in the place of the newer mail.)
WriteRecoveredFaulty(c) ==
    /\ recovering = {c}
    /\ orphans = {} /\ recovered # <<>>
    /\ inbox' = recovered
    /\ recovered' = <<>>
    /\ UNCHANGED <<held, orphans, nacking, recovering, dead, lost, doubled>>
WriteRecovered(c) ==
    /\ recovering = {c}
    /\ orphans = {} /\ recovered # <<>>
    /\ inbox' = inbox \o recovered
    /\ recovered' = <<>>
    /\ UNCHANGED <<held, orphans, nacking, recovering, dead, lost, doubled>>

\* ... and the inbox is claimed, if there is one.
ClaimRecovered(c) ==
    /\ Recovers(c)
    /\ orphans = {} /\ recovered = <<>>
    /\ recovering' = {}
    /\ \/ /\ inbox # <<>>
          /\ Hold(c, inbox) /\ inbox' = <<>> /\ UNCHANGED orphans
       \/ /\ inbox = <<>>
          /\ UNCHANGED <<inbox, held, orphans, nacking, recovered, dead, lost, doubled>>

AckInbox(c) ==
    /\ Unlocked
    /\ held' = [held EXCEPT ![c] = NoFile]
    /\ UNCHANGED <<inbox, orphans, nacking, recovery, dead, lost, doubled>>

\* The older batch goes before what arrived meanwhile.
\* (Fault: the batch takes the place of the inbox.)
NackWriteFaulty(c) ==
    /\ Unlocked
    /\ held[c] # NoFile
    /\ inbox' = held[c]
    /\ nacking' = {c}
    /\ UNCHANGED <<held, orphans, recovery, dead, lost, doubled>>
NackWrite(c) ==
    /\ Unlocked
    /\ held[c] # NoFile
    /\ inbox' = held[c] \o inbox
    /\ nacking' = {c}
    /\ UNCHANGED <<held, orphans, recovery, dead, lost, doubled>>

NackUnlink(c) ==
    /\ c \in nacking
    /\ nacking' = {}
    /\ held' = [held EXCEPT ![c] = NoFile]
    /\ UNCHANGED <<inbox, orphans, recovery, dead, lost, doubled>>

\* The claims are the process's, and what it has collected; the files stay.
MailboxCrash ==
    /\ orphans' = orphans \cup ({held[c] : c \in Consumers} \ {NoFile})
    /\ held' = [c \in Consumers |-> NoFile]
    /\ nacking' = {}
    /\ recovering' = {} /\ recovered' = <<>>
    /\ lost' = lost \cup (Range(recovered) \ Unread)
    /\ doubled' = doubled \cup Returning
    /\ UNCHANGED <<inbox, dead>>

=============================================================================

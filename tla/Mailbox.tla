------------------------------- MODULE Mailbox -------------------------------
(***************************************************************************)
(* What a mailbox of the MessageBus promises, whatever its files are: a    *)
(* message that was sent waits until one reader takes it, and stays with   *)
(* this reader until it is acknowledged, returned, or the process dies.    *)
(* What cannot be read is a dead letter once somebody has taken it.  A     *)
(* message is with one reader at a time and is read once, except that what *)
(* was being returned when the process died may be there twice; and it is  *)
(* kept, except that what one death left behind may be lost in the next    *)
(* one, if it was not found again in between.                              *)
(***************************************************************************)
CONSTANTS Messages, Malformed, Readers

VARIABLES
    waiting,    \* messages that nobody has taken
    taken,      \* the messages each reader has
    returning,  \* those that wait again and whose return has not ended
    left,       \* those that wait since the process died, not found yet
    dead,       \* dead letters
    sent,       \* history: messages that were sent, each of them once
    lost,       \* history: messages a death lost
    doubled     \* history: messages a death may have left twice

Init ==
    /\ waiting = {} /\ returning = {} /\ left = {}
    /\ dead = {} /\ sent = {} /\ lost = {} /\ doubled = {}
    /\ taken = [r \in Readers |-> {}]

Deposit(m) ==
    /\ m \notin sent
    /\ sent' = sent \cup {m}
    /\ waiting' = waiting \cup {m}
    /\ UNCHANGED <<taken, returning, left, dead, lost, doubled>>

\* What is taken does not wait any more, unless there is a second copy.
Take(r) ==
    \E batch \in SUBSET waiting :
        /\ taken[r] = {}
        /\ \E copies \in SUBSET (batch \cap doubled) :
              waiting' = (waiting \ batch) \cup copies
        /\ \E found \in SUBSET batch : left' = left \ found
        /\ taken' = [taken EXCEPT ![r] = batch \ Malformed]
        /\ dead' = dead \cup (batch \cap Malformed)
        /\ UNCHANGED <<returning, sent, lost, doubled>>

\* What was left behind is as safe again as anything that waits.
Find ==
    /\ \E found \in SUBSET left : left' = left \ found
    /\ UNCHANGED <<waiting, taken, returning, dead, sent, lost, doubled>>

Acknowledge(r) ==
    /\ taken' = [taken EXCEPT ![r] = {}]
    /\ UNCHANGED <<waiting, returning, left, dead, sent, lost, doubled>>

Return(r) ==
    /\ waiting' = waiting \cup taken[r]
    /\ returning' = returning \cup taken[r]
    /\ taken' = [taken EXCEPT ![r] = {}]
    /\ UNCHANGED <<left, dead, sent, lost, doubled>>

Returned ==
    /\ returning' = {}
    /\ UNCHANGED <<waiting, taken, left, dead, sent, lost, doubled>>

Die ==
    \E found \in SUBSET left : \E gone \in SUBSET found :
        /\ waiting' = (waiting \ gone) \cup UNION {taken[r] : r \in Readers}
        /\ left' = (left \ found) \cup returning \cup UNION {taken[r] : r \in Readers}
        /\ taken' = [r \in Readers |-> {}]
        /\ returning' = {}
        /\ lost' = lost \cup gone
        /\ \E copies \in SUBSET returning : doubled' = doubled \cup copies
        /\ UNCHANGED <<dead, sent>>

Next ==
    \/ \E m \in Messages : Deposit(m)
    \/ \E r \in Readers : Take(r) \/ Acknowledge(r) \/ Return(r)
    \/ Find \/ Returned \/ Die

Spec == Init /\ [][Next]_<<waiting, taken, returning, left, dead, sent, lost, doubled>>
==============================================================================

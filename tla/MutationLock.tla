----------------------------- MODULE MutationLock -----------------------------
(***************************************************************************)
(* WorkspaceMutationCoordinator (mutations.py): one lock for all writers   *)
(* of the workspace.  A request names paths or is global; requests that    *)
(* conflict are served in the order of their arrival.  The tables are      *)
(* changed with the condition's lock held, so each action is one step; a   *)
(* waiter polls every tenth of a second, so no notification can be lost.   *)
(***************************************************************************)
EXTENDS Naturals, Sequences

CONSTANTS
  Writers,   \* threads that write: Lead, sub-agents, members, background
  Paths,     \* normalized paths
  None       \* no owner

ASSUME NoneAssumption == None \notin Writers
ASSUME PathsAssumption == Paths # {}

VARIABLES
  queue,         \* _queue
  want,          \* want[w]: the request of w, while it is waiting or owning
  grant,         \* grant[w]: where the call of acquire() stands
  globalOwner,   \* _global_owner
  pathOwner      \* _path_owners

lockVars == <<queue, want, grant, globalOwner, pathOwner>>

\* _declared_bash_paths, run_write: some paths, or everything and no path.
Requests == {[paths |-> some, global |-> FALSE] : some \in (SUBSET Paths) \ {{}}}
              \cup {[paths |-> {}, global |-> TRUE]}

NoRequest == [paths |-> {}, global |-> FALSE]

Grants == {"idle", "waiting", "owning", "abandoned"}

Conflict(left, right) ==
  left.global \/ right.global \/ left.paths \cap right.paths # {}

\* Fault: a request yields to later ones as well.
CanAcquireFaulty(n) ==
  LET r == want[queue[n]] IN
  /\ globalOwner = None
  /\ \A p \in Paths : r.global \/ p \in r.paths => pathOwner[p] = None
  /\ \A i \in 1..Len(queue) : i # n => ~Conflict(want[queue[i]], r)

\* _can_acquire of the request at place n of the queue.
CanAcquire(n) ==
  LET r == want[queue[n]] IN
  /\ globalOwner = None
  /\ \A p \in Paths : r.global \/ p \in r.paths => pathOwner[p] = None
  /\ \A i \in 1..(n - 1) : ~Conflict(want[queue[i]], r)

\* A queue without its place n.
Left(n) == [i \in 1..(Len(queue) - 1) |-> IF i < n THEN queue[i] ELSE queue[i + 1]]

LockInit ==
  /\ queue = <<>>
  /\ want = [w \in Writers |-> NoRequest]
  /\ grant = [w \in Writers |-> "idle"]
  /\ globalOwner = None
  /\ pathOwner = [p \in Paths |-> None]

\* acquire: the request is queued.
Enqueue(w, r) ==
  /\ grant[w] = "idle"
  /\ want' = [want EXCEPT ![w] = r]
  /\ grant' = [grant EXCEPT ![w] = "waiting"]
  /\ queue' = Append(queue, w)
  /\ UNCHANGED <<globalOwner, pathOwner>>

\* Fault: a global owner is not recorded.
AcquireFaulty(w) ==
  \E n \in 1..Len(queue) :
    /\ queue[n] = w /\ grant[w] = "waiting"
    /\ CanAcquire(n)
    /\ queue' = Left(n)
    /\ grant' = [grant EXCEPT ![w] = "owning"]
    /\ pathOwner' = [p \in Paths |-> IF ~want[w].global /\ p \in want[w].paths
                                     THEN w ELSE pathOwner[p]]
    /\ UNCHANGED <<want, globalOwner>>

\* acquire: the request leaves the queue and owns what it asked for.
Acquire(w) ==
  \E n \in 1..Len(queue) :
    /\ queue[n] = w /\ grant[w] = "waiting"
    /\ CanAcquire(n)
    /\ queue' = Left(n)
    /\ grant' = [grant EXCEPT ![w] = "owning"]
    /\ globalOwner' = IF want[w].global THEN w ELSE globalOwner
    /\ pathOwner' = [p \in Paths |-> IF ~want[w].global /\ p \in want[w].paths
                                     THEN w ELSE pathOwner[p]]
    /\ UNCHANGED want

\* acquire: cancelled, or past the deadline, while it cannot be served.
GiveUp(w) ==
  \E n \in 1..Len(queue) :
    /\ queue[n] = w /\ grant[w] = "waiting"
    /\ ~CanAcquire(n)
    /\ queue' = Left(n)
    /\ grant' = [grant EXCEPT ![w] = "idle"]
    /\ want' = [want EXCEPT ![w] = NoRequest]
    /\ UNCHANGED <<globalOwner, pathOwner>>

\* acquire: an interrupt that is no Exception (KeyboardInterrupt in the main
\* thread) leaves the request in the queue, where nobody will ever remove it.
Abandon(w) ==
  /\ grant[w] = "waiting"
  /\ grant' = [grant EXCEPT ![w] = "abandoned"]
  /\ UNCHANGED <<queue, want, globalOwner, pathOwner>>

\* The finally clause of acquire.
Release(w) ==
  /\ grant[w] = "owning"
  /\ grant' = [grant EXCEPT ![w] = "idle"]
  /\ globalOwner' = IF want[w].global /\ globalOwner = w THEN None ELSE globalOwner
  /\ pathOwner' = [p \in Paths |-> IF p \in want[w].paths /\ pathOwner[p] = w
                                   THEN None ELSE pathOwner[p]]
  /\ want' = [want EXCEPT ![w] = NoRequest]
  /\ UNCHANGED queue

LockNext ==
  \E w \in Writers :
    \/ \E r \in Requests : Enqueue(w, r)
    \/ Acquire(w) \/ GiveUp(w) \/ Abandon(w) \/ Release(w)

LockSpec == LockInit /\ [][LockNext]_lockVars

LockTypeOK ==
  /\ queue \in Seq(Writers)
  /\ want \in [Writers -> Requests \cup {NoRequest}]
  /\ grant \in [Writers -> Grants]
  /\ globalOwner \in Writers \cup {None}
  /\ pathOwner \in [Paths -> Writers \cup {None}]

\* The two tables say who owns: a writer owns globally, or its paths, exactly as it asked for.
TablesTrue ==
  /\ \A w \in Writers : globalOwner = w <=> grant[w] = "owning" /\ want[w].global
  /\ \A w \in Writers, p \in Paths :
       pathOwner[p] = w <=> grant[w] = "owning" /\ p \in want[w].paths
  /\ globalOwner # None => \A p \in Paths : pathOwner[p] = None

\* What writer w may change: everything, its paths, or nothing while it has no grant.
Footprint(w) ==
  IF grant[w] # "owning" THEN {}
  ELSE IF want[w].global THEN Paths ELSE want[w].paths

Exclusion == INSTANCE WriteExclusion WITH footprint <- [w \in Writers |-> Footprint(w)]

\* The coordinator implements exclusive writing (README: writes to one path are
\* serial, a global request excludes them all): its tables and its queue never
\* let two writers in whose files overlap.
ImplementsExclusion == Exclusion!Spec
===============================================================================

---------------------------- MODULE WorkspaceProofs ----------------------------
(***************************************************************************)
(* The tools of the workspace use the lock as MutationLock describes it,   *)
(* the lock implements exclusive writing, and what was checked inside of   *)
(* it stays as it was until it is replaced.                                *)
(***************************************************************************)
EXTENDS Workspace, TLAPS

LockInv == LockTypeOK /\ TablesTrue

-----------------------------------------------------------------------------
\* The lock.

\* Taking one place out of a queue leaves a queue.
LEMMA LeftType ==
  ASSUME queue \in Seq(Writers), NEW n \in 1..Len(queue)
  PROVE  Left(n) \in Seq(Writers)
<1>1. Len(queue) \in Nat /\ Len(queue) >= 1
  OBVIOUS
<1>2. \A i \in 1..Len(queue) : queue[i] \in Writers
  OBVIOUS
<1>3. Left(n) \in [1..(Len(queue) - 1) -> Writers]
  BY <1>1, <1>2 DEF Left
<1>. QED  BY <1>1, <1>3

LEMMA LockInitially == LockInit => LockInv
BY NoneAssumption DEF LockInit, LockInv, LockTypeOK, TablesTrue, Requests, NoRequest, Grants

LEMMA EnqueueStep ==
  ASSUME LockInv, NEW w \in Writers, NEW r \in Requests, Enqueue(w, r)
  PROVE  LockInv'
<1>1. LockTypeOK'
  BY DEF LockInv, LockTypeOK, Enqueue, Grants
<1>2. TablesTrue'
  BY DEF LockInv, LockTypeOK, TablesTrue, Enqueue, Grants
<1>. QED  BY <1>1, <1>2 DEF LockInv

\* Who is let in finds its paths, or everything, without an owner.
LEMMA AcquireStep ==
  ASSUME LockInv, NEW w \in Writers, Acquire(w)
  PROVE  LockInv'
<1>. USE NoneAssumption
<1>1. PICK n \in 1..Len(queue) :
        /\ queue[n] = w /\ grant[w] = "waiting"
        /\ CanAcquire(n)
        /\ queue' = Left(n)
        /\ grant' = [grant EXCEPT ![w] = "owning"]
        /\ globalOwner' = IF want[w].global THEN w ELSE globalOwner
        /\ pathOwner' = [p \in Paths |-> IF ~want[w].global /\ p \in want[w].paths
                                         THEN w ELSE pathOwner[p]]
        /\ UNCHANGED want
  BY DEF Acquire
<1>2. /\ globalOwner = None
      /\ \A p \in Paths : want[w].global \/ p \in want[w].paths => pathOwner[p] = None
  BY <1>1 DEF CanAcquire
<1>3. LockTypeOK'
  <2>1. queue' \in Seq(Writers)
    BY <1>1, LeftType DEF LockInv, LockTypeOK
  <2>. QED  BY <1>1, <2>1 DEF LockInv, LockTypeOK, Grants
<1>. DEFINE Global(u) == grant[u] = "owning" /\ want[u].global
            Path(u, p) == grant[u] = "owning" /\ p \in want[u].paths
<1>4. \A u \in Writers : ~Global(u)
  BY <1>2 DEF LockInv, TablesTrue
<1>5. \A u \in Writers : grant'[u] = IF u = w THEN "owning" ELSE grant[u]
  BY <1>1 DEF LockInv, LockTypeOK
<1>6. \A u \in Writers : globalOwner' = u <=> Global(u)'
  BY <1>1, <1>2, <1>4, <1>5
<1>7. want[w] \in Requests \/ want[w] = NoRequest
  BY DEF LockInv, LockTypeOK
<1>8. want[w].global = FALSE \/ (want[w].global = TRUE /\ want[w].paths = {})
  BY <1>7 DEF Requests, NoRequest
<1>9. ASSUME NEW u \in Writers, NEW p \in Paths
      PROVE  pathOwner'[p] = u <=> Path(u, p)'
  <2>1. pathOwner[p] = u <=> Path(u, p)
    BY DEF LockInv, TablesTrue
  <2>2. CASE p \in want[w].paths
    <3>1. pathOwner'[p] = w /\ pathOwner[p] = None
      BY <1>1, <1>2, <1>8, <2>2
    <3>2. CASE u = w
      BY <3>1, <3>2, <1>1, <1>5, <2>2
    <3>3. CASE u # w
      BY <3>1, <3>3, <2>1, <1>1, <1>5
    <3>. QED  BY <3>2, <3>3
  <2>3. CASE p \notin want[w].paths
    <3>1. pathOwner'[p] = pathOwner[p]
      BY <1>1, <2>3
    <3>2. CASE u = w
      <4>1. ~Path(u, p)
        BY <1>1, <3>2
      <4>2. ~Path(u, p)'
        BY <1>1, <2>3, <3>2
      <4>. QED  BY <3>1, <2>1, <4>1, <4>2
    <3>3. CASE u # w
      BY <3>1, <3>3, <2>1, <1>1, <1>5
    <3>. QED  BY <3>2, <3>3
  <2>. QED  BY <2>2, <2>3
<1>10. globalOwner' # None => \A p \in Paths : pathOwner'[p] = None
  BY <1>1, <1>2, <1>8
<1>. QED  BY <1>3, <1>6, <1>9, <1>10 DEF LockInv, TablesTrue

LEMMA GiveUpStep ==
  ASSUME LockInv, NEW w \in Writers, GiveUp(w)
  PROVE  LockInv'
<1>1. PICK n \in 1..Len(queue) :
        /\ grant[w] = "waiting"
        /\ queue' = Left(n)
        /\ grant' = [grant EXCEPT ![w] = "idle"]
        /\ want' = [want EXCEPT ![w] = NoRequest]
        /\ UNCHANGED <<globalOwner, pathOwner>>
  BY DEF GiveUp
<1>2. queue' \in Seq(Writers)
  BY <1>1, LeftType DEF LockInv, LockTypeOK
<1>3. LockTypeOK'
  BY <1>1, <1>2 DEF LockInv, LockTypeOK, Grants
<1>4. TablesTrue'
  BY <1>1 DEF LockInv, LockTypeOK, TablesTrue, Grants
<1>. QED  BY <1>3, <1>4 DEF LockInv

LEMMA AbandonStep ==
  ASSUME LockInv, NEW w \in Writers, Abandon(w)
  PROVE  LockInv'
BY DEF LockInv, LockTypeOK, TablesTrue, Abandon, Grants

LEMMA ReleaseStep ==
  ASSUME LockInv, NEW w \in Writers, Release(w)
  PROVE  LockInv'
<1>. USE NoneAssumption
<1>1. LockTypeOK'
  BY DEF LockInv, LockTypeOK, Release, Grants
<1>2. \A u \in Writers : /\ grant'[u] = IF u = w THEN "idle" ELSE grant[u]
                         /\ u # w => want'[u] = want[u]
  BY DEF LockInv, LockTypeOK, Release
<1>3. \A u \in Writers : globalOwner' = u <=> (grant[u] = "owning" /\ want[u].global)'
  BY <1>2 DEF LockInv, LockTypeOK, TablesTrue, Release
<1>4. ASSUME NEW u \in Writers, NEW p \in Paths
      PROVE  pathOwner'[p] = u <=> (grant[u] = "owning" /\ p \in want[u].paths)'
  <2>1. pathOwner[p] = u <=> grant[u] = "owning" /\ p \in want[u].paths
    BY DEF LockInv, TablesTrue
  <2>2. pathOwner[p] = w <=> grant[w] = "owning" /\ p \in want[w].paths
    BY DEF LockInv, TablesTrue
  <2>3. pathOwner'[p] = IF pathOwner[p] = w THEN None ELSE pathOwner[p]
    BY <2>2 DEF Release
  <2>. QED  BY <1>2, <2>1, <2>2, <2>3
<1>5. globalOwner' # None => \A p \in Paths : pathOwner'[p] = None
  BY DEF LockInv, TablesTrue, Release
<1>. QED  BY <1>1, <1>3, <1>4, <1>5 DEF LockInv, TablesTrue

LEMMA LockStep == LockInv /\ [LockNext]_lockVars => LockInv'
<1>. SUFFICES ASSUME LockInv, [LockNext]_lockVars  PROVE LockInv'
  OBVIOUS
<1>1. CASE UNCHANGED lockVars
  BY <1>1 DEF LockInv, LockTypeOK, TablesTrue, lockVars
<1>2. CASE LockNext
  BY <1>2, EnqueueStep, AcquireStep, GiveUpStep, AbandonStep, ReleaseStep DEF LockNext
<1>. QED  BY <1>1, <1>2

\* Tables that say who owns what keep two owners apart.
LEMMA OwnersDisjoint ==
  ASSUME LockInv, NEW v \in Writers, NEW w \in Writers, v # w
  PROVE  Footprint(v) \cap Footprint(w) = {}
<1>1. ASSUME grant[v] = "owning", grant[w] = "owning"
      PROVE  Footprint(v) \cap Footprint(w) = {}
  <2>1. \A u \in {v, w} : want[u].paths \subseteq Paths
    BY DEF LockInv, LockTypeOK, Requests, NoRequest
  <2>2. ~want[v].global \/ ~want[w].global
    BY <1>1 DEF LockInv, TablesTrue
  <2>3. \A p \in Paths : ~(p \in want[v].paths /\ p \in want[w].paths)
    BY <1>1 DEF LockInv, TablesTrue
  <2>4. \A u, x \in {v, w} : u # x /\ want[u].global => want[x].paths = {}
    BY <1>1, <2>1, NoneAssumption DEF LockInv, TablesTrue
  <2>. QED  BY <1>1, <2>1, <2>2, <2>3, <2>4 DEF Footprint
<1>. QED  BY <1>1 DEF Footprint

Apart == \A v, w \in Writers : v # w => Footprint(v) \cap Footprint(w) = {}

LEMMA DisjointLater == LockInv' => Apart'
<1>1. LockInv => Apart
  BY OwnersDisjoint DEF Apart
<1>. QED  BY <1>1, PTL

\* The mutation lock implements exclusive writing: whatever the requests, their
\* order, cancellations and interrupts, two writers are never let in for the same
\* file, and a global request only alone.
THEOREM LockImplementsExclusion == LockSpec => ImplementsExclusion
<1>1. LockInit => Exclusion!Init
  BY DEF LockInit, Exclusion!Init, Footprint
<1>2. LockInv /\ LockInv' /\ [LockNext]_lockVars
        => [Exclusion!Next]_[w \in Writers |-> Footprint(w)]
  <2>. SUFFICES ASSUME LockInv, LockInv', [LockNext]_lockVars
                PROVE  [Exclusion!Next]_[w \in Writers |-> Footprint(w)]
    OBVIOUS
  <2>. DEFINE F == [w \in Writers |-> Footprint(w)]
  <2>1. CASE UNCHANGED lockVars
    BY <2>1 DEF lockVars, Footprint
  <2>2. ASSUME NEW w \in Writers, NEW r \in Requests, Enqueue(w, r)
        PROVE  UNCHANGED F
    BY <2>2 DEF Enqueue, Footprint, LockInv, LockTypeOK
  <2>3. ASSUME NEW w \in Writers, Acquire(w)
        PROVE  Exclusion!Begin(w)
    <3>1. /\ grant[w] = "waiting"
          /\ grant' = [grant EXCEPT ![w] = "owning"]
          /\ want' = want
      BY <2>3 DEF Acquire
    <3>2. F[w] = {}
      BY <3>1 DEF Footprint
    <3>3. \A v \in Writers \ {w} : F[v] = Footprint(v)'
      BY <3>1 DEF Footprint, LockInv, LockTypeOK
    <3>4. \A v \in Writers \ {w} : F[v] \cap Footprint(w)' = {}
      <4>1. \A v \in Writers \ {w} : (Footprint(v) \cap Footprint(w))' = {}
        BY DisjointLater DEF Apart
      <4>. QED  BY <3>3, <4>1
    <3>5. F' = [F EXCEPT ![w] = Footprint(w)']
      BY <3>3
    <3>6. Footprint(w)' \in SUBSET Paths
      BY DEF LockInv, LockTypeOK, Requests, NoRequest, Footprint
    <3>. QED  BY <3>2, <3>4, <3>5, <3>6 DEF Exclusion!Begin
  <2>4. ASSUME NEW w \in Writers, GiveUp(w)
        PROVE  UNCHANGED F
    BY <2>4 DEF GiveUp, Footprint, LockInv, LockTypeOK
  <2>5. ASSUME NEW w \in Writers, Abandon(w)
        PROVE  UNCHANGED F
    BY <2>5 DEF Abandon, Footprint, LockInv, LockTypeOK
  <2>6. ASSUME NEW w \in Writers, Release(w)
        PROVE  Exclusion!End(w)
    <3>1. /\ grant' = [grant EXCEPT ![w] = "idle"]
          /\ want' = [want EXCEPT ![w] = NoRequest]
      BY <2>6 DEF Release
    <3>2. Footprint(w)' = {}
      BY <3>1 DEF Footprint, LockInv, LockTypeOK
    <3>3. \A v \in Writers \ {w} : Footprint(v)' = Footprint(v)
      BY <3>1 DEF Footprint, LockInv, LockTypeOK
    <3>. QED  BY <3>2, <3>3 DEF Exclusion!End
  <2>. QED
    BY <2>1, <2>2, <2>3, <2>4, <2>5, <2>6 DEF LockNext, Exclusion!Next
<1>3. LockSpec => []LockInv
  BY LockInitially, LockStep, PTL DEF LockSpec
<1>. QED
  BY <1>1, <1>2, <1>3, PTL DEF LockSpec, ImplementsExclusion, Exclusion!Spec

-----------------------------------------------------------------------------
\* The tools on top of the lock.

\* A tool takes the lock's steps or none.
LEMMA ToolsUseLock == [Next]_vars => [LockNext]_lockVars
<1>. SUFFICES ASSUME [Next]_vars  PROVE [LockNext]_lockVars
  OBVIOUS
<1>1. ASSUME NEW p \in Paths  PROVE [paths |-> {p}, global |-> FALSE] \in Requests
  <2>1. {p} \in SUBSET Paths /\ p \in {p}
    BY <1>1
  <2>. QED  BY <2>1 DEF Requests
<1>2. ASSUME NEW w \in Writers, NEW p \in Paths, WriteFile(w, p)
      PROVE  LockNext
  BY <1>1, <1>2 DEF WriteFile, LockNext
<1>3. ASSUME NEW p \in Paths, NEW declared, Written(p, declared)
      PROVE  UNCHANGED lockVars
  BY <1>3 DEF Written
<1>4. ASSUME NEW w \in Writers, NEW r \in Requests, Bash(w, r)
      PROVE  LockNext
  BY <1>4 DEF Bash, LockNext
<1>5. ASSUME NEW w \in Writers, LetIn(w) \/ Return(w) \/ CallFails(w) \/ Interrupt(w)
      PROVE  LockNext
  BY <1>5 DEF LetIn, Return, CallFails, Interrupt, LockNext
<1>6. ASSUME NEW w \in Writers, CheckHash(w) \/ Commit(w)
      PROVE  UNCHANGED lockVars
  BY <1>6 DEF CheckHash, Commit
<1>7. CASE UNCHANGED vars
  BY <1>7 DEF vars
<1>8. CASE StraysEnd
  BY <1>8 DEF StraysEnd
<1>. QED
  BY <1>2, <1>3, <1>4, <1>5, <1>6, <1>7, <1>8 DEF Next, WriterStep, BashWrites, StrayWrites

\* The same under the tools: read, write, edit and bash use the lock in such a way that
\* what they may change at the same time is never the same file (workspace.py:156, :270, :297).
THEOREM WorkspaceExclusion == Spec => ImplementsExclusion
<1>1. Init => LockInit
  BY DEF Init
<1>2. Spec => LockSpec
  BY <1>1, ToolsUseLock, PTL DEF Spec, LockSpec
<1>. QED  BY <1>2, LockImplementsExclusion, PTL

-----------------------------------------------------------------------------
\* No lost update.

\* A call that is checked holds the lock for its file.
CheckedHolds ==
  \A w \in Writers :
    call[w].stage \in {"checked", "overtaken"} =>
      /\ call[w].tool = "write"
      /\ grant[w] = "owning"
\* A call to write asks for its own file, while it waits and while it owns.
WriteAsksForFile ==
  \A w \in Writers :
    /\ call[w].tool = "write" => /\ call[w].path \in Paths
                                 /\ want[w] = [paths |-> {call[w].path}, global |-> FALSE]
                                 /\ grant[w] # "idle"
    /\ call[w].tool # "write" => call[w].path = None /\ call[w].stage = "start"

ToolInv == TypeOK /\ TablesTrue /\ CheckedHolds /\ WriteAsksForFile /\ NoLostUpdate

LEMMA ToolInitially == Init => ToolInv
<1>. SUFFICES ASSUME Init  PROVE ToolInv
  OBVIOUS
<1>1. LockTypeOK /\ TablesTrue
  BY LockInitially DEF Init, LockInv
<1>2. TypeOK
  BY <1>1 DEF Init, TypeOK, CallRec, NoCall, Tools, Hashes, Stages
<1>3. CheckedHolds /\ WriteAsksForFile /\ NoLostUpdate
  BY DEF Init, NoCall, CheckedHolds, WriteAsksForFile, NoLostUpdate
<1>. QED  BY <1>1, <1>2, <1>3 DEF ToolInv

\* Two calls that are past their check are for different files.
LEMMA OneCheckedPerFile ==
  ASSUME ToolInv, NEW v \in Writers, NEW w \in Writers, v # w,
         call[v].stage \in {"checked", "overtaken"}
  PROVE  call[v].path \notin Footprint(w)
<1>1. /\ grant[v] = "owning"
      /\ want[v] = [paths |-> {call[v].path}, global |-> FALSE]
  BY DEF ToolInv, CheckedHolds, WriteAsksForFile
<1>3. Footprint(v) = {call[v].path}
  BY <1>1 DEF Footprint
<1>2. Footprint(v) \cap Footprint(w) = {}
  BY OwnersDisjoint DEF ToolInv, TypeOK, LockInv
<1>. QED  BY <1>2, <1>3

LEMMA ToolLock == ToolInv /\ [Next]_vars => LockTypeOK' /\ TablesTrue'
BY ToolsUseLock, LockStep DEF ToolInv, TypeOK, LockInv

\* A is what a change of file p makes of the calls in progress.
AgedIs(p, declared, A) ==
  /\ A \in [Writers -> CallRec]
  /\ \A w \in Writers :
       /\ A[w].tool = call[w].tool
       /\ A[w].path = call[w].path
       /\ A[w].stage \in {"checked", "overtaken"} <=> call[w].stage \in {"checked", "overtaken"}
       /\ call[w].stage = "start" => A[w].stage = "start"
       /\ call[w].path # p => A[w] = call[w]
       /\ declared \/ call[w].path # p \/ A[w].stage # "checked"

LEMMA AgedCalls ==
  ASSUME ToolInv, NEW p \in Paths, NEW declared
  PROVE  AgedIs(p, declared, Aged(p, declared))
<1>1. \A c \in CallRec, hash \in Hashes, stage \in Stages :
        [c EXCEPT !.expected = hash, !.stage = stage] \in CallRec
  BY DEF CallRec, Hashes, Stages
<1>2. \A u \in Writers : call[u] \in CallRec
  BY DEF ToolInv, TypeOK
<1>3. \A u \in Writers :
        /\ (IF call[u].expected = "current" THEN "old" ELSE call[u].expected) \in Hashes
        /\ (IF call[u].stage = "checked" /\ ~declared THEN "overtaken" ELSE call[u].stage)
             \in Stages
  BY <1>2 DEF CallRec, Hashes, Stages
<1>4. Aged(p, declared) \in [Writers -> CallRec]
  BY <1>1, <1>2, <1>3 DEF Aged
<1>. QED  BY <1>2, <1>4 DEF Aged, AgedIs, CallRec

LEMMA CallTypes ==
  ASSUME ToolInv, [Next]_vars
  PROVE  /\ exists' \in [Paths -> BOOLEAN] /\ call' \in [Writers -> CallRec]
         /\ outlived' \in BOOLEAN
<1>. USE DEF ToolInv, TypeOK
<1>0. /\ NoCall \in CallRec /\ [NoCall EXCEPT !.tool = "bash"] \in CallRec
      /\ \A p \in Paths, hash \in Hashes :
           [tool |-> "write", path |-> p, expected |-> hash, stage |-> "start"] \in CallRec
      /\ \A c \in CallRec, stage \in Stages : [c EXCEPT !.stage = stage] \in CallRec
      /\ \A c \in CallRec, hash \in Hashes, stage \in Stages :
           [c EXCEPT !.expected = hash, !.stage = stage] \in CallRec
  BY DEF CallRec, NoCall, Tools, Hashes, Stages
<1>1. ASSUME NEW w \in Writers, NEW p \in Paths, WriteFile(w, p)
      PROVE  exists' \in [Paths -> BOOLEAN] /\ call' \in [Writers -> CallRec]
  BY <1>0, <1>1 DEF WriteFile, Known
<1>3. ASSUME NEW p \in Paths, NEW declared, Written(p, declared)
      PROVE  exists' \in [Paths -> BOOLEAN] /\ call' \in [Writers -> CallRec]
  <2>1. Aged(p, declared) \in [Writers -> CallRec]
    BY AgedCalls DEF AgedIs
  <2>. QED  BY <1>3, <2>1 DEF Written
<1>4. ASSUME NEW w \in Writers, NEW r \in Requests, Bash(w, r)
      PROVE  exists' \in [Paths -> BOOLEAN] /\ call' \in [Writers -> CallRec]
  BY <1>0, <1>4 DEF Bash
<1>5. ASSUME NEW w \in Writers, LetIn(w) \/ Interrupt(w)
      PROVE  exists' \in [Paths -> BOOLEAN] /\ call' \in [Writers -> CallRec]
  BY <1>5 DEF LetIn, Interrupt, fileVars
<1>6. ASSUME NEW w \in Writers, Return(w) \/ CallFails(w)
      PROVE  exists' \in [Paths -> BOOLEAN] /\ call' \in [Writers -> CallRec]
  BY <1>0, <1>6 DEF Return, CallFails
<1>7. ASSUME NEW w \in Writers, CheckHash(w)
      PROVE  exists' \in [Paths -> BOOLEAN] /\ call' \in [Writers -> CallRec]
  <2>1. PICK stage \in Stages : call' = [call EXCEPT ![w] = [call[w] EXCEPT !.stage = stage]]
    BY <1>7 DEF CheckHash, Stages
  <2>. QED  BY <1>0, <1>7, <2>1 DEF CheckHash
<1>8. ASSUME NEW w \in Writers, Commit(w)
      PROVE  exists' \in [Paths -> BOOLEAN] /\ call' \in [Writers -> CallRec]
  <2>1. call[w].path \in Paths
    BY <1>8 DEF Commit, CheckedHolds, WriteAsksForFile
  <2>2. Aged(call[w].path, TRUE) \in [Writers -> CallRec]
    BY <2>1, AgedCalls DEF AgedIs
  <2>3. /\ [call EXCEPT ![w].stage = "done"] \in [Writers -> CallRec]
        /\ [Aged(call[w].path, TRUE) EXCEPT ![w].stage = "done"] \in [Writers -> CallRec]
    BY <1>0, <2>2 DEF Stages
  <2>. QED  BY <1>8, <2>1, <2>3 DEF Commit
<1>9. CASE UNCHANGED vars
  BY <1>9 DEF vars, fileVars
<1>10. CASE StraysEnd
  BY <1>10 DEF StraysEnd
<1>11. exists' \in [Paths -> BOOLEAN] /\ call' \in [Writers -> CallRec]
  BY <1>1, <1>3, <1>4, <1>5, <1>6, <1>7, <1>8, <1>9, <1>10
     DEF Next, WriterStep, BashWrites, StrayWrites
<1>12. outlived' \in BOOLEAN
  <2>1. outlived' \in {outlived, TRUE, FALSE}
    BY DEF Next, WriterStep, WriteFile, Bash, LetIn, CallFails, Interrupt, CheckHash, Commit,
           BashWrites, StrayWrites, Written, Return, StraysEnd, vars, fileVars
  <2>. QED  BY <2>1
<1>. QED  BY <1>11, <1>12

LEMMA CommitCalls ==
  ASSUME ToolInv, NEW w \in Writers, Commit(w), NEW u \in Writers
  PROVE  /\ call'[u].tool = call[u].tool
         /\ call'[u].path = call[u].path
         /\ call'[u].stage \in {"checked", "overtaken"} => call[u].stage \in {"checked", "overtaken"}
         /\ call[u].tool # "write" => call'[u].stage = call[u].stage
<1>1. call[w].tool = "write" /\ call[w].path \in Paths
  BY DEF Commit, ToolInv, CheckedHolds, WriteAsksForFile
<1>2. call \in [Writers -> CallRec]
  BY DEF ToolInv, TypeOK
<1>3. CASE call' = [call EXCEPT ![w].stage = "done"]
  BY <1>1, <1>2, <1>3 DEF CallRec
<1>4. CASE call' = [Aged(call[w].path, TRUE) EXCEPT ![w].stage = "done"]
  <2>. DEFINE A == Aged(call[w].path, TRUE)
  <2>1. /\ A \in [Writers -> CallRec]
        /\ A[u].tool = call[u].tool /\ A[u].path = call[u].path
        /\ A[u].stage \in {"checked", "overtaken"} => call[u].stage \in {"checked", "overtaken"}
        /\ call[u].stage = "start" => A[u].stage = "start"
    <3>1. AgedIs(call[w].path, TRUE, A)
      BY <1>1, AgedCalls
    <3>. HIDE DEF A
    <3>. QED  BY <3>1 DEF AgedIs
  <2>. HIDE DEF A
  <2>2. call' = [A EXCEPT ![w].stage = "done"]
    BY <1>4 DEF A
  <2>3. /\ call'[u].tool = A[u].tool /\ call'[u].path = A[u].path
        /\ u # w => call'[u].stage = A[u].stage
        /\ u = w => call'[u].stage = "done"
    BY <2>1, <2>2 DEF CallRec
  <2>4. call[u].tool # "write" => u # w /\ call[u].stage = "start"
    BY <1>1 DEF ToolInv, WriteAsksForFile
  <2>. QED  BY <2>1, <2>3, <2>4
<1>. QED  BY <1>3, <1>4 DEF Commit

\* What is checked is for a file the lock keeps for its writer.
LEMMA HoldsStep ==
  ASSUME ToolInv, [Next]_vars
  PROVE  CheckedHolds' /\ WriteAsksForFile'
<1>2. ASSUME NEW p \in Paths, NEW declared
      PROVE  /\ Aged(p, declared) \in [Writers -> CallRec]
             /\ \A u \in Writers :
                  /\ Aged(p, declared)[u].tool = call[u].tool
                  /\ Aged(p, declared)[u].path = call[u].path
                  /\ Aged(p, declared)[u].stage \in {"checked", "overtaken"} =>
                       call[u].stage \in {"checked", "overtaken"}
                  /\ call[u].stage = "start" => Aged(p, declared)[u].stage = "start"
  BY AgedCalls DEF AgedIs
<1>. USE DEF ToolInv, TypeOK, LockTypeOK, CheckedHolds, WriteAsksForFile, NoCall
<1>1. ASSUME NEW w \in Writers, NEW p \in Paths, WriteFile(w, p)
      PROVE  CheckedHolds' /\ WriteAsksForFile'
  BY <1>1 DEF WriteFile, Enqueue
<1>3. ASSUME NEW p \in Paths, NEW declared, Written(p, declared)
      PROVE  CheckedHolds' /\ WriteAsksForFile'
  <2>1. /\ call' = Aged(p, declared)
        /\ grant' = grant /\ want' = want
    BY <1>3 DEF Written, lockVars
  <2>2. \A u \in Writers :
          /\ call'[u].tool = call[u].tool
          /\ call'[u].path = call[u].path
          /\ call'[u].stage \in {"checked", "overtaken"} => call[u].stage \in {"checked", "overtaken"}
          /\ call[u].stage = "start" => call'[u].stage = "start"
    BY <1>2, <2>1
  <2>. QED  BY <2>1, <2>2
<1>4. ASSUME NEW w \in Writers, NEW r \in Requests, Bash(w, r)
      PROVE  CheckedHolds' /\ WriteAsksForFile'
  BY <1>4 DEF Bash, Enqueue, CallRec
<1>5. ASSUME NEW w \in Writers, LetIn(w)
      PROVE  CheckedHolds' /\ WriteAsksForFile'
  BY <1>5 DEF LetIn, Acquire, fileVars
<1>6. ASSUME NEW w \in Writers, Interrupt(w)
      PROVE  CheckedHolds' /\ WriteAsksForFile'
  BY <1>6 DEF Interrupt, Abandon, fileVars
<1>7. ASSUME NEW w \in Writers, Return(w) \/ CallFails(w)
      PROVE  CheckedHolds' /\ WriteAsksForFile'
  <2>1. /\ call' = [call EXCEPT ![w] = NoCall]
        /\ grant' = [grant EXCEPT ![w] = "idle"]
        /\ want' = [want EXCEPT ![w] = NoRequest]
    BY <1>7 DEF Return, Release, CallFails, GiveUp
  <2>. QED  BY <2>1
<1>8. ASSUME NEW w \in Writers, CheckHash(w)
      PROVE  CheckedHolds' /\ WriteAsksForFile'
  <2>1. /\ grant[w] = "owning" /\ call[w].tool = "write" /\ UNCHANGED lockVars
        /\ \E s \in {"checked", "done"} : call' = [call EXCEPT ![w].stage = s]
    BY <1>8 DEF CheckHash
  <2>2. /\ \A u \in Writers \ {w} : call'[u] = call[u]
        /\ call'[w].tool = "write" /\ call'[w].path = call[w].path
    BY <2>1 DEF CallRec
  <2>. QED  BY <2>1, <2>2 DEF lockVars
<1>9. ASSUME NEW w \in Writers, Commit(w)
      PROVE  CheckedHolds' /\ WriteAsksForFile'
  <2>1. \A u \in Writers :
          /\ call'[u].tool = call[u].tool
          /\ call'[u].path = call[u].path
          /\ call'[u].stage \in {"checked", "overtaken"} => call[u].stage \in {"checked", "overtaken"}
          /\ call[u].tool # "write" => call'[u].stage = call[u].stage
    BY <1>9, CommitCalls
  <2>2. grant' = grant /\ want' = want
    BY <1>9 DEF Commit, lockVars
  <2>3. CheckedHolds'
    BY <2>1, <2>2
  <2>4. ASSUME NEW u \in Writers, call'[u].tool # "write"
        PROVE  call'[u].path = None /\ call'[u].stage = "start"
    BY <2>1, <2>4
  <2>5. ASSUME NEW u \in Writers, call'[u].tool = "write"
        PROVE  /\ call'[u].path \in Paths
               /\ want'[u] = [paths |-> {call'[u].path}, global |-> FALSE]
               /\ grant'[u] # "idle"
    BY <2>1, <2>2, <2>5
  <2>. QED  BY <2>3, <2>4, <2>5
<1>10. CASE UNCHANGED vars
  BY <1>10 DEF vars, fileVars, lockVars
<1>11. CASE StraysEnd
  BY <1>11 DEF StraysEnd, lockVars
<1>. QED
  BY <1>1, <1>3, <1>4, <1>5, <1>6, <1>7, <1>8, <1>9, <1>10, <1>11
     DEF Next, WriterStep, BashWrites, StrayWrites

\* A file that a checked call is about is changed by that call only.
LEMMA LostUpdateStep ==
  ASSUME ToolInv, [Next]_vars
  PROVE  NoLostUpdate'
<1>. DEFINE Right(c, w) ==
       c.stage = "checked" =>
         /\ c.expected # "old"
         /\ c.expected = "current" => exists[c.path]
         /\ c.expected = "none" /\ w \in HashWriters => ~exists[c.path]
<1>0. \A w \in Writers : Right(call[w], w)
  BY DEF ToolInv, NoLostUpdate
<1>. USE DEF NoLostUpdate
<1>a. call \in [Writers -> CallRec]
  BY DEF ToolInv, TypeOK
<1>1. ASSUME NEW w \in Writers, exists' = exists,
             NEW c \in CallRec, call' = [call EXCEPT ![w] = c], c.stage # "checked"
      PROVE  NoLostUpdate'
  BY <1>0, <1>1, <1>a
<1>2. ASSUME exists' = exists, call' = call
      PROVE  NoLostUpdate'
  BY <1>0, <1>2
<1>b. /\ NoCall \in CallRec /\ NoCall.stage = "start"
      /\ [NoCall EXCEPT !.tool = "bash"] \in CallRec
      /\ [NoCall EXCEPT !.tool = "bash"].stage = "start"
  BY DEF NoCall, CallRec, Tools, Hashes, Stages
<1>c. \A w \in Writers : /\ [call[w] EXCEPT !.stage = "done"] \in CallRec
                         /\ [call[w] EXCEPT !.stage = "done"].stage = "done"
                         /\ [call EXCEPT ![w].stage = "done"] =
                              [call EXCEPT ![w] = [call[w] EXCEPT !.stage = "done"]]
  BY <1>a DEF CallRec, Stages
<1>3. ASSUME NEW w \in Writers, NEW p \in Paths, WriteFile(w, p)
      PROVE  NoLostUpdate'
  <2>1. PICK hash \in Hashes :
          call' = [call EXCEPT ![w] = [tool |-> "write", path |-> p, expected |-> hash,
                                       stage |-> "start"]]
    BY <1>3 DEF WriteFile, Known
  <2>2. [tool |-> "write", path |-> p, expected |-> hash, stage |-> "start"] \in CallRec
    BY DEF CallRec, Tools, Stages
  <2>. QED  BY <1>1, <1>3, <2>1, <2>2 DEF WriteFile
<1>4. ASSUME NEW w \in Writers, NEW r \in Requests, Bash(w, r)
      PROVE  NoLostUpdate'
  BY <1>1, <1>4, <1>b DEF Bash
<1>5. ASSUME NEW w \in Writers, LetIn(w) \/ Interrupt(w)
      PROVE  NoLostUpdate'
  BY <1>2, <1>5 DEF LetIn, Interrupt, fileVars
<1>6. ASSUME NEW w \in Writers, Return(w) \/ CallFails(w)
      PROVE  NoLostUpdate'
  BY <1>1, <1>6, <1>b DEF Return, CallFails
<1>7. ASSUME NEW w \in Writers, CheckHash(w)
      PROVE  NoLostUpdate'
  <2>1. CASE call' = [call EXCEPT ![w].stage = "done"]
    BY <1>1, <1>7, <1>c, <2>1 DEF CheckHash
  <2>2. CASE ~HashConflict(w) /\ call' = [call EXCEPT ![w].stage = "checked"]
    <3>1. /\ call'[w].expected = call[w].expected
          /\ call'[w].path = call[w].path
          /\ \A u \in Writers \ {w} : call'[u] = call[u]
      BY <1>a, <2>2 DEF CallRec
    <3>2. exists' = exists
      BY <1>7 DEF CheckHash
    <3>3. Right(call'[w], w)
      BY <1>a, <2>2, <3>1 DEF HashConflict, CallRec, Hashes
    <3>. QED  BY <1>0, <3>1, <3>2, <3>3
  <2>. QED  BY <1>7, <2>1, <2>2 DEF CheckHash
\* The file changes: no other call that is checked is for it.
<1>8. ASSUME NEW w \in Writers, Commit(w)
      PROVE  NoLostUpdate'
  <2>1. /\ call[w].path \in Paths
        /\ call[w].path \in Footprint(w)
    <3>1. /\ call[w].tool = "write" /\ grant[w] = "owning"
          /\ call[w].path \in Paths
          /\ want[w] = [paths |-> {call[w].path}, global |-> FALSE]
      BY <1>8 DEF Commit, ToolInv, CheckedHolds, WriteAsksForFile
    <3>. QED  BY <3>1 DEF Footprint
  <2>2. CASE call' = [call EXCEPT ![w].stage = "done"] /\ exists' = exists
    BY <1>1, <1>c, <2>2
  <2>3. CASE /\ exists' = [exists EXCEPT ![call[w].path] = TRUE]
             /\ call' = [Aged(call[w].path, TRUE) EXCEPT ![w].stage = "done"]
    <3>. DEFINE A == Aged(call[w].path, TRUE)
    <3>1. /\ A \in [Writers -> CallRec]
          /\ \A u \in Writers : /\ A[u].path = call[u].path
                                /\ call[u].path # call[w].path => A[u] = call[u]
                                /\ A[u].stage = "checked" =>
                                     call[u].stage \in {"checked", "overtaken"}
      <4>1. AgedIs(call[w].path, TRUE, A)
        BY <2>1, AgedCalls
      <4>. HIDE DEF A
      <4>. QED  BY <4>1 DEF AgedIs
    <3>. HIDE DEF A
    <3>2. call'[w].stage = "done" /\ \A u \in Writers \ {w} : call'[u] = A[u]
      BY <2>3, <3>1 DEF A, CallRec
    <3>3. ASSUME NEW u \in Writers \ {w}, call'[u].stage = "checked"
          PROVE  call'[u] = call[u] /\ call[u].path # call[w].path
      BY <2>1, <3>1, <3>2, <3>3, OneCheckedPerFile
    <3>4. exists \in [Paths -> BOOLEAN]
      BY DEF ToolInv, TypeOK
    <3>5. \A q \in Paths : q # call[w].path => exists'[q] = exists[q]
      BY <2>3, <3>4
    <3>6. ASSUME NEW u \in Writers, call'[u].stage = "checked"
          PROVE  u # w /\ call'[u] = call[u] /\ exists'[call[u].path] = exists[call[u].path]
      <4>1. u # w
        BY <3>2, <3>6
      <4>2. call'[u] = call[u] /\ call[u].path # call[w].path
        BY <3>3, <3>6, <4>1
      <4>3. call[u].path \in Paths
        BY <3>6, <4>2 DEF ToolInv, CheckedHolds, WriteAsksForFile
      <4>. QED  BY <3>5, <4>1, <4>2, <4>3
    <3>. QED  BY <1>0, <3>6
  <2>. QED  BY <1>8, <2>2, <2>3 DEF Commit
<1>9. ASSUME NEW p \in Paths, NEW declared, Written(p, declared),
             declared => \E w \in Writers : call[w].tool = "bash" /\ p \in Footprint(w)
      PROVE  NoLostUpdate'
  <2>1. PICK there \in BOOLEAN : exists' = [exists EXCEPT ![p] = there]
    BY <1>9 DEF Written
  <2>2. call' = Aged(p, declared)
    BY <1>9 DEF Written
  <2>3. exists \in [Paths -> BOOLEAN]
    BY DEF ToolInv, TypeOK
  <2>4. ASSUME NEW u \in Writers, call'[u].stage = "checked"
        PROVE  call'[u] = call[u] /\ exists'[call[u].path] = exists[call[u].path]
    <3>0. AgedIs(p, declared, call')
      BY <2>2, AgedCalls
    <3>1. call[u].stage \in {"checked", "overtaken"}
      BY <2>4, <3>0 DEF AgedIs
    <3>2. call[u].tool = "write" /\ call[u].path \in Paths
      BY <3>1 DEF ToolInv, CheckedHolds, WriteAsksForFile
    <3>3. \A w \in Writers : call[w].tool = "bash" => call[u].path \notin Footprint(w)
      BY <3>1, <3>2, OneCheckedPerFile
    <3>4. call[u].path # p
      BY <1>9, <2>4, <3>0, <3>3 DEF AgedIs
    <3>5. call'[u] = call[u]
      BY <3>0, <3>4 DEF AgedIs
    <3>. QED  BY <2>1, <2>3, <3>2, <3>4, <3>5
  <2>. QED  BY <1>0, <2>4
<1>10. CASE UNCHANGED vars
  BY <1>2, <1>10 DEF vars, fileVars
<1>11. CASE StraysEnd
  BY <1>2, <1>11 DEF StraysEnd
<1>12. ASSUME NEW w \in Writers, NEW p \in Paths, BashWrites(w, p)
       PROVE  NoLostUpdate'
  BY <1>9, <1>12 DEF BashWrites
<1>13. ASSUME NEW p \in Paths, StrayWrites(p)
       PROVE  NoLostUpdate'
  BY <1>9, <1>13 DEF StrayWrites
<1>. QED
  BY <1>3, <1>4, <1>5, <1>6, <1>7, <1>8, <1>10, <1>11, <1>12, <1>13 DEF Next, WriterStep

LEMMA ToolStep == ToolInv /\ [Next]_vars => ToolInv'
BY ToolLock, CallTypes, HoldsStep, LostUpdateStep DEF ToolInv, TypeOK

\* The tools keep their types, and the two tables of the lock agree with what
\* the callers of acquire() were granted.
THEOREM WorkspaceTypes == Spec => []TypeOK
<1>1. ToolInv => TypeOK
  BY DEF ToolInv
<1>. QED  BY <1>1, ToolInitially, ToolStep, PTL DEF Spec

\* A sub-agent or a member overwrites exactly what it read, whatever else
\* writes at the same time: nothing that the lock knows of comes between the
\* check of the hash and os.replace.  What it does not know of is named: undeclared
\* writes of a command, and those of processes that go on when it has returned.
THEOREM WorkspaceNoLostUpdate == Spec => []NoLostUpdate
<1>1. ToolInv => NoLostUpdate
  BY DEF ToolInv
<1>. QED  BY <1>1, ToolInitially, ToolStep, PTL DEF Spec
===============================================================================

------------------------------ MODULE Workspace ------------------------------
(***************************************************************************)
(* The tools that change files (workspace.py) on top of the mutation lock. *)
(* Of a file's content only this matters: whether the file exists, and     *)
(* whether it still is what a writer read; a SHA-256 tells the two apart.  *)
(* write_file and edit_file check the hash and replace the file inside of  *)
(* the lock; bash may touch any file while it holds what it declared, and  *)
(* a process that it has started may go on after it has returned.          *)
(***************************************************************************)
EXTENDS MutationLock, FiniteSets

CONSTANTS
  HashWriters   \* writers with require_hash: sub-agents and members

ASSUME HashWritersAssumption == HashWriters \subseteq Writers

VARIABLES
  exists,     \* exists[p]: the file is there
  call,       \* call[w]: the tool call in progress
  outlived    \* a process that a command started is still there after the command's return

fileVars == <<exists, call, outlived>>
vars == <<lockVars, fileVars>>

Tools == {"none", "write", "bash"}
Hashes == {"none", "current", "old"}
Stages == {"start", "checked", "overtaken", "done"}

\* A call: the tool, its file (of a write), the hash that came with it, and how
\* far it is; "overtaken" is "checked" after a command wrote the file undeclared, or
\* a process that outlived its command.
CallRec == [tool : Tools, path : Paths \cup {None}, expected : Hashes, stage : Stages]
NoCall == [tool |-> "none", path |-> None, expected |-> "none", stage |-> "start"]

\* File p has another content, or is gone: a hash of it that was right no longer is.
Aged(p, declared) ==
  [w \in Writers |->
     IF call[w].path # p THEN call[w]
     ELSE [call[w] EXCEPT !.expected = IF @ = "current" THEN "old" ELSE @,
                          !.stage = IF @ = "checked" /\ ~declared THEN "overtaken" ELSE @]]

Init ==
  /\ LockInit
  /\ exists \in [Paths -> BOOLEAN]
  /\ call = [w \in Writers |-> NoCall]
  /\ outlived = FALSE

\* run_read with include_hash takes no lock, and what it returned may be of any age.
Known(p) == IF exists[p] THEN Hashes ELSE Hashes \ {"current"}

\* run_write, run_edit: a request for the one file, with a hash the model has read, or none.
WriteFile(w, p) ==
  /\ call[w] = NoCall
  /\ \E expected \in Known(p) :
       call' = [call EXCEPT ![w] = [tool |-> "write", path |-> p, expected |-> expected,
                                    stage |-> "start"]]
  /\ Enqueue(w, [paths |-> {p}, global |-> FALSE])
  /\ UNCHANGED <<exists, outlived>>

\* run_bash: what it declares, or everything.
Bash(w, r) ==
  /\ call[w] = NoCall
  /\ call' = [call EXCEPT ![w] = [NoCall EXCEPT !.tool = "bash"]]
  /\ Enqueue(w, r)
  /\ UNCHANGED <<exists, outlived>>

LetIn(w) == Acquire(w) /\ UNCHANGED fileVars

\* acquire raises, and the tool answers with an error.
CallFails(w) ==
  /\ GiveUp(w)
  /\ call' = [call EXCEPT ![w] = NoCall]
  /\ UNCHANGED <<exists, outlived>>

\* Only the main thread is interrupted, and it writes for the Lead.
Interrupt(w) == w \notin HashWriters /\ Abandon(w) /\ UNCHANGED fileVars

\* _check_expected_hash: is there a conflict?
HashConflict(w) ==
  LET c == call[w] IN
  IF exists[c.path] THEN IF c.expected = "none" THEN w \in HashWriters ELSE c.expected = "old"
  ELSE c.expected # "none"

\* Fault: the hash is checked before the lock is owned.
CheckHashFaulty(w) ==
  /\ grant[w] \in {"waiting", "owning"}
  /\ call[w].tool = "write" /\ call[w].stage = "start"
  /\ \/ call' = [call EXCEPT ![w].stage = "done"]
     \/ /\ ~HashConflict(w)
        /\ call' = [call EXCEPT ![w].stage = "checked"]
  /\ UNCHANGED <<lockVars, exists, outlived>>

\* run_write, run_edit, inside of the lock: the check of the hash; an edit also
\* fails when the file or the text to replace is not there.
CheckHash(w) ==
  /\ grant[w] = "owning" /\ call[w].tool = "write" /\ call[w].stage = "start"
  /\ \/ call' = [call EXCEPT ![w].stage = "done"]
     \/ /\ ~HashConflict(w)
        /\ call' = [call EXCEPT ![w].stage = "checked"]
  /\ UNCHANGED <<lockVars, exists, outlived>>

\* _atomic_commit: os.replace, or nothing when it was cancelled before.
Commit(w) ==
  /\ call[w].stage \in {"checked", "overtaken"}
  /\ \/ /\ exists' = [exists EXCEPT ![call[w].path] = TRUE]
        /\ call' = [Aged(call[w].path, TRUE) EXCEPT ![w].stage = "done"]
     \/ /\ call' = [call EXCEPT ![w].stage = "done"]
        /\ UNCHANGED exists
  /\ UNCHANGED <<lockVars, outlived>>

\* File p is written or removed by a command, as it declared or not.
Written(p, declared) ==
  /\ \E there \in BOOLEAN : exists' = [exists EXCEPT ![p] = there]
  /\ call' = Aged(p, declared)
  /\ UNCHANGED <<lockVars, outlived>>

\* A bash command that holds its grant writes or removes a file; only an audit
\* of the modification times tells whether it had declared it.
BashWrites(w, p) ==
  /\ grant[w] = "owning" /\ call[w].tool = "bash"
  /\ Written(p, p \in Footprint(w))

\* The tool returns, having released what it held.  Of a command only the shell is
\* terminated and waited for: what the shell has started may go on.
Return(w) ==
  /\ Release(w)
  /\ call[w].tool = "bash" \/ call[w].stage = "done"
  /\ call' = [call EXCEPT ![w] = NoCall]
  /\ \/ outlived' = outlived
     \/ call[w].tool = "bash" /\ outlived' = TRUE
  /\ UNCHANGED exists

\* Such processes write without any lock, whatever the command had declared, and end.
StrayWrites(p) == outlived /\ Written(p, FALSE)
StraysEnd == outlived' = FALSE /\ UNCHANGED <<lockVars, exists, call>>

WriterStep(w) == LetIn(w) \/ CheckHash(w) \/ Commit(w) \/ Return(w)

Next ==
  \/ \E w \in Writers :
       \/ \E p \in Paths : WriteFile(w, p) \/ BashWrites(w, p)
       \/ \E r \in Requests : Bash(w, r)
       \/ WriterStep(w) \/ CallFails(w) \/ Interrupt(w)
  \/ \E p \in Paths : StrayWrites(p)
  \/ StraysEnd

\* A thread goes on: commands end after 120 seconds at most, and a waiter polls.
Fairness == \A w \in Writers : /\ WF_vars(LetIn(w))
                               /\ WF_vars(CheckHash(w)) /\ WF_vars(Commit(w))
                               /\ WF_vars(Return(w))

Spec == Init /\ [][Next]_vars /\ Fairness

-----------------------------------------------------------------------------
TypeOK ==
  /\ LockTypeOK
  /\ exists \in [Paths -> BOOLEAN]
  /\ call \in [Writers -> CallRec]
  /\ outlived \in BOOLEAN

\* Between the check of the hash and the replacement of the file nobody else
\* changes it, neither another tool nor a command, unless a command wrote what
\* it had not declared, or a process wrote that had outlived its command
\* ("overtaken").  So a sub-agent or a member overwrites exactly what it read:
\* run_write and run_edit check inside of the lock for this.
NoLostUpdate ==
  \A w \in Writers :
    LET c == call[w] IN
    c.stage = "checked" =>
      /\ c.expected # "old"
      /\ c.expected = "current" => exists[c.path]
      /\ c.expected = "none" /\ w \in HashWriters => ~exists[c.path]

\* First come, first served with overlapping requests leaves nobody waiting for
\* ever, in whatever order paths and global requests arrive; only a request that
\* an interrupt left in the queue can hold others up.
EveryRequestServed ==
  \A w \in Writers :
    grant[w] = "waiting" ~> (grant[w] # "waiting" \/ \E v \in Writers : grant[v] = "abandoned")
===============================================================================

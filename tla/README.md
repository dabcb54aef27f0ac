# Verification of gugugaga-Agent

gugugaga-Agent is a multi-agent runtime: a *Lead* agent that talks to the user, persistent *team
members* with worker threads of their own, short-lived *sub-agents*, a durable store of tasks, file
mailboxes between agents, and a long-term memory in SQLite. Almost every part is called from several
threads, keeps its state in files, and is expected to survive a crash. This directory holds TLA+ models of
those parts, the TLC configurations that check them on small instances, and proofs checked by TLAPS.

    tlc -workers 2 -config MCTaskStoreTasks.cfg MCTaskStore
    tlapm TaskStoreProofs.tla

`PROJECT.json` lists, in machine-readable form, the components, the runs, the source lines of every
definition, the mutants that show that each property can fail, the hazards and the theorems.

## 1. Inventory

Paths are below `src/gugugaga/`. *Status* says where it is modelled.

| Part | State | Operations | Hard behaviour | Correct when | Status |
|---|---|---|---|---|---|
| Task store (`tasks.py`, `stateio.py`) | a JSON file per task: status, owner, assignee, `blockedBy`, match and its revision; locks per task, per queue, one for the graph | create, update, match, rematch, assign, unassign, claim, complete, interrupt, mismatch, release, delete | read-modify-write by threads of which only some hold the lock; claims scan without locks; crash between completion and rematch | one running task per member; a member executes what it owns; what runs has its dependencies done; the graph stays acyclic; a stale match does not stick | `TaskStore` |
| Queue order (`tasks.py`) | `queue_position` of queued tasks | create queued, move, renumber | two locks for one order | positions of a queue are distinct | not modelled |
| Message bus (`teams.py`, `MessageBus`) | mailbox file, in-flight batches, dead letters | send, claim, ack, nack, recover | crash between two file operations; batches of two readers | no message lost, none handled twice but for a crash | `Mailbox`, `MessageBus` |
| Lead's inbox (`teams.py`, `agent.py`, `__main__.py`, `web.py`) | wake event, batch of the turn, notices of matching requests | wake, recovery and claim at the start of a turn or in `check_inbox`, ack, nack | lost wake-ups, failed turns, requests raised again in between, crashes within a recovery | whatever wakes the Lead is handled | `LeadInbox` |
| Team members (`teams.py`) | registry by name: thread, stop event, status, pending reload; work state of the thread; plan requests | spawn, idle poll, burst, stop, edit, reload, delete, plan, close, restart | a thread and its name are not the same thing; decisions taken outside of locks; timeouts of plans | each running worker can be stopped; outdated workers are marked; a plan that counts as approved is | `TeamMember` |
| Memory: facts and conflicts (`memory/repository.py`, `memory/service.py`) | tables `facts`, `memory_conflicts` | save a note, commit a batch, resolve, update, forget | reviews by a model outside of transactions; decisions that move the anchors of others | one holder per content; what is disputed is not active; every conflict can be decided | `MemoryConflicts` |
| Memory: consolidation (same files) | consolidation columns of `chat_log`, `consolidation_batches`, worker threads | complete an exchange, recover, claim, commit, release, retry, start, close | a lease that ends while a model runs; the worker of a closed service beside the next; crash | no exchange becomes memory twice or waits for ever; a batch's rows and exchanges agree | `Consolidation` |
| Memory: vector index (same files) | `memory_index_outbox`, `memory_embeddings`, hot window | triggers, prepare, claim, complete, fail, retry, reconcile | a fact changes while its vector is computed; attempts at their limit | what is synced is so; an entry ends | `VectorIndex` |
| Memory: retrieval, validation | none | score, redact, validate | | | pure, not modelled |
| Sub-agents (`subagents.py`) | job table with state, deadline, timer, permission request; a thread per running job; pending updates | spawn, dispatch, review of permissions, mutation events, timeout with grace, cancel, collect, barrier, shutdown | five kinds of threads set a job's state; timeout against a write; barrier against the end of a job | what is announced as ended is over; a write's grace is its last act; the barrier leaves nothing behind; every job ends | `Subagents` |
| Mutation lock (`mutations.py`), file tools (`workspace.py`) | owners of paths, global owner, queue; the files and what a writer read of them | acquire, give up, release; read, write, edit, bash | first come first served with overlapping requests; an interrupted waiter; commands that write what they did not declare | exclusion; nobody waits for ever; nothing is overwritten that its writer has not read | `WriteExclusion`, `MutationLock`, `Workspace` |
| Interactions (`interactions.py`) | items on disk, phase, cancel event | submit, consume, update, set phase, reload | phase read outside of the lock; a stop between two turns | nothing submitted is stranded; a stop ends the turn it finds | `Interactions` |
| Agent runtime (`agent.py`, `recovery.py`) | the turn, its retries, its batch of mail, its sub-agents | user, queue and inbox turns; provider call, recovery, tools, barrier | order of claims, interventions and barrier; exceptions anywhere | a turn leaves nothing at work that was not told to stop | `AgentLoop` |
| Context (`context_modes.py`, `context.py`) | raw history, projection and what it stands for, mode | prepare, compact by hand, recover, replace or resume a session | projections of projections, budgets at the ends of a history, failures in between | a request stands for the whole history, keeps calls and results together, and ends with the newest message | `Context` |
| Background commands (`background.py`) | records by number, threads, cancel events | start, end, collect, shutdown, initialise | threads that outlive a close; numbers start anew | a result is that of the command | `Background` |
| Cron (`cron.py`) | jobs, queue, durable file | schedule, cancel, pass, save, consume, load | the file is written with and without the lock | a cancelled job stays cancelled; what fired is taken | `Cron` |
| Web console, command line (`web.py`, `__main__.py`) | the application, the runtime it builds and closes | calls of the parts above | rebuild of the runtime, loops that die | | where the call lands: `Services`, `LeadInbox`, `AgentLoop` |
| Provider, tools, permissions, hooks, planning, skills, prompts, web search, configuration, evaluation, `eval/` | see `PROJECT.json` | | single-threaded or pure I/O | | not modelled |

How the parts meet: the Lead and the Web console call the task store and the registry of team members;
an assignment writes the record, then a mailbox, then the registry. A member's worker polls its mailbox
and the store. Members and the store's matching requests reach the Lead by its mailbox and its
wake event; sub-agents by the notes of their manager, which a turn of the Lead collects at the top of its loop and waits for
at its barrier. The Lead, its sub-agents, members and background commands write the same workspace under the mutation lock. Memory is fed by the recording of turns and by `save_note`. The parts share three locks that
matter here: `_teammate_lock` (the registry, and the whole of an assignment and of a mismatch report),
the lifecycle lock (registration to start of a thread, and a deletion) and the file locks of the store.

## 2. Modules

### TaskStore

One thread is a member's worker or a client (a tool of the Lead, a request of the Web console). Reading a
record and writing it back are separate steps, as in the code: the first stages the new record in `op[p]`
with the file locks held, `Publish` and its kin write it. `complete_task`, `interrupt_task`,
`report_task_mismatch` and `append_task_intervention` hold no task lock (`tasks.py` says why: only the
serial worker of the owner calls them), so a client's write may land between. `work` is what a worker takes
itself to be executing, `current` what the registry shows; they differ from the record and from each other
for the length of an operation, which is what the interesting properties are about. `thread` says whether the worker's thread
is listed as online, which is all that the release by hand asks of it.

The release is the longest operation of a client, and the only one that looks at four places one after the other: the Web console reads the record
(`ReleaseTask`), lists the tasks for the current task of its owner (`ListTasks`: `list_teammate_states` takes it from the store's running records,
not from what the registry shows), looks whether the owner is online (`LookOnline`), and calls `release_task`, which compares the record with the one that was read (`CompareRelease`) and
writes it. An assignment holds `_teammate_lock` from its look at the member to its end or rollback, and a claim begins with this lock (`Assigns`); the registration of an
assignment goes through whatever became of the record, and its rollback raises if the record has other plans by now. `Ready`, `CycleFrom`
and `HasCycle` say what `find_dependency_cycle` computes without its traversal (and without recursion, so
that the module can be proved about). `Crash` drops every thread and lock and keeps the files.
An assignment's failed notice is `RollbackAssign`, with its own failures.

Four history variables are only read by properties. `overtaken`: tasks whose owner was started while a release of them was on its way.
Such an owner may have given the task back and claimed it once more, and its record is then what it was, so that neither the look at the owner nor the comparison notices;
the properties that depend on it are claimed while `overtaken` is empty (`NotOvertaken`), and section 3 says what happens beyond it. `misreleased`: tasks that a manual release took from a
worker that was executing them; that there are none (`ReleaseAfterStop`) is a theorem under `NotOvertaken`. `torn`: tasks whose completion was written and
whose scan for what it unblocked died with the process. `verdict`: how a match that found no candidate
stands to the context it was decided in.

### Mailbox, MessageBus and LeadInbox

`MessageBus` is the mailbox as files; its actions constrain the mailbox only and are conjoined by the modules
that extend it. (`WellFormed`, the lines of a batch that can be parsed, is a recursive function and not a filter of the library, so that
what it returns can be proved.) What the code does by several file operations is split where a crash can come between. A nack writes the mailbox and then
unlinks the batch (`NackWrite`, `NackUnlink`). What a crash left behind is found by the next claim. A member claims such a file as it is (`ClaimInbox`). The
Lead reads and removes all of them, one file after the other (`CollectLeft`), writes them behind its inbox (`WriteRecovered`) and claims the inbox (`ClaimRecovered`): in between
they are in the memory of the claim (`recovered`) and in no file, and a crash then loses them (`lost`). Neither operation can be divided by another, for they hold the mailbox's lock.

`LeadInbox` adds the sender, the event, the loop that starts turns for the inbox, the turn and its `check_inbox` (claim, routing, the matching requests, acknowledgement of mail, comparison and
acknowledgement of each request, signal), failure of the turn or of the routing, and crash. The records of the matching requests are
reduced to what the inbox reads and writes. A batch that `start_turn` leaves claimed by raising is left out (section 3, disagreements).

`Mailbox` is what a mailbox promises, without its files: a message waits, then one reader has it until the reader acknowledges or
returns it or the process dies. `ImplementsMailbox` is the refinement, in `LeadInbox` and in `TeamMember`. What waits (`Waiting`) is
the inbox, the batches left behind by a crash and what a claim has collected of them; what a reader has (`Taken`) is its batch, unless it is being
returned: the first step of a nack already is `Return`, its second step `Returned`. What waits since the process died (`left`) is lost only if the process dies once more before it was found. `doubled` are the messages
that were being returned when the process died, which a reader may get twice. For the Lead this is mapped to nothing: it claims all there is as one batch.

### TeamMember

One name of the registry and the threads that run under it, one after the other. A critical section of
`_teammate_lock` is one step; the labels of a worker's `pc` are the places between them. `MessageBus` is
its mailbox. A batch whose handling raises is returned by `consume` and ends the worker (`MailFails`, `Unlink`): which messages may raise is `MayRaise`; a record
that cannot be read right after it was claimed is left out. Its task is what the member sees of one record: `TaskStore` splits the operations on it, here a
claim is a single step, so that the two modules divide the interleavings between them instead of repeating
them. `IDLE_TIMEOUT` is `None` in the code, and there is no timeout of the poll.

History: `missed` are workers that `stop_all_teammates` took for dead because their thread was registered
but not started. After `Reopen` (the Web console rebuilds the runtime in the same process) such a worker
runs without an entry of its own, so the properties of the registry are claimed when `missed` is empty. `stranded`
marks the rollback of an assignment that gave a task back to a member that was being deleted. `unseen` are
messages that were acknowledged and neither acted upon nor shown to the model, `told` plans a worker was told
were approved.

### MemoryConflicts

One transaction of the repository is one step on `db`. A review is a snapshot (`seen`), held while the model
runs; saving compares it with the store once more, as `_check_review_unlocked` does, and a note is reviewed once
more before it fails. `Open`, `Add`, `Rebase`, `Close`, `Release` are the helpers of `resolve_conflict` and are
composed in its order. A snapshot has the `MaxShown` most similar facts at most (20 in the code), any of those that are similar. What the model answers is any set of the facts it was shown (`Found`), which
is what the code accepts; `overlooked` remembers the pairs that were not compared because others came first. A fact's content never changes, so the anchor's hash of a conflict is a function
of its anchor. Episodes, the search index and leases are not here.

### Consolidation and VectorIndex

`ConsolidationTables` and `IndexTables` hold the tables, what a row may be, and what must hold of them; `Consolidation` and `VectorIndex` the workers that
change them. The two things the memory service's worker thread does in a round, each with the tables of its own. A method of the
repository is one transaction, and one step; between the claim and the end of a batch, or of a set of index jobs, a model
is at work and only a lease protects the claim. `Start` and `Close` are the life of a `MemoryService`: `close` waits a second at
most, so the worker of a closed service may go on beside that of the next one. The two rows of an exchange change together
(every statement names the turn or the batch) and are one record. Times are reduced to what is compared with the clock: a lease
`running`, `expired` or NULL, a retry `due` or not. `reconcile_evidence_lifecycle` is `Reconcile` with any hot window.
An entry of the outbox is replaced by the triggers as a whole (`Fresh`), also while a worker carries a job of it; `Operation` is what a claim makes
of it then. `MaxAttempts` is 3 in the code.

History: `saved` counts how often an exchange's content was committed. `reset` marks the batches whose exchanges were taken back by
`claim_oldest_batch`, `contended` the keys two workers had jobs for at once. Properties make an exception for each of the two; section 3 says why.

### WriteExclusion, MutationLock, Workspace

`MutationLock` is the coordinator: requests in the order of their arrival, the two tables of owners, and `acquire` in its
outcomes (served, given up when cancelled or past its deadline, left in the queue by a `KeyboardInterrupt`). Its regions run under
one condition variable and are one step each. `WriteExclusion` is what it promises, in one variable: the set of files each writer
may change now. `MutationLock!Footprint` computes it from the tables, and `ImplementsExclusion` is the refinement. `Workspace` adds
the tools: a read takes no lock, `write_file` and `edit_file` check the hash they were given and replace the file inside of the
lock, a command writes whatever it likes while it holds what it declared. Of a command that was cancelled, timed out or has returned, only the shell is terminated and waited for: `outlived` says that a process it has
started may still be there, which writes what it likes without a lock (`StrayWrites`) until it ends. Of a content only whether it is
what a writer has read is kept, which is what a SHA-256 tells.

### Subagents

The manager's table and one worker thread for each job, on the same `MutationLock`. `pc` says between which two regions of the
manager's lock a worker is: a round of the model, the gate of a permission, the human, a tool, the wait for the lock, the write,
the three steps of its end. Timers fire in threads of their own. The parent is one thread (`ParentFree`): while it reviews a
permission it does nothing else, and the barrier is two steps because the code takes the lock twice. `late` is history: the jobs that ended
between these two.

### Interactions and AgentLoop

`Interactions` is the broker for the target `main`; `submit` is two steps, since the phase is read before the item is stored.
`AgentLoop` is the thread that holds `_lead_turn_lock`: turns for the user, for what the user queued and for the inbox, and the loop of provider
calls, tools and interventions in them. `jobs` is what the barrier of `Subagents` tells the loop, `batch` the mail of `LeadInbox` that the
turn holds. A turn that ends by a stop, an error or an exception tells its sub-agents to stop (`cancel_turn`) and does not wait for them: `lingering` says that some still work, possibly beside the next turn.
An exception may come anywhere (`StartFails`, `Raises`, `SettleFails`), also between the consumption of interventions and the update of the last of them; `torn` remembers the items a turn
held then. What the broker's file has of them is not followed: a restart may find any of their earlier states. A write of that file that fails within `submit` is left out.

### Context

A message is a kind and a cost. `history` only grows within a session; `projection` stands for its first `seen` messages, as pieces that are
messages or markers (a marker is a summary or a snip, and says which interval it stands for). `PrepareCC`, `PrepareHermes`,
`PreparePi` and `Recovered` return the outcomes an attempt may have: what it leaves of the projection, and whether a request can be sent. The result of
a summary is its cost; a malformed summary leaves everything as it was. `disk` says whether files can be written, and changes at any time: without it nothing is summarised, in cc and hermes a recovery raises before it has
changed anything, and so does a cc request with a result so large that it goes to a file (`PersistFails`). In pi the entries of the session file are reduced to the
markers of the last one. A resumed session starts from the texts of the chat log (`Dialogue`), a rebuilt runtime from the whole raw history with its calls and results and its mode (`ReplaceSession`).

### Background, Cron, Services

`Background` and `Cron` are the two services a runtime starts beside its turns; `Services` composes them with the Lead that collects from both, the
loop that starts a turn for what cron has queued, and the life of a runtime: built, closed, built again in the same process
(the Web console does this when the configuration changes), or crashed. A close comes between turns: that the Web console's wait for a turn of the inbox is timed, and may end before the turn does, is left out. Threads of a closed runtime may go on; the next is not built while one does. `save_durable_jobs` is one step in the scheduler, which
holds `cron_lock`, and two in a tool, which does not. What must hold of the records of commands, and of the jobs, is stated in the modules that keep them. `of` and `by` of a background record are history: whose command it is, and whose thread wrote it.

## 3. Runs

Constants in the cfg are the bounds. Passing runs finish; each property has a mutant of the code that it catches.

| Run | Instance | Checks |
|---|---|---|
| `store_tasks` | 2 tasks, 1 member, 2 clients, revision 2, 1 crash; one client at a time after it, and during a release | `RunningReady`, `AcyclicDependencies`, `OneTaskPerOwner`, `NoStaleEmptyMatch` |
| `store_handover` | 1 task, 2 members, 2 clients, revision 3, 1 crash | `ExecutesWhatItOwns`, `OwnerHandsOver` |
| `lead_inbox` | 2 messages, one malformed, 1 task, revision 2, 1 failed turn, 2 crashes | `DeliveredOnce`, `UnresolvedStaysPending`, `ImplementsMailbox`, `WakingMailHandled` |
| `team_member` | 2 worker threads, 2 of 3 messages, 2 plans, 1 edit, 2 events | `EveryWorkerReached`, `KnownAssignee`, `ApprovedMeansApproved`, `ImplementsMailbox`, `StoppedWorkerEnds` |
| `memory_conflicts` | 3 contents, 4 facts, 3 conflicts, 2 reviews that show 1 fact each | `OneHolder`, `QuarantineAgrees`, `FoundIsDecidable`, `ActiveTogetherCompared`, `KeptStaysKept` |
| `consolidation` | 3 exchanges, batches of 2, 3 services in a row, 2 failures, 1 crash | `SavedOnce`, `BatchAgrees`, `BacklogDrains` |
| `vector_index` | 1 fact, 1 line of chat, 2 services, 2 attempts, 1 failure, 1 change, 1 crash | `SyncedIsTrue`, `JobsEndUnlessStuck` |
| `workspace` | 3 writers (the Lead and 2 sub-agents), 2 files, every request, processes that outlive their command | `NoLostUpdate`, `ImplementsExclusion`, `EveryRequestServed` |
| `subagents` | 2 jobs, 1 at a time, another writer of their file | `OutcomeIsTrue`, `GraceIsFinal`, `BarrierHolds`, `EveryJobEnds` |
| `agent_turns` | 2 interventions, 1 retry, 1 exception or crash | `TurnLeavesNothing`, `StopEndsTurn`, `EveryItemServed` |
| `context` | 8 messages, results of 2 sizes, summaries of 2 sizes, a disk that fails and recovers, every limit reached within 8 | `HistoryCovered`, `OnlySummariesFail` |
| `services` | 2 runtimes with 2 commands each, a one-shot and a recurring durable job | `ResultOfItsCommand`, `CancelSticks`, `FiredIsTaken` |

Why these bounds: two tasks make a cycle and a dependency, two clients an edit against an edit or a release;
two members are what a change of owner needs. A crash between any two steps, and one failure of a turn,
reach every recovery path; only in the Lead's mailbox does a second crash find what the first one cannot (a recovery at work), and `lead_inbox` has two. Two threads are the old and the new worker of one
name, and two events any pair of a stop, an edit, a deletion, a closing, a crash, a reassignment and a plan. Three
contents let a conflict have an anchor, a candidate and one more fact that is disputed with both. Three exchanges and batches of
two make a second batch that shares an exchange with the first; five batches are as many as two failures and a crash can use up.
For the index, one change after an insertion is the pair that makes a job old, and two attempts have a first and a last.
Three writers and two files make a chain: one owns a file, one waits for both, one could overtake it. Two jobs with room for one have a queue, and the
other writer makes a job wait for the lock. Two interventions have an order and a priority. Eight messages are two turns
with calls and several compactions on top of each other; the limits are scaled so that every one of them is reached and exceeded (they are
constants of the theorems, where the bound on messages plays no part). Two runtimes are a closed one and the next, and the second command is the one whose number could be mixed up.
A review that shows one fact leaves a second related one out; with 20 it would take 21 facts to see this. Two exceptions or
crashes, the second in the turn that follows the first, were checked aside with one intervention, and a third revision of a request with one message and one crash.
In the two store runs `NotOvertaken` is also a CONSTRAINT: their properties assume it, and the states beyond it need not be visited. `OneClient` of `store_tasks` bounds what two
clients do at once: edits, matches, assignments and deletions, but not a release, which `store_handover` has beside every other operation on its task. The cfg for
`ReleaseAfterStop` has no CONSTRAINT. Deadlock is not checked: the systems may rest (nothing to do) and the bounds stop them in the end.

Fairness. `LeadInbox`: the threads go on (weak fairness of the steps of each thread, as the operating system's scheduler gives),
and the acknowledgement of a turn has strong fairness, which says that a turn does not call `check_inbox` for
ever; `agent_loop` has no bound on rounds, so this is asked of the model that answers. Users, senders and failures are not fair.
`TeamMember`: weak fairness of the steps of a running worker (the provider answers or raises), and of the operations that hold a lock.
`Consolidation` and `VectorIndex`: weak fairness of the worker's steps (it wakes once a second, and its calls have timeouts), of retries that fall
due, and of leases, in `Consolidation` only of those whose worker is gone. Liveness is claimed if from some time on there is a service that is not closed
and whose thread lives; a thread that a database error ends is not modelled.
`Workspace`: weak fairness of each writer's next step; a command ends after 120 seconds, and a waiter polls every tenth of a second.
`Subagents`: weak fairness of workers (calls to the provider and tools have timeouts), of the deadline, of timers and of the other writer's release.
The human's answer is a step of the worker and fair: the Web console denies what nobody answers, at once when the job is cancelled, otherwise after 120 seconds (`permissions.py:92-113`).
At the command line the question waits for as long as it takes (`__main__.py:555`), and `EveryJobEnds` says nothing of a user who never answers there.
The parent has no fairness: a permission that the parent does not review ends by the deadline.
`AgentLoop`: weak fairness of a turn's next step, and strong fairness of the user's next turn, of which `EveryItemServed` is a consequence: what was
queued too late for one turn waits for the next one. That turns end at all (a model may ask for tools for ever) is a premise of the property, not an assumption of the specification.
`Services`: weak fairness of the autorun loop, which looks once a second. `Context` claims no liveness.

### Disagreements

What a comment, a docstring or the README of the repository says of the code, and the code does not do. For those of the table a cfg
ends in a counterexample for the property named (these are beside the runs), for example

    tlc -workers 2 -config MCTaskStoreRelease.cfg MCTaskStore

| cfg | Property | What happens |
|---|---|---|
| `MCLeadInboxLoss` | `AtLeastOnce` | `README.md:487`, 494: handled at least once; what was left behind is recovered at the start. Each claim of the Lead reads and removes all that was left behind and only then writes it into the inbox (`teams.py:216-222`). If the process dies in between, messages that were sent, and never handled, are in no file. It takes two deaths: one that leaves a batch, and one within the recovery |
| `MCTaskStoreRelease` | `ReleaseAfterStop` | `tasks.py:661`: "Manually release abandoned work after its worker has stopped." The Web console looks whether the owner is online (`web.py:1687-1700`) and calls `release_task` afterwards, which compares the record with the one read before. An owner that is being stopped gives its task back as its reservation and leaves, and is offline when it is looked at; started again, it claims the task before the comparison. The record then equals the one read before (a record has no time or number of its claim), and the owner loses the task it executes |
| `MCTaskStoreStaleMatch` | `StaleContextRejected` | `tasks.py:781-783`: the rematch after a completion rejects in-flight results of the old context, and confirmed matches remain valid. A match that found nobody, decided before a dependency was complete, replaces candidates confirmed for the same revision; the completion's rematch has been skipped by then, and the task waits, matched to nobody |
| `MCTeamMemberReload` | `ReloadHappens` | `README.md:275`, `teams.py:820`: a running member enters the safe reload after its configuration was saved. An edit that falls between a worker's look at the reloads (2516) and its being idle (864) leaves it idle, outdated and refusing tasks (1020) |
| `MCTeamMemberMail` | `MailSeen` | `README.md:487-492`: at-least-once, acknowledged after processing. An idle member that finds a message and an assignment in one batch acknowledges both and acts on the assignment (`teams.py:1648-1716`) |
| `MCMemoryConflictsReopened` | `Decidable` | `repository.py:1135-1137`: an earlier comparison is reopened visibly, for another review. A decision for the user's own words may supersede the very fact the reopened conflict is about (1185-1191): it stays pending, and any decision on it is refused as stale (1116) |
| `MCMemoryConflictsLimit` | `EveryPairCompared` | `README.md:720`: a save checks what it is about to add against the related old memories. The review shows the model the 20 most similar only, and the save compares those (`repository.py:904`, 921, `service.py:316`, 348); a fact beyond them becomes valid beside the new one unseen |

Other disagreements met while modelling have no run of their own. Where a property above would hit one, it makes an exception by name.

*Tasks, members and mail*

- The README counts ordinary messages among those that wake an idle Lead; `MessageBus.send` sets the event for the types of
  `_LEAD_WAKE_MESSAGE_TYPES` only, and an ordinary message waits for whatever starts the next turn (`Waking` in `WakingMailHandled`).
- `start_turn` (`agent.py:265`) runs after the Lead's batch was claimed and outside of the `try` that gives it back (README, "NACK"): if it raises, the
  mail stays claimed until the next start (`StartFails` in `AgentLoop`; `LeadInbox` leaves this failure out).

*Files*

- A command that is cancelled or exceeds its 120 seconds releases its lock when its shell has ended; processes the shell has started may go on writing
  (`workspace.py:119`, `outlived` in `NoLostUpdate`).

*Memory*

- The README says that whoever takes an expired batch back marks it `failed / lease_expired`. `recover_expired_leases` does;
  `claim_oldest_batch` takes the exchanges and leaves the batch `processing` for ever if its worker is gone (`reset` in `BatchAgrees`).
- The README says that an index entry is tried three times, then `failed`, until an explicit retry. An entry whose lease
  ends during its last attempt is `pending` or `processing` with no attempt left: no claim takes it, `retry_failed_index_jobs` looks for `failed` only, and the
  console shows `indexing` (`Stuck` in `JobsEndUnlessStuck`). A restart queues it anew only if its vector is missing.
- After the Web console replaced the memory service, the old worker may end an `upsert` it claimed before a fact or an exchange was retired, after the new one carried out
  the `delete` (`contended` in `SyncedIsTrue`).

*Sub-agents*

- The barrier promises that every result is seen before the turn ends. A job that ends between its collection and its look for active
  jobs (`subagents.py:1127`) is neither collected nor active; its result waits for the next turn (`late` in `BarrierHolds`).
- A deadline that `_raise_if_cancelled` notices before the timer does sets the event and no reason: the job shows `cancelled`, not `timed_out`.
- The events of the mutation lock set the state whatever it was: over a cancellation in progress, "writing" is shown, and the timer of such a job may
  grant it a grace. The command of a bash call computes its own deadline once and never learns of a grace.

*Turns and interventions*

- A turn that is stopped or fails tells its sub-agents to stop and does not wait for them (`agent.py:604`, `subagents.py:1025-1038`); they may still work beside the next turn (`lingering` in `TurnLeavesNothing`).
- An exception between the consumption of interventions and the update of the last of them leaves some *injecting* (`agent.py:476-489`, `torn` in `TurnLeavesNothing`).
- A queued item stored after the last look at the queue, or during a turn for the inbox, waits for the user's next turn (`README.md:534` has it start
  when the turn ends); this is why `EveryItemServed` needs fair users.
- A stop submitted to an idle Lead leaves the cancel event set and stops the next turn for the inbox. A stop that comes late in a turn stops the next queued
  one, whose item is marked as completed. A second stop stays pending (`EveryItemServed` is not about stops). The phase reads "stopped" while the queued turn starts.
- `cron_autorun_loop` ends with the first turn that raises (`autorun` in `FiredIsTaken`).

*Context*

- A response cut off after a tool call (`agent.py:783-797`), or a tool that raises (`agent.py:1071`), leaves a call without results in the history. From then on
  `prepare_request` and `reactive_recover` refuse it (`context_modes.py:946`) until it is older than the messages a recovery keeps; in pi no cut is legal ever again.
  `agent.py:747` asks the user to retry the turn, which cannot succeed. `LeavesCall` makes such histories; `OnlySummariesFail` is about the others, `HistoryCovered` about all.
- A recovery after an overflow does not look whether what it rebuilt is smaller than what was refused.

*Background and cron*

- A `PostToolUse` hook that raises leaves the record of a background command "running" for ever, and nothing is reported (`background.py:110`).
- `save_durable_jobs` of a tool may write a copy taken before the scheduler removed a one-shot job: the job is back after a restart. A crash after
  a one-shot job was queued loses it (`cron.py:187`). The file is written in place; cut off, it is read as empty. `_last_fired` is
  not kept, so that a recurring job may fire twice in a minute with a restart in it. The Web console starts no autorun loop.

## 4. Proofs

Checked by TLAPS, each for every value of the constants that the named assumptions allow (sets may be infinite, bounds have any value).

**TaskStoreProofs**, under `ConstantsAssumption`:

- `TypeCorrect`: `Spec => []TypeOK`. `TypeOK` is inductive. The actions are grouped by their effect (stage an operation,
  publish one, complete, crash), with a lemma for each group.
- `OneRunningTask`: `Spec => []OneTaskPerOwner` (under `NotOvertaken`, like what follows: a note looks only whether the task runs, and not whose it is). This is not inductive, for a claim in flight owns nothing in the store yet. The
  inductive invariant `OwnerInv` is `TypeOK`, `HoldsOne` (a member owns *or is about to write itself as the owner of* one task at most)
  and `WritesOwn` (a staged record that makes a task run is a claim of the owner itself, or a note on the task it already owns). It says exactly why
  the scan without locks is enough: a member's claims are made by its one worker, and no other operation ever writes a
  running record with another owner. `LaunchOwner` and `WriteOwner` state this for a staging and for a write; every action is an instance.
- `WorkersOwn`, `RunsWhenReady`, `NoCycles` and `HandsOver` (`ExecutesWhatItOwns`, `RunningReady`, `AcyclicDependencies`, `OwnerHandsOver`). `StoreInv` is the types, `LocksTrue` (no two
  threads hold one lock) and, as long as no release by hand took a task from under a worker (`ReleaseAfterStop`), `OwnerInv` and `FileInv`: what an operation in flight has read and is about to write still fits the file (`OpTrue`), a worker owns what it works on, what runs is ready, and
  the edges have no cycle. `OpTrue` says for each kind of operation what its locks protect; the kinds that hold no task lock are the owner's own. The lemmas on cycles say that fewer edges have no more cycles, and that a new cycle goes through the task whose edges are new (`FewerEdges`, `NewCycle`), which is where the code looks for one.
- `ReleasesAbandoned`: `Spec => [](NotOvertaken => ReleaseAfterStop)`, which discharges the condition of `StoreInv`. `AbandonInv` adds what the four steps of a release know (`Abandoned`): since the record was read its owner runs the task as it did then (`Kept`), or
  will not run it so again before it is started anew (`Lost`: the task is done or at a later revision, the thread is gone, or is stopping and has let go of it). The list of tasks and the look at the thread exclude the first, and a record that is equal under the lock then
  has an owner without a thread. Each action moves a record and a thread only as `FileMoves` and `ThreadMoves` say, and these keep `Abandoned`.
- `StaleMatchRepeated` (`NoStaleEmptyMatch`): `MatchInv` adds how what is in flight stands to the revision of its task (`MatchFits`), and that a ready task whose match was, or is to be, decided in a context
  that was not ready (`Parked`) is still seen by the scan of a completion.

**WorkspaceProofs**, under `NoneAssumption`, `PathsAssumption`, `HashWritersAssumption`:

- `LockImplementsExclusion` and `WorkspaceExclusion`: the lock, alone and under the tools, implements `WriteExclusion!Spec`. The lock's invariant is `LockTypeOK` with `TablesTrue`
  (the two tables say who was granted what); from it, a grant maps to `Begin` with files nobody has, a release to `End`, and every other step to a stutter. The order of
  the queue plays no part in exclusion.
- `WorkspaceNoLostUpdate`: `Spec => []NoLostUpdate`. Inductive with what the lock guarantees: a writer that has checked a hash still owns the file, and by exclusion
  no other step changes it but an undeclared write, or one of a process that outlived its command; both are remembered (`overtaken`). `WorkspaceTypes` gives the types.

**SubagentsProofs**, under `BoundsAssumption`, `AskedAssumption`, `JobsAssumption` and `NoneAssumption`:

- `JobsUseLock`: `Spec => LockSpec`, so that what is proved of the lock alone holds under the sub-agents too. `SubagentTypes` gives the types.
- `EndedMeansIdle`, `OneWriteOfGrace`, `NothingLeftBehind` (`OutcomeIsTrue`, `GraceIsFinal`, `BarrierHolds`). `JobInv` says of each job how its state, its place, its events, its timer and the lock fit together
  (`JobsTrue`), and of the parent at its barrier that whatever ended undelivered ended between its two looks, and that nobody is at work after it (`BarrierTrue`). The events of the mutation lock may set a state over another; the
  place of the worker, and not the state, is what the invariant hangs on.

**TeamProofs**, under `MailboxAssumption` and `MemberAssumption`:

- `WorkersReached`, `AssigneeKnown`, `PlansApproved` (`EveryWorkerReached`, `KnownAssignee`, `ApprovedMeansApproved`), and `MemberTypes`. `MemberInv` is the types with
  `EntriesTrue` (the entries of the registry are those of the one worker that has not removed them yet, also before its thread has started and after it was told to stop), `ProfilesTrue` (a worker that starts has the
  profile of the registry; one that runs has it, or is marked, stopped or caught by a closing), and `TasksTrue` (a bound task has a member, and nothing binds one once a deletion has looked).
  The steps of a worker are grouped by what they leave alone (`GoesOn`).
- `MemberMailboxKept`: `Spec => ImplementsMailbox`. The invariant `MailInv` says that the files are apart (`FilesApart`): a message that was sent is in one file at most, a batch of
  one worker is not that of another, two batches left behind share nothing; only a batch that is being returned is in the inbox as well, until its file is removed, and one worker at a time returns one. So a claim takes nothing that
  stays behind; a crash leaves twice only what was being returned (`doubled`), and loses nothing.

**MemoryProofs**. Of `MemoryConflicts`, under `ConflictsAssumption`:

- `ContentHeldOnce`, `QuarantineHolds`, `ConflictsDecidable`, `SideBySideCompared` and, of every step, `EarlierDecisionsStay` (`OneHolder`, `QuarantineAgrees`, `FoundIsDecidable`, `ActiveTogetherCompared`,
  `KeptStaysKept`), and `MemoryTypes`. A transaction is a composition of the helpers of `resolve_conflict`, and one predicate on the tables, `Sound`, is preserved by each: types, one holder of a content, the conflicts of what is in quarantine
  and the quarantine of what is in conflict, that a pending conflict found anew has its anchor or what took its place. While a decision is under way
  parts of it are broken on purpose; the lemmas carry what is missing from one helper to the next. `Known` says that related facts that are valid together were judged, or were left out because a review was shown as many as it may be (`Vetted`). The limit has any value.

Of `VectorIndex`, an instance over `IndexTables`, under `IndexAssumption`:

- `SyncedMeansSynced` (`SyncedIsTrue`): `EntryTrue` says of each key that nobody contends for what its entry says, given its status, its operation and the jobs that workers carry of it.
  The proof needs nothing from the bounds: the number of services, attempts and changes is any. It also showed that the property holds while a worker still carries a job.

Of `Consolidation`, an instance over `ConsolidationTables`, under `ExchangesAssumption`:

- `ExchangeSavedOnce` and `RowsAgree` (`SavedOnce`, `BatchAgrees`): `Whole` says of a batch that is being processed that it holds the full number of exchanges, unless they were taken away, and of any other that it holds none;
  `WorkerTrue` says that what a worker reviews contains what its batch still holds, so that a commit that finds all rows in place commits what was
  reviewed. `Oldest` needs a lemma of its own: the *n* oldest pending exchanges are *n* (by the library's facts on finite sets).

**ContextProofs**, under `ContextAssumption` (a message and a summary cost something, a head is shorter than what is snipped, at least one message is kept by a recovery):

- `ContextHistoryCovered` (`HistoryCovered`). The inductive invariant says that the projection covers exactly the first `seen` messages (`Covers`: intervals that follow each other
  from the first message on) and that outside of cc what is sent ends as the history does. The lemmas follow the code: what replaces the pieces between two
  cuts by one marker covers the same (`ReplaceCovers`, for snips and hermes), so does a marker in front of a tail (`RecoveryCovers`), or one or two markers of pi (`PiMarkersCover`); a cut by budget or
  legality stays before the last message (`TailStartRange`, `MoveBackRange`, `PiPlanRange`), for which the library's well-founded order of the naturals gives least elements. Costs and sums of
  costs play no part in it.
- `ContextOnlySummariesFail` (`OnlySummariesFail`, an action property). The invariant `LInv` adds how legal a request is: outside of pi a legal history makes a legal request, and no request begins with a call (`Fit`).
  While files can be written, that is: without a disk an exception of a transcript or of a large result is what the property leaves out (`disk`).
  What is said joins the history and the request in the same way and never begins with results, so it keeps both legal or neither (`RequestJoins`, `JoinIsLegal`, `PartsAreLegal`). Below the threshold cc
  fails only if what it is about to send is illegal, which a snip never makes it, since it moves both of its cuts away from calls (`SnippedLighter`); and it cannot be pushed over the threshold, for nothing it drops makes the sum
  of costs larger (`TotalAtMost`: each piece of the shorter request costs no more than one of its own in the longer one, in the same order). This is where costs have to be
  positive: the marker of a snip costs 1. A recovery finds a legal cut because of any two neighbouring places in a legal request one is legal (`RecoveryIsClean`);
  at the first place it needs the fact that no request begins with a call.

**RuntimeProofs**, what a runtime keeps for the Lead. Of `LeadInbox`, under `MailboxAssumption` and `LeadAssumption`:

- `LeadMailDelivered`: `Spec => []DeliveredOnce`. For each message the invariant says where it may be: once sent it is in the inbox, in a batch left behind, in what a claim has collected of these, in a batch a
  reader holds, handled, dead, or lost (`Kept`); no two readers have it, nor a reader and the inbox, but for a batch that a nack has written back and not removed yet
  (`Once`, `Nacked`), which is why nack needs the lock for both steps. `LeftAlone` says that what a crash left behind
  was collected before anybody holds a batch, and that nothing is lost before the second crash. One lemma for each operation on the mailbox says where it moves a message (`SendMoves`, `CollectMoves`, `WriteMoves`, `ClaimMoves`, `DropMoves`,
  `NackMoves`, `CrashMoves`); `WellFormedIs` says that reading a batch loses nothing but the malformed lines.
- `LeadRequestsStay`: `Spec => []UnresolvedStaysPending`. The invariant `OutboxInv` says of a record that its acknowledged revision is one it has had, and of what a turn was shown that it
  is too; once compared, a revision is older than the record's if the record still needs the Lead (`MarkTrue`). Revisions only grow, so that what another thread does between
  comparison and acknowledgement keeps this true (`Follows`): the comparison needs no lock.
- `LeadMailboxKept`: `Spec => ImplementsMailbox`, from the invariant of `LeadMailDelivered`. `BoxFollows` maps each operation on the files to one of `Mailbox`: what is collected still waits,
  so the two steps of a recovery before the claim are stutters; a claim needs `LeftAlone` to take all there is, and `Once` to take nothing twice.

Of `Services`, taken as an instance since it has a next-state relation of its own, under `BackgroundAssumption` and `CronAssumption`:

- `ServicesResultOfItsCommand`: inductive with the fact that a command whose thread is at work is of the present runtime, also after its close, and has a record that says so,
  which nothing removes; so the next runtime is not built before the command is over.
- `ServicesCancelSticks`: a reported job is in none of the places a job can come back from: what is scheduled, the file, and the copy a save is about to write. The proof shows why saves of
  tools without the lock do no harm here: only one tool runs at a time, and a cancellation is reported after its own save.

**AgentLoopProofs**, under no assumption:

- `AgentLoopTurnLeavesNothing`: `Spec => []TurnLeavesNothing`, strengthened to `LoopInv`, which says for each place of a turn what may be at work there: an intervention is *injecting* only where
  the loop injects and *running* only within the turn that is its own, sub-agents that were not told to stop are active only inside of the loop and not behind its last step, mail is held until the turn is
  settled, and what waits is stored as its action asks for (else a `consume` could give a steer to a turn of the queue). An exception may come at each of the places;
  the items it caught between a `consume` and their update are `torn`, and the invariant is about the others. One lemma for each operation of the broker, one for each group of steps with the same effect on the
  interventions.

Where a module's properties are proved of an *instance* (`Index`, `Work`, `Runtime`), the instance brings the actions and the specification; the variables, the tables and the properties are the ones the runs check.

Only model-checked: liveness (`WakingMailHandled`, `StoppedWorkerEnds`, `BacklogDrains`, `JobsEndUnlessStuck`, `EveryRequestServed`, `EveryJobEnds`, `StopEndsTurn`, `EveryItemServed`,
`FiredIsTaken`), which needs fairness and reasoning about what is enabled. Every other property of a run, invariant, action property or refinement, is a theorem.

## 5. Not modelled

- The order of a member's queue (`queue_position`, `_renumber_pending_queue` in `tasks.py`).
- Provider, retrieval scores, redaction, prompts, skills, permissions, hooks, planning, configuration and web search: pure functions, or single calls made by the thread of a turn.
- The pages and the event stream of the Web console, the prompt and display of the command line; their calls are actions of the parts they land in.
- Session and transcript files of the context (an index and append-only files, written by the thread of the turn), the counting of tokens, and what a summary says.
- Classes that no entry point uses: `AgentRuntime`, `BackgroundManager`, `CronScheduler`.
- The evaluation harness and the scripts of `eval/`: sequential, offline.

## 6. Next

A module for the order of a queue, whose two locks meet there. An abstract task board (who owns what, in one variable) that `TaskStore` and the task of `TeamMember` both
implement.

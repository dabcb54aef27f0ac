--------------------------------- MODULE Context ---------------------------------
(***************************************************************************)
(* What the Lead sends to its provider (context_modes.py, context.py): the *)
(* raw history of a session, which only grows, and the projection that     *)
(* stands for a part of it once the session was compacted, in one of the   *)
(* modes cc, hermes and pi.  agent_loop (agent.py) decides when a request  *)
(* is prepared, compacted by hand or rebuilt after an overflow.            *)
(*                                                                         *)
(* A message has a kind and a cost in tokens.  A tool call is one message  *)
(* "use" and its results one message "result".  Summaries are not read:    *)
(* a marker says which interval of the history it stands for.              *)
(***************************************************************************)
EXTENDS Integers, Sequences, FiniteSets

CONSTANTS
  MaxMessages,    \* bound: how long a history becomes
  Costs,          \* of tool results; every other message costs 1
  SummaryCosts,   \* of summaries
  Trigger,        \* automatic_compaction_threshold, less the system prompt and tools
  HeadKeep,       \* messages kept at the beginning by hermes and by snip_compact: 3
  SnipAt,         \* max_messages of snip_compact: 50
  KeepResults,    \* KEEP_RECENT_TOOL_RESULTS
  ResultBudget,   \* max_bytes of tool_result_budget
  TailBudget,     \* of hermes: Trigger * hermes_target_ratio
  PiKeep,         \* pi_keep_recent_tokens
  PiTarget,       \* the least of Trigger and the window without pi_reserve_tokens
  RecoverKeep     \* messages kept by reactive_recover: 5

ASSUME ContextAssumption ==
  /\ Costs \subseteq Nat \ {0} /\ SummaryCosts \subseteq Nat \ {0}
  /\ Trigger \in Int
  /\ HeadKeep \in Nat \ {0} /\ SnipAt \in Nat /\ HeadKeep < SnipAt
  /\ RecoverKeep \in Nat \ {0}

VARIABLES
  history,     \* messages of the Lead: AgentSession.messages
  mode,        \* config.mode
  projection,  \* state.projection; for pi the markers of the last entry
  seen,        \* how many raw messages the projection stands for
  updated,     \* state.hermes_summary is there
  pc,          \* where agent_loop is
  reactive,    \* state.has_attempted_reactive_compact of the turn
  disk         \* transcripts and large results can be written

context == <<projection, seen, updated>>
vars == <<history, mode, context, pc, reactive, disk>>

Modes == {"cc", "hermes", "pi"}
Kinds == {"user", "reminder", "text", "use", "result"}
Message(kind) == [kind |-> kind, cost |-> 1]
Pieces == [first : 1..(MaxMessages + 1), last : 0..MaxMessages,
           kind : Kinds \cup {"marker"}, cost : Nat]

Marker(first, last, cost) == [first |-> first, last |-> last, kind |-> "marker", cost |-> cost]

Least(S) == CHOOSE n \in S : \A k \in S : n <= k
Greatest(S) == CHOOSE n \in S : \A k \in S : k <= n
Total(s) ==
  LET sum[k \in 0..Len(s)] == IF k = 0 THEN 0 ELSE sum[k - 1] + s[k].cost IN sum[Len(s)]
Prefix(s, cut) == SubSeq(s, 1, cut)
Suffix(s, cut) == SubSeq(s, cut + 1, Len(s))    \* a cut is the number of messages before it

\* The raw messages after the first n, as pieces of a request.
Rest(n) ==
  [k \in 1..(Len(history) - n) |->
     [first |-> n + k, last |-> n + k, kind |-> history[n + k].kind, cost |-> history[n + k].cost]]

\* _current_projection.  (recovery_projection_active makes no difference: pi stores
\* entries, and the other modes read their projection in any case.)
Current == projection \o Rest(seen)

-----------------------------------------------------------------------------
\* The tool protocol.

\* validate_tool_protocol: a use and its results are neighbours.
Legal(s) ==
  \A k \in 1..Len(s) :
    /\ s[k].kind = "use" => k < Len(s) /\ s[k + 1].kind = "result"
    /\ s[k].kind = "result" => k > 1 /\ s[k - 1].kind = "use"

\* Fault: the messages after the cut are not looked at.
LegalCutFaulty(s, cut) == cut = Len(s) \/ cut \in 1..(Len(s) - 1)

\* legal_cut
LegalCut(s, cut) ==
  \/ cut = Len(s)
  \/ cut \in 1..(Len(s) - 1) /\ Legal(Prefix(s, cut)) /\ Legal(Suffix(s, cut))

\* _move_to_legal_cut, backwards; 0 if there is none.
MoveBack(s, cut) == Greatest({0} \cup {k \in 1..cut : LegalCut(s, k)})

\* What an attempt leaves behind: nothing new, or a new projection.
Kept(ok) == [ok |-> ok, projection |-> projection, seen |-> seen, updated |-> updated]

\* _commit_projection
Committed(candidate) ==
  [ok |-> TRUE, projection |-> candidate, seen |-> Len(history), updated |-> updated]

\* _transcript and _summary: a compaction fails, and changes nothing, if its
\* transcript cannot be written or the provider gives no summary of the right form.
Summarized(candidates) == {Kept(FALSE)} \cup {c \in candidates : disk}

-----------------------------------------------------------------------------
\* cc

\* tool_result_budget: huge last results go to a file (see PersistFails).
Huge(p) == p[Len(p)].kind = "result" /\ p[Len(p)].cost > ResultBudget
Budgeted(p) == IF Huge(p) THEN [p EXCEPT ![Len(p)].cost = 1] ELSE p

\* snip_compact
Snipped(p) ==
  IF Len(p) <= SnipAt THEN p ELSE
  LET cut == Len(p) - (SnipAt - HeadKeep)
      head == IF p[HeadKeep].kind = "use" /\ p[HeadKeep + 1].kind = "result"
              THEN HeadKeep + 1 ELSE HeadKeep
      tail == IF p[cut + 1].kind = "result" /\ p[cut].kind = "use" THEN cut - 1 ELSE cut IN
  IF head >= tail THEN p
  ELSE Prefix(p, head) \o <<Marker(p[head + 1].first, p[tail].last, 1)>> \o Suffix(p, tail)

\* micro_compact: only the last results stay as they are.
Micro(p) ==
  LET later(k) == Cardinality({j \in (k + 1)..Len(p) : p[j].kind = "result"}) IN
  [k \in 1..Len(p) |-> IF p[k].kind = "result" /\ later(k) >= KeepResults
                       THEN [p[k] EXCEPT !.cost = 1] ELSE p[k]]

\* _prepare_cc
PrepareCC(force) ==
  LET p == Current
      candidate == Micro(Snipped(Budgeted(p)))
      summaries == {c \in SummaryCosts : c < Total(p)} IN
  IF force \/ Total(candidate) >= Trigger
  THEN IF force /\ Len(candidate) <= 1 THEN {Kept(Legal(p))}
       ELSE Summarized({Committed(<<Marker(1, Len(history), c)>>) : c \in summaries})
  ELSE IF candidate = p THEN {Kept(Legal(p))}
       ELSE {IF Legal(candidate) THEN Committed(candidate) ELSE Kept(FALSE)}

-----------------------------------------------------------------------------
\* hermes

\* Fault: the last message has to fit, too.
TailStartFaulty(p) ==
  LET fits == {k \in 0..Len(p) : Total(Suffix(p, k)) <= TailBudget}
      legal == MoveBack(p, Least(fits)) IN
  IF legal = 0 THEN Least(fits) ELSE legal

\* _tail_start
TailStart(p) ==
  LET fits == {k \in 0..(Len(p) - 1) : k = Len(p) - 1 \/ Total(Suffix(p, k)) <= TailBudget}
      legal == MoveBack(p, Least(fits)) IN
  IF legal = 0 THEN Least(fits) ELSE legal

\* The head of the first compaction, moved on to a legal cut.
HeadEnd(p) ==
  Least({Len(p)} \cup {k \in HeadKeep..Len(p) : LegalCut(p, k)})

\* _prepare_hermes
PrepareHermes(force) ==
  LET p == Current
      tail == TailStart(p)
      head == IF updated THEN 0 ELSE HeadEnd(p)
      candidate(cost) ==
        Prefix(p, head) \o <<Marker(p[head + 1].first, p[tail].last, cost)>> \o Suffix(p, tail)
      accepted == {c \in SummaryCosts : Legal(candidate(c)) /\ Total(candidate(c)) < Total(p)} IN
  IF (~force /\ Total(p) < Trigger) \/ head >= tail THEN {Kept(Legal(p))}
  ELSE Summarized({[Committed(candidate(c)) EXCEPT !.updated = TRUE] : c \in accepted})

-----------------------------------------------------------------------------
\* pi

\* _normal_user_message: a turn begins here.
TurnBegins(message) == message.kind = "user"

\* _pi_cut: the beginning of the turn that reaches keep, unless it is too large.
PiCut(tail, keep) ==
  LET from == Greatest({0} \cup {k \in 0..(Len(tail) - 1) : Total(Suffix(tail, k)) >= keep})
      turns == {k \in 1..from : TurnBegins(tail[k + 1]) /\ LegalCut(tail, k)}
      split == MoveBack(tail, from) IN
  IF Len(tail) < 2 THEN 0
  ELSE IF turns = {} THEN split
  ELSE IF Total(Suffix(tail, Greatest(turns))) <= keep THEN Greatest(turns)
  ELSE split    \* no earlier than the turn, which is a legal cut itself

\* The summaries a cut calls for: of what was before the turn, and of its beginning.
TurnStart(tail, cut) ==
  LET begin == Greatest({0} \cup {k \in 0..(cut - 1) : TurnBegins(tail[k + 1])}) IN
  IF begin < cut /\ ~TurnBegins(tail[cut + 1]) THEN begin ELSE cut

PiMarkers(tail, cut, cost) ==
  LET begin == TurnStart(tail, cut) IN
  IF begin = cut THEN <<Marker(1, seen + cut, cost)>>
  ELSE <<Marker(1, seen + begin, cost), Marker(seen + begin + 1, seen + cut, cost)>>

\* _pi_budget_plan: the first cut that leaves room for the summaries; 0 if none does.
PiPlan(tail, initial, target) ==
  LET legal == {k \in initial..(Len(tail) - 1) : LegalCut(tail, k)}
      small == {k \in legal : Total(Suffix(tail, k)) <= PiKeep}
      cuts == IF small = {} THEN legal ELSE {k \in legal : k >= Least(small)}
      roomy == {k \in cuts : Total(PiMarkers(tail, k, 1)) + Total(Suffix(tail, k)) <= target} IN
  IF roomy = {} THEN 0 ELSE Least(roomy)

\* _prepare_pi: two plans at most, the second if a summary of the first is too long.
PreparePi(force, recovers) ==
  LET p == Current
      tail == Rest(seen)
      half == IF Total(tail) < 2 THEN 1 ELSE Total(tail) \div 2
      normal == PiCut(tail, PiKeep)
      cut == IF force /\ normal = 0 THEN PiCut(tail, half) ELSE normal
      target == IF Total(p) - 1 < PiTarget THEN Total(p) - 1 ELSE PiTarget
      candidate(k, cost) == PiMarkers(tail, k, cost) \o Suffix(tail, k)
      first == PiPlan(tail, cut, target)
      second == IF first # 0 /\ \E c \in SummaryCosts : Total(candidate(first, c)) > target
                THEN PiPlan(tail, first + 1, target) ELSE 0
      entries == {e \in ({first, second} \ {0}) \X SummaryCosts :
                    Total(candidate(e[1], e[2])) <= target /\ Legal(candidate(e[1], e[2]))}
      entry(k, cost) == [ok |-> TRUE, projection |-> PiMarkers(tail, k, cost),
                         seen |-> seen + k, updated |-> updated] IN
  IF ~force /\ Total(p) < Trigger THEN {Kept(Legal(p))}
  ELSE IF cut = 0 THEN {Kept(~recovers /\ Legal(p))}
  ELSE Summarized({entry(e[1], e[2]) : e \in entries})

-----------------------------------------------------------------------------
\* prepare_request
Prepared(force) ==
  CASE mode = "cc" -> PrepareCC(force)
    [] mode = "hermes" -> PrepareHermes(force)
    [] mode = "pi" -> PreparePi(force, FALSE)

\* reactive_recover: all but the last messages become one, summarized or not, unless
\* the transcript, which is written first, cannot be.
Recovered ==
  LET p == Current
      last == IF Len(p) < RecoverKeep THEN 0 ELSE Len(p) - RecoverKeep
      tail == MoveBack(p, last)
      cut == IF tail = 0 THEN last ELSE tail
      candidate(cost) ==
        <<Marker(1, IF cut = 0 THEN 0 ELSE p[cut].last, cost)>> \o Suffix(p, cut) IN
  IF mode = "pi" THEN PreparePi(TRUE, TRUE)
  ELSE IF ~disk THEN {Kept(FALSE)}
  ELSE {IF Legal(candidate(c)) THEN Committed(candidate(c)) ELSE Kept(FALSE) : c \in SummaryCosts}

Adopt(outcome) ==
  /\ projection' = outcome.projection
  /\ seen' = outcome.seen
  /\ updated' = outcome.updated

-----------------------------------------------------------------------------
\* agent_loop, as far as it concerns its messages.

Init ==
  /\ history = <<>> /\ mode = "cc"
  /\ projection = <<>> /\ seen = 0 /\ updated = FALSE
  /\ pc = "idle" /\ reactive = FALSE
  /\ disk = TRUE

\* messages.append; MaxMessages bounds the model.
Say(messages) ==
  /\ Len(history) + Len(messages) <= MaxMessages
  /\ history' = history \o messages

Goto(place) == pc' = place

\* set_mode: until the first message is observed.
SetMode ==
  /\ history = <<>>
  /\ mode' \in Modes
  /\ UNCHANGED <<history, context, pc, reactive, disk>>

\* What the chat log keeps of a session: its texts, in their order.  (Of the texts
\* within a turn the log has the last only, which makes no difference to the cuts.)
Dialogue ==
  LET kept == {k \in 1..Len(history) : history[k].kind \in {"user", "text"}} IN
  {texts \in [1..Cardinality(kept) -> {Message("user"), Message("text")}] :
     \A k \in kept : texts[Cardinality({j \in kept : j <= k})] = history[k]}

\* _replace_session: a new session, or a resumed one, in the mode it was left or
\* started in; or, when the configuration was changed, the same one with all of its
\* messages.  The projection is gone in any case.
ReplaceSession ==
  /\ pc = "idle"
  /\ \/ history' \in {<<>>} \cup Dialogue /\ mode' \in Modes
     \/ UNCHANGED <<history, mode>>
  /\ projection' = <<>> /\ seen' = 0 /\ updated' = FALSE
  /\ UNCHANGED <<pc, reactive, disk>>

\* _run_turn_locked
BeginTurn ==
  /\ pc = "idle"
  /\ Say(<<Message("user")>>)
  /\ Goto("top") /\ reactive' = FALSE
  /\ UNCHANGED <<mode, context, disk>>

\* Scheduled jobs, notifications, notes of sub-agents and steers, or the reminder.
Injects ==
  /\ pc = "top"
  /\ \E kind \in {"user", "reminder"} : Say(<<Message(kind)>>)
  /\ UNCHANGED <<mode, context, pc, reactive, disk>>

Prepare ==
  /\ pc = "top"
  /\ \E outcome \in Prepared(FALSE) :
       Adopt(outcome) /\ Goto(IF outcome.ok THEN "ready" ELSE "failed")
  /\ UNCHANGED <<history, mode, reactive, disk>>

\* persist_large_output raises, for a request or a compact call of cc: this is no failure
\* of the strategy, and ends the turn.  (It does not if an earlier attempt has left the
\* file, so a request may be prepared without the disk.)
PersistFails ==
  /\ pc \in {"top", "ready"} /\ mode = "cc" /\ ~disk /\ Huge(Current)
  /\ Goto("idle")
  /\ UNCHANGED <<history, mode, context, reactive, disk>>

\* The request is rebuilt: once in a turn after a failure of the strategy (and sent),
\* or after an overflow (and prepared again).  What it raises ends the turn.
Recover ==
  /\ pc \in {"failed", "ready"} /\ ~reactive
  /\ \E outcome \in Recovered :
       /\ Adopt(outcome)
       /\ reactive' = outcome.ok
       /\ Goto(IF ~outcome.ok THEN "idle" ELSE IF pc = "failed" THEN "ready" ELSE "top")
  /\ UNCHANGED <<history, mode, disk>>

\* The answer, or the error that takes its place.
EndsTurn ==
  /\ pc = "ready" \/ (pc = "failed" /\ reactive)
  /\ Say(<<Message("text")>>) /\ Goto("idle")
  /\ UNCHANGED <<mode, context, reactive, disk>>

\* The answer is cut off, or the user or a sub-agent has more to say.
Continues ==
  /\ pc = "ready"
  /\ \E kind \in {"user", "reminder"} : Say(<<Message("text"), Message(kind)>>)
  /\ Goto("top")
  /\ UNCHANGED <<mode, context, reactive, disk>>

CallsTools ==
  /\ pc = "ready"
  /\ \E cost \in Costs : Say(<<Message("use"), [kind |-> "result", cost |-> cost]>>)
  /\ Goto("top")
  /\ UNCHANGED <<mode, context, reactive, disk>>

\* A compact call: manual_compact, whatever becomes of it, and then the tool group.
CallsCompact ==
  /\ pc = "ready"
  /\ \E outcome \in Prepared(TRUE) : Adopt(outcome)
  /\ Say(<<Message("use"), Message("result")>>)
  /\ Goto("top")
  /\ UNCHANGED <<mode, reactive, disk>>

\* A call without results: a tool raises and the turn ends, or the response is cut
\* off after it and the continuation prompt follows.
LeavesCall ==
  /\ pc = "ready"
  /\ \/ Say(<<Message("use")>>) /\ Goto("idle")
     \/ Say(<<Message("use"), Message("reminder")>>) /\ Goto("top")
  /\ UNCHANGED <<mode, context, reactive, disk>>

\* The disk is full or not writable, or it is again.
DiskTurns ==
  /\ disk' = ~disk
  /\ UNCHANGED <<history, mode, context, pc, reactive>>

Next ==
  \/ SetMode \/ ReplaceSession \/ BeginTurn \/ Injects \/ Prepare \/ PersistFails \/ Recover
  \/ EndsTurn \/ Continues \/ CallsTools \/ CallsCompact \/ LeavesCall \/ DiskTurns

Spec == Init /\ [][Next]_vars

-----------------------------------------------------------------------------
TypeOK ==
  /\ history \in Seq([kind : Kinds, cost : Costs \cup {1}]) /\ Len(history) <= MaxMessages
  /\ mode \in Modes
  /\ projection \in Seq(Pieces) /\ seen \in 0..Len(history) /\ updated \in BOOLEAN
  /\ pc \in {"idle", "top", "failed", "ready"} /\ reactive \in BOOLEAN /\ disk \in BOOLEAN

\* Nothing is lost and nothing is sent twice: the request is made of consecutive
\* intervals of the history, each as it was or under one marker, whatever sequence of
\* compactions, failed attempts and recoveries came before (context_modes.py:809).
\* Except for cc, which may summarize it, the newest message is sent as it is: the one
\* the provider is to answer (context_modes.py:851, :1158, :1441).
Consecutive(p) ==
  /\ p # <<>> /\ p[1].first = 1 /\ p[Len(p)].last = Len(history)
  /\ \A k \in 2..Len(p) : p[k].first = p[k - 1].last + 1

NewestIn(p) ==
  LET newest == p[Len(p)] said == history[Len(history)] IN
  newest.kind = said.kind /\ newest.cost = said.cost

HistoryCovered ==
  history # <<>> => Consecutive(Current) /\ (mode # "cc" => NewestIn(Current))

\* While the history obeys the protocol, no compaction of cc or hermes separates a
\* call from its results: what a request is refused for is a summary it needed, and
\* neither it nor the recovery that is tried then, or after an overflow, ends the turn
\* by an exception, but for a transcript or a large result that cannot be written
\* (context_modes.py:946, :1440, :1459).
OnlySummariesFail ==
  [][Legal(history) /\ mode # "pi" =>
       /\ pc = "top" /\ pc' = "failed" => Total(Current) >= Trigger
       /\ pc # "idle" /\ pc' = "idle" => history' # history \/ ~disk]_vars
==================================================================================

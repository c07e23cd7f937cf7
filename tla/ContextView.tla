------------------------------ MODULE ContextView ------------------------------
(***************************************************************************)
(* What a model request shows of the conversation: context_governor.py,    *)
(* with the skill activations of skills.py, over the messages runner.py    *)
(* and runtime.py hand to it.                                              *)
(*                                                                         *)
(* The state machine makes the conversations: turns of requests, tool      *)
(* calls and results, injected inputs, an interrupted batch, history that  *)
(* a context summary covers.  Request is where the view is built.  Texts   *)
(* are sizes, in tokens as well as in characters.  The ids of the calls    *)
(* are the provider's, which nobody checks.                                *)
(***************************************************************************)
EXTENDS Integers, Sequences, FiniteSets, SequencesExt

CONSTANTS
  MaxMessages,      \* bound on the messages of a conversation,
  MaxRepeating,     \* and of one in which a call id may be given again
  Budgets,          \* input_budget, without system prompt and tool definitions
  Tools,            \* the tools, a function to the sizes of their results
  Batches,          \* the sequences of tools an answer may ask for
  ParallelSafe,     \* tools whose execution_mode is parallel_safe
  Ids,              \* the ids a provider may give to a call
  Repeating,        \* whether it may give one again: both cases or one
  MaxInjected,      \* max_injected_inputs_per_run
  Reporting,        \* whether a status builder is configured: both cases or one
  Skills,           \* tools that activate a skill of the same name
  Compactable,      \* compactable_tool_names
  MaxResult,        \* max_tool_result_chars
  KeepRecent,       \* microcompact_keep_recent
  MinCompact,       \* microcompact_min_chars
  MaxSkillChars     \* max_active_skill_chars

ASSUME ViewAssumption ==
  /\ MaxMessages \in Nat
  /\ MaxRepeating \in Nat
  /\ Budgets \subseteq Nat \ {0}
  /\ \A tool \in DOMAIN Tools : Tools[tool] \subseteq Nat \ {0}
  /\ Batches \subseteq Seq(DOMAIN Tools) \ {<<>>}
  /\ ParallelSafe \subseteq DOMAIN Tools
  /\ Repeating \subseteq BOOLEAN
  /\ MaxInjected \in Nat
  /\ Reporting \subseteq BOOLEAN
  /\ Skills \subseteq DOMAIN Tools
  /\ Compactable \subseteq DOMAIN Tools
  /\ MaxResult \in Nat \ {0}
  /\ KeepRecent \in Nat
  /\ MinCompact \in Nat
  /\ MaxSkillChars \in Nat

VARIABLES
  messages,   \* the working messages of the run, behind the history
  covered,    \* how many of them the resolved summary covers
  turn,       \* current_turn_start; 0 while no run is active
  awaited,    \* the calls of the batch that runs
  request,    \* the view of the request that is made, or the refusal
  budget,     \* the input budget of the model
  reporting,  \* a status message goes with each request
  repeating   \* the provider may give a call the id of another one

settings == <<budget, reporting, repeating>>

vars == <<messages, covered, turn, awaited, request, settings>>

\* User, assistant and status messages have a number, a result has its call's id.  Calls
\* are pairs of an id and a tool; the result of a call that activated a skill is an
\* instruction.
User(n) == [kind |-> "user", id |-> n, calls |-> <<>>, tool |-> "", size |-> 1]
Status(n) == [kind |-> "status", id |-> n, calls |-> <<>>, tool |-> "", size |-> 1]
Assistant(n, calls) ==
  [kind |-> "assistant", id |-> n, calls |-> calls, tool |-> "", size |-> 1]
Result(call, size) ==
  [kind |-> "result", id |-> call[1], calls |-> <<>>, tool |-> call[2], size |-> size]
Instruction(call, size) == [Result(call, size) EXCEPT !.kind = "skill"]
Backfilled(call) == [Result(call, 1) EXCEPT !.kind = "backfilled"]

Indices(ms) == 1 .. Len(ms)

CallIds(m) == {m.calls[k][1] : k \in 1 .. Len(m.calls)}

IsResult(m) == m.kind \in {"result", "skill", "backfilled"}

Results(ms) == {i \in Indices(ms) : IsResult(ms[i])}

\* is_skill_instruction
Instructions(ms) == {i \in Indices(ms) : ms[i].kind = "skill"}

Declares(ms, i) == {j \in Indices(ms) : ms[i].id \in CallIds(ms[j])}

\* What a sequence has at the given places, in their order.
At(seq, places) ==
  FlattenSeq([i \in Indices(seq) |-> IF i \in places THEN <<seq[i]>> ELSE <<>>])

Greatest(S) == CHOOSE n \in S : \A m \in S : m <= n
Least(S) == CHOOSE n \in S : \A m \in S : n <= m

Sum(ms) ==
  LET sum[i \in 0 .. Len(ms)] == IF i = 0 THEN 0 ELSE sum[i - 1] + ms[i].size
  IN sum[Len(ms)]

Fits(ms) == Sum(ms) <= budget

--------------------------------------------------------------------------------
(* Skill activations: skills.py *)

\* _skill_instruction_records: activations whose call is known.
Activations(ms) ==
  {i \in Instructions(ms) : Declares(ms, i) # {}}

\* Mutant: the first activation of a skill is the one that counts.
FirstActivations(ms) ==
  {i \in Activations(ms) : \A j \in Activations(ms) : ms[j].tool = ms[i].tool => i <= j}

LatestActivations(ms) ==
  {i \in Activations(ms) : \A j \in Activations(ms) : ms[j].tool = ms[i].tool => j <= i}

\* _select_skill_records: the latest of each skill, recent ones first while they fit.
Active(ms) ==
  LET take[n \in 0 .. Len(ms)] ==
        IF n = 0 THEN [chosen |-> {}, remaining |-> MaxSkillChars]
        ELSE LET s == take[n - 1]
                 i == Len(ms) + 1 - n
             IN IF i \in LatestActivations(ms) /\ ms[i].size <= s.remaining
                THEN [chosen |-> s.chosen \cup {i}, remaining |-> s.remaining - ms[i].size]
                ELSE s
  IN take[Len(ms)].chosen

\* The calls of message j, by their places, which these results answer.
CallsFor(ms, j, places) ==
  {k \in Indices(ms[j].calls) : \E i \in places : ms[i].id = ms[j].calls[k][1]}

WithCalls(m, kept) == [m EXCEPT !.calls = At(@, kept)]

\* select_active_skill_messages: what is left of covered history.
ActiveSkillMessages(ms) ==
  LET Kept(j) == {i \in Active(ms) : Greatest(Declares(ms, i)) = j}
      Block(j) == <<WithCalls(ms[j], CallsFor(ms, j, Kept(j)))>> \o At(ms, Kept(j))
  IN FlattenSeq([j \in Indices(ms) |-> IF Kept(j) # {} THEN Block(j) ELSE <<>>])

\* deduplicate_skill_messages: superseded activations go, with their calls.
Deduplicated(ms) ==
  LET gone == Activations(ms) \ Active(ms)
      pruned == [j \in Indices(ms) |->
                   WithCalls(ms[j], Indices(ms[j].calls) \ CallsFor(ms, j, gone))]
  IN At(pruned, {j \in Indices(ms) \ gone : ms[j].calls = <<>> \/ pruned[j].calls # <<>>})

--------------------------------------------------------------------------------
(* Protocol repair *)

DropOrphanToolResults(ms) ==
  At(ms, {i \in Indices(ms) : i \in Results(ms) => \E j \in Declares(ms, i) : j < i})

\* The ids of the calls before call k of message j.
IdsBefore(ms, j, k) ==
  (UNION {CallIds(ms[i]) : i \in 1 .. j - 1}) \cup {ms[j].calls[l][1] : l \in 1 .. k - 1}

\* The calls of message j no result answers; of those with one id the first counts.
Missing(ms, j) ==
  At(ms[j].calls, {k \in Indices(ms[j].calls) \ CallsFor(ms, j, Results(ms)) :
                     ms[j].calls[k][1] \notin IdsBefore(ms, j, k)})

\* Mutant: a call without a result is left as it is.
NothingBackfilled(ms) == ms

BackfillMissingToolResults(ms) ==
  FlattenSeq([j \in Indices(ms) |->
    <<ms[j]>> \o [k \in 1 .. Len(Missing(ms, j)) |-> Backfilled(Missing(ms, j)[k])]])

Repaired(ms) == BackfillMissingToolResults(DropOrphanToolResults(ms))

TruncateToolResults(ms) ==
  [i \in Indices(ms) |->
     IF i \in Results(ms) \ Instructions(ms) /\ ms[i].size > MaxResult
     THEN [ms[i] EXCEPT !.size = MaxResult] ELSE ms[i]]

--------------------------------------------------------------------------------
(* Under pressure *)

DropRuntimeStatuses(ms) == At(ms, {i \in Indices(ms) : ms[i].kind # "status"})

Eligible(ms, end) ==
  {i \in Results(ms) : i < end /\ i \notin Instructions(ms) /\ ms[i].tool \in Compactable}

\* Old results of the history, all but the most recent ones.
Microcompact(ms, end) ==
  [i \in Indices(ms) |->
     IF /\ i \in Eligible(ms, end)
        /\ Cardinality({j \in Eligible(ms, end) : j > i}) >= KeepRecent
        /\ ms[i].size >= MinCompact
     THEN [ms[i] EXCEPT !.size = 1] ELSE ms[i]]

--------------------------------------------------------------------------------
(* Emergency snip *)

Users(ms) == {i \in Indices(ms) : ms[i].kind = "user"}

\* _legal_spans: a span begins at each message but at results behind their calls.
SpanStarts(ms) ==
  {i \in Indices(ms) :
     ~(\E j \in 1 .. i - 1 : ms[j].calls # <<>> /\ \A k \in j + 1 .. i : IsResult(ms[k]))}

Starts(ms, current) ==
  {i \in SpanStarts(ms) : i >= current \/ ms[i].kind = "user"}

\* Mutant: the task the turn began with may be cut.
AnchorsWithoutTask(ms, current) ==
  {Greatest(Users(ms))} \cup Activations(ms)
    \cup {Greatest(Declares(ms, i)) : i \in Activations(ms)}

Anchors(ms, current) ==
  {current, Greatest({i \in Users(ms) : i >= current})} \cup Activations(ms)
    \cup {Greatest(Declares(ms, i)) : i \in Activations(ms)}

\* _build_emergency_candidate: the messages from start on, and the anchors.
Candidate(ms, anchors, start) ==
  At(ms, {i \in Indices(ms) : i >= start \/ i \in anchors})

\* Mutant: the bisection settles on the last start.
BisectLate(ms, anchors, starts) == Len(starts)

\* The bisection over the starts, in their order, for the first candidate that fits.
Bisect(ms, anchors, starts) ==
  LET round[n \in 0 .. Len(starts)] ==
        IF n = 0 THEN [low |-> 1, high |-> Len(starts)]
        ELSE LET r == round[n - 1]
                 middle == (r.low + r.high) \div 2
             IN IF r.low >= r.high THEN r
                ELSE IF Fits(Candidate(ms, anchors, starts[middle]))
                     THEN [r EXCEPT !.high = middle]
                     ELSE [r EXCEPT !.low = middle + 1]
  IN round[Len(starts)].low

NotMade == [made |-> FALSE, sent |-> FALSE, view |-> <<>>]
Exceeded == [made |-> TRUE, sent |-> FALSE, view |-> <<>>]
Sent(ms) == [made |-> TRUE, sent |-> TRUE, view |-> ms]

Started(ms, current) ==
  At([i \in Indices(ms) |-> i], Starts(ms, current))

\* From there on, the first candidate that fits once it is repaired.
EmergencySnip(ms, current) ==
  LET starts == Started(ms, current)
      anchors == Anchors(ms, current)
      view == [k \in 1 .. Len(starts) |-> Repaired(Candidate(ms, anchors, starts[k]))]
      fitting == {k \in Bisect(ms, anchors, starts) .. Len(starts) : Fits(view[k])}
  IN IF ~Fits(Candidate(ms, anchors, Last(starts))) \/ fitting = {} THEN Exceeded
     ELSE Sent(view[Least(fitting)])

--------------------------------------------------------------------------------
(* prepare *)

PositionOf(ms, user) == CHOOSE i \in Indices(ms) : ms[i] = user

Normal(ms) == TruncateToolResults(Repaired(Deduplicated(ms)))

Prepare(ms, user) ==
  LET normal == Normal(ms)
      quiet == DropRuntimeStatuses(normal)
      compact == Microcompact(quiet, PositionOf(quiet, user))
  IN IF Fits(normal) THEN Sent(normal)
     ELSE IF Fits(quiet) THEN Sent(quiet)
     ELSE IF Fits(compact) THEN Sent(compact)
     ELSE EmergencySnip(compact, PositionOf(compact, user))

--------------------------------------------------------------------------------
(* The conversation *)

\* _prepare_model_context: covered history is left out but for its active skills.
Visible ==
  ActiveSkillMessages(SubSeq(messages, 1, covered)) \o
    SubSeq(messages, covered + 1, Len(messages))

Room(n) == Len(messages) + n <= IF repeating THEN MaxRepeating ELSE MaxMessages

NextId == Len(messages) + 1

WithInputs(ms, n) == ms \o [k \in 1 .. n |-> User(Len(ms) + k)]

\* How many inputs may still join the run: _remaining_injection_capacity.
Injections == 0 .. MaxInjected - Cardinality({i \in Users(messages) : i > turn})

\* A fresh input, behind history that may be covered up to any earlier user message.
BeginTurn ==
  /\ turn = 0
  /\ Room(1)
  /\ messages' = Append(messages, User(NextId))
  /\ turn' = NextId
  /\ covered' \in {covered} \cup {i - 1 : i \in {j \in Users(messages) : j > covered}}
  /\ UNCHANGED <<awaited, request, settings>>

\* A request is due behind a user message or the results of a batch.
Requesting ==
  /\ turn # 0
  /\ awaited = <<>>
  /\ ~request.made

\* The view is built; the status that goes with the request is written behind it.
Request ==
  /\ Requesting
  /\ request' = Prepare(Visible, messages[turn])
  /\ UNCHANGED <<messages, covered, turn, awaited, settings>>

Asked == IF reporting THEN Append(messages, Status(NextId)) ELSE messages

Answered(calls) == Append(Asked, Assistant(Len(Asked) + 1, calls))

\* The answer ends the turn, which is saved, unless inputs are injected behind it.
Answer ==
  /\ request.sent
  /\ \E n \in Injections :
       /\ Room(2 + n)
       /\ messages' = WithInputs(Answered(<<>>), n)
       /\ turn' = IF n = 0 THEN 0 ELSE turn
  /\ request' = NotMade
  /\ UNCHANGED <<covered, awaited, settings>>

\* No call has one of these ids yet, and no two of them are the same.
Unused(ids) ==
  /\ IsInjective(ids)
  /\ \A i \in Indices(messages) : ToSet(ids) \cap CallIds(messages[i]) = {}

\* The answer asks for tools, the calls with ids of the provider's choice.
AskTools(tools, ids) ==
  LET calls == [k \in 1 .. Len(tools) |-> <<ids[k], tools[k]>>]
  IN /\ request.sent
     /\ repeating \/ Unused(ids)
     /\ Room(2 + Len(tools))
     /\ messages' = Answered(calls)
     /\ awaited' = calls
     /\ request' = NotMade
     /\ UNCHANGED <<covered, turn, settings>>

\* A call returns, or fails, as it does when a crash interrupted it; a skill is
\* activated or not.
Outcomes(call) ==
  {Result(call, 1)} \cup
    IF call[2] \in Skills THEN {Instruction(call, size) : size \in Tools[call[2]]}
    ELSE {Result(call, size) : size \in Tools[call[2]]}

\* The orders in which the results of a batch may come: calls of adjacent parallel-safe
\* tools run together and complete in any order, any other tool is a barrier.
Completions(calls) ==
  {order \in [Indices(calls) -> Indices(calls)] :
     /\ IsInjective(order)
     /\ \A a, b \in Indices(calls) :
          a < b /\ order[b] < order[a]
            => \A k \in order[b] .. order[a] : calls[k][2] \in ParallelSafe}

\* The results of a batch come together, in the order in which its calls complete.
ReceiveResults ==
  /\ awaited # <<>>
  /\ \E order \in Completions(awaited) :
       LET completed == [k \in DOMAIN awaited |-> awaited[order[k]]]
       IN \E outcome \in [DOMAIN awaited -> UNION {Outcomes(call) : call \in ToSet(awaited)}] :
            /\ \A k \in DOMAIN awaited : outcome[k] \in Outcomes(completed[k])
            /\ messages' = messages \o outcome
  /\ awaited' = <<>>
  /\ UNCHANGED <<covered, turn, request, settings>>

\* Inputs are injected behind a batch, or join a run that starts again where it was.
AddInputs ==
  /\ turn # 0
  /\ awaited = <<>>
  /\ ~request.made
  /\ \E n \in Injections \ {0} : Room(n) /\ messages' = WithInputs(messages, n)
  /\ UNCHANGED <<covered, turn, awaited, request, settings>>

\* A pause stops a batch or a request, whose status stays; the run that starts again
\* takes waiting inputs with it, if any.  A pause that cuts the conversation before a
\* revised input leads where that input has not come yet.
Restart ==
  /\ awaited # <<>> \/ request.sent
  /\ LET kept == IF request.sent THEN Asked ELSE messages
     IN \E n \in Injections : Room(n + 1) /\ messages' = WithInputs(kept, n)
  /\ awaited' = <<>>
  /\ request' = NotMade
  /\ UNCHANGED <<covered, turn, settings>>

\* The turn limit is reached: the turn is saved as it is, with the inputs that joined
\* it when it started again.
ReachLimit ==
  /\ Requesting
  /\ \E i \in turn + 1 .. Len(messages) :
       /\ IsResult(messages[i]) \/ messages[i].calls # <<>>
       /\ \A k \in i + 1 .. Len(messages) : messages[k].kind = "user"
  /\ Room(1)
  /\ messages' = Append(messages, Assistant(NextId, <<>>))
  /\ turn' = 0
  /\ UNCHANGED <<covered, awaited, request, settings>>

\* The request is refused: the run fails and leaves the history alone.
Refuse ==
  /\ request.made
  /\ ~request.sent
  /\ messages' = SubSeq(messages, 1, turn - 1)
  /\ turn' = 0
  /\ request' = NotMade
  /\ UNCHANGED <<covered, awaited, settings>>

Init ==
  /\ messages = <<>>
  /\ covered = 0
  /\ turn = 0
  /\ awaited = <<>>
  /\ request = NotMade
  /\ budget \in Budgets
  /\ reporting \in Reporting
  /\ repeating \in Repeating

Next ==
  \/ BeginTurn
  \/ Request
  \/ Answer
  \/ \E tools \in Batches : \E ids \in [1 .. Len(tools) -> Ids] : AskTools(tools, ids)
  \/ ReceiveResults
  \/ AddInputs
  \/ Restart
  \/ ReachLimit
  \/ Refuse

Spec == Init /\ [][Next]_vars

--------------------------------------------------------------------------------
(* Properties of the view a request is sent with.  All but ViewLinked are about
   conversations in which no call id is given again. *)

View == request.view

\* Providers refuse anything else: a call is followed by one result of its own, with
\* nothing but results of its batch between, and each result has its call, whatever was
\* covered, superseded, interrupted, compacted or snipped.
ViewLegal ==
  request.sent /\ ~repeating =>
    /\ \A i \in Results(View) : \E j \in Declares(View, i) : j < i
    /\ \A j \in Indices(View) : \A id \in CallIds(View[j]) :
         \E i \in j + 1 .. Len(View) :
           /\ {k \in Results(View) : View[k].id = id} = {i}
           /\ \A k \in j + 1 .. i : IsResult(View[k]) /\ View[k].id \in CallIds(View[j])

\* Whatever ids the provider gives, each result shown has a call with its id before it
\* and each call a result with its id (docs/context-governor-design.md, section 11).
ViewLinked ==
  request.sent =>
    /\ \A i \in Results(View) : \E j \in Declares(View, i) : j < i
    /\ \A j \in Indices(View) : CallsFor(View, j, Results(View)) = Indices(View[j].calls)

Shows(m) == \E i \in Indices(View) : View[i].kind = m.kind /\ View[i].id = m.id

OfSkill(m) == m.kind = "skill" \/ \E c \in ToSet(m.calls) : c[2] \in Skills

\* The task of the turn, the latest input and the batch behind it are never cut, an
\* input of the turn only together with the later ones, and the results of the turn
\* are as the tools gave them, but for the limit on one result.
CurrentShown ==
  request.sent /\ ~repeating =>
    /\ Shows(messages[turn])
    /\ Shows(messages[Greatest(Users(messages))])
    /\ \A i, j \in Users(messages) :
         turn < i /\ i <= j /\ Shows(messages[i]) => Shows(messages[j])
    /\ \A i \in turn + 1 .. Len(messages) :
         (\A j \in i + 1 .. Len(messages) : IsResult(messages[j]))
           => messages[i].kind = "status" \/ Shows(messages[i]) \/ OfSkill(messages[i])
    /\ \A i \in Results(messages), k \in Results(View) :
         (i > turn /\ messages[i].kind = View[k].kind /\ messages[i].id = View[k].id)
           => \/ View[k].size = messages[i].size
              \/ View[k].size = MaxResult /\ messages[i].size > MaxResult

\* Of each skill the last instruction alone is shown, all of them within their limit,
\* and the one that was activated last is never lost, however old it is.
SkillsShown ==
  request.sent /\ ~repeating =>
    LET activated == Instructions(messages)
        shown == {i \in activated : Shows(messages[i])}
    IN /\ \A i \in shown, j \in activated : messages[i].tool = messages[j].tool => j <= i
       /\ Sum(At(messages, shown)) <= MaxSkillChars
       /\ \A i \in activated :
            i = Greatest(activated) /\ messages[i].size <= MaxSkillChars
              => \E k \in Results(View) : View[k] = messages[i]

\* A view is within the budget, and as much of the recent conversation is kept as the
\* budget allows: no earlier start would have given a view that fits, and none would
\* if the request is refused.
SnipLongest ==
  request.made /\ ~repeating =>
    LET quiet == DropRuntimeStatuses(Normal(Visible))
        ms == Microcompact(quiet, PositionOf(quiet, messages[turn]))
        current == PositionOf(ms, messages[turn])
        views == [start \in Starts(ms, current) |->
                    Repaired(Candidate(ms, Anchors(ms, current), start))]
        possible == {start \in DOMAIN views : Fits(views[start])}
    IN IF request.sent THEN Fits(View) /\ (Fits(ms) \/ View = views[Least(possible)])
       ELSE possible = {}

================================================================================

------------------------------- MODULE Todos -------------------------------
(***************************************************************************)
(* The agent's plan (co_cli/tools/todo/rw.py): a list of todo items kept   *)
(* in memory, written by a tool, shown to the model once more after a      *)
(* compaction, and read back from the transcript by /resume.               *)
(*                                                                         *)
(* todo_write is a plain function that may run beside other tools: the SDK *)
(* runs the calls of one response each on a thread of its own, so one may  *)
(* read the list before another has replaced it.                           *)
(*                                                                         *)
(* An item is its id and its status; priority is left out, as is           *)
(* "cancelled", which the code treats like "completed".  Of its content    *)
(* only what lines it has that read like items of a snapshot is kept, and  *)
(* an id keeps its content.  Of a message only what /resume and the        *)
(* planner of compactions look at is kept.  Transcripts are written        *)
(* without failing and no list is joined: Session has the rest.            *)
(***************************************************************************)
EXTENDS Integers, History

CONSTANTS
    Ids,            \* of todo items
    Batches,        \* the calls of todo_write a response may have; an update
                    \* that leaves the status alone is one that names no item
    Quoted,         \* the items that the content of an id reads like, line by line
    SnapMax,        \* active[:10]
    Sessions,       \* transcripts, by age
    MaxTurns,       \* bound: turns
    MaxResponses,   \* bound: responses that write
    MaxCommands,    \* bound: commands and restarts
    Nothing         \* no plan, no status

Statuses == {"pending", "in_progress", "completed"}
Item     == [id : Ids, status : Statuses]

ASSUME TodosAssumption ==
    /\ Batches \subseteq Seq([merge : BOOLEAN, full : BOOLEAN, items : Seq(Item)])
    /\ Quoted \in [Ids -> Seq(Item)]
    /\ SnapMax \in Nat \ {0}
    /\ IsFiniteSet(Sessions) /\ 1 \in Sessions /\ Sessions = 1..Cardinality(Sessions)
    /\ Nothing \notin Statuses \cup Seq(Item)

VARIABLES
    todos,      \* session_todos
    list,       \* the REPL's message list
    file,       \* the transcripts
    cur,        \* the session in progress
    created,    \* the sessions that have a name
    pc,         \* "idle", "request", "ready" with the list fit, or "tools" run
    hist,       \* the turn's current_history
    run,        \* the list of the SDK's run
    compacted,  \* compaction_applied_this_turn
    recovered,  \* overflow_recovery_attempted
    batch,      \* the calls of todo_write in a response, as they stand
    turns, responses, commands,
    \* Not in the program:
    said,       \* what the last accepted call that named an item made of it
    unsure,     \* the items that calls running side by side disagreed on
    told,       \* the transcript will have the plan as its latest
    before,     \* the same of the list the turn falls back on
    kept,       \* the plan when a transcript was last written
    untold,     \* the transcripts that did not have it then
    misread     \* some /resume took lines of a content for items

turn   == <<pc, hist, run, compacted, recovered, batch>>
bounds == <<turns, responses, commands>>
ghosts == <<said, unsure, told, before, kept, untold, misread>>
todosVars   == <<todos, list, file, cur, created, turn, bounds, ghosts>>

-----------------------------------------------------------------------------
(***************************************************************************)
(* todo_write.                                                             *)
(***************************************************************************)
IdsOf(p) == {p[i].id : i \in DOMAIN p}

StatusIn(p, x) ==
    IF x \in IdsOf(p) THEN (CHOOSE i \in ToSet(p) : i.id = x).status ELSE Nothing

\* _check_one_in_progress
OneAtWork(p) == Cardinality({i \in DOMAIN p : p[i].status = "in_progress"}) <= 1

DistinctIds(p) == Cardinality(IdsOf(p)) = Len(p)

\* _run_fresh
RunFresh(c) ==
    IF c.full /\ DistinctIds(c.items) /\ OneAtWork(c.items) THEN c.items ELSE Nothing

\* Seeded fault: items the call does not name are dropped.
MergedForgetting(p, items) == items

\* Known items stay in their place, new ones are appended.
Merged(p, items) ==
    [i \in DOMAIN p |->
        IF p[i].id \in IdsOf(items)
        THEN [p[i] EXCEPT !.status = StatusIn(items, p[i].id)] ELSE p[i]]
    \o Among(items, {x \in ToSet(items) : x.id \notin IdsOf(p)})

\* Seeded fault: the payload is checked, and not what comes of it.
MergeUnchecked(c, p) ==
    IF /\ DistinctIds(c.items)
       /\ c.full \/ IdsOf(c.items) \subseteq IdsOf(p)
       /\ OneAtWork(c.items)
    THEN Merged(p, c.items) ELSE Nothing

\* _run_merge: a new item needs its content.
RunMerge(c, p) ==
    IF /\ DistinctIds(c.items)
       /\ c.full \/ IdsOf(c.items) \subseteq IdsOf(p)
       /\ OneAtWork(Merged(p, c.items))
    THEN Merged(p, c.items) ELSE Nothing

Called(c) == [call |-> c, at |-> "called", plan |-> Nothing, missed |-> {}]

\* The items a call decides on.
Named(c) == IF c.merge THEN IdsOf(c.items) ELSE Ids

\* The list is read and the new one made of it, or the call is rejected.
Compute(i) ==
    /\ pc = "tools" /\ batch[i].at = "called"
    /\ LET c == batch[i].call
           p == IF c.merge THEN RunMerge(c, todos) ELSE RunFresh(c)
       IN  batch' = [batch EXCEPT ![i].plan = p,
                                  ![i].at = IF p = Nothing THEN "done" ELSE "computed"]
    /\ UNCHANGED <<todos, list, file, cur, created, pc, hist, run, compacted,
                   recovered, bounds, ghosts>>

\* Whoever has read the list already will not know of this.
Missing(i) ==
    [j \in DOMAIN batch |->
        IF j # i /\ batch[j].at = "computed"
        THEN [batch[j] EXCEPT !.missed = @ \cup Named(batch[i].call)]
        ELSE batch[j]]

Assign(i) ==
    /\ pc = "tools" /\ batch[i].at = "computed"
    /\ todos' = batch[i].plan
    /\ batch' = [Missing(i) EXCEPT ![i].at = "assigned"]
    /\ LET c == batch[i].call
       IN  /\ said' = [x \in Ids |-> IF x \in Named(c)
                                     THEN StatusIn(c.items, x) ELSE said[x]]
           /\ unsure' = (unsure \cup IF c.merge THEN batch[i].missed ELSE {}) \ Named(c)
    /\ told' = FALSE /\ before' = FALSE
    /\ UNCHANGED <<list, file, cur, created, pc, hist, run, compacted, recovered,
                   bounds, kept, untold, misread>>

\* The call returns the list as it is by now.
Report(i) ==
    /\ pc = "tools" /\ batch[i].at = "assigned"
    /\ batch' = [batch EXCEPT ![i].plan = todos, ![i].at = "done"]
    /\ UNCHANGED <<todos, list, file, cur, created, pc, hist, run, compacted,
                   recovered, bounds, ghosts>>

-----------------------------------------------------------------------------
(***************************************************************************)
(* Messages.                                                               *)
(***************************************************************************)
\* "plans" are those a message names, part by part; Nothing: a part without.
Plain(k)       == [k |-> k, plans |-> <<>>]
Returns(plans) == [k |-> "ret", plans |-> plans]
Shown(p)       == [k |-> "snapshot", plans |-> <<p>>]

Naming(m) == {j \in DOMAIN m.plans : m.plans[j] # Nothing}
Telling(h) == {i \in DOMAIN h : Naming(h[i]) # {}}
Tells(h)   == Telling(h) # {}

\* Seeded fault: the scan starts at the oldest message.
OldestPlan(h) ==
    IF Tells(h) THEN LET m == h[Min(Telling(h))] IN m.plans[Min(Naming(m))] ELSE <<>>

\* The latest message with a plan, be it a return or a snapshot, and its first part
\* with one.
LatestPlan(h) ==
    IF Tells(h) THEN LET m == h[Max(Telling(h))] IN m.plans[Min(Naming(m))] ELSE <<>>

\* It is a snapshot, some content of which reads like more items.
Misread(h) ==
    /\ Tells(h) /\ h[Max(Telling(h))].k = "snapshot"
    /\ \E x \in IdsOf(LatestPlan(h)) : Quoted[x] # <<>>

\* _format_active_todos writes the contents as they are, _parse_snapshot_lines reads
\* line by line.
Parsed(p) == FoldLeft(LAMBDA q, x : q \o <<x>> \o Quoted[x.id], <<>>, p)

\* _rehydrate_todos
Rehydrate(h) == IF Misread(h) THEN Parsed(LatestPlan(h)) ELSE LatestPlan(h)

\* _active_todos
Active(p) == Among(p, {x \in Item : x.status # "completed"})

\* _format_active_todos
Gist(p) == SubSeq(Active(p), 1, Min({SnapMax, Len(Active(p))}))

\* Seeded fault: only what is in progress is shown.
SnapshotOfWork(p) ==
    LET w == Among(p, {x \in Item : x.status = "in_progress"})
    IN  IF w = <<>> THEN <<>> ELSE <<Shown(w)>>

\* build_todo_snapshot
SnapshotOf(p) == IF Active(p) = <<>> THEN <<>> ELSE <<Shown(Gist(p))>>

\* compact_messages with the tail starting at s.
Compact(h, s) ==
    SubSeq(h, 1, HeadEnd(h)) \o <<Plain("marker")>> \o SnapshotOf(todos)
        \o SubSeq(h, s, Len(h))

\* strip_all_tool_returns makes new parts, without the metadata.
Strip(h) ==
    [i \in DOMAIN h |->
        IF h[i].k = "ret" THEN [h[i] EXCEPT !.plans = [j \in DOMAIN @ |-> Nothing]]
        ELSE h[i]]

\* Whether the compacted list tells the plan, if the list did or not.
ToldAfter(h, s, was) ==
    LET head == SubSeq(h, 1, HeadEnd(h))
        dropped == SubSeq(h, HeadEnd(h) + 1, s - 1)
    IN  IF Tells(SubSeq(h, s, Len(h))) THEN was
        ELSE IF Active(todos) # <<>> THEN TRUE
        ELSE IF Tells(dropped) THEN ~Tells(head)
        ELSE was

-----------------------------------------------------------------------------
(***************************************************************************)
(* Turns.                                                                  *)
(***************************************************************************)
\* persist_session_history: rewrite after a compaction, else append what is new.
Persist(ms, rewrite, tells) ==
    /\ list' = ms
    /\ file' = [file EXCEPT ![cur] =
                    IF rewrite THEN ms ELSE @ \o SubSeq(ms, Len(list) + 1, Len(ms))]
    /\ told' = tells
    /\ kept' = [kept EXCEPT ![cur] = todos]
    /\ untold' = IF tells THEN untold \ {cur} ELSE untold \cup {cur}

StartTurn ==
    /\ pc = "idle" /\ turns < MaxTurns
    /\ turns' = turns + 1
    /\ pc' = "request"
    /\ hist' = list
    /\ run' = Append(list, Plain("prompt"))
    /\ compacted' = FALSE /\ recovered' = FALSE
    /\ before' = told
    /\ UNCHANGED <<todos, list, file, cur, created, batch, responses, commands,
                   said, unsure, told, kept, untold, misread>>

AtRequest == pc \in {"request", "ready"}

\* proactive_window_processor, once before a request.
Preflight(s) ==
    /\ pc = "request" /\ s \in TailStarts(run)
    /\ pc' = "ready"
    /\ run' = Compact(run, s)
    /\ compacted' = TRUE
    /\ told' = ToldAfter(run, s, told)
    /\ UNCHANGED <<todos, list, file, cur, created, hist, recovered, batch,
                   bounds, said, unsure, before, kept, untold, misread>>

\* enforce_request_size spills a return: the new part has no metadata either.
Spill(i, j) ==
    /\ pc = "request" /\ run[i].k = "ret"
    /\ j \in Naming(run[i])
    /\ run' = [run EXCEPT ![i].plans[j] = Nothing]
    /\ told' = (told /\ i # Max(Telling(run)))
    /\ UNCHANGED <<todos, list, file, cur, created, pc, hist, compacted, recovered,
                   batch, bounds, said, unsure, before, kept, untold, misread>>

\* The request overflows: what ran in the segment is off the record, and the
\* stripped list, summarized or not, is where the turn goes on from.
Overflow ==
    /\ AtRequest /\ ~recovered
    /\ pc' = "request"
    /\ LET h == Strip(Append(hist, Plain("prompt")))
       IN  \/ hist' = h /\ told' = FALSE
           \/ \E s \in TailStarts(h) :
                 hist' = Compact(h, s) /\ told' = ToldAfter(h, s, FALSE)
    /\ run' = hist'
    /\ before' = told'
    /\ compacted' = TRUE /\ recovered' = TRUE
    /\ UNCHANGED <<todos, list, file, cur, created, batch, bounds,
                   said, unsure, kept, untold, misread>>

\* A response with calls of todo_write.
Respond(cs) ==
    /\ AtRequest /\ responses < MaxResponses
    /\ responses' = responses + 1
    /\ pc' = "tools"
    /\ batch' = [i \in DOMAIN cs |-> Called(cs[i])]
    /\ run' = Append(run, Plain("call"))
    /\ UNCHANGED <<todos, list, file, cur, created, hist, compacted, recovered,
                   turns, commands, ghosts>>

AllDone == \A i \in DOMAIN batch : batch[i].at = "done"

Accepted == {i \in DOMAIN batch : batch[i].plan # Nothing}

\* The returns go into one request, in the order of the calls.
EndBatch ==
    /\ pc = "tools" /\ AllDone
    /\ pc' = "request"
    /\ run' = Append(run, Returns([i \in DOMAIN batch |-> batch[i].plan]))
    /\ batch' = <<>>
    /\ told' = IF Accepted = {} THEN told ELSE Cardinality(Accepted) = 1
    /\ UNCHANGED <<todos, list, file, cur, created, hist, compacted, recovered,
                   bounds, said, unsure, before, kept, untold, misread>>

TurnOver ==
    /\ pc' = "idle"
    /\ hist' = <<>> /\ run' = <<>> /\ batch' = <<>>
    /\ compacted' = FALSE /\ recovered' = FALSE
    /\ before' = TRUE

Answer ==
    /\ AtRequest
    /\ Persist(Append(run, Plain("text")), compacted, told)
    /\ TurnOver
    /\ UNCHANGED <<todos, cur, created, bounds, said, unsure, misread>>

\* An error, or Ctrl-C: the segment is off the record.  A thread under way is
\* waited for.
BreakOff(abort) ==
    /\ pc # "idle"
    /\ \A i \in DOMAIN batch : batch[i].at \in {"called", "done"}
    /\ Persist(hist \o abort, compacted, before)
    /\ TurnOver
    /\ UNCHANGED <<todos, cur, created, bounds, said, unsure, misread>>

-----------------------------------------------------------------------------
(***************************************************************************)
(* Commands and processes.                                                 *)
(***************************************************************************)
Command ==
    /\ pc = "idle" /\ commands < MaxCommands
    /\ commands' = commands + 1
    /\ UNCHANGED <<turn, turns, responses, before>>

\* /new: the plan stays.
CmdNew ==
    /\ Command
    /\ list # <<>>
    /\ created + 1 \in Sessions
    /\ created' = created + 1 /\ cur' = created'
    /\ list' = <<>>
    /\ told' = (Active(todos) = <<>>)
    /\ UNCHANGED <<todos, file, said, unsure, kept, untold, misread>>

\* /clear: the same file, an empty list, and the plan stays.
CmdClear ==
    /\ Command
    /\ list' = <<>>
    /\ told' = (told /\ Active(todos) = <<>>)
    /\ UNCHANGED <<todos, file, cur, created, said, unsure, kept, untold, misread>>

\* /compact: the snapshot is all that is left of the plan.
CmdCompact ==
    /\ Command
    /\ list # <<>>
    /\ Persist(<<Plain("marker")>> \o SnapshotOf(todos) \o <<Plain("text")>>, TRUE, TRUE)
    /\ UNCHANGED <<todos, cur, created, said, unsure, misread>>

Knows(p) == said' = [x \in Ids |-> StatusIn(p, x)] /\ unsure' = {}

CmdResume(s) ==
    /\ Command
    /\ file[s] # <<>>
    /\ cur' = s
    /\ list' = file[s]
    /\ todos' = Rehydrate(file[s])
    /\ Knows(todos')
    /\ told' = TRUE
    /\ misread' = (misread \/ Misread(file[s]))
    /\ UNCHANGED <<file, created, kept, untold>>

Saved == {s \in Sessions : file[s] # <<>>}

\* A new process, at any moment: the newest transcript goes on with an empty
\* list, and without a plan.
NewProcess ==
    /\ commands < MaxCommands
    /\ commands' = commands + 1
    /\ cur' = IF Saved = {} THEN cur ELSE Max(Saved)
    /\ list' = <<>> /\ todos' = <<>>
    /\ Knows(<<>>)
    /\ told' = ~Tells(file[cur'])
    /\ TurnOver
    /\ UNCHANGED <<file, created, turns, responses, kept, untold, misread>>

TodosInit ==
    /\ todos = <<>> /\ list = <<>>
    /\ file = [s \in Sessions |-> <<>>]
    /\ cur = 1 /\ created = 1
    /\ pc = "idle"
    /\ hist = <<>> /\ run = <<>> /\ batch = <<>>
    /\ compacted = FALSE /\ recovered = FALSE
    /\ turns = 0 /\ responses = 0 /\ commands = 0
    /\ said = [x \in Ids |-> Nothing] /\ unsure = {} /\ misread = FALSE
    /\ told = TRUE /\ before = TRUE
    /\ kept = [s \in Sessions |-> <<>>] /\ untold = {}

TodosNext ==
    \/ StartTurn \/ Overflow \/ EndBatch \/ Answer
    \/ \E s \in DOMAIN run : Preflight(s)
    \/ \E i \in DOMAIN run : \E j \in DOMAIN run[i].plans : Spill(i, j)
    \/ \E cs \in Batches : Respond(cs)
    \/ \E i \in DOMAIN batch : Compute(i) \/ Assign(i) \/ Report(i)
    \/ BreakOff(<<>>) \/ BreakOff(<<Plain("abort")>>)
    \/ CmdNew \/ CmdClear \/ CmdCompact
    \/ \E s \in Sessions : CmdResume(s)
    \/ NewProcess

TodosSpec == TodosInit /\ [][TodosNext]_todosVars

-----------------------------------------------------------------------------
(***************************************************************************)
(* Properties.                                                             *)
(***************************************************************************)
\* An accepted update stands until a later call names the item again, however
\* the calls of a response overlap; only what a call did not know of when it
\* read the list may be undone by it.
UpdatesStand == ~misread => \A x \in Ids \ unsure : StatusIn(todos, x) = said[x]

\* At most one item is in progress and none is there twice, in the plan and in
\* the one /resume would make of any transcript, whatever calls ran side by
\* side and whatever was cut down, stripped or appended on the way.  Excepted are the
\* transcripts that end in a snapshot in which a content reads like more items, and
\* what comes of resuming one.
OneInProgress ==
    ~misread =>
        \A p \in {todos} \cup {Rehydrate(file[s]) : s \in {t \in Sessions : ~Misread(file[t])}} :
            OneAtWork(p) /\ DistinctIds(p)

\* /resume takes up the plan as it was when the transcript was last written, as
\* far as a snapshot can tell.  The latest word counts, of a return or a snapshot
\* alike.  That fails of a transcript which lacks the last
\* word: two calls of one response were accepted (the first return is taken),
\* the turn broke off behind a write, its return was stripped or spilled, all
\* was done when a compaction left an earlier plan in the head, or the plan is
\* that of another session or was lost with the process; and of one with a content
\* that reads like more items.
ResumeIsCurrent ==
    ~misread =>
        \A s \in Sessions \ untold :
            ~Misread(file[s]) => Gist(Rehydrate(file[s])) = Gist(kept[s])

=============================================================================

# co-cli in TLA+

A specification of the parts of co-cli whose correctness depends on the order in
which things happen: the turn loop, the message list it builds, the transcript
the REPL keeps of it, when the list is compacted and what becomes of tool
results in it, the cap on tool calls, background tasks, the tools that edit
files, the memory with its dream cycle, the library of skills with its curator,
the search index that follows memory items and transcripts, how texts are cut
for it and hits ranked, and the agent's plan with what becomes of it in a
transcript. Around these stand the parts that compute without keeping state of
their own: what comes up at a start, which tools an agent gets, what a call
passes before it runs, how a patch is matched, what queries, fetches and
commands answer, what the screen shows. TLC checks the modules on small
instances, TLAPS proves what matters most for the state machines.

Paths are relative to the repository; `co_cli/` is the package.

## The system

co-cli is a single-process, single-event-loop terminal agent. The REPL
(`co_cli/main.py`) owns the conversation: a Python list of messages. One line
of input is a slash command, which may replace that list, or a *foreground
turn*. A turn (`co_cli/context/orchestrate.py`) calls the agent SDK one or more
times (a *segment* each), asks the user for approvals in between, recovers from
rejected or oversized requests, and returns a `TurnResult` with the new list.
The REPL writes what is new in it to the session's transcript and may start a
review in the background. Tools run inside a segment, several at a time.

| Part | State | Operations | What makes it correct |
|---|---|---|---|
| Turn loop (`context/orchestrate.py`) | current input and history, latest result, approval decisions, reformulation budget, overflow flag, tool filter | run a segment, collect approvals, length retry, 400 reformulation, overflow recovery, error and interrupted results | only approved calls run; the prompt and the effects of tools stay on record; the returned list extends the given one, message by message, unless a compaction is reported; it comes back unless the model asks for approval without end |
| Message lists (`context/_compaction_*.py`, `compaction.py`) | none | plan boundaries, assemble a compacted list | head and tail survive, what is dropped is named by a marker, a call is not parted from the turn it is in |
| Session (`main.py`, `session/persistence.py`, `commands/{new,clear,compact,resume}.py`, `restore_session`) | message list, persisted count, transcript files | save, `/new`, `/clear`, `/compact`, `/resume`, start, stop | the count matches the file; what was answered is in it; sessions do not mix. The first two hold as long as the SDK joins no requests of the list |
| Compaction policy (`context/compaction.py`) | failure breaker, thrash counter, guard from the last compaction | proactive compaction before a request, overflow recovery, `/compact` | it weighs the list as it is; the breaker neither hammers nor gives up; the newest prompt survives; a pause ends only where it should |
| Tool lifecycle (`tools/lifecycle.py`, `tools/approvals.py`, `deps.py`) | call count and step, session approval rules | drop equal calls, repair arguments, ask or apply a rule, wrap each tool call, clear per turn | a response runs at most the cap; a call within the cap is not rejected; the user is asked unless a rule of theirs says so |
| File tools (`tools/files`, `tools/resource_lock.py`, `tools/file_read_tracker.py`) | read tracker, locks, files | read, write, patch | no update is lost; a patch is not applied to a file that changed, or that was not shown in full |
| Background tasks (`tools/background.py`, `tools/tasks`) | task table, subprocess, monitor | start, monitor, cancel, drain | a finished task is reported so once; a cancelled one is dead; a kill ends |
| Review and curator (`skills/`) | background task, iteration counter, usage records, skill files and archive, date of the last pass | post-turn review, curator pass, archive, restore, the skill tools | the task ends; passes are spaced; only idle skills are archived; records and places agree |
| Dream cycle and memory (`memory/`, `tools/memory`) | items, archive, index rows, processed transcripts | mine, merge, decay, save, change, delete, restore | no fact is lost; protected items stay; index and files agree; the cycle ends |
| Processors and spills (`context/history_processors.py`, `tools/tool_io.py`) | the tool results of the list | spill on arrival, dedup, evict, enforce size, strip | a reference can be followed; recent results are readable; nothing is spilled without need |
| Search index (`index/`, `memory/store.py`, `session/store.py`, `session/chunker.py`) | one SQLite connection: documents, chunks, vectors, embedding cache | sync at start, index and remove a document, search | a document is indexed whole or not at all; a vector is that of its chunk; the rows follow the files |
| Self-planning (`tools/todo/rw.py`, `_rehydrate_todos`) | the plan, in memory; tool returns and snapshots of it in the list | write or merge on a thread, show after a compaction, take up on `/resume` | an update stands; one item is in progress; `/resume` takes up the plan as it was |
| Retrieval (`index/_retrieval.py`, `memory/chunker.py`, `session/chunker.py`) | none | cut texts and transcripts into chunks, fuse, filter, rerank and limit hits | nothing is lost or parted; a document stands where its best chunk does |
| Shell and code tools (`tools/shell*`, `tools/code`) | none | classify a command, make its environment, run it under a timeout | what runs unasked is plain and safe; what is reported as killed is |
| Queries on files (`tools/files/read.py`) | none | read a range, find, search, with ripgrep or without | hints lead through a file; both ways answer the same |
| Startup and configuration (`bootstrap/`, `config/`) | settings, degradations, tool index | load layers, probe services, choose a search backend, connect MCP servers, check again later | a process that came up has what it was configured with, or says so |
| Agents (`agent/`, `tools/agents`, forks in `deps.py`) | tool surfaces, usage | assemble tools, narrow a resume, fork, delegate | surfaces keep their marks; delegation ends; a fork knows nothing of the turn |
| Prompt assembly (`context/assembly.py`, `prompt_text.py`, `_http_error_classifier.py`, `tools/mcp_schema.py`) | none | read rule files, warn of repetition, classify a refusal, shape schemas | warnings stand; only a refusal for length is taken for one |
| Display (`display/`) | buffers and live surfaces of the terminal | render a segment's events, select from a list | what the model said is shown once and in order |
| Web tools (`tools/web`) | none | check a name, fetch with retries, cut a page, search | the waits are bounded; both checks of a name agree; a cut is told |
| Recall (`tools/memory`, `tools/session`, `session/browser.py`, `index/search_util.py`) | none | search and view items and past sessions, clean a query up | a hit leads to what it is a hit of; what is cut says so |
| Commands and skill files (`commands/`, `skills/loader.py`, `skills/index.py`, `skills/lint.py`, `tools/system/skills.py`) | skill index, environment of a skill's turn, session rules | dispatch, complete, expand, write a skill, forget items, clear rules | what is offered can be had; what is refused leaves nothing |
| Google and Obsidian tools, personality, model factory, observability | handles, caches | I/O and construction | not state machines of interest; see *Not modelled* |

Parts interact by calls in one event loop, so a step is what happens between
two `await`s; the concurrency is among tasks (parallel tool calls, the
background review, task monitors), with subprocesses, with Ctrl-C, and with a
process that may die between any two file operations.

## Modules

`History` holds the messages and the operations on lists. A message keeps its
kind (prompt, reflection, abort marker, compaction marker, todo snapshot, text,
call, text with call, tool return) and `of`, the set of things it stands for:
the prompt, tool calls, or the turn it belongs to. A compaction marker stands
for everything that was dropped, so "on record" is membership in
`Covered(list)`. The planner's token budget is left out: `Compactions(h)` is
the set of results for every tail the budget can choose. The last turn group is
always kept (`_MIN_RETAINED_TURN_GROUPS = 1`). Breadcrumbs of `search_tools`
are behind the marker here; `Compaction`, which weighs messages, has them.

A list names its messages as they were made. The SDK (pydantic-ai 1.81,
external) joins adjacent requests of what it sends and hands that list back, so
Python may hold any of `Joinings(h)`, in which an abort marker and the prompt
behind it, say, are one message. That matters where a list is cut, so `Cuts` are
the cuts some joining allows, and where messages are counted, which is
`Session`'s matter.

`TurnContract` is the abstract specification of a turn, as the REPL relies on
it: it takes a history and either raises or returns a result that is `Allowed`. It
speaks of the messages, not of how many requests they are in.

`Turn` is `run_turn`. Its variables are the fields of `_TurnState` and the
runtime fields it uses (`resume_tool_names`, `compaction_applied_this_turn`),
plus `run`, the SDK's own copy of the list while a segment runs, and ghost
variables that record which calls ran, in which segment, and with whose
approval. One action per step:

| Action | Code |
|---|---|
| `StartFresh`, `StartResume` | `_execute_stream_segment` up to the first request; a resume first runs the approved calls |
| `Preflight` | the history processors before a request; they may compact the SDK's copy |
| `CallOn`, `DeferOn` | a model that goes on past the calls the instance tells apart: requests and approval segments have no limit (`request_limit=None`) |
| `Answer`, `AutoCalls`, `GatedCalls` | what the model and the SDK do with a request: text, calls that run, calls that are deferred (possibly both in one response) |
| `Decide`, `Finish`, `LengthRetry` | `_run_approval_loop`, `_length_retry_settings`, the normal return |
| `OverflowStrip`, `OverflowSummarize`, `Recover`, `OverflowFatal` | the overflow handler and `recover_overflow_history` |
| `Reject400`, `Backoff`, `ProviderError` | the 400 reformulation with its pause, the other errors and the segment timeout |
| `Interrupt`, `Escape` | `KeyboardInterrupt`/`CancelledError` in the try block; whatever leaves `run_turn` as an exception, an interrupt inside a handler included |

The SDK is not part of the repository; how it numbers, defers and resumes calls
is taken from how `orchestrate.py` and the tests use it, and those definitions
are marked external in `PROJECT.json`.

`Session` is the REPL around turns: `mem`, `persisted`, and the files with
their lines. A turn is one action whose result is one `TurnContract` allows; it
is saved in the same action as `_finalize_turn` does, and the save may fail
(`FailSave`) or be cut by a crash (`CrashInSave`), leaving any prefix and
possibly a torn line. The list may come back joined (`Handed`: adjacent requests
in what the last request was sent behind), and the REPL slices it by the count it
had. `Boot` is `restore_session`, which attaches to the newest
file but starts with an empty list.

`Mine` is the part of the dream cycle that reads transcripts: `processed` is the
list of names in its state file, `mined` what the miner was shown in the last
cycle. It is shown a window, the last texts and the last tool lines of each of the
newest files; of some (`partly`) it is shown less, because the transcript could
not be read or is too large, in which case it is marked at once, or because the
cap on saved items ended it.

The ghosts `joined` and `skipped` are whether the list was joined since the
count was set, and the turns whose messages the count then passed over.

`TurnContract` ties the two: `Turn` implements it (a refinement, the property
`ImplementsContract`, checked and proved), and `Session` uses it as the meaning
of a turn.

`ToolCallCap` is the counting that `wrap_tool_execute` does before a tool runs:
`count` and `limitStep`, two fields of the session's runtime, against `step`,
the number the SDK gives the current request. The SDK numbers the requests of
each run from zero and executes the calls approved in one run at step zero of
the next; the two fields are reset by nothing but a call that carries another
number. `Wrap` is one call passing the wrapper, `EndBatch` the end of a
response's calls, `Resume` and `Retry` the next segment, `StartTurn`/`EndTurn`
what surrounds them. The ghosts `ranHere` and `rejected` are the calls of this
step of this segment.

`Background` is one background task: the task record, the processes it has (the
shell as group leader, a child, a process that left the group, each holding the
output pipe or not), the monitor coroutine, and two kills that overlap, for a
user may cancel a task while the session's shutdown kills what is left. Every
`await` in `spawn_task`, `_monitor` and `kill_task` separates two actions; the
processes fork, close their output and die on their own. `stubborn` processes
outlive SIGTERM and `immortal` ones SIGKILL too (both fixed per behaviour);
`doomed` is the set of those whose fatal signal has been sent.

`FileEdit` is `file_read`, `file_write` and `file_patch` with the two fields of
`FileReadTracker` (`mtimes`, `partial`), beside a world of other processes that
may edit or delete a file between any two file-system calls. The tools that
write are registered as sequential and no other agent has them, so one of them
runs at a time and their locks are always free; locks are therefore not in the
model, and the race it has is the one with the world. A change of a file has a
number that stands for the text it put there and for the mtime it left; no two
changes share an mtime. A patch is a list of operations:

| Action | Code |
|---|---|
| `ReadStat`, `ReadText`, `ReadGone` | `file_read`: the mtime is taken before the text |
| `Start`, `Check`, `Refuse` | the checks of each operation (`_check_patch_preconditions`, the stale check of `file_write`); replace mode is a patch of one update |
| `Read`, `ReadFails` | the hunks applied to the text as it is, in memory |
| `Write`, `WriteFails`, `Record`, `Unlink`, `UnlinkFails` | the writing, in order, after every operation was computed; `update_mtime` asks for the mtime once more |
| `Linted`, `Interrupted` | the linter between two writes, the only await |
| `Restart` | another process: the tracker is in memory only |

The ghosts say what the agent was shown or wrote of each file (`shown`), what
others changed since it last read it (`foreign`), and which of these changes
came while a tool had checked the file and was not yet done with it (`late`).

`Compaction` is when the list is compacted. A message keeps its kind, what it
adds to the local estimate, and the input tokens the provider reported with it;
`true` says whether such a report still measures the list, which a compaction
ends. The numbers are small but the arithmetic is the code's: the larger of
estimate and report against a threshold, the savings in percent, the breaker's
remainder. `Check` is `proactive_window_processor` up to the summarizer;
`Summarized`, `SummarizerFails`, `Blocked` and `Cancelled` are the four ways the
summarizer step goes, whoever asked for it (`job`: the check, the overflow
recovery, or `/compact`); `OverflowStrip` and `OverflowCompact` are
`recover_overflow_history`; the commands and `Restart` say which of the runtime
fields survive. A turn is one segment with its retries, the rest being in
`Turn`; where the tail starts is any legal place.

`ToolResults` is what becomes of the results in the list. It keeps only the
tool returns, in their order, each in full, spilled, as a reference to another,
or cleared. `Request` runs the three processors in the order
`agent/orchestrator.py` registers them, as functions of the list (`Dedup`,
`Evict`, `Enforce`), and their list becomes the run's, so that the next request
starts from it; `ToolReturns`, `NewPrompt`, `Overflow` and `Compact` are what
happens to the list between two requests. `head` is the number of returns that
a compaction pins.

`Memory` is the directory of memory items, its archive, the index rows, and the
dream cycle from the miner to the decay sweep. An item is the set of facts it
holds. What runs between two awaits is a *section*, cut where it writes: `dirty`
is the file whose row comes next, `toArchive` the files yet to be moved.
`Create`, `Extend`, `Replace`, `Delete` are `memory_manage` (and the save and
mutate functions behind it); `UpdateRow`, `SyncRows`, `ArchiveNext` the rest of
a section, `Raise` an error in it; `Restore`, `DecayReview`, `StartCycle` the
commands; `IdentifyClusters`, `Merge`, `MergeFails`, `Decay`, `EndCycle` the
cycle; `TimeOut` its timer or Ctrl-C; `Restart` a new process, which syncs the
index. A sync passes over any file it cannot read or index (`Synced`), whose row
stays as it was, and that of a start takes in the archive. The ghosts say which
facts were saved, deleted, archived for age, or added while a merge had read the
item already.

`Skills` is the library of skills: the files, the archive, the usage records,
the date of the last pass, and the background task that runs a session review
and then, through a gate, a curator pass. `Begin` is phase 1 (state transitions
and moves, cut at the file operations as in `Memory`), `Save` phase 3; between
the two everyone else may run, `/skills curator run` included. `View`, `Edit`,
`Create`, `Delete`, `SetPinned` and `Restore` are the tools and commands,
`CopyIn` a person. Usage is noted only while tracking is on (`IfTracked`), by
`skill_view` and the skill tools; a skill used as a command (`/name`) is noted
nowhere, so that use is no step. `LoseRecords` and `EditState` are the two state
files when damaged, unreadable or edited: a date that is not one (`Garbled`) opens
the gate, and a state that cannot be read is that of a curator that never ran.
Ghosts: `touched`, when a creation or view was last noted;
`anew` and `astray`, the skills that were made while the archive had one of
their name, and those whose record may be off because a step failed, was cut or
was never taken; `alone`, when the last pass began that nobody overlapped;
`unread`, that the gate could not read the state.

`Index` is the one SQLite connection of a process. `view` is what the
connection sees and `db` what is committed; an error inside a transaction, or
the end of the process, takes the view back to `db`. The tables are documents
(the hash of a content is the content), chunks by rowid, and vectors by rowid;
rowids are used again, as SQLite does for a table without `AUTOINCREMENT`.

| Action | Code |
|---|---|
| `Boot`, `Visit`, `EndSync`, `EndSyncFails` | the syncs of a starting process, memory items first, transcripts next but for the one it starts in: visit every file, index it if its hash is another one, then `remove_stale` |
| `Begin`, `InsertChunk`, `PutVector`, `Commit` | one `IndexTransaction`: upsert, `_index_chunks_no_commit` row by row, commit |
| `Embed`, `NoEmbedding` | `EmbeddingService.embed`, which commits what it caches, and with it what the connection has open; a provider that fails |
| `TxRaises` | an error or Ctrl-C in the transaction, rolled back to the last commit |
| `Save`, `Discard`, `DiscardFails`, `Search` | the memory tools and a query |
| `Change`, `Stop` | others write files; the process ends anywhere |

A process has vectors or does not (`backend`), and the next may differ. The
ghosts are `cut`, the documents left as they were in the middle of a change,
and `off`, those that changed or failed since the process began. Notes and
articles go through the same transactions and are left out.

`Chunking` and `Ranking` are the pure parts of search, as operators on
sequences: how a memory item is cut by paragraphs and lines and a transcript by
a window that slides over its messages; and how the hits of words and of vectors
become one list (`_hybrid_merge`), are filtered, reranked by a cross-encoder
that may not answer, and limited. `SearchFacts` says what they are to compute.
Characters are numbers, scores fractions, and which chunks match a query or are
near to it is an input.

`Todos` is the agent's plan: `todos`, the list in memory, and as much of the
message list (`list`, `hist`, `run` as in `Turn`) and the transcripts (`file`)
as `/resume` and the planner of compactions look at: for every message its kind
and the plans its parts name.

| Action | Code |
|---|---|
| `Respond`, `Compute`, `Assign`, `Report`, `EndBatch` | the calls of `todo_write` in one response; a plain function that is not sequential runs on a thread, so one may read the list before another replaces it, and return a list that another has replaced |
| `StartTurn`, `Answer`, `BreakOff` | a turn of one segment, its result saved as `_finalize_turn` does; a broken one falls back on the list it started with, the plan stays |
| `Preflight`, `Overflow`, `Spill` | a compaction with its snapshot of the active items; the strip and a forced spill, whose new parts have no metadata |
| `CmdNew`, `CmdClear`, `CmdCompact`, `CmdResume`, `NewProcess` | what becomes of plan and list; only `/resume` sets the plan, and a new process begins without |

The ghosts are `said`, what the last accepted call made of an item; `unsure`,
the items of calls that overlapped and of which one was undone; `kept`, the plan
when a transcript was last written; `untold`, the transcripts whose last word it
is not; `misread`, that some `/resume` took a line of a content for an item. A
snapshot writes the contents as they are and `/resume` parses it line by line,
so `Quoted` says which items the content of an id reads like, and `Parsed` what
comes of it. The lists are not joined here.

The remaining modules have no variables either. They are operators translated
from the functions they are named for, followed in the same module by what is
to hold of them; the instances named in *Runs* evaluate that on bounded inputs.

- `Display`: the renderer with its buffers (`stream_renderer.py`) and the
  terminal's live surfaces (`display/core.py`), folded over a segment's events
  as `_handle_stream_event` does. A text is the sequence of the pieces that
  came; whether a redraw is due is part of the input.
- `ToolGate`: equal calls of a response (`Deduped`), the stages of the
  argument repair over texts of tokens (`Repair`), approvals with the session's
  rules (`Collect`), a command by the signs it bears (`EvaluateShellCommand`),
  its environment, and a run under a timeout with what is reported of it.
- `Patching`: the strategies `file_patch` tries in their order (`Resolve`), V4A
  hunks (`ApplyHunk`) and the parser (`Parsed`). Where `FileEdit` leaves open
  whether a hunk applies and what it makes, these operators say.
- `FileQueries`: `file_read`, `file_find` and `file_search`, in Python and with
  ripgrep, down to how ripgrep's output is parsed.
- `Startup`: the layers of settings and their validation, the search backend
  over services that answer or not, the context window, MCP discovery, the sync
  of canon scenes, and the later self-check over the same services.
- `Agents`: a tool's marks and its registration, the surfaces of the main agent
  and of task agents, the narrowing of a resume, forks, delegation with depth
  and budget, and the merging of usage.
- `Prompting`: rule files in order, the warnings about repeated calls and shell
  failures, what a refused request is taken for, and `sanitize_mcp_schema` on
  schemas as functions.
- `Web`: the retry loop with `Retry-After` and the second request to a
  challenge, the two checks of a name (before the call and at connect), domain
  rules, and how a page is cut. A delay drawn at random is the interval it is
  drawn from.
- `Recall`: memory search over index rows or files, user items first; the
  browsing, search, titles and views of past sessions; what the clean-up makes of
  a query (`SanitizeFts5Query`) and which queries the index takes.
- `Commands`: reading and layering of skill files, manifest and completer,
  dispatch and the expansion of a skill's body, a skill's environment and its
  removal, the skill tools with their rollback, lint, and the commands on
  memory items, approvals and tasks.

`HistoryTheorems` has lemmas on the list operators; `TurnProofs`,
`SessionProofs`, `CompactionProofs` and `FileEditProofs` the theorems about the
modules they are named for; `ToolProofs` those about `ToolCallCap`, `Background`
and `ToolResults`, `MemoryProofs` those about `Memory` and `Index`, and
`SkillsAndTodosProofs` those about `Skills` and `Todos`. The modules `MC...` are
the small instances.

## Runs

| Run | Question | Bounds |
|---|---|---|
| `turn` | Does a turn keep its promises through every mix of segments, retries and interrupts? | two tool calls told apart and any number more, one reformulation, an empty history and one of two turns with a call at the head; 1.0 million states |
| `session` | Do list, count and file agree, do answered turns reach the file, and is a transcript marked as processed only when its window was mined? Yes, but for the turns whose list came back joined. | two files, three turns, two processes, one write fault, a window of two texts and one tool line; 4.5 million states |
| `session_joined` | Is every turn appended, as the documents have it? No: two interrupts and an answer are joined into as many messages as the count says were saved, and the answer is never written. | the same |
| `tool_calls` | Does a response run at most the cap, whatever segments, retries and turns came before, and when can a response inherit another's count? Do the states that background tasks report stand, is a cancelled task dead, and does each kill and each ended task come to its end? | cap two, three calls in a response, two requests in a segment, four segments; three processes, two kills, all ways to take a signal; 0.3 million states |
| `background_child` | Does `kill_task` leave nothing running of the group? No: a child that survives SIGTERM is left when the shell dies of it, for the group is then not signalled again. | three processes, two kills |
| `tools` | Is what a tool overwrites or deletes always something the agent knew, and a patched file one it was shown in full, whatever others did to the files meanwhile? Yes, but for changes that arrive while the tool is at work. Can references be followed and are recent results readable, request after request? | two files, patches of up to two operations, four changes; four results of two lengths, three turns, two kept per tool; 4.6 million states |
| `compaction` | Does the check weigh the list it is given, does the breaker keep its cadence, and what ends a pause? | lists of up to seven messages, short and long results, nine failures in a row, probe every third time; 2.0 million states |
| `compaction_new` | Does `/new` end a pause, as the documents and the hint on the screen say? No. | the same |
| `memory` | Does anything lose a fact, put a file in two places or leave search apart from the files, and does a cycle end? | four files, two facts, one merge, one call of a tool, one error at a time; 1.1 million states |
| `memory_archived` | Is an archived item invisible to recall? No: the sync of the next start gives it a row. | the same |
| `index` | Is a document indexed whole or not at all, does a vector fit its chunk, and do the rows of an open process follow the files, whatever fails, is cut off or changes meanwhile? Yes, but for what a commit in the middle of a change leaves behind. | one item, one transcript, two contents that share a text, three rowids; 5.3 million states; and the facts about `Chunking` and `Ranking` below |
| `skills_and_todos` | Is only a skill archived of which nothing was noted for long, do records and places agree, are passes spaced, does the task end? Does an update of the plan stand whatever runs beside it, is one item at most in progress, and does `/resume` find the plan the transcript was written with? Yes, but for the transcripts of `untold` and contents that read like items. | one skill, four points in time, all thresholds met; two items, one of which quotes the other, four calls and two pairs of them, two responses that write, three turns, one command or restart; 2.0 million states |

Three runs hold two state machines that share no variable (`MCToolCalls`,
`MCTools`, `MCSkillsAndTodos`). In each behaviour one of the two moves while the
other is as it started, which is all their properties can tell apart.

What a run checks is what several steps can violate. Every invariant and
action property of the runs that pass is also proved, and so are the type
invariants. The other four runs each find a sentence of the documentation or of a
comment violated, and `PROJECT.json` quotes it.

Why the bounds are enough. Two calls give one response with one call that runs
and one that waits, two gated calls of which one is denied, and two segments
with a call each; a third call only repeats one of these. One reformulation and
the one-shot overflow recovery are each taken before, between and after
approvals. The history of two turns is the shortest with a head, a middle and a
tail to compact; the empty one is the shortest without. Two files are needed to
mix sessions, three turns to interleave two answers with a failure or an
interrupt, two processes for a restart. A cap of two with three calls has a
response below, at and above the cap; four segments let a turn end at step zero,
another resume at step zero, and a third get past it. Leader, child and stray
are the three ways a process can stand to the group and the pipe; a third kill
only repeats what the second meets. With two files a patch can meet the same
file twice or another one in between; four changes create two files, and leave
one of the world and one of the tool on top of them. Files are
interchangeable, so the run uses their symmetry. Seven
messages hold a turn at the head, one to drop and one with a tool call to keep;
the long result passes both threshold and window, the short one neither; nine
failures reach the third probe. Four results are two copies with something
between and one more than is kept, over three turns so that "before the last
turn" has an inside. Four items are a protected one, two that merge and the
merged one; one call of a tool may fall before, into or behind a merge. Skills do
not touch each other's files or records, so one is enough; four points in time
are active, stale, archived and one after. An item and a transcript are the two
kinds of document, one that tools write and one that only a sync indexes; a
content of two chunks can be cut off between them, and one that shares a text
meets the embedding cache; three rowids hold both documents and come back into
use with another text. Two items are enough to compete for being in progress and
to name different ones in two calls; three turns put one plan into the head that
compactions keep, a later one where they drop it, and a compaction behind both;
a snapshot of one item stands for the ten the code shows.

Six instances also state, as assumptions that TLC evaluates, what the operators
of the modules without variables compute, over every input up to a bound. Where
the code falls short of what one would expect, an assumption beside the others
says how (`UnionsLoseProperties`, say), and *Observations* has it in words.

`MCIndex`, of search. `ChunksAreCut`: the chunks of the run are those
`chunk_text` makes. `TextsAreCut`: of any four lines (long, short and blank
ones) it loses nothing, repeats nothing but the overlap, names the lines right
and keeps to the budget, of which the ends of lines are no part.
`TranscriptsAreCut`: the windows over any four messages cover the transcript,
move on, and never part a message. `ListsAreFused`: for any two lists of up to
three of four chunks, each document stands once, where its best chunk does.
`ResultsFit`: what a search returns is allowed, without repetition, at most as
much as was asked for, and led by the cross-encoder's best candidate.
`NearestMayFollow` is an observation below, `NearestLeadsInOrder` its converse.
Four lines and four messages are two chunks with something before, between and
behind; three hits of two documents are a document with two chunks against one
with a single one. Of recall: `QueriesAreTaken` (a cleaned query of up to four
tokens is one the index takes, unless operators meet or touch something),
`CleanStaysClean`; `HitsCanBeViewed`, `UsersComeFirst` and `NoKindIsMany` over
three items; `OthersAreFound` (a search leaves out the session in use and finds
another one once), `TitlesAreFound` and `ViewsAreWhole` over transcripts of two
lines with a cut in every place.

`MCTurn`, of what surrounds a turn. Display: over every stream of four events,
drawn at any rate, `StreamsAreShown` and `AnswersAreShownOnce`; over two calls
that overlap, `WorkIsShown` and, of their progress, `ProgressGoesToLast`;
`KeysSelect` over lists of three. Agents: `MarksStand` and `TaskToolsRun` over
all tools with all marks, `ResumesAreNarrow` and `ApprovedMayGo` over surfaces of
three, `DeferredAreAnnounced`, `AnswersAreTheUsers`, `ForksAreClean`,
`DepthsAreBounded`, `ResearchStops` over all ways two attempts may go,
`UsageIsCounted` and `OneSegmentIsTrue` over four events. Prompts: `RulesAreRead`;
`SingleCallsCount` with `ParallelCallsMayNot`, `WarningsStand`;
`OverflowsAreFounded` with `PhrasesAreMissed`; `ShapesAreMade` and
`UnionsAreShaped` over schemas of depth two, with `UnionsKeepTypes` and
`UnionsLoseProperties`.

`MCSession`, of the start of a process, over every combination of services that
answer, fail or are not configured: `SettingsAreLayered`, `KeysGoToTheirProvider`,
`StoresAreAnswered`, `ContextsFit`, `ToolsAreTold`, `StartsAreWhole`,
`CanonsAreSynced`; and of the self-check, `ChecksAgree`, `SilenceCounts`,
`DownMayBeFound`, `SurfacesSplit`.

`MCToolCalls`, of what a call passes: `RepairsParse` over every text of four
tokens, `RepairsKeep` over every beginning of a text of five,
`DuplicatesAreDropped` over responses of three parts, `ApprovalsAreAsked` over
three calls and every answer; `UnaskedCommandsArePlain`, `HostVariablesStand`,
`CommandsMayBeLeft`. Of the web tools: `RequestsAreFew`, `WaitsAreBounded` and
`ServersAreHeard` over every server of four answers, `WaitsGrow`,
`NamesAreCheckedTwice`, `RulesAreOfDomains`, `CutsAreTold`.

`MCTools`, of patches and queries: `ReplacementsFit`, `AllAreReplaced` and
`MatchesAreApart` over all short texts of an alphabet with blank, line end and
escape, with `EscapesMayOverlap`; `IndentedIsFound`, `HunksApply`,
`AdditionsKeep`; `PatchesAreRead` over two operations, `ReadPatchesFit` over
three lines. `ReadsLeadOn` and `RangesAreShown` over files of up to five lines,
`NewestAreFound` over four entries, `ContextIsShown` and `PagesAreWhole` over
seven lines, `SearchesAgree` with `CountsMayDiffer` over files of three lines.

`MCSkillsAndTodos`, of commands and skill files: over directories of two files
in each layer, `SkillsAreLayered`, `OffersAreKept`, `ManifestsShowMore`, with
`ReloadsDiffer` and `ConflictsMayBeOthers`; `BodiesAreExpanded` with
`PlacesInArguments`; `EnvIsRestored`; `RefusalsLeaveNothing` and `LintIsAdvice`
over all drafts; `ForgetIsList`, `FlagsMayBeWords` over five words;
`OneRuleGoes`.

Deadlock is not checked in `turn`, `session`, `session_joined`, `tool_calls`,
`background_child`, `tools` and `skills_and_todos`: a turn ends, a session stops
when the bound on processes is used up, a count when the segments are, a
background task when all that watch it are done, and a tool that has something
to write when the bound on changes is used up; the plan's turns and commands run
out. It is checked in the runs of `Compaction`, `Memory` and `Index`, which
always have a step left.

`OnlyApprovedRun` and `RerunOnlyByRetry` say two things of approvals: whatever a
retry does, no denied call runs (proved), and an approved one runs twice only
when its resume overflowed or met a 400. `PromptAnswered` and `ResumeAccepted`
make an exception for a turn in which a 400 was reformulated: for the former see
the observations, and for the latter the reflection opens a group of its own
behind the pending calls, so an overflow after it can compact them away and the
SDK refuses the resume. `Aligned` and `AnsweredOnDisk` are stated for a file
that no failed or torn write has set apart from the list (`sound`): a rewrite
that fails leaves the old count, and a torn tail swallows the line appended
behind it. `Aligned` and `AnsweredOnDisk` also leave out the turns whose
messages were waiting to be saved when the list came back joined (`skipped`): a
lost message is blamed on nothing else, and no earlier turn is lost.
`TurnsAreAppended` is the second without this exception, and does not hold.

`PausedUntilHelped` says what does not end a pause: turns, their failures,
`/resume`. Whether `/new` does is left to `NewLiftsPause`. `ArchivedWasIdle`
goes by what was noted and not by use: `docs/specs/skills.md:272-273` calls a
skill archived that was idle, and one used daily as `/name` is idle by its
record. `PassesAreSpaced` leaves out a pass whose gate could not read the state,
and starts anew when the state is edited. `ResumeIsCurrent` takes the latest
word, of a return or a snapshot, as `_rehydrate_todos` does; its docstring
(`resume.py:39-41`) and `docs/specs/self-planning.md` (section 2.5) have the
returns come first and the snapshot only where there is none. With the code's
order `/resume` takes the plan a snapshot holds over the older one that a return
in the pinned head does; with the documented one it would take items up that
were done since.

### Fairness

`Turn` assumes weak fairness of its whole next-state relation: each wait in
`run_turn` ends (the summarizer call and the pause are finite, an approval
prompt is answered or broken off). And it assumes weak fairness of
`ProviderError`: a segment is under `LLM_SEGMENT_TIMEOUT_SECS` with all its
requests and tools, so one in which the model calls on and on is broken off.
There is no limit on requests (`UsageLimits(request_limit=None)`,
`orchestrate.py:380`) and none on the approval loop, each round of which is a
segment with a timeout of its own. So `Terminates` has the condition that from
some time on no further approval is asked for (`DeferOn`), and says that nothing
else keeps a turn going: the length retry, the 400 reformulation and the
overflow recovery are bounded by their own flags and budgets. `MaxCalls` is only
the number of calls the model tells apart. `Session` has no fairness: its
properties are safety, and so are those of `ToolCallCap`, `FileEdit`,
`Compaction`, `ToolResults`, `Index` and `Todos`.

`Memory` assumes that a section runs on and the cycle goes on by itself between
its awaits (weak fairness), and strong fairness of `TimeOut`: the timer goes off,
and its cancellation takes effect at one of the awaits the cycle still comes to.
Neither miner nor merging model has to answer. `Skills` assumes that a section
runs on, and strong fairness of what ends or resumes the background task: it
gets its turn at the awaits of others, and the timeouts of review and curator go
off. The agents need not answer.

`Background` assumes weak fairness of the monitor and of each kill: the event
loop resumes a coroutine whose read, wait or timer is ready. Nothing is assumed
of the processes; that they may ignore signals for ever is in the model. So
`KillEnds` rests on the timeouts `kill_task` gives its waits, and `EndIsReported`
holds only of a monitor that did not fail (see the observations).

## Proofs

For every set of histories, every budget, ceiling and bound on calls:

- `TurnTypeCorrect`: `Spec => []TypeOK`. It is inductive once lists are known
  to stay lists of messages, which `HistoryTheorems` provides: a compaction of a
  list of messages is one (`CompactionType`), and so are the results of dropping
  the dangling call and of appending.
- `FilterCorrect`: `Spec => []FilterOnlyInResume`. The property speaks of
  `pc = "start"` only and is not inductive: a failing resume segment passes
  through `preflight` and `request` first. The invariant says that outside
  `collect` the filter is set exactly when there are decisions, and in
  `collect`, where decisions are gone and the filter may still be set, nothing
  is said; both ways out of `collect` set them together.
- `ApprovalCorrect`: `Spec => []OnlyApprovedRun`. The invariant adds that the
  decided calls are granted, that deferred calls are numbers already issued,
  and that a call not yet issued has neither run nor been deferred, so that
  running a plain call never touches a deferred one.
- `ContractCorrect`: `Spec => ImplementsContract`, the refinement. Every list
  the turn works on starts with `entry` until a compaction is noted, and holds
  at most one unanswered call, its last message (`ContractInv`). The second half
  is why an interrupt, which looks at the last message only, leaves none before
  its marker: compaction keeps it (`CompactionSettled`), for it cuts only before
  requests, and so do segments that end with calls deferred (`DeferredExtends`).
  A list that continues one, and a compaction's cut, are of messages as they
  were made; that a cut may fall where a joined list has it makes `Cuts` larger,
  and the lemmas are about all of them.
- `EffectsCorrect`: `Spec => []EffectsRecorded`. A compacted list stands for all
  that the list stood for (`CompactionCovers`). An interrupt takes the last
  message away if it is an unanswered call; the invariant says that of such a
  call nothing has run, which `ContractInv` knows.
- `PromptCorrect`: `Spec => []PromptAnswered`. The prompt is in flight or in the
  list, and no decisions are collected while it is in flight, so a resume has no
  prompt to lose.
- `ResumeCorrect`: `Spec => []ResumeAccepted`. Behind the calls that wait there
  are only returns (`Undecided`); compaction cuts before requests of the user's
  shape, all of which lie before them (`CompactionWaiting`).
- `RerunCorrect`: `Spec => []RerunOnlyByRetry`. It needs what `FilterCorrect` and
  `ApprovalCorrect` know, and that calls that wait for a decision have not run.

For every number of files, turns, processes and faults of `Session`:

- `SessionAligned`: `Spec => []Aligned`. The lines a file gained since the
  conversation attached are, those that can be read, the first messages of the
  list (`Gained`, `Matches`). A read skips lines, so a save is right only
  because reading what was appended to a file is reading the file and then what
  was appended, unless the last line is torn; `InStep` says that it is not. It
  is stated while nothing is `skipped`: from then on the count is that of a
  joined list.
- `SessionAnsweredOnDisk`: `Spec => []AnsweredOnDisk`. An answered turn is in
  the list, itself or behind a marker, and a turn that follows may take messages
  away at the end of the list: those of an unanswered call. `Kept` says that no
  answered turn is among them, `Continues` what of a list the next one begins
  with. A joined list stands for the same turns; those whose messages waited are
  `skipped`, and what is in the file stays there (`Saved`).
- `SessionOwnTurnsOnly`: `Spec => []OwnTurnsOnly`. `OwnTurns` says it of the list
  as well, by the session each turn was taken in; `Named` that a session not made
  yet has no file.
- `SessionMarkedWhenMined`: `Spec => MarkedWhenMined`, and `SessionTypeCorrect`.
  What is marked was in the window the miner was shown, for any size of the
  window, or could not be read.

For every cap and every bound on calls, steps and segments:

- `CapTypeCorrect`, `CapCorrect`: `CapSpec => []CapTypeOK`, `CapSpec =>
  []StepCapped`: a response never runs more calls than the cap. A fresh response
  may start with a count that is not its own, so the invariant keeps two facts
  apart: `CountCovers`, whatever the count holds, it is at least what ran here
  once the step is this one, and `CountExact`, once a batch of this segment was
  counted the count is this segment's alone.
- `CarryOnlyAtStartCorrect`: a call is rejected before the cap only in the first
  batch its segment counts. It needs `CountExact`.

For every way processes take signals:

- `BackgroundTypeCorrect`; `CancelCorrect`: `Spec => []CancelledIsOver`, a task
  shown as cancelled has no leader alive. A killer that is about to write
  "cancelled" has seen the leader die some steps before, so the invariant
  (`KillPosition`) says for every position of a kill what it already knows, and
  `Life` that a process that ended stays so.
- `ReportCorrect`: a reported state is changed by nothing but a kill that was
  under way when the task ended, and by nothing at all once no kill is.

For every set of files, every length of a patch and every number of changes:

- `FileTypeCorrect`, `LossCorrect`, `PatchCorrect`: `Spec => []TypeOK`,
  `Spec => []OnlyLateLoss`, `Spec => []PatchKnowsFile`. Both properties are
  about operations that are computed and wait to be written, long after the
  tracker was asked. The invariant has three parts: `Numbered`, every mtime and
  every entry of the tracker stems from a change already made, so that the next
  change has an mtime the tracker does not know; `Vouched`, a file that the
  tracker would let pass holds nothing foreign but late changes and, if it is
  not marked as partly read, nothing the agent was not shown; `JobKnows`, what
  `Vouched` said when an operation was checked is still true of it while it is
  computed, pending, or written and not yet recorded.

For every threshold, window, trip count and probe interval of `Compaction`:

- `ProbesKeep`: `Spec => []ProbesKeepCadence`. The property counts the
  compactions that were blocked since the last probe, the code a skip count and
  its remainder; the invariant `Cadence` says how the one follows from the
  other. That it is inductive is arithmetic, done once in lemmas on remainders
  (`OneRemainder`, `BeforeOther`, `BeforeMultiple`).
- `CountRight`: `Spec => []CountIsPressure`. A local estimate is a sum over the
  list (`Sums`), and what the check weighs it against is found by looking back for
  the last report. The invariant says what the guard is about: an estimate and a
  length of the list the last compaction left, of which the list at hand is a
  continuation (`Guard`), so that behind that length stand all reports that
  measured the list as it is (`TrueFrom`). Between the strip and the compaction of
  a recovery the guard is another list's (`Told`).
- `PauseStands`: `Spec => PausedUntilHelped`. It needs `NotPaused`: the check
  begins a compaction only when it is not paused, so that a compaction which
  ends a pause is somebody else's.
- `TypeCorrect`, for control and counters.

For all tools, values, sizes and thresholds of `ToolResults`:

- `ResultsLead`: `ResultsSpec => []RefsLead`. The processors are functions of a
  list, so each is shown to keep `Lead`, the property of one list, and `Paired`:
  it holds returns there were, in their order. References made at different
  requests form chains. What is named is of the same tool and comes later, and
  eviction clears the older results of a tool first, so it never clears the named
  one and leaves its reference. Which positions a forced spill takes is found one
  candidate after the other (`Spills`); of it the proof only needs that
  candidates are what it spills.
- `ResultsReadable`: `ResultsSpec => []RecentReadable`. The property counts the
  returns there were, eviction those still in the list; a compaction drops the
  older ones, so that what is among the last of all is among the last of the list.
- `ResultsTypeCorrect`, for the records of what was stripped and dropped.

For every set of names and facts of `Memory`:

- `SavedStays`, `InOnePlace`: `Spec => []NothingDestroyed`, `Spec => []OnePlace`.
  They are inductive together with the types: a move between the directories
  loses nothing only because the target name is free there. The clusters of the
  cycle are snapshots, read before the model was awaited, and the invariant
  says no more of them than that; so both hold whatever changed meanwhile.
- `MergesKeep`: `Spec => []MergeKeepsFacts`. The merged item says what the cycle
  read, some time before it archives the sources. `Read` says that a source says
  no more than that but for what is `late`, `Replaced` that as long as sources
  are being archived there is an item, not one of them, that says what they do.
  That clusters are disjoint is not needed.
- `RowsFollow`: `Spec => []RowsAgree`. A sync may fail on any files; a row is
  then as wrong as it was (`Unmended`), and no row gets wrong by it. `RowsInv`
  adds that a file whose own row comes next has no row as an archived file that
  nobody would take away.

For every set of skills and every setting of the ages of `Skills`:

- `ArchivedAreAway`: `Spec => []ArchivedIsAway`, which speaks of the time between
  sections. `RecordsInv` says what is pending while a record calls a skill
  archived that is still there.
- `ArchivedWereIdle`: `Spec => ArchivedWasIdle`. The pass decides by the record
  and moves some steps later; `MoveInv` keeps what it saw, `TouchInv` that no
  use is noted without moving the date it goes by.
- `PassesSpaced`: `Spec => PassesAreSpaced`, for passes nobody overlaps and a gate
  that could read the state. An edited state has no date that counts (`alone`).
  `PassInv` says that no date still to be saved is older than the one saved.

For all items, calls, contents and transcripts of `Todos`, as long as no
`/resume` has taken a line of a content for an item (the invariant is `misread
\/ PlansInv`; a step that misreads makes it true, and nothing takes `misread`
back):

- `PlansOneInProgress`: `TodosSpec => []OneInProgress`. Every plan a call assigns
  was checked when it was made (`Good`), and so was every plan a message names;
  a snapshot leaves items out, and leaving some out of a good plan makes a good
  one.
- `PlansStand`: `TodosSpec => []UpdatesStand`. A call that read the list before
  another replaced it has lost the other's update. `Made` says of a computed list
  that it has what its call says of the items it names, and of the others what
  the plan says but for what it is known to have missed.
- `PlansResume`: `TodosSpec => []ResumeIsCurrent`. The transcript is told of a
  plan when it is saved, some steps after the return that names it. `ToldInv`
  says that who is told has the word now and in the transcript that a save would
  make (`Future`); `Sole` that a call accepted alone reports the plan as it is.
  After a compaction the word is with the tail it keeps, else with the snapshot,
  else with the head, and which of the three it is decides what is told.

For any documents, chunks and number of rowids of `Index`:

- `IndexWhole`: `IndexSpec => []Whole`. `JobInv` says that the document at work
  has the first chunks of its content, so that behind the last it has all;
  `WholeInv` that what the connection sees is whole but for that document, and
  what is committed is whole, even of that one until an embedding commits early.
- `IndexVectors`: `IndexSpec => []VectorsFit`, where the vector to come is that of
  the chunk at hand.
- `IndexFollowsDisk`: `IndexSpec => []RowsFollowDisk`. `FollowInv` says for each
  phase of a sync which documents have been looked at; that a rollback does not
  bring back rows which were right before is `SameRows`.
- `IndexTypeCorrect`.

Lists are built, filtered and summed by recursive functions over the length of
the list. What such a function computes is proved by an induction over sets: the
set of those lengths up to which the claim holds is that of all (`HistoryTheorems`
has the lemmas, on `Among` for filters).

The assumptions are the types of the constants (`TurnAssumption`,
`SessionAssumption`, `CapAssumption`, `FileAssumption`, `CompactionAssumption`,
`TranscriptsAssumption`, `ToolResultsAssumption`, `TodosAssumption`,
`IndexAssumption`) and that the value for "none" is no other one
(`NoneAssumption`, `ItemAssumption`, `RowAssumption`). `ContractCorrect`
also assumes that the history a turn is given holds at most one unanswered call,
its last message (`HistoriesAssumption`): a turn that fails may leave one, and a
prompt behind it is refused, so none comes to lie before another.

Only model-checked: the liveness properties (`Terminates`, `KillEnds`,
`EndIsReported`, `CycleEnds`, `TaskComesToEnd`), which are out of the prover's
reach, and the functions of the modules without a state, which are evaluated on
every input up to a bound.

## Observations without a run

Turns and transcripts:

- The decisions on deferred calls are cleared only when a segment completes
  (`_execute_stream_segment`), so a resume that ran an approved call and then
  overflowed or met a 400 is retried with the same decisions and the call runs
  again; `docs/specs/core-loop.md` has them "consumed by the next resume hop".
- The 400 reformulation appends its reflection to the history and drops the
  current input without putting it there: when the first request of a turn is
  rejected, the answer is to the reflection alone.
- `_build_interrupted_turn_result` looks at the last message only. A response
  that mixes calls that run at once with calls that wait for approval is
  followed by the returns of the former, and the waiting call stays unanswered.
- The SDK joins adjacent requests of the list it sends and hands that list back.
  After interrupts, which leave abort markers with the next prompt behind them,
  it is shorter than the count of saved messages says, and `_finalize_turn`
  passes over as many messages of the turn; the answer may be one of them
  (`TurnsAreAppended`). The same shift makes `message_count_at_last_compaction`
  too long for the list; `Compaction` does not have that.
- Nothing bounds the approval loop of a turn: a model that asks for one more
  approval after each is stopped by the user only (`Terminates`).
- A compaction after `/clear`, or after a restart (which attaches to the newest
  file with an empty list), rewrites the file with the new list: the earlier
  conversation is gone, although `session/persistence.py` calls transcripts
  permanent until the user deletes them.
- Two turns in a row that call tools at the same step number share a count, so a
  call within the cap may be turned away at the start of the second
  (`CarryOnlyAtStart` says where).
- A miner is shown the last texts and tool lines of a transcript, and the
  transcript is marked with what came before them unread. One above 50 MB, or
  that cannot be opened, loads as empty and is marked at once; a session whose
  first chunks reach the cap on saves is marked with the rest of its window
  unread (`partly` in `MarkedWhenMined`).
- A transcript the dream cycle has processed and that grows afterwards, in the
  process that goes on or in one that attaches to it, is never mined again.
- A resume that fails for good returns a list that ends in the deferred call;
  the SDK refuses a prompt behind it, so the turns that follow raise until the
  user interrupts one, clears or compacts (`Session` has it: a turn on such a
  list gets no further than an interrupt).
- Ctrl-C during the pause after a 400 or during overflow summarization leaves
  `run_turn` as an exception; the table in section 2.5 of
  `docs/specs/core-loop.md` gives an interrupted result.
- An interrupt replaces a call at the end of the list by the abort marker in
  memory, while the transcript, which already has it, keeps the call
  (`SameMessage` in `Session`).
- A `/compact` whose write fails leaves the count of the old, longer list.
- The length retry needs model settings with `max_tokens`; the REPL passes
  none, so only other callers reach it.

Tools and tasks:

- The cap holds for a response's calls in one run. Calls of the same response
  that wait for approval run in the next one, with a count of their own, so a
  response with both kinds can run twice the cap.
- A monitor that cannot write its log, or meets a line longer than the stream's
  limit, ends with an exception nobody awaits: the task stays "running", and a
  process that writes on fills the pipe.
- A kill that fails sets `completed_at` on a task it leaves "running"; a spawn
  that is cancelled leaves "running" with no process until someone cancels it;
  a task that ends by itself during a kill is shown as "cancelled".
- A file that someone changes while a patch is at work (between its check and
  its write, where the linter of an earlier file may take its whole timeout) is
  overwritten without notice; `docs/specs/tools.md` promises an error for a
  changed mtime. This is the exception in `OnlyLateLoss`. A change between a
  write and the `stat` behind it is even taken for the tool's own: later checks
  pass.
- The tracker keeps its entry when a file is deleted, by a patch too. Then
  `file_write` finds the mtime changed and asks to read the file, which is not
  there; only an `Add` of `file_patch` can create it again.
- `file_read` marks any file longer than its default limit as partly read, and
  `file_patch` refuses such a file with the advice to read it without a range,
  which marks it again. Writing the file does not clear the mark either.
- The tracker outlives `/new`, `/clear` and compactions, after which the agent
  no longer has the text the tracker vouches for.
- A patch that fails or is broken off between two files has written the earlier
  ones and reports nothing of them.
- Two updates of one file in one patch are both computed from the text before
  the patch, and the second write undoes the first; both are reported.

Compaction and tool results:

- A failed turn may leave the guard of a compaction whose list is gone, or have
  lifted it because of a response that is gone too; `/resume` keeps the guard of
  the list it replaces. The check then goes by an estimate of another list until
  the next response, or compacts early. This is the exception (`disturbed`) in
  `CountIsPressure`.
- Neither `/new` nor `/clear` resets the thrash counter, although the hint of
  `orchestrate.py` offers "/new for a fresh session" and `compaction.md` lists
  the cross-turn fields as cleared by the two (`NewLiftsPause`).
- The first probe of the breaker comes after `ProbeEvery` blocked compactions,
  the later ones after `ProbeEvery - 1`, for the failed probe counts too.
- A reference that a compaction keeps in the head may name a return that it
  drops (the exception in `RefsLead`).
- `find_first_run_end` notes that a first response with calls only gives an
  empty head; the code goes on to the first response with text, so the calls
  before it are pinned.
- Evicting a spilled result or a reference builds its marker from the
  placeholder text: the size it names is the placeholder's, the path is lost.
- What the provider reported can trigger `enforce_request_size` but does not
  count in what it spills: with the local estimate below the threshold it spills
  nothing. A placeholder has a few lines of its own, which the model leaves out;
  a result barely longer than a preview grows by being spilled.

Memory and skills:

- A fact that is deleted or replaced while a merge awaits its model comes back
  with the merged item; one that is appended meanwhile to an item of the cluster
  goes to the archive with it (the exception `late` in `MergeKeepsFacts`).
- An error between the file operation and the row leaves the row as it was until
  the file changes again or a new process syncs, and a sync passes over a file
  it cannot read with a warning (`torn` in `RowsAgree`).
- The sync of a starting process uses the pattern `**/*.md`, which takes in
  `_archive/`: archived items are indexed again and a search finds them, although
  `memory/archive.py:6` calls them invisible to recall (`ArchivedInvisible`).
- A restored skill keeps the record that calls it archived, and no pass looks at
  it again; so does one whose move failed. A move overwrites an older archived
  skill of that name, a restore a newer active one: both happen once a skill
  was made anew under the name of an archived one.
- `run_curator` looks for another curator before it has awaited anything since
  it read the state, so within a process it never finds one: `/skills curator
  run` and the background pass may consolidate at the same time, lose one of the
  two counts, and put back the date.
- The timeout around the background pass started before that of its agent and is
  as long, so it goes off first and cancels: phase 3 is skipped, no report is
  written and the date stays, and the next review runs another pass.
- The gate passes when there was no pass yet even if `paused` is set, and
  nothing in the program sets it. `/skills curator run` does not ask whether the
  curator is enabled. Editing a skill does not count as use, and neither does
  calling it as `/name`, which the dispatcher notes nowhere: a skill used so every
  day is archived like an idle one.
- A date in `.curator_state.json` that cannot be parsed opens the gate, and a file
  that cannot be read counts as that of a curator that never ran, each time anew.

Index:

- `embed()` commits on the connection its caller has a transaction open on. An
  error behind it (a vector of the wrong length, a busy database), Ctrl-C or a
  crash leaves the new hash with part of the chunks, and no sync looks at the
  document again until it changes (the exception `cut` in `Whole`), although
  `IndexTransaction` is documented to roll back on an exception.
- A removal outside of a transaction that raises is not rolled back and goes out
  with the next commit, a search's included.
- A chunk whose embedding failed never gets a vector: its document has the
  current hash.
- A process without vectors between two that have them deletes chunks and keeps
  their vectors (`orphans` in `VectorsFit`). When the rowid is used again, the
  chunk gets another text's vector, or putting its own raises, which every later
  sync repeats. Another embedding model of the same dimension keeps the vectors
  of the old one.
- A transcript that yields no chunks keeps the row it had. A directory that is
  not there ends a sync before `remove_stale` (`memory/store.py:71`), so its
  rows stay; the default directories are made at the start, and the model has
  them.
- `_vec_chunks_search` sorts by distance, and then looks the chunks up with
  `rowid IN (...)` and no order, so they come as SQLite finds them, by rowid; the
  fusion ranks them as if they came by distance. A chunk that leads both lists
  need not lead the result (`NearestMayFollow`).
- Sources, kinds and dates are applied to the nearest vectors after they were
  fetched, so a search for one kind may find no vector although there are some.
- `memory.chunk_tokens` may be 0 by its validation, and `chunk_text` then does
  not come to the end of a line. An overlap as long as a chunk is cut to a quarter
  of it where a tool saves an item and to all but one token where a sync does
  (`memory/store.py:51`), so the same item has other chunks.
- The tools for Obsidian and Drive that index what they read are plain
  functions, which run on worker threads, where the connection refuses to be
  used; they fall back to a search by pattern, and their part of the index
  stays empty.

Self-planning (the first six make a transcript `untold` in `ResumeIsCurrent`):

- When two calls of one response are accepted, `/resume` takes the first of the
  two returns, which need not be the later one.
- The strip of an overflow and a forced spill make new tool returns without
  metadata, and `/resume` reads the plan from the metadata: it then takes an
  older plan or none. `strip_all_tool_returns` says that only `.content` is
  rewritten.
- When no item is active a compaction adds no snapshot; an older plan that it
  keeps in the head becomes the last one, and `/resume` takes up items that were
  done.
- `/new` and `/clear` keep the plan of the conversation they end, and no
  transcript of the next one has it until it is written again.
- A turn that is broken off or fails after a write leaves the plan ahead of the
  list; the model reads of it in no message.
- A restart loses the plan, though the session goes on in the same transcript.
- Two merges of one response may both read the list before either replaces it:
  both report success and one is lost (`unsure` in `UpdatesStand`).
- A snapshot has at most ten items and no priorities, and of a content of
  several lines the first. A line of a content that reads like an item is one
  after a `/resume`, a second one in progress perhaps (`misread`, the exception in
  the three properties of the plan).
- The latest record of the plan counts, a snapshot as well as a return; the
  docstring of `_rehydrate_todos` and section 2.5 of `docs/specs/self-planning.md`
  have snapshots count only where there is no return.
- `docs/specs/self-planning.md:66` and `:202` have it that nothing validates
  that at most one item is in progress; the code does
  (`_check_one_in_progress`), of a fresh list and of a merged one.

Display:

- With reasoning shown in full, thinking that comes after text in one response
  is shown above that text.
- Parallel calls share one progress callback, the one of the call that began
  last, and their progress is shown there.
- A segment that is interrupted does not commit the text it has buffered.

Calls, commands and patches:

- A command whose shell has ended while a child holds the pipe is reported as
  timed out, and nothing is killed. Output that cannot be decoded comes back as a
  reason to try again, after the command ran.
- The repair of trailing commas takes those inside of strings too.
- Where an escape is expanded to match, a match that ends in one leaves the
  letter of the escape behind, and blanks at the start of a line are taken though
  they were not matched; with `replace_all` two such matches may overlap and
  garble the text.
- Whether an old text is unique is decided by occurrences that do not overlap; a
  match need not begin at a line; an empty old text matches everywhere.
- An empty line without prefix inside of a hunk is dropped. `*** End Patch` ends
  the patch wherever in a line it stands. Deleting lines without context leaves
  an empty line.
- With ripgrep, a line of context that has a number between colons counts as a
  match, and so does one of a file with such a path; `files_with_matches` counts
  files, without ripgrep matches; separators are printed between files, without
  it they are not.
- The Python glob says that it left something out at exactly the limit, and
  returns directories for a recursive pattern although its docstring says files
  only. A read whose end is before its start gives a hint that leads back.

Startup:

- An empty variable of the shell hides that of the `.env` file. A value of the
  environment that does not fit is blamed on the settings file.
- `bootstrap/check.py` calls a missing Ollama model a hard fail, "session cannot
  start"; `create_deps` does not ask. A provider that cannot be reached counts
  as ready (`SilenceCounts`).
- An MCP server that does not connect is not among the degradations, and the
  self-check says "command found" of it (`DownMayBeFound`).
- With `fts5` and no reranker the status still says that hybrid search needs
  one. Google without configuration is a finding while its state is "not
  configured".
- Rows of another personality's canon stay in the index; nothing searches the
  source `canon`, which `context/assembly.py` says is there for injection.

Agents:

- The usage the SDK hands over is cumulative, and a turn of several segments
  adds each again with every later one (`UsageIsCounted`). What a delegation that
  failed has used is not counted.
- Task agents register their tools without approval and without `sequential`, so
  two calls of a tool that is not safe beside others may run together.
- The second attempt of `web_research` drops the restriction to domains.
- Forks set `auto_approve_*`, which nothing reads; a fork has no session path.
- An approved tool whose service has gone meanwhile is not offered in the resume.
  MCP tools that the index does not know pass the filter of a resume and are not
  sequential.

Prompts and schemas:

- Repeated calls are counted over messages backwards and over the calls of a
  response forwards, so parallel calls make the count too low or too high; the
  stop at ten of the docstring is not there.
- The phrase that tells an overflow is missed when `error` is a string.
- A list of types survives in the branch a union collapses to. A union of one
  branch that only says what is required takes the parameters with it
  (`UnionsLoseProperties`).

Web:

- A page cut by bytes is reported as whole when what is left fits the characters.
- A `Retry-After` of 0 is taken as a second. An error in a redirect ends the
  retries at once.
- The count of `web_search` is held to its maximum only, and all that the service
  sent is returned.
- An address that cannot be read makes `is_url_safe` refuse a name; the check at
  connect passes over it.

Recall:

- The limit of `session_search` is one of browsing; a search returns up to three,
  although the docstring says "Max sessions returned".
- `session_view` shows the name of a tool call and not its arguments, and a cut
  preview does not say so.
- An empty list of kinds means all but the user's items with the index and all
  without it; an inventory of no kind is empty.
- Archived items that the index has (see *Memory and skills*) are hits that
  `memory_view` does not find.
- A title is found only if its message ends within the first 4 KB of the file; a
  session whose first request is long is "(untitled)".
- The clean-up of a query takes one operator from either end and may leave
  another behind, so the index refuses the query; the search by pattern that
  follows limits before it orders. `search` is documented to return nothing for
  stopwords only; nothing strips them there.

Commands and skill files:

- `/skills lint` raises `SystemExit(1)` when it finds something. The REPL catches
  `Exception`, so the session ends.
- The reload behind the skill tools does not filter names of commands, so such
  a skill is in the index and the manifest while dispatch runs the command
  (`ReloadsDiffer`); it does not refresh the completer either.
- Dispatch lowers the name: a skill whose name has capitals is offered and
  cannot be reached. It does not ask for `user_invocable`.
- The places `$1`, `$2` of a body are filled only if it has `$ARGUMENTS` too and
  there are arguments; an argument that holds a place is expanded again; `$12`
  with fewer arguments is the first and a "2"; without arguments `$ARGUMENTS`
  stays.
- `/skills check` calls a skipped symlink or unreadable file a conflict with a
  built-in name. A user's file that cannot be read silently leaves the bundled
  skill of that name.
- The manifest lists skills that are hidden from the model, which `skill_view`
  refuses. A patch of a skill is not validated as its creation is.
- Of `/memory`, a flag without a fit value is a word to look for, and `forget`
  ends with an exception at the first file that is gone, leaving the rest.
- `/approvals clear` with a negative number counts from the end.

## Plan

Done: all modules above, with proofs of every invariant and every action property
the runs check, and of the refinement. The state machines are as complete as the
code allows.

Next, if more is to be proved: of the modules without a state, what
`WaitsAreBounded`, `DepthsAreBounded` and `RequestsAreFew` say, for every bound.

## Not modelled

- Where the SDK joins requests, but in `History` and `Session`; `Compaction` and
  `Todos` count lists that are not joined. Cleared results so long that they are
  taken for repeated ones again (`ToolResults`), and missing directories.
- Token arithmetic but for the comparisons `Compaction` makes, wording, the
  contents of prompts and summaries, panels and colours, spans and logs.
- Which texts bear which sign of a command (patterns, splitting of arguments):
  `ToolGate` starts from the signs. Likewise `Prompting` from the fields of a
  refusal, and `Web` from the marks the library gives an address.
- Snippets of hits, similarity, and everything a model decides or writes.
- The requests themselves: to search engines, Google, Obsidian and MCP servers.
  What co-cli makes of the answers is in `Web`, `Startup` and `Agents` as far as
  it branches on them; the Google and Obsidian tools format what they get.
- Fields of the configuration and their defaults, personality, the construction
  of model objects, observability, which only writes.
- The evaluations and scripts, which are not part of the program.

None of these keeps state whose interleavings matter. `PROJECT.json` lists every
component with its status.

------------------------------- MODULE Session -------------------------------
(***************************************************************************)
(* The REPL's conversation and its transcript files: _handle_one_input,    *)
(* _finalize_turn and _apply_command_outcome of co_cli/main.py, the        *)
(* persistence of co_cli/session, and the commands /new, /clear, /compact  *)
(* and /resume.                                                            *)
(*                                                                         *)
(* The REPL holds the message list and how many of its messages the file   *)
(* already has.  A turn is one step here: what run_turn may return is what *)
(* TurnContract allows, handed back with the adjacent requests of what the *)
(* model was sent joined or not (History).  The REPL takes the unsaved     *)
(* messages by their count, whether the list was joined or not.  Message   *)
(* contents are the numbers of the turns they belong to, so that a lost or *)
(* misplaced message can be told.                                          *)
(***************************************************************************)
EXTENDS History

CONSTANTS
    MaxPaths,   \* bound: session files
    MaxTurns,   \* bound: turns over all processes
    MaxBoots,   \* bound: processes started
    MaxFaults,  \* bound: writes that fail or are cut by a crash
    MaxText,    \* _DREAM_WINDOW_MAX_TEXT
    MaxTool,    \* _DREAM_WINDOW_MAX_TOOL
    Lookback,   \* memory.consolidation_lookback_sessions
    NoResult    \* parameter of TurnContract

ASSUME SessionAssumption ==
    /\ MaxPaths \in Nat \ {0}
    /\ MaxTurns \in Nat
    /\ MaxBoots \in Nat \ {0}
    /\ MaxFaults \in Nat
    /\ MaxText \in Nat /\ MaxTool \in Nat /\ Lookback \in Nat

Paths == 1..MaxPaths    \* in the order of their names: creation time, suffix
Turns == 1..MaxTurns

Contract == INSTANCE TurnContract
    WITH hist <- <<>>, status <- "running", result <- NoResult

\* A line of a transcript: a message, the torn start of one at the end of the
\* file, or a line made of a torn one and what was appended to it.
Torn == [k |-> "torn", of |-> {}]
Bad  == [k |-> "bad",  of |-> {}]
Line == Msg \cup {Torn, Bad}

VARIABLES
    alive,     \* a process is running
    path,      \* deps.session.session_path
    mem,       \* message_history of the chat loop
    persisted, \* deps.runtime.persisted_message_count
    files,     \* the session files that exist
    disk,      \* their lines
    created,   \* how many session names were made
    turn,      \* turns taken
    boots,     \* processes started
    faults,    \* write faults so far
    processed  \* processed_sessions of memory_dir/_dream_state.json

\* What happened, for the properties only.
VARIABLES
    base,      \* lines the file had when this conversation attached to it
    sound,     \* no write fault has set the file apart from the conversation
    answered,  \* turns answered since the conversation attached
    joined,    \* the list was joined since the count was set
    skipped,   \* turns the count was taken wrong for
    home,      \* the session file each turn was taken in (0: none)
    mined,     \* turns the miner was shown in the last cycle
    partly     \* files it was not shown the whole window of

bounds == <<created, turn, boots, faults>>
ghosts == <<base, sound, answered, joined, skipped, home>>
dream  == <<processed, mined, partly>>
vars == <<alive, path, mem, persisted, files, disk, bounds, ghosts, dream>>

Init ==
    /\ alive = FALSE
    /\ path = 1 /\ mem = <<>> /\ persisted = 0
    /\ files = {} /\ disk = [p \in Paths |-> <<>>]
    /\ created = 0 /\ turn = 0 /\ boots = 0 /\ faults = 0
    /\ base = 0 /\ sound = TRUE /\ answered = {}
    /\ joined = FALSE /\ skipped = {}
    /\ home = [t \in Turns |-> 0]
    /\ processed = {} /\ mined = {} /\ partly = {}

-----------------------------------------------------------------------------
(***************************************************************************)
(* Files.                                                                  *)
(***************************************************************************)
HasTornTail(f) == f # <<>> /\ Last(f) = Torn

\* append_messages: text appended behind a torn line becomes part of it.
Appended(f, ms) ==
    IF ms = <<>> THEN f
    ELSE IF HasTornTail(f) THEN Front(f) \o <<Bad>> \o Tail(ms)
    ELSE f \o ms

\* What a write of ms to f may leave behind when it is cut short.
CutShort(f, ms) ==
    LET whole == {Appended(f, SubSeq(ms, 1, i)) : i \in 0..Len(ms)}
    IN  whole \cup {IF HasTornTail(g) THEN g ELSE Append(g, Torn) : g \in whole}

\* load_transcript: malformed lines are skipped.
Readable(f) == Among(f, Msg)

\* Seeded fault: the tail starts one message late.
UnsavedLate(ms) == SubSeq(ms, persisted + 2, Len(ms))

\* messages[persisted_message_count:]
Unsaved(ms) == SubSeq(ms, persisted + 1, Len(ms))

\* Seeded fault: the list of the old conversation is carried over.
AttachKeeping(p, lines, ms) ==
    /\ path' = p
    /\ mem' = mem
    /\ persisted' = Len(ms)
    /\ base' = IF ms = <<>> THEN Len(lines) ELSE 0
    /\ sound' = ~HasTornTail(lines)
    /\ answered' = {} /\ joined' = FALSE /\ skipped' = {}

\* The conversation is bound to a file from here on.
Attach(p, lines, ms) ==
    /\ path' = p
    /\ mem' = ms
    /\ persisted' = Len(ms)
    /\ base' = IF ms = <<>> THEN Len(lines) ELSE 0
    /\ sound' = ~HasTornTail(lines)
    /\ answered' = {} /\ joined' = FALSE /\ skipped' = {}

\* Seeded fault: a compacted list is appended like any other.
ContentsAppended(f, ms, compacted) == Appended(f, Unsaved(ms))

\* persist_session_history: rewrite after a compaction, else append the tail.
Contents(f, ms, compacted) == IF compacted THEN ms ELSE Appended(f, Unsaved(ms))

\* persist_session_history(messages = ms, history_compacted) succeeds.  The turns
\* in over had unsaved messages when the list was joined.
Save(ms, compacted, over) ==
    /\ disk' = [disk EXCEPT ![path] = Contents(@, ms, compacted)]
    /\ files' = IF compacted \/ Unsaved(ms) # <<>> THEN files \cup {path}
                                                   ELSE files
    /\ mem' = ms
    /\ persisted' = Len(ms)
    /\ base' = IF compacted THEN 0 ELSE base
    /\ sound' = (sound \/ compacted)
    /\ joined' = FALSE
    /\ skipped' = IF compacted THEN {} ELSE skipped \cup over
    /\ UNCHANGED faults

\* What it may leave when it fails: nothing done, or the write cut short.
Leftovers(ms, compacted) ==
    LET f == disk[path]
    IN  {f} \cup (IF compacted THEN CutShort(<<>>, ms)
                               ELSE CutShort(f, Unsaved(ms)))

\* It raises OSError: the chat loop goes on with ms, the count is not moved.
\* A failed append that wrote nothing leaves file and count in agreement.
FailSave(ms, compacted, over) ==
    /\ faults < MaxFaults
    /\ compacted \/ Unsaved(ms) # <<>>
    /\ \E f \in Leftovers(ms, compacted) :
          /\ disk' = [disk EXCEPT ![path] = f]
          /\ files' = IF f = disk[path] THEN files ELSE files \cup {path}
          /\ sound' = (sound /\ ~compacted /\ f = disk[path])
    /\ mem' = ms
    /\ faults' = faults + 1
    /\ joined' = (joined \/ over # {})
    /\ skipped' = skipped \cup over
    /\ UNCHANGED <<persisted, base>>

-----------------------------------------------------------------------------
(***************************************************************************)
(* Turns.                                                                  *)
(***************************************************************************)
Answer(t)   == <<M("prompt", {t}), M("text", {t})>>
Stalled(t)  == <<M("prompt", {t}), M("call", {t})>>
Approved(t) == <<M("prompt", {t}), M("call", {t}), M("ret", {t}), M("text", {t})>>
Refused(t)  == <<M("prompt", {t}), M("abort", {t})>>

\* sent: how many of the messages in front the last request was sent behind.
R(outcome, interrupted, compacted, sent, ms) ==
    [outcome |-> outcome, interrupted |-> interrupted,
     compacted |-> compacted, sent |-> sent, msgs |-> ms]

\* What turn t may return on the list h: an answer, with a tool call in front of it
\* or not; an error before or after a completed segment; an interrupt, before a
\* segment is complete or while its approvals are asked; and with the compaction flag
\* set, an answer over a compacted or a stripped list, an error after stripping, or
\* an error whose failed segment had compacted only its own copy.
TurnResults(h, t) ==
    LET asked == Append(h, M("prompt", {t}))
    IN  {R("continue", FALSE, FALSE, Len(h), h \o Answer(t)),
         R("continue", FALSE, FALSE, Len(h) + 2, h \o Approved(t)),
         R("error", FALSE, FALSE, 0, h),
         R("error", FALSE, FALSE, Len(h), h \o Stalled(t)),
         R("continue", TRUE, FALSE, 0, Append(DropDangling(h), M("abort", {t}))),
         R("continue", TRUE, FALSE, Len(h), h \o Refused(t)),
         R("continue", FALSE, TRUE, Len(h), h \o Answer(t)),
         R("error", FALSE, TRUE, 0, asked)}
        \cup {R("continue", FALSE, TRUE, Len(c), c) :
                 c \in Compactions(h \o Answer(t), FALSE)}
        \cup {R("error", FALSE, TRUE, 0, h) : c \in Compactions(asked, FALSE)}

\* The lists it may be handed back as.
Handed(r) == {Join(r.msgs, B) : B \in SUBSET Joinable(SubSeq(r.msgs, 1, r.sent))}

\* The turn raises: _run_foreground_turn saves nothing, the loop keeps mem.
TurnRaises ==
    /\ alive /\ turn < MaxTurns
    /\ turn' = turn + 1
    /\ UNCHANGED <<alive, path, mem, persisted, files, disk, created, boots,
                   faults, ghosts, dream>>

\* run_turn returns and _finalize_turn saves the result.  A turn on a list
\* that ends in an unanswered call gets no further than an interrupt.
Turn ==
    /\ alive /\ turn < MaxTurns
    /\ turn' = turn + 1
    /\ \E r \in TurnResults(mem, turn') :
          /\ Contract!Allowed(mem, r)
          /\ Dangling(mem) => r.interrupted
          /\ \E ms \in Handed(r) :
                LET over == IF joined \/ ms # r.msgs
                            THEN Covered(Unsaved(mem)) \cup {turn'} ELSE {}
                IN  Save(ms, r.compacted, over) \/ FailSave(ms, r.compacted, over)
          /\ answered' = IF r.outcome = "continue" /\ ~r.interrupted
                         THEN answered \cup {turn'} ELSE answered
    /\ home' = [home EXCEPT ![turn'] = path]
    /\ UNCHANGED <<alive, path, created, boots, dream>>

-----------------------------------------------------------------------------
(***************************************************************************)
(* Commands.                                                               *)
(***************************************************************************)
\* /new: a fresh name; the file appears with the first save.
New ==
    /\ alive /\ mem # <<>> /\ created < MaxPaths
    /\ created' = created + 1
    /\ Attach(created', <<>>, <<>>)
    /\ UNCHANGED <<alive, files, disk, turn, boots, faults, home, dream>>

\* /clear: an empty list on the same file.
Clear ==
    /\ alive
    /\ Attach(path, disk[path], <<>>)
    /\ UNCHANGED <<alive, files, disk, bounds, home, dream>>

Compacted(h) == Append(CompactAll(h, FALSE), M("text", {}))

\* /compact: one marker for the whole list and an acknowledgement, written
\* over the file.
Compact ==
    /\ alive /\ mem # <<>>
    /\ Save(Compacted(mem), TRUE, {}) \/ FailSave(Compacted(mem), TRUE, {})
    /\ UNCHANGED <<alive, path, created, turn, boots, answered, home, dream>>

\* /resume: a past session that loads to something.
Resume(p) ==
    /\ alive /\ p \in files
    /\ Readable(disk[p]) # <<>>
    /\ Attach(p, disk[p], Readable(disk[p]))
    /\ UNCHANGED <<alive, files, disk, bounds, home, dream>>

-----------------------------------------------------------------------------
(***************************************************************************)
(* Processes.                                                              *)
(***************************************************************************)
\* restore_session: the newest file, but not its messages; a new name when
\* there is none.
Boot ==
    /\ ~alive /\ boots < MaxBoots
    /\ boots' = boots + 1
    /\ alive' = TRUE
    /\ \/ /\ files # {}
          /\ LET p == Max(files) IN Attach(p, disk[p], <<>>)
          /\ UNCHANGED created
       \/ /\ files = {} /\ created < MaxPaths
          /\ created' = created + 1
          /\ Attach(created', <<>>, <<>>)
    /\ UNCHANGED <<files, disk, turn, faults, home, dream>>

Stopped == /\ alive' = FALSE
           /\ mem' = <<>> /\ persisted' = 0
           /\ base' = 0 /\ sound' = TRUE /\ answered' = {}
           /\ joined' = FALSE /\ skipped' = {}

\* exit, EOF, a second Ctrl-C, or the process is killed between writes.
Stop ==
    /\ alive
    /\ Stopped
    /\ UNCHANGED <<path, files, disk, bounds, home, dream>>

\* The process is killed while a turn is being saved.
CrashInSave ==
    /\ alive /\ turn < MaxTurns /\ faults < MaxFaults
    /\ turn' = turn + 1
    /\ faults' = faults + 1
    /\ \E r \in TurnResults(mem, turn') :
          /\ Contract!Allowed(mem, r)
          /\ Dangling(mem) => r.interrupted
          /\ \E ms \in Handed(r) : \E f \in Leftovers(ms, r.compacted) :
                disk' = [disk EXCEPT ![path] = f]
    /\ files' = files \cup {path}
    /\ home' = [home EXCEPT ![turn'] = path]
    /\ Stopped
    /\ UNCHANGED <<path, created, boots, dream>>

-----------------------------------------------------------------------------
(***************************************************************************)
(* Mining: the part of the dream cycle that reads transcripts, run by      *)
(* /memory dream or on the way out.  No turn is taken while it runs; what  *)
(* the miner saves and the rest of the cycle are in Memory.                *)
(***************************************************************************)
Recent == {p \in files : Cardinality({q \in files : q > p}) < Lookback}

\* build_transcript_window: the last texts and the last tool lines.
IsTool(m)  == m.k \in {"call", "ret"}
Later(ms, i) == {j \in i + 1 .. Len(ms) : IsTool(ms[j]) = IsTool(ms[i])}
InWindow(ms, i) == Cardinality(Later(ms, i)) < IF IsTool(ms[i]) THEN MaxTool ELSE MaxText
Window(p) == LET ms == Readable(disk[p])
             IN  UNION {ms[i].of : i \in {j \in DOMAIN ms : InWindow(ms, j)}}

Unreadable(known) == {p \in Recent \ known : Readable(disk[p]) = <<>>}
Mined(S)          == UNION {Window(p) : p \in S}

\* Seeded fault: a transcript is marked although its miner failed.
MarkedAll(known, S) == known \cup Recent

\* A transcript is marked when the cycle is through with it, or at once when
\* there is nothing in it.  What it gains later, in the process that marked it
\* or after a restart or /resume, no cycle reads.
Marked(known, S) == known \cup S \cup Unreadable(known)

\* The cycle reaches its end through with S; on the others the miner failed.  Of
\* those in short the miner was not shown the whole window: the transcript could not
\* be read or was too large (load_transcript then returns what it has, if anything),
\* or the cap on saved items came first.  A state file that cannot be read counts as
\* empty; a cycle that is cut short leaves it as it was.
Mine(known, S, short) ==
    /\ alive
    /\ processed' = Marked(known, S)
    /\ mined' = Mined(S \ short)
    /\ partly' = short
    /\ UNCHANGED <<alive, path, mem, persisted, files, disk, bounds, ghosts>>

-----------------------------------------------------------------------------
Next ==
    \/ Turn \/ TurnRaises
    \/ New \/ Clear \/ Compact
    \/ \E p \in Paths : Resume(p)
    \/ Boot \/ Stop \/ CrashInSave
    \/ \E known \in {processed, {}} :
          \E S \in SUBSET (Recent \ known) : \E short \in SUBSET S : Mine(known, S, short)

Spec == Init /\ [][Next]_vars

-----------------------------------------------------------------------------
(***************************************************************************)
(* Properties.                                                             *)
(***************************************************************************)
\* The variables keep to their types.
TypeOK ==
    /\ alive \in BOOLEAN
    /\ path \in Paths
    /\ mem \in Seq(Msg)
    /\ persisted \in Nat
    /\ files \subseteq Paths
    /\ disk \in [Paths -> Seq(Line)]
    /\ created \in 0..MaxPaths /\ turn \in 0..MaxTurns
    /\ boots \in 0..MaxBoots /\ faults \in 0..MaxFaults
    /\ base \in Nat /\ sound \in BOOLEAN
    /\ answered \subseteq Turns /\ skipped \subseteq Turns /\ joined \in BOOLEAN
    /\ home \in [Turns -> 0..MaxPaths]
    /\ processed \subseteq files /\ partly \subseteq files /\ mined \subseteq Turns

\* An interrupt replaces an unanswered call at the end of the list by the
\* abort marker; the transcript keeps the call.
SameMessage(l, m) == l = m \/ (HasCall(l) /\ m.k = "abort")

\* The count the REPL saves by is right, as long as no list was joined: the
\* readable lines the file gained since the conversation attached are the first
\* persisted messages of the list.  It holds through interrupted and failed turns,
\* compaction, /clear, /new, /resume and restarts, and an append that failed is made
\* up for.
Aligned ==
    (alive /\ sound /\ skipped = {}) =>
        LET own == Readable(SubSeq(disk[path], base + 1, Len(disk[path])))
        IN  /\ persisted <= Len(mem)
            /\ Len(own) = persisted
            /\ \A i \in 1..persisted : SameMessage(own[i], mem[i])

\* Every turn that was answered is in the transcript, itself or behind a
\* marker, once nothing is waiting to be saved.  Excepted are the turns after which
\* the list came back joined while messages of theirs were not saved; a turn is never
\* lost for what a later one did.
AnsweredOnDisk ==
    (alive /\ sound /\ persisted = Len(mem))
        => answered \ skipped \subseteq Covered(Readable(disk[path]))

\* The documents' version of it: every turn is appended, without exception.
TurnsAreAppended ==
    (alive /\ sound /\ persisted = Len(mem))
        => answered \subseteq Covered(Readable(disk[path]))

\* No session's transcript has a message of a turn taken in another session.
OwnTurnsOnly ==
    \A p \in Paths : \A t \in Covered(disk[p]) : home[t] = p

\* A file is marked as processed, never to be read again, only when a miner
\* was shown the window of it, whichever miners fail and whichever cycles are cut
\* short; excepted are the files the miner was shown a part of.
MarkedWhenMined ==
    [][\A p \in (processed' \ processed) \ partly' : Window(p) \subseteq mined']_vars

=============================================================================

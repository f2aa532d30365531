------------------------ MODULE SkillsAndTodosProofs ------------------------
(***************************************************************************)
(* Safety of what the agent keeps for itself.                              *)
(*                                                                         *)
(* Skills, for any skills, thresholds and times: when a skill is archived, *)
(* what becomes of its record, and how passes are spaced.  Todos, for any  *)
(* items, batches of calls, transcripts and number of turns: updates       *)
(* stand, one item is in progress, and /resume takes up the plan.          *)
(***************************************************************************)
EXTENDS Skills, Todos, HistoryTheorems, FiniteSetTheorems, TLAPS

-----------------------------------------------------------------------------
(***************************************************************************)
(* Skills.                                                                 *)
(***************************************************************************)
\* A record is archived together with its file: an archived record of a skill
\* that is there is about to lose it, or to be made anew.
RecordsInv ==
    \A n \in files \ astray :
        rec[n] # None /\ rec[n].state = "archived"
            => pending[n] \in {"record", "move"}

\* No tool notes a use without moving the date the curator goes by.
TouchInv ==
    \A n \in Names : touched[n] # None =>
        /\ touched[n] <= now
        /\ rec[n] # None => touched[n] <= rec[n].ref

\* A file is moved while what the pass saw in its record is still so.
MoveInv ==
    \A n \in Names : pending[n] = "move" =>
        /\ rec[n] # None /\ ~rec[n].pinned
        /\ now - rec[n].ref > ArchiveAfter

\* No pass under way, and none whose date was saved since, is older than the
\* last one that was by itself.
PassInv ==
    /\ \A w \in Who : pass[w] # None => pass[w] <= now
    /\ alone # None =>
          /\ alone <= now
          /\ lastRun \in Time /\ alone <= lastRun
          /\ \A w \in Who : pass[w] # None => alone <= pass[w]

LibraryInv == RecordsInv /\ TouchInv /\ MoveInv

IInv == TypeOK /\ LibraryInv /\ PassInv

\* The initial states satisfy the invariant.
LEMMA InvInit == Init => IInv
<1> SUFFICES ASSUME Init PROVE IInv
  OBVIOUS
<1> USE SkillsAssumption DEF Init
<1>1. TypeOK
  <2>0. paused \in BOOLEAN /\ tracking \in BOOLEAN /\ unread \in BOOLEAN
    OBVIOUS
  <2>1. now \in Time /\ iterations \in 0..Nudge
    BY DEF Time
  <2>2. /\ rec \in [Names -> Record \cup {None}]
        /\ pending \in [Names -> {"record", "forget", "move", None}]
        /\ touched \in [Names -> Time \cup {None}]
        /\ files \subseteq Names /\ archived \subseteq Names /\ astray \subseteq Names
    OBVIOUS
  <2>3. /\ pass \in [Who -> Time \cup {None}] /\ pass["task"] = None /\ task = "none"
        /\ alone \in Time \cup {None} /\ lastRun \in Time \cup {None, Garbled}
    BY DEF Who
  <2> QED
    BY <2>0, <2>1, <2>2, <2>3 DEF TypeOK
<1>2. LibraryInv
  BY NoneAssumption DEF LibraryInv, RecordsInv, TouchInv, MoveInv
<1>3. PassInv
  BY DEF PassInv
<1> QED
  BY <1>1, <1>2, <1>3 DEF IInv

\* Between sections nothing is pending.
LEMMA IdleMeans == Idle => \A n \in Names : pending[n] = None
  BY DEF Idle

\* A record is a record, whatever becomes of it.
LEMMA RecordTypes ==
  ASSUME TypeOK, NEW n \in Names
  PROVE  /\ Fresh \in Record /\ GetOrInit(n) \in Record
         /\ Bumped(n) \in [Names -> Record \cup {None}]
         /\ Patched(n) \in [Names -> Record \cup {None}]
         /\ Created(n) \in [Names -> Record \cup {None}]
<1>1. Fresh \in Record
  BY DEF TypeOK, Fresh, Record, States
<1>2. GetOrInit(n) \in Record
  BY <1>1 DEF TypeOK, GetOrInit
<1>3. [GetOrInit(n) EXCEPT !.ref = now] \in Record
  BY <1>2 DEF TypeOK, Record
<1> QED
  BY <1>1, <1>2, <1>3 DEF TypeOK, Bumped, Patched, Created

-----------------------------------------------------------------------------
\* A tool, a command or a person at the directory begins a section.
ToolStep(n) ==
    \/ View(n) \/ Edit(n) \/ Create(n) \/ Delete(n) \/ CopyIn(n)
    \/ \E pinned \in BOOLEAN : SetPinned(n, pinned)
    \/ Restore(n)

\* Tools keep the types.
LEMMA ToolTypes ==
  ASSUME TypeOK, NEW n \in Names, ToolStep(n) PROVE TypeOK'
<1> USE DEF curator
<1>1. CASE View(n) \/ Edit(n)
  BY <1>1, RecordTypes DEF TypeOK, View, Edit, IfTracked, NoteTouch
<1>2. CASE Create(n) \/ Delete(n) \/ CopyIn(n) \/ Restore(n)
  BY <1>2 DEF TypeOK, Create, Delete, CopyIn, Restore
<1>3. ASSUME NEW pinned \in BOOLEAN, SetPinned(n, pinned) PROVE TypeOK'
  <2>1. [GetOrInit(n) EXCEPT !.pinned = pinned] \in Record
    BY RecordTypes DEF Record
  <2> QED
    BY <1>3, <2>1 DEF TypeOK, SetPinned
<1> QED
  BY <1>1, <1>2, <1>3 DEF ToolStep

\* Tools begin with nothing pending, and leave no archived record behind that
\* is not about to be made anew.
LEMMA ToolKeeps ==
  ASSUME IInv, NEW n \in Names, ToolStep(n) PROVE LibraryInv'
<1> USE IdleMeans, NoneAssumption DEF IInv, LibraryInv, curator
<1>t. TypeOK
  OBVIOUS
<1>0. ASSUME View(n) \/ Edit(n), ~tracking PROVE LibraryInv'
  BY <1>0 DEF View, Edit, IfTracked, NoteTouch, TypeOK, RecordsInv, TouchInv, MoveInv
<1>1. ASSUME View(n), tracking PROVE LibraryInv'
  <2>0. rec' = Bumped(n) /\ touched' = [touched EXCEPT ![n] = now]
    BY <1>1 DEF View, IfTracked, NoteTouch
  <2>1. \A m \in Names \ {n} : rec'[m] = rec[m] /\ touched'[m] = touched[m]
    BY <2>0 DEF Bumped, TypeOK
  <2>2. /\ rec'[n].state = GetOrInit(n).state /\ rec'[n].ref = now
        /\ touched'[n] = now
    BY <2>0, RecordTypes DEF Bumped, TypeOK, Record
  <2>3. n \notin astray => GetOrInit(n).state # "archived"
    BY <1>1, <1>t DEF View, RecordsInv, GetOrInit, Fresh
  <2> QED
    BY <1>1, <2>1, <2>2, <2>3 DEF View, TypeOK, RecordsInv, TouchInv, MoveInv,
       Time
<1>2. ASSUME Edit(n), tracking PROVE LibraryInv'
  <2>0. rec' = Patched(n)
    BY <1>2 DEF Edit, IfTracked
  <2>1. \A m \in Names \ {n} : rec'[m] = rec[m]
    BY <2>0 DEF Patched, TypeOK
  <2>2. rec'[n] = GetOrInit(n)
    BY <2>0 DEF Patched, TypeOK
  <2>3. n \notin astray => GetOrInit(n).state # "archived"
    BY <1>2, <1>t DEF Edit, RecordsInv, GetOrInit, Fresh
  <2>4. touched[n] # None => touched[n] <= GetOrInit(n).ref
    BY DEF TouchInv, GetOrInit, Fresh
  <2> QED
    BY <1>2, <2>1, <2>2, <2>3, <2>4 DEF Edit, TypeOK, RecordsInv, TouchInv,
       MoveInv
<1>3. ASSUME NEW pinned \in BOOLEAN, SetPinned(n, pinned) PROVE LibraryInv'
  <2>1. \A m \in Names \ {n} : rec'[m] = rec[m]
    BY <1>3 DEF SetPinned, TypeOK
  <2>2. /\ rec'[n].state = GetOrInit(n).state
        /\ rec'[n].ref = GetOrInit(n).ref
    BY <1>3, RecordTypes DEF SetPinned, TypeOK, Record
  <2>3. n \notin astray => GetOrInit(n).state # "archived"
    BY <1>3, <1>t DEF SetPinned, RecordsInv, GetOrInit, Fresh
  <2>4. touched[n] # None => touched[n] <= GetOrInit(n).ref
    BY DEF TouchInv, GetOrInit, Fresh
  <2> QED
    BY <1>3, <2>1, <2>2, <2>3, <2>4 DEF SetPinned, TypeOK, RecordsInv,
       TouchInv, MoveInv
<1>4. ASSUME Create(n) PROVE LibraryInv'
  BY <1>4 DEF Create, TypeOK, RecordsInv, TouchInv, MoveInv
<1>5. ASSUME Delete(n) PROVE LibraryInv'
  BY <1>5 DEF Delete, TypeOK, RecordsInv, TouchInv, MoveInv
<1>6. ASSUME CopyIn(n) \/ Restore(n) PROVE LibraryInv'
  BY <1>6 DEF CopyIn, Restore, TypeOK, RecordsInv, TouchInv, MoveInv
<1> QED
  BY <1>0, <1>1, <1>2, <1>3, <1>4, <1>5, <1>6 DEF ToolStep

-----------------------------------------------------------------------------
\* The rest of a section keeps types and library.
LEMMA SectionKeeps ==
  ASSUME IInv, NEW n \in Names, Section(n) PROVE TypeOK' /\ LibraryInv'
<1> USE NoneAssumption DEF IInv, LibraryInv, curator, Done
<1>0. ASSUME RecordCreate(n) \/ Forget(n), ~tracking PROVE TypeOK' /\ LibraryInv'
  BY <1>0 DEF RecordCreate, Forget, IfTracked, NoteTouch, TypeOK, RecordsInv, TouchInv,
     MoveInv
<1>1. ASSUME RecordCreate(n), tracking PROVE TypeOK' /\ LibraryInv'
  <2>1. /\ rec' = [rec EXCEPT ![n] = Fresh] /\ Fresh \in Record
        /\ touched' = [touched EXCEPT ![n] = now]
    BY <1>1, RecordTypes DEF RecordCreate, Created, IfTracked, NoteTouch
  <2>2. TypeOK'
    BY <1>1, <2>1 DEF RecordCreate, TypeOK
  <2>3. LibraryInv'
    BY <1>1, <2>1 DEF RecordCreate, TypeOK, RecordsInv, TouchInv, MoveInv,
       Fresh, Time
  <2> QED
    BY <2>2, <2>3
<1>2. ASSUME Forget(n), tracking PROVE TypeOK' /\ LibraryInv'
  BY <1>2 DEF Forget, IfTracked, TypeOK, RecordsInv, TouchInv, MoveInv
<1>3. ASSUME Archive(n) PROVE TypeOK' /\ LibraryInv'
  <2>1. files' \subseteq files \ {n}
    BY <1>3 DEF Archive
  <2>2. TypeOK'
    BY <1>3 DEF Archive, TypeOK
  <2>3. LibraryInv'
    BY <1>3, <2>1 DEF Archive, TypeOK, RecordsInv, TouchInv, MoveInv
  <2> QED
    BY <2>2, <2>3
<1>4. ASSUME Raise(n) PROVE TypeOK' /\ LibraryInv'
  BY <1>4 DEF Raise, TypeOK, RecordsInv, TouchInv, MoveInv
<1> QED
  BY <1>0, <1>1, <1>2, <1>3, <1>4 DEF Section

-----------------------------------------------------------------------------
\* What a pass makes of one record.
LEMMA NextStates ==
  ASSUME NEW r \in Record
  PROVE  /\ NextState(r) \in States
         /\ NextState(r) = "archived" /\ r.state # "archived" =>
                ~r.pinned /\ now - r.ref > ArchiveAfter
<1>1. r.state \in States /\ r.pinned \in BOOLEAN
  BY DEF Record
<1>2. CASE r.pinned
  BY <1>1, <1>2 DEF NextState
<1>3. CASE ~r.pinned
  <2>1. CASE r.state = "archived"
    BY <2>1 DEF NextState, States
  <2>2. CASE r.state = "active"
    BY <1>3, <2>2 DEF NextState, States
  <2>3. CASE r.state = "stale" /\ now - r.ref > ArchiveAfter
    BY <1>3, <2>3 DEF NextState, States
  <2>4. CASE r.state = "stale" /\ ~(now - r.ref > ArchiveAfter)
    BY <1>3, <2>4 DEF NextState, States
  <2> QED
    BY <1>1, <2>1, <2>2, <2>3, <2>4 DEF States
<1> QED
  BY <1>1, <1>2, <1>3

\* A pass begins: what it archives it is about to move.
LEMMA BeginKeeps ==
  ASSUME IInv, Idle, NEW who \in Who, Begin(who)
  PROVE  LibraryInv' /\ rec' \in [Names -> Record \cup {None}]
<1> USE DEF IInv
<1>1. ASSUME NEW n \in Names, rec[n] # None
      PROVE  /\ rec[n] \in Record
             /\ rec'[n] \in Record /\ rec'[n] # None
             /\ rec'[n].state = NextState(rec[n])
             /\ rec'[n].pinned = rec[n].pinned /\ rec'[n].ref = rec[n].ref
  <2>1. rec[n] \in Record
    BY <1>1 DEF TypeOK
  <2>2. NextState(rec[n]) \in States
    BY <2>1, NextStates
  <2>3. rec'[n] = [rec[n] EXCEPT !.state = NextState(rec[n])]
    BY <1>1 DEF Begin
  <2>4. rec'[n] \in Record
    BY <2>1, <2>2, <2>3 DEF Record
  <2> QED
    BY <2>1, <2>3, <2>4, NoneAssumption DEF Record
<1>2. ASSUME NEW n \in Names, rec[n] = None PROVE rec'[n] = None
  BY <1>2 DEF Begin
<1>3. rec' \in [Names -> Record \cup {None}]
  <2>1. \A n \in Names : rec'[n] \in Record \cup {None}
    BY <1>1, <1>2
  <2> QED
    BY <2>1 DEF Begin
<1>4. ASSUME NEW n \in Names
      PROVE  pending'[n] = IF Moves(n) THEN "move" ELSE None
  BY DEF Begin
<1>5. RecordsInv'
  <2> SUFFICES ASSUME NEW n \in files' \ astray', rec'[n] # None,
                      rec'[n].state = "archived"
               PROVE  pending'[n] \in {"record", "move"}
    BY DEF RecordsInv
  <2>1. n \in Names /\ n \in files \ astray /\ rec[n] # None
    BY <1>2 DEF Begin, TypeOK
  <2>2. rec[n].state # "archived"
    BY <2>1, IdleMeans, NoneAssumption DEF LibraryInv, RecordsInv
  <2>3. NextState(rec[n]) = "archived"
    BY <2>1, <1>1
  <2> QED
    BY <2>1, <2>2, <2>3, <1>4 DEF Moves
<1>6. TouchInv'
  BY <1>1, <1>2 DEF LibraryInv, TouchInv, Begin
<1>7. MoveInv'
  <2> SUFFICES ASSUME NEW n \in Names, pending'[n] = "move"
               PROVE  /\ rec'[n] # None /\ ~rec'[n].pinned
                      /\ now' - rec'[n].ref > ArchiveAfter
    BY DEF MoveInv
  <2>1. Moves(n)
    BY <1>4, NoneAssumption
  <2>2. rec[n] \in Record
    BY <2>1, <1>1 DEF Moves
  <2>3. ~rec[n].pinned /\ now - rec[n].ref > ArchiveAfter
    BY <2>1, <2>2, NextStates DEF Moves
  <2> QED
    BY <2>1, <2>3, <1>1 DEF Moves, Begin
<1> QED
  BY <1>3, <1>5, <1>6, <1>7 DEF LibraryInv

\* The types after a pass has begun.
LEMMA BeginTypes ==
  ASSUME IInv, Idle, CommandBegins \/ TaskBegins PROVE TypeOK'
<1>1. PICK who \in Who : Begin(who)
  BY DEF CommandBegins, TaskBegins, Who
<1>2. rec' \in [Names -> Record \cup {None}]
  BY <1>1, BeginKeeps
<1>3. pending' \in [Names -> {"record", "forget", "move", None}]
  BY <1>1 DEF Begin
<1>4. CASE CommandBegins
  BY <1>2, <1>3, <1>4 DEF CommandBegins, Begin, IInv, TypeOK, Who
<1>5. CASE TaskBegins
  BY <1>2, <1>3, <1>5, NoneAssumption, SkillsAssumption
  DEF TaskBegins, Begin, IInv, TypeOK, Who, Time
<1> QED
  BY <1>4, <1>5

-----------------------------------------------------------------------------
\* What neither begins a pass nor touches the library.
OtherStep ==
    \/ CommandEnds \/ CommandInterrupted
    \/ \E k \in 1..Nudge : PostTurnCounts(k) \/ PostTurnSpawns(k)
    \/ ReviewEnds \/ TaskEnds \/ TaskTimesOut
    \/ Tick \/ EditState

\* These steps keep the types.
LEMMA OtherTypes == ASSUME IInv, OtherStep PROVE TypeOK'
<1> USE SkillsAssumption, NoneAssumption DEF IInv, TypeOK, library, curator
<1>1. CASE CommandEnds
  BY <1>1 DEF CommandEnds, Save, LastRun, Who
<1>2. CASE TaskEnds
  BY <1>2 DEF TaskEnds, Save, LastRun, Who
<1>3. CASE CommandInterrupted \/ TaskTimesOut
  BY <1>3 DEF CommandInterrupted, TaskTimesOut, Who
<1>4. ASSUME NEW k \in 1..Nudge, PostTurnCounts(k) \/ PostTurnSpawns(k)
      PROVE  TypeOK'
  <2>1. Counted(k) \in 0..Nudge
    BY DEF Counted
  <2> QED
    BY <1>4, <2>1 DEF PostTurnCounts, PostTurnSpawns
<1>5. CASE ReviewEnds
  BY <1>5 DEF ReviewEnds
<1>6. CASE Tick
  BY <1>6 DEF Tick, Time
<1>7. CASE EditState
  BY <1>7 DEF EditState
<1> QED
  BY <1>1, <1>2, <1>3, <1>4, <1>5, <1>6, <1>7 DEF OtherStep

\* They leave the library alone, except that time goes by between sections.
LEMMA OtherKeeps == ASSUME IInv, OtherStep PROVE LibraryInv'
<1> USE DEF library
<1>1. UNCHANGED library /\ (now' = now \/ (Idle /\ now' = now + 1))
  <2>1. CASE CommandEnds
    BY <2>1 DEF CommandEnds, Save
  <2>2. CASE TaskEnds
    BY <2>2 DEF TaskEnds, Save
  <2>3. CASE Tick
    BY <2>3 DEF Tick
  <2> QED
    BY <2>1, <2>2, <2>3 DEF OtherStep, CommandInterrupted, PostTurnCounts,
       PostTurnSpawns, ReviewEnds, TaskTimesOut, EditState
<1>2. RecordsInv'
  BY <1>1 DEF IInv, LibraryInv, RecordsInv
<1>3. TouchInv'
  BY <1>1 DEF IInv, LibraryInv, TouchInv, TypeOK, Time
<1>4. MoveInv'
  BY <1>1, IdleMeans, NoneAssumption DEF IInv, LibraryInv, MoveInv
<1> QED
  BY <1>2, <1>3, <1>4 DEF LibraryInv

\* The end of the process keeps types and library: whatever it cuts off is
\* astray from then on.
LEMMA RestartKeeps == ASSUME IInv, Restart PROVE TypeOK' /\ LibraryInv'
<1>1. TypeOK'
  BY SkillsAssumption DEF IInv, TypeOK, Restart, Who
<1>2. RecordsInv'
  BY NoneAssumption DEF IInv, TypeOK, LibraryInv, RecordsInv, Restart
<1>3. TouchInv'
  BY DEF IInv, LibraryInv, TouchInv, Restart
<1>4. MoveInv'
  BY NoneAssumption DEF MoveInv, Restart
<1> QED
  BY <1>1, <1>2, <1>3, <1>4 DEF LibraryInv

\* Without records there is nothing to be said of them.
LEMMA LoseKeeps == ASSUME IInv, LoseRecords PROVE TypeOK' /\ LibraryInv'
<1>1. TypeOK'
  BY DEF IInv, TypeOK, LoseRecords, curator
<1>2. \A n \in Names : rec'[n] = None /\ pending'[n] = None
  BY IdleMeans DEF LoseRecords
<1>3. RecordsInv' /\ MoveInv'
  BY <1>1, <1>2, NoneAssumption DEF TypeOK, RecordsInv, MoveInv
<1>4. TouchInv'
  BY <1>2 DEF IInv, LibraryInv, TouchInv, LoseRecords
<1> QED
  BY <1>1, <1>3, <1>4 DEF LibraryInv

-----------------------------------------------------------------------------
\* A pass is over: its date is not older than the last one's that was alone.
LEMMA SaveKeeps ==
  ASSUME IInv, NEW who \in Who, NEW answered \in BOOLEAN, Save(who, answered)
  PROVE  PassInv'
<1> USE NoneAssumption DEF IInv, TypeOK, PassInv, Time
<1>1. pass[who] \in Time /\ lastRun' = pass[who] /\ now' = now
  BY DEF Save, LastRun
<1>2. \A w \in Who : pass'[w] # None => pass'[w] = pass[w] /\ w # who
  BY DEF Save
<1>3. CASE \A w \in Who \ {who} : pass[w] = None
  <2>1. alone' = pass[who] /\ \A w \in Who : pass'[w] = None
    BY <1>2, <1>3 DEF Save
  <2>2. pass[who] <= now
    BY <1>1 DEF PassInv
  <2> QED
    BY <1>1, <2>1, <2>2
<1>4. CASE ~(\A w \in Who \ {who} : pass[w] = None)
  <2>1. alone' = alone
    BY <1>4 DEF Save
  <2> QED
    BY <1>1, <1>2, <2>1 DEF Save
<1> QED
  BY <1>3, <1>4

\* The dates of the passes, by the steps that touch them.
LEMMA PassKeeps == ASSUME IInv, Next PROVE PassInv'
<1> USE NoneAssumption, SkillsAssumption
    DEF IInv, TypeOK, PassInv, curator, library, Time, Who
<1>1. CASE CommandBegins
  BY <1>1 DEF CommandBegins, Begin
<1>2. CASE TaskBegins
  BY <1>2 DEF TaskBegins, Begin
<1>3. CASE CommandEnds
  BY <1>3, SaveKeeps DEF CommandEnds
<1>4. CASE TaskEnds
  BY <1>4, SaveKeeps DEF TaskEnds
<1>5. CASE CommandInterrupted \/ TaskTimesOut \/ Restart
  BY <1>5 DEF CommandInterrupted, TaskTimesOut, Restart
<1>6. CASE Tick
  BY <1>6 DEF Tick
<1>7. CASE \/ ReviewEnds
           \/ \E k \in 1..Nudge : PostTurnCounts(k) \/ PostTurnSpawns(k)
  BY <1>7 DEF ReviewEnds, PostTurnCounts, PostTurnSpawns
<1>9. CASE EditState \/ LoseRecords
  BY <1>9 DEF EditState, LoseRecords
<1>8. ASSUME NEW n \in Names, ToolStep(n) \/ Section(n) PROVE PassInv'
  BY <1>8 DEF ToolStep, View, Edit, Create, Delete, CopyIn, SetPinned,
     Restore, Section, RecordCreate, Forget, Archive, Raise
<1> QED
  BY <1>1, <1>2, <1>3, <1>4, <1>5, <1>6, <1>7, <1>8, <1>9 DEF Next, ToolStep

\* Every step keeps the invariant.
LEMMA InvNext == ASSUME IInv, [Next]_vars PROVE IInv'
<1>1. ASSUME NEW n \in Names, ToolStep(n) \/ Section(n) PROVE IInv'
  <2>1. PassInv'
    BY <1>1, PassKeeps DEF Next, ToolStep
  <2>2. TypeOK' /\ LibraryInv'
    BY <1>1, ToolTypes, ToolKeeps, SectionKeeps DEF IInv
  <2> QED
    BY <2>1, <2>2 DEF IInv
<1>2. CASE CommandBegins \/ TaskBegins
  <2>1. Idle /\ \E who \in Who : Begin(who)
    BY <1>2 DEF CommandBegins, TaskBegins, Who
  <2>2. LibraryInv'
    BY <2>1, BeginKeeps
  <2>3. TypeOK'
    BY <1>2, <2>1, BeginTypes
  <2>4. PassInv'
    BY <1>2, PassKeeps DEF Next
  <2> QED
    BY <2>2, <2>3, <2>4 DEF IInv
<1>3. CASE OtherStep \/ LoseRecords \/ Restart
  <2>1. PassInv'
    BY <1>3, PassKeeps DEF Next, OtherStep
  <2> QED
    BY <1>3, <2>1, OtherTypes, OtherKeeps, LoseKeeps, RestartKeeps DEF IInv
<1>4. CASE UNCHANGED vars
  BY <1>4 DEF IInv, TypeOK, LibraryInv, RecordsInv, TouchInv, MoveInv, PassInv,
     vars, library, curator
<1> QED
  BY <1>1, <1>2, <1>3, <1>4 DEF Next, ToolStep, OtherStep

\* The invariant holds in every state.
LEMMA Invariant == Spec => []IInv
  BY InvInit, InvNext, PTL DEF Spec

-----------------------------------------------------------------------------
\* The variables keep to their types.
THEOREM TypeCorrect == Spec => []TypeOK
<1>1. IInv => TypeOK
  BY DEF IInv
<1> QED
  BY <1>1, Invariant, PTL

\* No skill is left with a record that calls it archived, by creating, deleting
\* and archiving in whatever order; only by what is astray.
THEOREM ArchivedAreAway == Spec => []ArchivedIsAway
<1>1. IInv => ArchivedIsAway
  <2> SUFFICES ASSUME IInv, Idle, NEW n \in files \ astray, rec[n] # None
               PROVE  rec[n].state # "archived"
    BY DEF ArchivedIsAway
  <2> QED
    BY IdleMeans, NoneAssumption DEF IInv, TypeOK, LibraryInv, RecordsInv
<1> QED
  BY <1>1, Invariant, PTL

\* One step archives a skill only if it was not pinned and had been left alone
\* for longer than ArchiveAfter.
LEMMA ArchiveStep ==
  ASSUME IInv, [Next]_vars, NEW n \in archived' \ archived
  PROVE  /\ ~rec[n].pinned
         /\ touched[n] # None => now - touched[n] > ArchiveAfter
<1>1. ASSUME NEW m \in Names, ToolStep(m) PROVE FALSE
  BY <1>1 DEF ToolStep, View, Edit, Create, Delete, CopyIn, SetPinned, Restore
<1>2. ASSUME NEW m \in Names, RecordCreate(m) \/ Forget(m) \/ Raise(m)
      PROVE  FALSE
  BY <1>2 DEF RecordCreate, Forget, Raise
<1>3. ASSUME OtherStep \/ CommandBegins \/ TaskBegins \/ LoseRecords \/ Restart
      PROVE  FALSE
  BY <1>3 DEF OtherStep, CommandBegins, TaskBegins, Begin, CommandEnds,
     TaskEnds, Save, CommandInterrupted, PostTurnCounts, PostTurnSpawns,
     ReviewEnds, TaskTimesOut, Tick, EditState, LoseRecords, Restart, library
<1>4. UNCHANGED vars => FALSE
  BY DEF vars, library
<1>5. PICK m \in Names : Archive(m)
  BY <1>1, <1>2, <1>3, <1>4 DEF Next, ToolStep, OtherStep, Section
<1>6. n = m /\ pending[n] = "move"
  BY <1>5 DEF Archive
<1>7. rec[n] \in Record /\ ~rec[n].pinned /\ now - rec[n].ref > ArchiveAfter
  BY <1>5, <1>6 DEF IInv, LibraryInv, MoveInv, TypeOK
<1>8. touched[n] # None => touched[n] <= rec[n].ref /\ touched[n] \in Nat
  BY <1>5, <1>6, <1>7, NoneAssumption
  DEF IInv, LibraryInv, MoveInv, TouchInv, TypeOK, Time
<1>9. rec[n].ref \in Nat /\ now \in Nat
  BY <1>7 DEF IInv, TypeOK, Time, Record
<1> QED
  BY <1>7, <1>8, <1>9, SkillsAssumption

\* A skill is archived only when it was not pinned and no creation or view had been
\* noted of it for longer than ArchiveAfter, whatever became of its record before.
THEOREM ArchivedWereIdle == Spec => ArchivedWasIdle
<1>1. ASSUME IInv, [Next]_vars
      PROVE  [\A n \in archived' \ archived :
                /\ ~rec[n].pinned
                /\ touched[n] # None => now - touched[n] > ArchiveAfter]_vars
  BY <1>1, ArchiveStep
<1> QED
  BY <1>1, Invariant, PTL DEF Spec, ArchivedWasIdle

\* Only the end of a review passes the gate, with the date the gate saw.
LEMMA GateStep ==
  ASSUME IInv, [Next]_vars, task # "passing", task' = "passing", ~unread'
  PROVE  alone # None => now - alone > Interval
<1>1. ReviewEnds /\ GatePasses(lastRun, paused)
  BY DEF Next, View, Edit, Create, Delete, CopyIn, SetPinned, Restore, Section,
     RecordCreate, Forget, Archive, Raise, CommandBegins, CommandEnds,
     CommandInterrupted, PostTurnCounts, PostTurnSpawns, ReviewEnds,
     TaskBegins, TaskEnds, TaskTimesOut, Tick, EditState, LoseRecords, Restart, vars
<1> QED
  BY <1>1, NoneAssumption, SkillsAssumption
  DEF IInv, TypeOK, PassInv, GatePasses, Time

\* Passes of the background task are an interval apart from the last pass that
\* was by itself, unless the state could not be read when the gate was asked.
THEOREM PassesSpaced == Spec => PassesAreSpaced
<1>1. ASSUME IInv, [Next]_vars
      PROVE  [(task # "passing" /\ task' = "passing" /\ ~unread') =>
                 (alone # None => now - alone > Interval)]_vars
  BY <1>1, GateStep
<1> QED
  BY <1>1, Invariant, PTL DEF Spec, PassesAreSpaced

-----------------------------------------------------------------------------
(***************************************************************************)
(* Plans.                                                                  *)
(***************************************************************************)
\* The plans a check of todo_write lets through, and what a message may name.
Good == {p \in Seq(Item) : OneAtWork(p) /\ DistinctIds(p)}
Word == Good \cup {Nothing}

\* An id is there once if two places never have the same one.
LEMMA IdsDiffer ==
    ASSUME NEW p \in Seq(Item)
    PROVE  DistinctIds(p) <=> \A i, j \in 1 .. Len(p) : p[i].id = p[j].id => i = j
<1> DEFINE n == Len(p)
           f == [i \in 1 .. n |-> p[i].id]
<1>1. n \in Nat /\ DOMAIN p = 1 .. n
  BY LenProperties
<1>2. IdsOf(p) = {p[i].id : i \in 1 .. n}
  BY <1>1 DEF IdsOf
<1>3. IsFiniteSet(1 .. n) /\ Cardinality(1 .. n) = n
  <2>1. IsFiniteSet(1 .. n) /\ Cardinality(1 .. n) = IF 1 > n THEN 0 ELSE n - 1 + 1
    BY <1>1, FS_Interval
  <2> QED
    BY <1>1, <2>1
<1> HIDE DEF n
<1>4. f \in Surjection(1 .. n, IdsOf(p))
  BY <1>2 DEF Surjection
<1>5. Cardinality(IdsOf(p)) = Cardinality(1 .. n) <=> f \in Injection(1 .. n, IdsOf(p))
  BY <1>3, <1>4, FS_Surjection
<1>6. f \in Injection(1 .. n, IdsOf(p)) <=> \A i, j \in 1 .. n : p[i].id = p[j].id => i = j
  <2>1. f \in [1 .. n -> IdsOf(p)]
    BY <1>2
  <2>2. \A i \in 1 .. n : f[i] = p[i].id
    OBVIOUS
  <2> HIDE DEF f
  <2> QED
    BY <2>1, <2>2, Zenon DEF Injection, IsInjective
<1> QED
  BY <1>3, <1>5, <1>6 DEF DistinctIds, n

\* One item is in progress if two places never are.
LEMMA WorkDiffers ==
    ASSUME NEW p \in Seq(Item)
    PROVE  OneAtWork(p) <=>
              \A i, j \in 1 .. Len(p) :
                 p[i].status = "in_progress" /\ p[j].status = "in_progress" => i = j
<1> DEFINE S == {i \in 1 .. Len(p) : p[i].status = "in_progress"}
<1>1. Len(p) \in Nat /\ DOMAIN p = 1 .. Len(p)
  BY LenProperties
<1>2. IsFiniteSet(S)
  <2>1. IsFiniteSet(1 .. Len(p))
    BY <1>1, FS_Interval
  <2>2. S \in SUBSET (1 .. Len(p))
    OBVIOUS
  <2> HIDE DEF S
  <2> QED
    BY <2>1, <2>2, FS_Subset
<1>3. OneAtWork(p) <=> Cardinality(S) <= 1
  BY <1>1 DEF OneAtWork
<1>d. \A i \in 1 .. Len(p) : i \in S <=> p[i].status = "in_progress"
  OBVIOUS
<1>s. S \subseteq 1 .. Len(p)
  OBVIOUS
<1> HIDE DEF S
<1>4. Cardinality(S) \in Nat
  BY <1>2, FS_CardinalityType
<1>5. ASSUME Cardinality(S) <= 1, NEW i \in S, NEW j \in S PROVE i = j
  <2>1. Cardinality(S) # 0
    BY <1>2, FS_EmptySet
  <2>2. Cardinality(S) = 1
    BY <1>4, <1>5, <2>1
  <2>3. PICK x : S = {x}
    BY <1>2, <2>2, FS_Singleton
  <2> QED
    BY <2>3
<1>6. ASSUME \A i, j \in S : i = j PROVE Cardinality(S) <= 1
  <2>1. CASE S = {}
    BY <2>1, FS_EmptySet
  <2>2. CASE S # {}
    <3>1. PICK x : x \in S
      BY <2>2
    <3>2. S = {x}
      BY <1>6, <3>1
    <3>3. Cardinality({x}) = 1
      BY FS_Singleton
    <3> QED
      BY <3>2, <3>3
  <2> QED
    BY <2>1, <2>2
<1> QED
  BY <1>3, <1>5, <1>6, <1>d, <1>s

\* What makes a plan good, place by place.
LEMMA GoodPlaces ==
    ASSUME NEW p \in Seq(Item)
    PROVE  p \in Good <=>
              \A i, j \in 1 .. Len(p) :
                 /\ p[i].id = p[j].id => i = j
                 /\ p[i].status = "in_progress" /\ p[j].status = "in_progress" => i = j
BY IdsDiffer, WorkDiffers DEF Good

\* A plan whose items are, in their order, items of a good one is good.
LEMMA GoodPart ==
    ASSUME NEW p \in Good, NEW q \in Seq(Item),
           \A a, b \in 1 .. Len(q) : a < b =>
              \E i, j \in 1 .. Len(p) : i < j /\ q[a] = p[i] /\ q[b] = p[j]
    PROVE  q \in Good
<1>1. p \in Seq(Item) /\ Len(q) \in Nat /\ Len(p) \in Nat
  BY LenProperties DEF Good
<1>2. \A i, j \in 1 .. Len(p) :
         /\ p[i].id = p[j].id => i = j
         /\ p[i].status = "in_progress" /\ p[j].status = "in_progress" => i = j
  BY <1>1, GoodPlaces
<1>3. ASSUME NEW a \in 1 .. Len(q), NEW b \in 1 .. Len(q), a < b
      PROVE  /\ q[a].id # q[b].id
             /\ ~(q[a].status = "in_progress" /\ q[b].status = "in_progress")
  <2>1. PICK i \in 1 .. Len(p), j \in 1 .. Len(p) : i < j /\ q[a] = p[i] /\ q[b] = p[j]
    BY <1>3
  <2>2. i # j
    BY <1>1, <2>1
  <2> QED
    BY <1>2, <2>1, <2>2
<1>4. ASSUME NEW a \in 1 .. Len(q), NEW b \in 1 .. Len(q)
      PROVE  /\ q[a].id = q[b].id => a = b
             /\ q[a].status = "in_progress" /\ q[b].status = "in_progress" => a = b
  <2>1. a < b \/ b < a \/ a = b
    BY <1>1
  <2> QED
    BY <1>3, <2>1
<1> QED
  BY <1>4, GoodPlaces

\* What is picked of a good plan is one, and so is its beginning.
LEMMA GoodPicked ==
    ASSUME NEW p \in Good, NEW S PROVE Among(p, S) \in Good
<1> DEFINE q == Among(p, S)
<1>1. p \in Seq(Item)
  BY DEF Good
<1>2. q \in Seq(Item)
  BY <1>1, AmongPicks
<1>3. \A a, b \in 1 .. Len(q) : a < b =>
         \E i, j \in 1 .. Len(p) : i < j /\ q[a] = p[i] /\ q[b] = p[j]
  BY <1>1, AmongInOrder
<1> HIDE DEF q
<1>4. q \in Good
  BY <1>2, <1>3, GoodPart
<1> QED
  BY <1>4 DEF q

\* A beginning of a good plan is one.
LEMMA GoodBeginning ==
    ASSUME NEW p \in Good, NEW n \in 0 .. Len(p) PROVE SubSeq(p, 1, n) \in Good
<1>1. p \in Seq(Item) /\ Len(p) \in Nat
  BY LenProperties DEF Good
<1> DEFINE q == SubSeq(p, 1, n)
<1>2. /\ q \in Seq(Item) /\ Len(q) = n
      /\ \A i \in 1 .. n : q[i] = p[i]
  <2>1. n \in Int /\ n <= Len(p) /\ n \in Nat
    BY <1>1
  <2>2. /\ q \in Seq(Item) /\ Len(q) = IF 1 <= n THEN n - 1 + 1 ELSE 0
        /\ \A i \in 1 .. n - 1 + 1 : q[i] = p[1 + i - 1]
    BY <1>1, <2>1, CutType
  <2> HIDE DEF q
  <2>3. \A i \in 1 .. n : i \in 1 .. n - 1 + 1 /\ 1 + i - 1 = i
    BY <2>1
  <2> QED
    BY <2>1, <2>2, <2>3
<1> HIDE DEF q
<1>3. ASSUME NEW a \in 1 .. Len(q), NEW b \in 1 .. Len(q), a < b
      PROVE  \E i, j \in 1 .. Len(p) : i < j /\ q[a] = p[i] /\ q[b] = p[j]
  <2>1. a \in 1 .. Len(p) /\ b \in 1 .. Len(p)
    BY <1>1, <1>2
  <2> QED
    BY <1>2, <1>3, <2>1
<1>4. q \in Good
  BY <1>2, <1>3, GoodPart
<1> QED
  BY <1>4 DEF q

\* The empty plan is good, and no plan is taken for none.
LEMMA GoodNames == <<>> \in Good /\ \A p \in Good : p \in Seq(Item) /\ p # Nothing
<1>1. <<>> \in Seq(Item) /\ Len(<<>>) = 0
  BY EmptySeq
<1>2. <<>> \in Good
  <2>1. \A i \in 1 .. Len(<<>>) : FALSE
    BY <1>1
  <2> QED
    BY <1>1, <2>1, GoodPlaces, Zenon
<1> QED
  BY <1>2, TodosAssumption DEF Good

\* The lesser of two numbers.
LEMMA LeastOfTwo ==
    ASSUME NEW a \in Nat, NEW b \in Nat
    PROVE  Min({a, b}) = IF a <= b THEN a ELSE b
<1> DEFINE m == IF a <= b THEN a ELSE b
<1>1. m \in {a, b} /\ \A y \in {a, b} : m =< y
  OBVIOUS
<1>2. \A x \in {a, b} : (\A y \in {a, b} : x =< y) => x = m
  OBVIOUS
<1> HIDE DEF m
<1>3. (CHOOSE x \in {a, b} : \A y \in {a, b} : x =< y) = m
  BY <1>1, <1>2
<1> QED
  BY <1>3 DEF Min, m

\* The open items of a plan: how many of them the gist shows.
LEMMA GistPieces ==
    ASSUME NEW p \in Good
    PROVE  \E n \in 0 .. Len(Active(p)) :
              /\ Gist(p) = SubSeq(Active(p), 1, n)
              /\ n = IF SnapMax <= Len(Active(p)) THEN SnapMax ELSE Len(Active(p))
<1> DEFINE a == Active(p)
           n == IF SnapMax <= Len(a) THEN SnapMax ELSE Len(a)
<1>1. a \in Good
  BY GoodPicked DEF Active
<1>g. Gist(p) = SubSeq(a, 1, Min({SnapMax, Len(a)}))
  BY DEF Gist
<1> HIDE DEF a
<1>2. Len(a) \in Nat /\ SnapMax \in Nat
  BY <1>1, GoodNames, LenProperties, TodosAssumption
<1>3. Min({SnapMax, Len(a)}) = n
  BY <1>2, LeastOfTwo
<1>4. n \in 0 .. Len(a)
  BY <1>2
<1> QED
  BY <1>3, <1>4, <1>g DEF a

\* The gist of a good plan is one; without open items it is empty.
LEMMA GistGood ==
    ASSUME NEW p \in Good
    PROVE  Gist(p) \in Good /\ (Active(p) = <<>> => Gist(p) = <<>>)
<1>1. Active(p) \in Good
  BY GoodPicked DEF Active
<1>2. PICK n \in 0 .. Len(Active(p)) : Gist(p) = SubSeq(Active(p), 1, n)
  BY GistPieces
<1>3. Gist(p) \in Good
  BY <1>1, <1>2, GoodBeginning
<1>4. ASSUME Active(p) = <<>> PROVE Gist(p) = <<>>
  <2>1. Len(Active(p)) = 0
    BY <1>4, EmptySeq
  <2>2. n \in Int /\ n < 1
    BY <2>1
  <2> QED
    BY <1>2, <1>4, <2>2, SubSeqEmpty
<1> QED
  BY <1>3, <1>4

\* Nothing is open in the empty plan.
LEMMA GistOfNone == Gist(<<>>) = <<>>
<1>1. <<>> \in Good
  BY GoodNames
<1>2. Active(<<>>) = <<>>
  <2>1. <<>> \in Seq(Item) /\ Len(<<>>) = 0
    BY EmptySeq
  <2>2. \A i \in 1 .. Len(<<>>) : <<>>[i] \in {x \in Item : x.status # "completed"}
    BY <2>1
  <2> QED
    BY <2>1, <2>2, AmongAll DEF Active
<1> QED
  BY <1>1, <1>2, GistGood

\* The gist of a gist is itself.
LEMMA GistAgain ==
    ASSUME NEW p \in Good PROVE Gist(Gist(p)) = Gist(p)
<1> DEFINE a == Active(p)
           g == Gist(p)
           Open == {x \in Item : x.status # "completed"}
<1>1. a \in Good /\ g \in Good
  BY GoodPicked, GistGood DEF Active
<1>2. PICK n \in 0 .. Len(a) :
         /\ g = SubSeq(a, 1, n)
         /\ n = IF SnapMax <= Len(a) THEN SnapMax ELSE Len(a)
  BY GistPieces
<1>3. \A i \in 1 .. Len(a) : a[i] \in Open
  <2>1. p \in Seq(Item)
    BY GoodNames
  <2>2. a = Among(p, Open)
    BY DEF Active
  <2> HIDE DEF a, Open
  <2> QED
    BY <2>1, <2>2, AmongPicks
<1>t. PICK m \in 0 .. Len(Active(g)) :
         /\ Gist(g) = SubSeq(Active(g), 1, m)
         /\ m = IF SnapMax <= Len(Active(g)) THEN SnapMax ELSE Len(Active(g))
  <2> HIDE DEF g
  <2> QED
    BY <1>1, GistPieces
<1> HIDE DEF a, g
<1>4. Len(a) \in Nat /\ a \in Seq(Item) /\ g \in Seq(Item) /\ SnapMax \in Nat
  BY <1>1, GoodNames, LenProperties, TodosAssumption
<1>5. Len(g) = n /\ \A i \in 1 .. n : g[i] = a[i]
  <2>1. n \in Int /\ n <= Len(a) /\ n \in Nat
    BY <1>4
  <2>2. /\ Len(g) = IF 1 <= n THEN n - 1 + 1 ELSE 0
        /\ \A i \in 1 .. n - 1 + 1 : g[i] = a[1 + i - 1]
    BY <1>2, <1>4, <2>1, CutType
  <2>3. \A i \in 1 .. n : i \in 1 .. n - 1 + 1 /\ 1 + i - 1 = i
    BY <2>1
  <2> QED
    BY <2>1, <2>2, <2>3
<1>6. \A i \in 1 .. Len(g) : g[i] \in Open
  <2>1. \A i \in 1 .. n : i \in 1 .. Len(a)
    BY <1>4
  <2> HIDE DEF Open
  <2> QED
    BY <1>3, <1>5, <2>1
<1>7. Active(g) = g
  <2>1. Among(g, Open) = g
    <3> HIDE DEF Open
    <3> QED
      BY <1>4, <1>6, AmongAll
  <2> QED
    BY <2>1 DEF Active
<1>8. m = Len(g)
  BY <1>2, <1>4, <1>5, <1>7, <1>t
<1>9. SubSeq(g, 1, Len(g)) = g
  BY <1>4, SubSeqFull
<1> QED
  BY <1>7, <1>8, <1>9, <1>t DEF g

-----------------------------------------------------------------------------
(***************************************************************************)
(* Calls.                                                                  *)
(***************************************************************************)
\* An id is that of an item, and its status is that item's.
LEMMA StatusAt ==
    ASSUME NEW p \in Seq(Item)
    PROVE  /\ \A x : x \in IdsOf(p) <=> \E i \in 1 .. Len(p) : p[i].id = x
           /\ \A x : x \notin IdsOf(p) => StatusIn(p, x) = Nothing
           /\ \A x : StatusIn(p, x) \in Statuses \cup {Nothing}
           /\ DistinctIds(p) => \A i \in 1 .. Len(p) : StatusIn(p, p[i].id) = p[i].status
<1>1. DOMAIN p = 1 .. Len(p)
  BY LenProperties
<1>2. \A x : x \in IdsOf(p) <=> \E i \in 1 .. Len(p) : p[i].id = x
  BY <1>1 DEF IdsOf
<1>3. \A e : e \in ToSet(p) <=> \E i \in 1 .. Len(p) : p[i] = e
  BY <1>1 DEF ToSet
<1>4. \A i \in 1 .. Len(p) : p[i] \in Item
  BY ElementOfSeq
<1>5. ASSUME NEW x, x \in IdsOf(p)
      PROVE  \E i \in 1 .. Len(p) : p[i].id = x /\ StatusIn(p, x) = p[i].status
  <2>1. \E e \in ToSet(p) : e.id = x
    BY <1>2, <1>3, <1>5
  <2> DEFINE e == CHOOSE e \in ToSet(p) : e.id = x
  <2>2. e \in ToSet(p) /\ e.id = x
    BY <2>1
  <2>3. StatusIn(p, x) = e.status
    BY <1>5 DEF StatusIn
  <2> HIDE DEF e
  <2> QED
    BY <1>3, <2>2, <2>3
<1>6. \A x : x \notin IdsOf(p) => StatusIn(p, x) = Nothing
  BY DEF StatusIn
<1>7. ASSUME NEW x PROVE StatusIn(p, x) \in Statuses \cup {Nothing}
  <2>1. CASE x \in IdsOf(p)
    <3>1. PICK i \in 1 .. Len(p) : StatusIn(p, x) = p[i].status
      BY <1>5, <2>1
    <3>2. p[i].status \in Statuses
      BY <1>4 DEF Item
    <3> QED
      BY <3>1, <3>2
  <2>2. CASE x \notin IdsOf(p)
    BY <1>6, <2>2
  <2> QED
    BY <2>1, <2>2
<1>8. ASSUME DistinctIds(p), NEW i \in 1 .. Len(p)
      PROVE  StatusIn(p, p[i].id) = p[i].status
  <2>1. p[i].id \in IdsOf(p)
    BY <1>2
  <2>2. PICK j \in 1 .. Len(p) : p[j].id = p[i].id /\ StatusIn(p, p[i].id) = p[j].status
    BY <1>5, <2>1
  <2>3. j = i
    BY <1>8, <2>2, IdsDiffer
  <2> QED
    BY <2>2, <2>3
<1> QED
  BY <1>2, <1>6, <1>7, <1>8

\* What a merge makes of a plan: one item of each id still, and for every id
\* what the call says of it or, if it does not, what the plan had.
LEMMA MergedIs ==
    ASSUME NEW p \in Good, NEW items \in Seq(Item), DistinctIds(items)
    PROVE  /\ Merged(p, items) \in Seq(Item) /\ DistinctIds(Merged(p, items))
           /\ \A x : StatusIn(Merged(p, items), x) =
                        IF x \in IdsOf(items) THEN StatusIn(items, x) ELSE StatusIn(p, x)
<1> DEFINE u == [i \in DOMAIN p |->
                    IF p[i].id \in IdsOf(items)
                    THEN [p[i] EXCEPT !.status = StatusIn(items, p[i].id)] ELSE p[i]]
           New == {x \in ToSet(items) : x.id \notin IdsOf(p)}
           v == Among(items, New)
           m == u \o v
<1>p. p \in Seq(Item) /\ DistinctIds(p)
  BY DEF Good
<1>n. Len(p) \in Nat /\ DOMAIN p = 1 .. Len(p) /\ Len(items) \in Nat
  BY <1>p, LenProperties
<1>i. \A i \in 1 .. Len(items) : items[i] \in Item /\ items[i] \in ToSet(items)
  <2>1. DOMAIN items = 1 .. Len(items)
    BY LenProperties
  <2> QED
    BY <2>1, ElementOfSeq DEF ToSet
<1>m. Merged(p, items) = m
  BY DEF Merged
<1>1. /\ u \in Seq(Item) /\ Len(u) = Len(p)
      /\ \A i \in 1 .. Len(p) :
            /\ u[i].id = p[i].id
            /\ u[i].status = IF p[i].id \in IdsOf(items) THEN StatusIn(items, p[i].id)
                             ELSE p[i].status
  <2>1. \A i \in 1 .. Len(p) : u[i] = IF p[i].id \in IdsOf(items)
                    THEN [p[i] EXCEPT !.status = StatusIn(items, p[i].id)] ELSE p[i]
    BY <1>n
  <2>2. ASSUME NEW i \in 1 .. Len(p)
        PROVE  /\ u[i] \in Item
               /\ u[i].id = p[i].id
               /\ u[i].status = IF p[i].id \in IdsOf(items) THEN StatusIn(items, p[i].id)
                                ELSE p[i].status
    <3>1. p[i] \in Item
      BY <1>p, ElementOfSeq
    <3>2. p[i].id \in IdsOf(items) => StatusIn(items, p[i].id) \in Statuses
      <4>1. ASSUME p[i].id \in IdsOf(items)
            PROVE  StatusIn(items, p[i].id) \in Statuses
        <5>1. PICK j \in 1 .. Len(items) : items[j].id = p[i].id
          BY <4>1, StatusAt
        <5>2. StatusIn(items, p[i].id) = items[j].status
          BY <5>1, StatusAt
        <5>3. items[j].status \in Statuses
          BY <1>i DEF Item
        <5> QED
          BY <5>2, <5>3
      <4> QED
        BY <4>1
    <3> QED
      BY <2>1, <3>1, <3>2 DEF Item
  <2>3. DOMAIN u = 1 .. Len(p)
    BY <1>n
  <2>4. u = [i \in 1 .. Len(p) |-> u[i]]
    BY <1>n
  <2> HIDE DEF u
  <2>5. u \in [1 .. Len(p) -> Item]
    BY <2>2, <2>4
  <2>6. u \in Seq(Item) /\ Len(u) = Len(p)
    BY <1>n, <2>5
  <2> QED
    BY <2>2, <2>6
<1>2. /\ v \in Seq(Item)
      /\ \A a \in 1 .. Len(v) : v[a].id \notin IdsOf(p) /\
            \E j \in 1 .. Len(items) : v[a] = items[j]
      /\ \A j \in 1 .. Len(items) : items[j].id \notin IdsOf(p) =>
            \E a \in 1 .. Len(v) : v[a] = items[j]
  <2>1. /\ v \in Seq(Item)
        /\ \A a \in 1 .. Len(v) : v[a] \in New /\ \E j \in 1 .. Len(items) : v[a] = items[j]
        /\ \A j \in 1 .. Len(items) : items[j] \in New => \E a \in 1 .. Len(v) : v[a] = items[j]
    <3> HIDE DEF New
    <3> QED
      BY AmongPicks
  <2> QED
    BY <1>i, <2>1
<1>3. \A a, b \in 1 .. Len(v) : v[a].id = v[b].id => a = b
  <2>1. \A a, b \in 1 .. Len(v) : a < b =>
           \E i, j \in 1 .. Len(items) : i < j /\ v[a] = items[i] /\ v[b] = items[j]
    <3> HIDE DEF New
    <3> QED
      BY AmongInOrder
  <2>2. \A i, j \in 1 .. Len(items) : items[i].id = items[j].id => i = j
    BY IdsDiffer
  <2>3. Len(v) \in Nat
    BY <1>2, LenProperties
  <2> HIDE DEF v
  <2>4. ASSUME NEW a \in 1 .. Len(v), NEW b \in 1 .. Len(v), a < b PROVE v[a].id # v[b].id
    <3>1. PICK i \in 1 .. Len(items), j \in 1 .. Len(items) :
             i < j /\ v[a] = items[i] /\ v[b] = items[j]
      BY <2>1, <2>4
    <3>2. i # j
      BY <1>n, <3>1
    <3> QED
      BY <2>2, <3>1, <3>2
  <2>5. \A a, b \in 1 .. Len(v) : a < b \/ b < a \/ a = b
    BY <2>3
  <2> QED
    BY <2>4, <2>5
<1> HIDE DEF u, v
<1>4. /\ m \in Seq(Item) /\ Len(v) \in Nat /\ Len(m) = Len(p) + Len(v)
      /\ \A i \in 1 .. Len(p) : m[i] = u[i]
      /\ \A a \in 1 .. Len(v) : m[Len(p) + a] = v[a]
  <2>1. /\ m \in Seq(Item) /\ Len(m) = Len(u) + Len(v)
        /\ \A i \in 1 .. Len(u) + Len(v) :
              m[i] = IF i <= Len(u) THEN u[i] ELSE v[i - Len(u)]
    <3>1. u \in Seq(Item) /\ v \in Seq(Item)
      BY <1>1, <1>2
    <3> QED
      BY <3>1, ConcatProperties
  <2>2. Len(v) \in Nat
    BY <1>2, LenProperties
  <2> HIDE DEF m
  <2>3. \A i \in 1 .. Len(p) : i \in 1 .. Len(u) + Len(v) /\ i <= Len(u)
    BY <1>1, <1>n, <2>2
  <2>4. \A a \in 1 .. Len(v) : /\ Len(p) + a \in 1 .. Len(u) + Len(v)
                               /\ ~(Len(p) + a <= Len(u)) /\ Len(p) + a - Len(u) = a
    BY <1>1, <1>n, <2>2
  <2> QED
    BY <1>1, <2>1, <2>2, <2>3, <2>4
<1> HIDE DEF m
<1>5. \A k \in 1 .. Len(m) : k \in 1 .. Len(p) \/ \E a \in 1 .. Len(v) : k = Len(p) + a
  <2>1. ASSUME NEW k \in 1 .. Len(m), k \notin 1 .. Len(p)
        PROVE  k - Len(p) \in 1 .. Len(v) /\ k = Len(p) + (k - Len(p))
    BY <1>4, <1>n, <2>1
  <2> QED
    BY <2>1
\* Those of the plan are those with the ids it had.
<1>6. /\ \A i \in 1 .. Len(p) : m[i].id = p[i].id /\ m[i].id \in IdsOf(p)
      /\ \A a \in 1 .. Len(v) : m[Len(p) + a].id = v[a].id /\ m[Len(p) + a].id \notin IdsOf(p)
  <2>1. \A i \in 1 .. Len(p) : p[i].id \in IdsOf(p)
    BY <1>p, StatusAt
  <2> QED
    BY <1>1, <1>2, <1>4, <2>1
<1>7. \A k, l \in 1 .. Len(m) : m[k].id = m[l].id => k = l
  <2> SUFFICES ASSUME NEW k \in 1 .. Len(m), NEW l \in 1 .. Len(m), m[k].id = m[l].id
               PROVE  k = l
    BY Zenon
  <2>1. CASE k \in 1 .. Len(p)
    <3>1. l \in 1 .. Len(p)
      <4>1. m[l].id \in IdsOf(p)
        BY <1>6, <2>1
      <4>2. ~\E a \in 1 .. Len(v) : l = Len(p) + a
        BY <1>6, <4>1
      <4> QED
        BY <1>5, <4>2
    <3>2. p[k].id = p[l].id
      BY <1>6, <2>1, <3>1
    <3> QED
      BY <1>p, <2>1, <3>1, <3>2, IdsDiffer
  <2>2. CASE k \notin 1 .. Len(p)
    <3>1. PICK a \in 1 .. Len(v) : k = Len(p) + a
      BY <1>5, <2>2
    <3>2. l \notin 1 .. Len(p)
      BY <1>6, <3>1
    <3>3. PICK b \in 1 .. Len(v) : l = Len(p) + b
      BY <1>5, <3>2
    <3>4. a = b
      BY <1>3, <1>6, <3>1, <3>3
    <3> QED
      BY <3>1, <3>3, <3>4
  <2> QED
    BY <2>1, <2>2
<1>8. DistinctIds(m)
  BY <1>4, <1>7, IdsDiffer
<1>9. ASSUME NEW x
      PROVE  StatusIn(m, x) = IF x \in IdsOf(items) THEN StatusIn(items, x)
                              ELSE StatusIn(p, x)
  <2>1. CASE x \in IdsOf(p)
    <3>1. PICK i \in 1 .. Len(p) : p[i].id = x
      BY <1>p, <2>1, StatusAt
    <3>2. i \in 1 .. Len(m) /\ m[i].id = x
      <4>1. Len(m) = Len(p) + Len(v) /\ Len(v) \in Nat
        BY <1>4
      <4>2. i \in 1 .. Len(m)
        BY <1>n, <3>1, <4>1
      <4> QED
        BY <1>6, <3>1, <4>2
    <3>3. StatusIn(m, x) = m[i].status
      BY <1>4, <1>8, <3>2, StatusAt
    <3>4. StatusIn(p, x) = p[i].status
      BY <1>p, <3>1, StatusAt
    <3>5. m[i].status = IF x \in IdsOf(items) THEN StatusIn(items, x) ELSE p[i].status
      BY <1>1, <1>4, <3>1
    <3> QED
      BY <3>3, <3>4, <3>5
  <2>2. CASE x \notin IdsOf(p) /\ x \in IdsOf(items)
    <3>1. PICK j \in 1 .. Len(items) : items[j].id = x
      BY <2>2, StatusAt
    <3>2. PICK a \in 1 .. Len(v) : v[a] = items[j]
      BY <1>2, <2>2, <3>1
    <3>3. Len(p) + a \in 1 .. Len(m) /\ m[Len(p) + a] = items[j]
      BY <1>4, <1>n, <3>2
    <3>4. StatusIn(m, x) = items[j].status
      BY <1>4, <1>8, <3>1, <3>3, StatusAt
    <3>5. StatusIn(items, x) = items[j].status
      BY <3>1, StatusAt
    <3> QED
      BY <2>2, <3>4, <3>5
  <2>3. CASE x \notin IdsOf(p) /\ x \notin IdsOf(items)
    <3>1. ASSUME NEW k \in 1 .. Len(m), m[k].id = x PROVE FALSE
      <4>1. k \notin 1 .. Len(p)
        BY <1>6, <2>3, <3>1
      <4>2. PICK a \in 1 .. Len(v) : k = Len(p) + a
        BY <1>5, <4>1
      <4>3. PICK j \in 1 .. Len(items) : v[a] = items[j]
        BY <1>2
      <4>4. items[j].id = x
        BY <1>6, <3>1, <4>2, <4>3
      <4> QED
        BY <2>3, <4>4, StatusAt
    <3>2. x \notin IdsOf(m)
      BY <1>4, <3>1, StatusAt
    <3> QED
      BY <1>4, <1>p, <2>3, <3>2, StatusAt
  <2> QED
    BY <2>1, <2>2, <2>3
<1> QED
  BY <1>4, <1>8, <1>9, <1>m

\* A call of todo_write.
Calling == [merge : BOOLEAN, full : BOOLEAN, items : Seq(Item)]

\* What a call c comes to on a plan q, if it is accepted.
MadeOf(c, p, q) ==
    /\ p \in Good /\ DistinctIds(c.items)
    /\ ~c.merge => p = c.items
    /\ c.merge => \A x : StatusIn(p, x) = IF x \in IdsOf(c.items) THEN StatusIn(c.items, x)
                                          ELSE StatusIn(q, x)

\* What a call computes is good, or nothing.
LEMMA CallMakes ==
    ASSUME NEW c \in Calling, NEW q \in Good,
           NEW p, p = (IF c.merge THEN RunMerge(c, q) ELSE RunFresh(c))
    PROVE  p = Nothing \/ MadeOf(c, p, q)
<1>1. c.merge \in BOOLEAN /\ c.items \in Seq(Item)
  BY DEF Calling
<1>2. CASE c.merge
  <2>1. p = Nothing \/ (p = Merged(q, c.items) /\ DistinctIds(c.items) /\ OneAtWork(p))
    BY <1>2 DEF RunMerge
  <2>2. ASSUME p = Merged(q, c.items), DistinctIds(c.items), OneAtWork(p)
        PROVE  MadeOf(c, p, q)
    <3>1. /\ p \in Seq(Item) /\ DistinctIds(p)
          /\ \A x : StatusIn(p, x) = IF x \in IdsOf(c.items) THEN StatusIn(c.items, x)
                                     ELSE StatusIn(q, x)
      BY <1>1, <2>2, MergedIs
    <3> QED
      BY <1>2, <2>2, <3>1 DEF MadeOf, Good
  <2> QED
    BY <2>1, <2>2
<1>3. CASE ~c.merge
  BY <1>1, <1>3 DEF RunFresh, MadeOf, Good
<1> QED
  BY <1>1, <1>2, <1>3

-----------------------------------------------------------------------------
(***************************************************************************)
(* What transcripts tell of plans.                                         *)
(***************************************************************************)
PlanMsg == [k : Kinds, plans : Seq(Word)]

\* The plan /resume would take of a message that names one.
The(m) == m.plans[Min(Naming(m))]

\* The least of some numbers is one of them.
LEMMA MinIsOne ==
    ASSUME NEW S \in SUBSET Nat, S # {} PROVE Min(S) \in S
<1>1. \E x \in S : \A y \in S : x =< y
  BY LeastIsOne
<1> QED
  BY <1>1 DEF Min

\* The plan a message names is good.
LEMMA TheIsGood ==
    ASSUME NEW m \in PlanMsg, Naming(m) # {} PROVE The(m) \in Good
<1>1. m.plans \in Seq(Word)
  BY DEF PlanMsg
<1>2. DOMAIN m.plans = 1 .. Len(m.plans) /\ Len(m.plans) \in Nat
  BY <1>1, LenProperties
<1>3. Naming(m) \in SUBSET Nat
  BY <1>2 DEF Naming
<1>4. Min(Naming(m)) \in Naming(m)
  BY <1>3, MinIsOne
<1> DEFINE j == Min(Naming(m))
<1> HIDE DEF j
<1>5. j \in 1 .. Len(m.plans) /\ m.plans[j] # Nothing
  BY <1>2, <1>4 DEF Naming, j
<1>6. m.plans[j] \in Word
  BY <1>1, <1>5, ElementOfSeq
<1> QED
  BY <1>5, <1>6 DEF Word, The, j

\* The latest message that names a plan has the word.
LEMMA LatestTells ==
    ASSUME NEW h \in Seq(PlanMsg), NEW i \in 1 .. Len(h), Naming(h[i]) # {},
           \A j \in i + 1 .. Len(h) : Naming(h[j]) = {}
    PROVE  Tells(h) /\ Max(Telling(h)) = i /\ LatestPlan(h) = The(h[i])
<1> DEFINE S == Telling(h)
<1>1. DOMAIN h = 1 .. Len(h) /\ Len(h) \in Nat
  BY LenProperties
<1>2. \A j : j \in S <=> j \in 1 .. Len(h) /\ Naming(h[j]) # {}
  BY <1>1 DEF Telling
<1> HIDE DEF S
<1>3. i \in S
  BY <1>2
<1>4. \A j \in S : i >= j
  BY <1>1, <1>2
<1>5. \A x \in S : (\A y \in S : x >= y) => x = i
  <2>1. S \subseteq Nat
    BY <1>1, <1>2
  <2> QED
    BY <1>3, <1>4, <2>1
<1>6. (CHOOSE x \in S : \A y \in S : x >= y) = i
  BY <1>3, <1>4, <1>5
<1>7. Max(Telling(h)) = i
  BY <1>6 DEF Max, S
<1>8. Tells(h)
  BY <1>3 DEF Tells, S
<1> QED
  BY <1>7, <1>8 DEF LatestPlan, The

\* Either a message has the word, or nothing is told.
LEMMA WhoTells ==
    ASSUME NEW h \in Seq(PlanMsg)
    PROVE  /\ Tells(h) => \E i \in 1 .. Len(h) :
                 /\ Naming(h[i]) # {} /\ \A j \in i + 1 .. Len(h) : Naming(h[j]) = {}
                 /\ i = Max(Telling(h)) /\ LatestPlan(h) = The(h[i])
           /\ ~Tells(h) <=> \A i \in 1 .. Len(h) : Naming(h[i]) = {}
           /\ ~Tells(h) => LatestPlan(h) = <<>>
           /\ LatestPlan(h) \in Good
<1> DEFINE S == Telling(h)
<1>1. DOMAIN h = 1 .. Len(h) /\ Len(h) \in Nat
  BY LenProperties
<1>2. \A j : j \in S <=> j \in 1 .. Len(h) /\ Naming(h[j]) # {}
  BY <1>1 DEF Telling
<1> HIDE DEF S
<1>3. Tells(h) <=> S # {}
  BY DEF Tells, S
<1>4. ASSUME Tells(h)
      PROVE  \E i \in 1 .. Len(h) :
                /\ Naming(h[i]) # {} /\ \A j \in i + 1 .. Len(h) : Naming(h[j]) = {}
                /\ i = Max(Telling(h)) /\ LatestPlan(h) = The(h[i])
  <2>1. S \in SUBSET (1 .. Len(h)) /\ S # {}
    BY <1>2, <1>3, <1>4
  <2>2. PICK i \in S : \A y \in S : i >= y
    BY <1>1, <2>1, GreatestIsOne
  <2>3. /\ i \in 1 .. Len(h) /\ Naming(h[i]) # {}
        /\ \A j \in i + 1 .. Len(h) : Naming(h[j]) = {}
    <3>1. i \in 1 .. Len(h) /\ Naming(h[i]) # {} /\ i \in Nat
      BY <1>1, <1>2, <2>2
    <3>2. ASSUME NEW j \in i + 1 .. Len(h) PROVE Naming(h[j]) = {}
      <4>1. j \in 1 .. Len(h) /\ ~(i >= j)
        BY <1>1, <3>1
      <4>2. j \notin S
        BY <2>2, <4>1
      <4> QED
        BY <1>2, <4>1, <4>2
    <3> QED
      BY <3>1, <3>2
  <2> QED
    BY <2>3, LatestTells
<1>5. ~Tells(h) => LatestPlan(h) = <<>>
  BY DEF LatestPlan
<1>6. LatestPlan(h) \in Good
  <2>1. CASE Tells(h)
    <3>1. PICK i \in 1 .. Len(h) : Naming(h[i]) # {} /\ LatestPlan(h) = The(h[i])
      BY <1>4, <2>1
    <3>2. h[i] \in PlanMsg
      BY ElementOfSeq
    <3> QED
      BY <3>1, <3>2, TheIsGood
  <2>2. CASE ~Tells(h)
    BY <1>5, <2>2, GoodNames
  <2> QED
    BY <2>1, <2>2
<1> QED
  BY <1>2, <1>3, <1>4, <1>5, <1>6

\* Of two lists in a row the second has the word, if it tells anything.
LEMMA ConcatTells ==
    ASSUME NEW f \in Seq(PlanMsg), NEW g \in Seq(PlanMsg)
    PROVE  /\ f \o g \in Seq(PlanMsg)
           /\ Tells(f \o g) <=> Tells(f) \/ Tells(g)
           /\ LatestPlan(f \o g) = IF Tells(g) THEN LatestPlan(g) ELSE LatestPlan(f)
<1> DEFINE h == f \o g
<1>1. /\ h \in Seq(PlanMsg) /\ Len(f) \in Nat /\ Len(g) \in Nat
      /\ Len(h) = Len(f) + Len(g)
      /\ \A i \in 1 .. Len(h) : h[i] = IF i <= Len(f) THEN f[i] ELSE g[i - Len(f)]
  BY LenProperties, ConcatProperties
<1> HIDE DEF h
<1>2. /\ \A i \in 1 .. Len(f) : i \in 1 .. Len(h) /\ h[i] = f[i]
      /\ \A i \in 1 .. Len(g) : Len(f) + i \in 1 .. Len(h) /\ h[Len(f) + i] = g[i]
  <2>1. \A i \in 1 .. Len(f) : i \in 1 .. Len(h) /\ i <= Len(f)
    BY <1>1
  <2>2. \A i \in 1 .. Len(g) : /\ Len(f) + i \in 1 .. Len(h)
                               /\ ~(Len(f) + i <= Len(f)) /\ Len(f) + i - Len(f) = i
    BY <1>1
  <2> QED
    BY <1>1, <2>1, <2>2
<1>3. ASSUME Tells(g) PROVE Tells(h) /\ LatestPlan(h) = LatestPlan(g)
  <2>1. PICK i \in 1 .. Len(g) :
           /\ Naming(g[i]) # {} /\ \A j \in i + 1 .. Len(g) : Naming(g[j]) = {}
           /\ LatestPlan(g) = The(g[i])
    BY <1>3, WhoTells
  <2> DEFINE n == Len(f) + i
  <2>2. n \in 1 .. Len(h) /\ h[n] = g[i] /\ n \in Nat
    BY <1>1, <1>2
  <2>3. ASSUME NEW j \in n + 1 .. Len(h) PROVE Naming(h[j]) = {}
    <3>1. j - Len(f) \in i + 1 .. Len(g) /\ Len(f) + (j - Len(f)) = j
      BY <1>1
    <3>2. j - Len(f) \in 1 .. Len(g)
      BY <1>1, <3>1
    <3>3. h[j] = g[j - Len(f)]
      BY <1>2, <3>1, <3>2
    <3> QED
      BY <2>1, <3>1, <3>3
  <2> HIDE DEF n
  <2> QED
    BY <1>1, <2>1, <2>2, <2>3, LatestTells
<1>4. ASSUME ~Tells(g), Tells(f) PROVE Tells(h) /\ LatestPlan(h) = LatestPlan(f)
  <2>1. PICK i \in 1 .. Len(f) :
           /\ Naming(f[i]) # {} /\ \A j \in i + 1 .. Len(f) : Naming(f[j]) = {}
           /\ LatestPlan(f) = The(f[i])
    BY <1>4, WhoTells
  <2>2. i \in 1 .. Len(h) /\ h[i] = f[i]
    BY <1>2
  <2>3. ASSUME NEW j \in i + 1 .. Len(h) PROVE Naming(h[j]) = {}
    <3>1. CASE j <= Len(f)
      <4>1. j \in i + 1 .. Len(f) /\ j \in 1 .. Len(f)
        BY <1>1, <3>1
      <4> QED
        BY <1>2, <2>1, <4>1
    <3>2. CASE ~(j <= Len(f))
      <4>1. j - Len(f) \in 1 .. Len(g) /\ Len(f) + (j - Len(f)) = j
        BY <1>1, <3>2
      <4>2. h[j] = g[j - Len(f)]
        BY <1>2, <4>1
      <4> QED
        BY <1>4, <4>1, <4>2, WhoTells
    <3> QED
      BY <3>1, <3>2
  <2> QED
    BY <1>1, <2>1, <2>2, <2>3, LatestTells
<1>5. ASSUME ~Tells(g), ~Tells(f) PROVE ~Tells(h) /\ LatestPlan(h) = LatestPlan(f)
  <2>1. ASSUME NEW j \in 1 .. Len(h) PROVE Naming(h[j]) = {}
    <3>1. CASE j <= Len(f)
      <4>1. j \in 1 .. Len(f)
        BY <1>1, <3>1
      <4> QED
        BY <1>2, <1>5, <4>1, WhoTells
    <3>2. CASE ~(j <= Len(f))
      <4>1. j - Len(f) \in 1 .. Len(g) /\ Len(f) + (j - Len(f)) = j
        BY <1>1, <3>2
      <4>2. h[j] = g[j - Len(f)]
        BY <1>2, <4>1
      <4> QED
        BY <1>5, <4>1, <4>2, WhoTells
    <3> QED
      BY <3>1, <3>2
  <2>2. ~Tells(h)
    BY <1>1, <2>1, WhoTells
  <2> QED
    BY <1>1, <1>5, <2>2, WhoTells
<1>6. /\ Tells(h) <=> Tells(f) \/ Tells(g)
      /\ LatestPlan(h) = IF Tells(g) THEN LatestPlan(g) ELSE LatestPlan(f)
  BY <1>3, <1>4, <1>5
<1> QED
  BY <1>1, <1>6 DEF h

\* One message, and nothing.
LEMMA OneTells ==
    ASSUME NEW m \in PlanMsg
    PROVE  /\ <<m>> \in Seq(PlanMsg)
           /\ Tells(<<m>>) <=> Naming(m) # {}
           /\ Naming(m) # {} => LatestPlan(<<m>>) = The(m)
<1> DEFINE h == <<m>>
<1>1. h \in Seq(PlanMsg) /\ Len(h) = 1 /\ h[1] = m
  OBVIOUS
<1> HIDE DEF h
<1>2. ASSUME Naming(m) # {} PROVE Tells(h) /\ LatestPlan(h) = The(m)
  <2>1. 1 \in 1 .. Len(h) /\ \A j \in 1 + 1 .. Len(h) : Naming(h[j]) = {}
    BY <1>1
  <2> QED
    BY <1>1, <1>2, <2>1, LatestTells
<1>3. ASSUME Naming(m) = {} PROVE ~Tells(h)
  <2>1. \A j \in 1 .. Len(h) : Naming(h[j]) = {}
    BY <1>1, <1>3
  <2> QED
    BY <1>1, <2>1, WhoTells
<1> QED
  BY <1>1, <1>2, <1>3 DEF h

\* The empty list tells nothing.
LEMMA NoneTells == <<>> \in Seq(PlanMsg) /\ ~Tells(<<>>) /\ LatestPlan(<<>>) = <<>>
<1>1. <<>> \in Seq(PlanMsg) /\ Len(<<>>) = 0
  BY EmptySeq
<1>2. \A j \in 1 .. Len(<<>>) : Naming(<<>>[j]) = {}
  BY <1>1
<1> QED
  BY <1>1, <1>2, WhoTells

\* A message that names no plan is as good as none.
LEMMA PlainTells ==
    ASSUME NEW k \in Kinds
    PROVE  /\ Plain(k) \in PlanMsg
           /\ ~Tells(<<Plain(k)>>) /\ <<Plain(k)>> \in Seq(PlanMsg)
           /\ \A h \in Seq(PlanMsg) :
                 /\ Append(h, Plain(k)) \in Seq(PlanMsg)
                 /\ Tells(Append(h, Plain(k))) <=> Tells(h)
                 /\ LatestPlan(Append(h, Plain(k))) = LatestPlan(h)
<1> DEFINE m == Plain(k)
<1>1. m \in PlanMsg /\ Naming(m) = {}
  <2>1. <<>> \in Seq(Word) /\ Len(<<>>) = 0 /\ DOMAIN <<>> = 1 .. 0
    BY EmptySeq
  <2>2. m \in PlanMsg
    BY <2>1 DEF Plain, PlanMsg
  <2>3. m.plans = <<>>
    BY DEF Plain
  <2> HIDE DEF m
  <2>4. Naming(m) = {}
    BY <2>1, <2>3 DEF Naming
  <2> QED
    BY <2>2, <2>4
<1> HIDE DEF m
<1>2. ~Tells(<<m>>) /\ <<m>> \in Seq(PlanMsg)
  BY <1>1, OneTells
<1>3. \A h \in Seq(PlanMsg) :
         /\ Append(h, m) \in Seq(PlanMsg)
         /\ Tells(Append(h, m)) <=> Tells(h)
         /\ LatestPlan(Append(h, m)) = LatestPlan(h)
  <2> SUFFICES ASSUME NEW h \in Seq(PlanMsg)
               PROVE  /\ Append(h, m) \in Seq(PlanMsg)
                      /\ Tells(Append(h, m)) <=> Tells(h)
                      /\ LatestPlan(Append(h, m)) = LatestPlan(h)
    BY Zenon
  <2>1. Append(h, m) = h \o <<m>>
    BY <1>1, AppendIsConcat
  <2>2. /\ h \o <<m>> \in Seq(PlanMsg)
        /\ Tells(h \o <<m>>) <=> Tells(h) \/ Tells(<<m>>)
        /\ LatestPlan(h \o <<m>>) = IF Tells(<<m>>) THEN LatestPlan(<<m>>) ELSE LatestPlan(h)
    BY <1>2, ConcatTells
  <2> QED
    BY <1>2, <2>1, <2>2
<1> QED
  BY <1>1, <1>2, <1>3 DEF m

\* A snapshot is shown if there is something open, and has the gist.
LEMMA SnapshotTells ==
    ASSUME NEW p \in Good
    PROVE  /\ SnapshotOf(p) \in Seq(PlanMsg)
           /\ Tells(SnapshotOf(p)) <=> Active(p) # <<>>
           /\ Active(p) # <<>> => LatestPlan(SnapshotOf(p)) = Gist(p)
<1>1. CASE Active(p) = <<>>
  BY <1>1, NoneTells DEF SnapshotOf
<1>2. CASE Active(p) # <<>>
  <2> DEFINE g == Gist(p)
             m == Shown(g)
  <2>1. g \in Good /\ g # Nothing
    BY GistGood, GoodNames
  <2>2. SnapshotOf(p) = <<m>>
    BY <1>2 DEF SnapshotOf
  <2> HIDE DEF g
  <2>3. <<g>> \in Seq(Word) /\ Len(<<g>>) = 1 /\ <<g>>[1] = g /\ DOMAIN <<g>> = 1 .. 1
    BY <2>1 DEF Word
  <2>4. m \in PlanMsg /\ m.plans = <<g>>
    BY <2>3 DEF Shown, PlanMsg, Kinds, CarrierKinds
  <2> HIDE DEF m
  <2>5. Naming(m) = {1}
    BY <2>1, <2>3, <2>4 DEF Naming
  <2>6. The(m) = g
    <3>1. Min({1}) \in {1}
      BY MinIsOne
    <3> QED
      BY <2>3, <2>4, <2>5, <3>1 DEF The
  <2> QED
    BY <1>2, <2>2, <2>4, <2>5, <2>6, OneTells DEF g
<1> QED
  BY <1>1, <1>2

\* A list with one more message.
LEMMA AppendTells ==
    ASSUME NEW h \in Seq(PlanMsg), NEW m \in PlanMsg
    PROVE  /\ Append(h, m) \in Seq(PlanMsg)
           /\ LatestPlan(Append(h, m)) = IF Naming(m) # {} THEN The(m) ELSE LatestPlan(h)
<1>1. Append(h, m) = h \o <<m>>
  BY AppendIsConcat
<1>2. /\ <<m>> \in Seq(PlanMsg)
      /\ Tells(<<m>>) <=> Naming(m) # {}
      /\ Naming(m) # {} => LatestPlan(<<m>>) = The(m)
  BY OneTells
<1>3. /\ h \o <<m>> \in Seq(PlanMsg)
      /\ LatestPlan(h \o <<m>>) = IF Tells(<<m>>) THEN LatestPlan(<<m>>) ELSE LatestPlan(h)
  BY <1>2, ConcatTells
<1> QED
  BY <1>1, <1>2, <1>3

\* What a list adds to one of n messages.
Since(h, n) == SubSeq(h, n + 1, Len(h))

\* What a list adds is a list of messages; nothing is added to all of it.
LEMMA SinceType ==
    ASSUME NEW h \in Seq(PlanMsg), NEW n \in Nat
    PROVE  /\ Since(h, n) \in Seq(PlanMsg)
           /\ Len(Since(h, n)) = IF n <= Len(h) THEN Len(h) - n ELSE 0
           /\ \A i \in 1 .. Len(h) - n : Since(h, n)[i] = h[n + i]
           /\ n = Len(h) => Since(h, n) = <<>>
<1>1. Len(h) \in Nat /\ n + 1 \in Nat \ {0} /\ Len(h) \in Int /\ Len(h) <= Len(h)
  BY LenProperties
<1> DEFINE a == n + 1
           b == Len(h)
           c == SubSeq(h, a, b)
<1>2. /\ c \in Seq(PlanMsg)
      /\ Len(c) = IF a <= b THEN b - a + 1 ELSE 0
      /\ \A i \in 1 .. b - a + 1 : c[i] = h[a + i - 1]
  <2>1. a \in Nat \ {0} /\ b \in Int /\ b <= Len(h)
    BY <1>1
  <2> HIDE DEF a, b
  <2> QED
    BY <2>1, CutType
<1>3. Since(h, n) = c
  BY DEF Since
<1> HIDE DEF c
<1>4. Len(c) = IF n <= Len(h) THEN Len(h) - n ELSE 0
  BY <1>1, <1>2
<1>5. \A i \in 1 .. Len(h) - n : c[i] = h[n + i]
  <2>1. \A i \in 1 .. Len(h) - n : i \in 1 .. b - a + 1 /\ a + i - 1 = n + i
    BY <1>1
  <2> QED
    BY <1>2, <2>1
<1>6. n = Len(h) => c = <<>>
  <2>1. n = Len(h) => Len(c) = 0
    BY <1>1, <1>4
  <2> QED
    BY <1>2, <2>1, EmptySeq
<1> QED
  BY <1>2, <1>3, <1>4, <1>5, <1>6

\* A message at the end is among what the list adds.
LEMMA SinceAppend ==
    ASSUME NEW h \in Seq(PlanMsg), NEW m \in PlanMsg, NEW n \in Nat, n <= Len(h)
    PROVE  Since(Append(h, m), n) = Append(Since(h, n), m)
<1> DEFINE g == Append(h, m)
           a == Since(g, n)
           c == Since(h, n)
           d == Append(c, m)
<1>1. /\ g \in Seq(PlanMsg) /\ Len(g) = Len(h) + 1 /\ Len(h) \in Nat
      /\ \A i \in 1 .. Len(h) : g[i] = h[i]
      /\ g[Len(h) + 1] = m
  BY AppendProperties, LenProperties
<1> HIDE DEF g
<1>2. /\ a \in Seq(PlanMsg) /\ Len(a) = Len(h) + 1 - n
      /\ \A i \in 1 .. Len(h) + 1 - n : a[i] = g[n + i]
  <2>1. n <= Len(g) /\ Len(g) - n = Len(h) + 1 - n
    BY <1>1
  <2>2. /\ a \in Seq(PlanMsg) /\ Len(a) = Len(g) - n
        /\ \A i \in 1 .. Len(g) - n : a[i] = g[n + i]
    <3>1. /\ a \in Seq(PlanMsg) /\ Len(a) = IF n <= Len(g) THEN Len(g) - n ELSE 0
          /\ \A i \in 1 .. Len(g) - n : a[i] = g[n + i]
      BY <1>1, SinceType
    <3> QED
      BY <2>1, <3>1
  <2> HIDE DEF a
  <2> QED
    BY <2>1, <2>2
<1>3. /\ c \in Seq(PlanMsg) /\ Len(c) = Len(h) - n
      /\ \A i \in 1 .. Len(h) - n : c[i] = h[n + i]
  BY SinceType
<1> HIDE DEF a, c
<1>4. /\ d \in Seq(PlanMsg) /\ Len(d) = Len(c) + 1
      /\ \A i \in 1 .. Len(c) : d[i] = c[i]
      /\ d[Len(c) + 1] = m
  BY <1>3, AppendProperties
<1> HIDE DEF d
<1>5. ASSUME NEW i \in 1 .. Len(a) PROVE a[i] = d[i]
  <2>1. CASE i <= Len(h) - n
    <3>1. i \in 1 .. Len(h) - n /\ n + i \in 1 .. Len(h)
      BY <1>1, <1>2, <2>1
    <3>2. a[i] = g[n + i] /\ g[n + i] = h[n + i] /\ c[i] = h[n + i]
      BY <1>1, <1>2, <1>3, <3>1
    <3>3. d[i] = c[i]
      BY <1>3, <1>4, <3>1
    <3> QED
      BY <3>2, <3>3
  <2>2. CASE i > Len(h) - n
    <3>0. i \in 1 .. Len(h) + 1 - n
      BY <1>2
    <3>1. i = Len(h) - n + 1 /\ n + i = Len(h) + 1
      BY <1>1, <2>2, <3>0
    <3>2. a[i] = m
      BY <1>1, <1>2, <3>1
    <3>3. d[i] = m
      BY <1>3, <1>4, <3>1
    <3> QED
      BY <3>2, <3>3
  <2> QED
    BY <1>1, <1>2, <2>1, <2>2
<1>6. Len(a) = Len(d)
  BY <1>1, <1>2, <1>3, <1>4
<1>7. a = d
  BY <1>2, <1>4, <1>5, <1>6, SeqEqual
<1> QED
  BY <1>7 DEF a, d, g, c

\* Two lists with the same message as the latest that names a plan tell the
\* same, and so do their ends.
LEMMA SameWord ==
    ASSUME NEW f \in Seq(PlanMsg), NEW g \in Seq(PlanMsg), Len(f) = Len(g),
           NEW i \in 1 .. Len(f), Naming(f[i]) # {}, g[i] = f[i],
           \A j \in i + 1 .. Len(f) : Naming(f[j]) = {} /\ Naming(g[j]) = {},
           NEW n \in Nat, n <= Len(f)
    PROVE  /\ LatestPlan(f) = LatestPlan(g)
           /\ Tells(Since(f, n)) <=> Tells(Since(g, n))
           /\ LatestPlan(Since(f, n)) = LatestPlan(Since(g, n))
<1> DEFINE c == Since(f, n)
           d == Since(g, n)
<1>0. Len(f) \in Nat
  BY LenProperties
<1>1. LatestPlan(f) = The(f[i]) /\ LatestPlan(g) = The(g[i])
  BY LatestTells
<1>2. /\ c \in Seq(PlanMsg) /\ Len(c) = Len(f) - n
      /\ \A j \in 1 .. Len(f) - n : c[j] = f[n + j]
      /\ d \in Seq(PlanMsg) /\ Len(d) = Len(f) - n
      /\ \A j \in 1 .. Len(f) - n : d[j] = g[n + j]
  BY SinceType
<1> HIDE DEF c, d
<1>3. CASE i <= n
  <2>1. \A j \in 1 .. Len(f) - n : Naming(c[j]) = {} /\ Naming(d[j]) = {}
    <3>1. \A j \in 1 .. Len(f) - n : n + j \in i + 1 .. Len(f)
      BY <1>0, <1>3
    <3> QED
      BY <1>2, <3>1
  <2>2. ~Tells(c) /\ ~Tells(d)
    BY <1>2, <2>1, WhoTells
  <2>3. LatestPlan(c) = <<>> /\ LatestPlan(d) = <<>>
    BY <1>2, <2>2, WhoTells
  <2> QED
    BY <1>1, <2>2, <2>3 DEF c, d
<1>4. CASE i > n
  <2> DEFINE k == i - n
  <2>1. k \in 1 .. Len(f) - n /\ n + k = i
    BY <1>0, <1>4
  <2>2. ASSUME NEW j \in k + 1 .. Len(f) - n PROVE Naming(c[j]) = {} /\ Naming(d[j]) = {}
    <3>1. j \in 1 .. Len(f) - n /\ n + j \in i + 1 .. Len(f)
      BY <1>0, <1>4
    <3> QED
      BY <1>2, <3>1
  <2>3. c[k] = f[i] /\ d[k] = g[i]
    BY <1>2, <2>1
  <2> HIDE DEF k
  <2>4. Tells(c) /\ LatestPlan(c) = The(c[k])
    BY <1>2, <2>1, <2>2, <2>3, LatestTells
  <2>5. Tells(d) /\ LatestPlan(d) = The(d[k])
    BY <1>2, <2>1, <2>2, <2>3, LatestTells
  <2> QED
    BY <1>1, <2>3, <2>4, <2>5 DEF c, d
<1> QED
  BY <1>0, <1>3, <1>4

\* A list without the plan j of message i.
Spilt(h, i, j) == [h EXCEPT ![i].plans[j] = Nothing]

\* g is h but for message i.
OnlyAt(g, h, i) ==
    /\ g \in Seq(PlanMsg) /\ Len(g) = Len(h)
    /\ \A x \in 1 .. Len(h) : x # i => g[x] = h[x]

\* A return without its plan is one, and the rest of the list is as it was.
LEMMA SpilledType ==
    ASSUME NEW h \in Seq(PlanMsg), NEW i \in 1 .. Len(h), NEW j \in Naming(h[i])
    PROVE  OnlyAt(Spilt(h, i, j), h, i)
<1>1. DOMAIN h = 1 .. Len(h) /\ Len(h) \in Nat /\ h[i] \in PlanMsg
  BY LenProperties, ElementOfSeq
<1> DEFINE m == [h[i] EXCEPT !.plans[j] = Nothing]
           g == [h EXCEPT ![i].plans[j] = Nothing]
<1>2. m \in PlanMsg
  <2>1. h[i].plans \in Seq(Word)
    BY <1>1 DEF PlanMsg
  <2>2. j \in 1 .. Len(h[i].plans)
    <3>1. DOMAIN h[i].plans = 1 .. Len(h[i].plans)
      BY <2>1, LenProperties
    <3> QED
      BY <3>1 DEF Naming
  <2>3. [h[i].plans EXCEPT ![j] = Nothing] \in Seq(Word)
    BY <2>1, <2>2, ExceptSeq DEF Word
  <2>4. m = [h[i] EXCEPT !.plans = [h[i].plans EXCEPT ![j] = Nothing]]
    OBVIOUS
  <2> HIDE DEF m
  <2> QED
    BY <1>1, <2>3, <2>4 DEF PlanMsg
<1>3. g = [h EXCEPT ![i] = m]
  OBVIOUS
<1> HIDE DEF m, g
<1>4. /\ g \in Seq(PlanMsg) /\ Len(g) = Len(h)
      /\ \A x \in 1 .. Len(h) : x # i => g[x] = h[x]
  BY <1>2, <1>3, ExceptSeq
<1> QED
  BY <1>4 DEF g, Spilt, OnlyAt

\* Unless the message that lost a plan had the word, the list tells the same.
LEMMA SpilledTells ==
    ASSUME NEW h \in Seq(PlanMsg), NEW i \in 1 .. Len(h), Naming(h[i]) # {},
           i # Max(Telling(h)), NEW g, OnlyAt(g, h, i),
           NEW n \in Nat, n <= Len(h)
    PROVE  /\ LatestPlan(g) = LatestPlan(h)
           /\ Tells(Since(g, n)) <=> Tells(Since(h, n))
           /\ LatestPlan(Since(g, n)) = LatestPlan(Since(h, n))
<1> USE DEF OnlyAt
<1>1. Len(h) \in Nat
  BY LenProperties
<1>2. Tells(h)
  BY WhoTells
<1>3. PICK x \in 1 .. Len(h) :
         /\ Naming(h[x]) # {} /\ \A y \in x + 1 .. Len(h) : Naming(h[y]) = {}
         /\ x = Max(Telling(h))
  BY <1>2, WhoTells
<1>4. x # i /\ ~(i \in x + 1 .. Len(h))
  BY <1>3
<1>5. g[x] = h[x]
  BY <1>4
<1>6. \A y \in x + 1 .. Len(h) : g[y] = h[y]
  <2>1. \A y \in x + 1 .. Len(h) : y \in 1 .. Len(h) /\ y # i
    BY <1>1, <1>4
  <2> QED
    BY <2>1
<1>7. \A y \in x + 1 .. Len(h) : Naming(h[y]) = {} /\ Naming(g[y]) = {}
  BY <1>3, <1>6
<1>8. /\ LatestPlan(h) = LatestPlan(g)
      /\ Tells(Since(h, n)) <=> Tells(Since(g, n))
      /\ LatestPlan(Since(h, n)) = LatestPlan(Since(g, n))
  <2>1. Len(h) = Len(g) /\ Naming(h[x]) # {}
    BY <1>3
  <2> QED
    BY <1>5, <1>7, <2>1, SameWord, Zenon
<1> QED
  BY <1>8

\* Stripped returns are returns.
LEMMA StripType ==
    ASSUME NEW h \in Seq(PlanMsg) PROVE Strip(h) \in Seq(PlanMsg)
<1> DEFINE g == Strip(h)
<1>1. DOMAIN h = 1 .. Len(h) /\ Len(h) \in Nat
  BY LenProperties
<1>2. g = [i \in 1 .. Len(h) |-> g[i]]
  BY <1>1 DEF Strip
<1>3. ASSUME NEW i \in 1 .. Len(h) PROVE g[i] \in PlanMsg
  <2>1. h[i] \in PlanMsg
    BY ElementOfSeq
  <2>2. h[i].plans \in Seq(Word)
    BY <2>1 DEF PlanMsg
  <2> DEFINE q == [j \in DOMAIN h[i].plans |-> Nothing]
  <2>3. q \in Seq(Word)
    <3>1. DOMAIN h[i].plans = 1 .. Len(h[i].plans) /\ Len(h[i].plans) \in Nat
      BY <2>2, LenProperties
    <3>2. q \in [1 .. Len(h[i].plans) -> Word]
      BY <3>1 DEF Word
    <3> QED
      BY <3>1, <3>2
  <2>4. g[i] = IF h[i].k = "ret" THEN [h[i] EXCEPT !.plans = q] ELSE h[i]
    BY <1>1 DEF Strip
  <2> HIDE DEF q, g
  <2> QED
    BY <2>1, <2>3, <2>4 DEF PlanMsg
<1> HIDE DEF g
<1>4. g \in [1 .. Len(h) -> PlanMsg]
  BY <1>2, <1>3
<1>5. g \in Seq(PlanMsg)
  BY <1>1, <1>4
<1> QED
  BY <1>5 DEF g

-----------------------------------------------------------------------------
(***************************************************************************)
(* Compactions.                                                            *)
(***************************************************************************)
\* A list has the word: /resume would take it for the plan in hand, as far as
\* the gist tells.
Matches(h) == Gist(LatestPlan(h)) = Gist(todos)

\* A list falls into its head, what a compaction drops, and its tail.
LEMMA ThreeParts ==
    ASSUME NEW h \in Seq(PlanMsg), NEW s \in TailStarts(h)
    PROVE  LET head == SubSeq(h, 1, HeadEnd(h))
               gone == SubSeq(h, HeadEnd(h) + 1, s - 1)
               tail == SubSeq(h, s, Len(h))
           IN  /\ head \in Seq(PlanMsg) /\ gone \in Seq(PlanMsg) /\ tail \in Seq(PlanMsg)
               /\ h = (head \o gone) \o tail
<1> DEFINE e == HeadEnd(h)
<1>1. Len(h) \in Nat /\ DOMAIN h = 1 .. Len(h)
  BY LenProperties
<1>2. e \in Nat \ {0}
  BY HeadEndType
<1>3. s \in 1 .. Len(h) /\ s > e + 1
  BY <1>1 DEF TailStarts, GroupStarts
<1> HIDE DEF e
<1> DEFINE b == s - 1
           n == Len(h)
<1>4. /\ e \in 1 .. n /\ b \in e .. n /\ b + 1 = s /\ n \in Nat
      /\ b \in Nat /\ e + 1 \in Nat \ {0} /\ s \in Nat \ {0}
  BY <1>1, <1>2, <1>3
<1>5. /\ SubSeq(h, 1, e) \in Seq(PlanMsg)
      /\ SubSeq(h, e + 1, b) \in Seq(PlanMsg)
      /\ SubSeq(h, s, n) \in Seq(PlanMsg)
  <2>1. e \in Int /\ e <= Len(h) /\ b \in Int /\ b <= Len(h) /\ n \in Int /\ n <= Len(h)
    BY <1>4
  <2> HIDE DEF b, n
  <2> QED
    BY <1>4, <2>1, CutType
<1>6. SubSeq(h, 1, e) \o SubSeq(h, e + 1, b) = SubSeq(h, 1, b)
  <2>1. 1 \in 1 .. Len(h) + 1 /\ e \in 1 - 1 .. Len(h) /\ b \in e .. Len(h)
    BY <1>4
  <2> HIDE DEF b, n
  <2> QED
    BY <2>1, ConcatAdjacentSubSeq
<1>7. SubSeq(h, 1, b) \o SubSeq(h, b + 1, n) = SubSeq(h, 1, n)
  <2>1. 1 \in 1 .. Len(h) + 1 /\ b \in 1 - 1 .. Len(h) /\ n \in b .. Len(h)
    BY <1>4
  <2> HIDE DEF b, n
  <2> QED
    BY <2>1, ConcatAdjacentSubSeq
<1>8. SubSeq(h, 1, n) = h
  BY SubSeqFull
<1> QED
  BY <1>4, <1>5, <1>6, <1>7, <1>8 DEF e

\* If the compacted list is said to tell the plan it does so.
LEMMA CompactTells ==
    ASSUME NEW h \in Seq(PlanMsg), NEW s \in TailStarts(h), todos \in Good
    PROVE  /\ Compact(h, s) \in Seq(PlanMsg)
           /\ \A was \in BOOLEAN :
                 ToldAfter(h, s, was) /\ (was => Matches(h)) => Matches(Compact(h, s))
<1> DEFINE head == SubSeq(h, 1, HeadEnd(h))
           gone == SubSeq(h, HeadEnd(h) + 1, s - 1)
           tail == SubSeq(h, s, Len(h))
           mark == <<Plain("marker")>>
           snap == SnapshotOf(todos)
           front == (head \o mark) \o snap
           c == Compact(h, s)
<1>1. /\ head \in Seq(PlanMsg) /\ gone \in Seq(PlanMsg) /\ tail \in Seq(PlanMsg)
      /\ h = (head \o gone) \o tail
  BY ThreeParts
<1>2. \A was : ToldAfter(h, s, was) =
                  (IF Tells(tail) THEN was
                   ELSE IF Active(todos) # <<>> THEN TRUE
                   ELSE IF Tells(gone) THEN ~Tells(head) ELSE was)
  BY DEF ToldAfter
<1>3. c = front \o tail
  BY DEF Compact
<1> HIDE DEF head, gone, tail, c
<1>4. /\ mark \in Seq(PlanMsg) /\ ~Tells(mark)
  BY PlainTells DEF Kinds, CarrierKinds
<1>5. /\ snap \in Seq(PlanMsg)
      /\ Tells(snap) <=> Active(todos) # <<>>
      /\ Active(todos) # <<>> => LatestPlan(snap) = Gist(todos)
  BY SnapshotTells
<1> HIDE DEF mark, snap
<1>6. /\ head \o mark \in Seq(PlanMsg)
      /\ Tells(head \o mark) <=> Tells(head)
      /\ LatestPlan(head \o mark) = LatestPlan(head)
  BY <1>1, <1>4, ConcatTells
<1>7. /\ front \in Seq(PlanMsg)
      /\ Tells(front) <=> Tells(head) \/ Tells(snap)
      /\ LatestPlan(front) = IF Tells(snap) THEN LatestPlan(snap) ELSE LatestPlan(head)
  <2> DEFINE f == head \o mark
  <2> HIDE DEF f
  <2>1. /\ f \o snap \in Seq(PlanMsg)
        /\ Tells(f \o snap) <=> Tells(f) \/ Tells(snap)
        /\ LatestPlan(f \o snap) = IF Tells(snap) THEN LatestPlan(snap) ELSE LatestPlan(f)
    BY <1>5, <1>6, ConcatTells DEF f
  <2> QED
    BY <1>6, <2>1 DEF f
<1> HIDE DEF front
<1>8. /\ c \in Seq(PlanMsg)
      /\ LatestPlan(c) = IF Tells(tail) THEN LatestPlan(tail) ELSE LatestPlan(front)
  BY <1>1, <1>3, <1>7, ConcatTells
<1>9. /\ head \o gone \in Seq(PlanMsg)
      /\ LatestPlan(head \o gone) = IF Tells(gone) THEN LatestPlan(gone) ELSE LatestPlan(head)
  BY <1>1, ConcatTells
<1>10. LatestPlan(h) = IF Tells(tail) THEN LatestPlan(tail) ELSE LatestPlan(head \o gone)
  BY <1>1, <1>9, ConcatTells
<1>11. ASSUME NEW was \in BOOLEAN, ToldAfter(h, s, was), was => Matches(h)
       PROVE  Matches(c)
  <2>1. CASE Tells(tail)
    BY <1>2, <1>8, <1>10, <1>11, <2>1 DEF Matches
  <2>2. CASE ~Tells(tail) /\ Active(todos) # <<>>
    <3>1. LatestPlan(c) = Gist(todos)
      BY <1>5, <1>7, <1>8, <2>2
    <3> QED
      BY <3>1, GistAgain DEF Matches
  <2>3. CASE ~Tells(tail) /\ Active(todos) = <<>> /\ Tells(gone)
    <3>1. ~Tells(head)
      BY <1>2, <1>11, <2>3
    <3>2. LatestPlan(c) = LatestPlan(head)
      BY <1>5, <1>7, <1>8, <2>3
    <3>3. LatestPlan(c) = <<>>
      BY <1>1, <3>1, <3>2, WhoTells
    <3> QED
      BY <2>3, <3>3, GistOfNone, GistGood DEF Matches
  <2>4. CASE ~Tells(tail) /\ Active(todos) = <<>> /\ ~Tells(gone)
    <3>1. was
      BY <1>2, <1>11, <2>4
    <3>2. LatestPlan(c) = LatestPlan(head) /\ LatestPlan(h) = LatestPlan(head)
      BY <1>5, <1>7, <1>8, <1>9, <1>10, <2>4
    <3> QED
      BY <1>11, <3>1, <3>2 DEF Matches
  <2> QED
    BY <2>1, <2>2, <2>3, <2>4
<1> QED
  BY <1>8, <1>11 DEF c

-----------------------------------------------------------------------------
(***************************************************************************)
(* The invariant.                                                          *)
(***************************************************************************)
Slot == [call : Calling, at : {"called", "computed", "assigned", "done"},
         plan : Word, missed : SUBSET Ids]

PlansType ==
    /\ todos \in Good
    /\ list \in Seq(PlanMsg) /\ hist \in Seq(PlanMsg) /\ run \in Seq(PlanMsg)
    /\ file \in [Sessions -> Seq(PlanMsg)]
    /\ kept \in [Sessions -> Good]
    /\ cur \in Sessions /\ created \in Sessions /\ cur <= created
    /\ compacted \in BOOLEAN /\ told \in BOOLEAN /\ before \in BOOLEAN
    /\ batch \in Seq(Slot)
    /\ said \in [Ids -> Statuses \cup {Nothing}]

\* A session without a name has no transcript.
Unnamed == \A s \in Sessions : s > created => file[s] = <<>>

\* A computed list has what its call says of the items the call names, and of
\* the others what the plan says, unless it is known to have missed it.
Made(b) ==
    /\ b.plan \in Good /\ DistinctIds(b.call.items)
    /\ ~b.call.merge => b.plan = b.call.items
    /\ b.call.merge => \A x \in Ids :
          /\ x \in IdsOf(b.call.items) => StatusIn(b.plan, x) = StatusIn(b.call.items, x)
          /\ x \notin IdsOf(b.call.items) \cup b.missed \cup unsure =>
                StatusIn(b.plan, x) = StatusIn(todos, x)

\* A call accepted alone has reported the plan as it is.
Sole(i) ==
    batch[i].at = "done" /\ batch[i].plan # Nothing
        /\ (\A j \in DOMAIN batch : j # i => batch[j].plan = Nothing)
    => batch[i].plan = todos

BatchInv ==
    /\ pc # "tools" => batch = <<>>
    /\ \A i \in DOMAIN batch :
          /\ batch[i].at = "called" => batch[i].plan = Nothing
          /\ batch[i].at = "computed" => Made(batch[i])
          /\ Sole(i)

\* What the transcript would be if the list were saved now.
Future(h) == IF compacted THEN h ELSE file[cur] \o Since(h, Len(list))

\* Who is said to tell the plan does so, now and once it is saved.
ToldInv ==
    /\ pc = "idle" => ~compacted /\ (told => Matches(list) /\ Matches(file[cur]))
    /\ pc # "idle" =>
          /\ ~compacted => hist = list /\ Len(list) <= Len(run)
          /\ told => Matches(run) /\ Matches(Future(run))
          /\ before => Matches(hist) /\ Matches(Future(hist))

\* The properties of plans, as long as /resume took up what was written.
SaidHolds    == \A x \in Ids \ unsure : StatusIn(todos, x) = said[x]
LatestIsKept == \A s \in Sessions \ untold : Gist(LatestPlan(file[s])) = Gist(kept[s])

PlansInv ==
    /\ PlansType /\ Unnamed /\ BatchInv /\ ToldInv
    /\ SaidHolds /\ LatestIsKept

\* Sessions are counted.
LEMMA SessionNumbers ==
    /\ \E n \in Nat : Sessions = 1 .. n
    /\ Sessions \subseteq Nat \ {0} /\ 1 \in Sessions
<1>1. Cardinality(Sessions) \in Nat
  BY TodosAssumption, FS_CardinalityType
<1> QED
  BY <1>1, TodosAssumption

\* The first state.
LEMMA PlansInit == TodosInit => PlansInv
<1> SUFFICES ASSUME TodosInit PROVE PlansInv
  OBVIOUS
<1> USE DEF TodosInit
<1>1. <<>> \in Good /\ <<>> \in Seq(PlanMsg) /\ <<>> \in Seq(Slot) /\ <<>> \in Seq(Item)
  BY GoodNames, NoneTells, EmptySeq
<1>2. PlansType
  <2>1. /\ file \in [Sessions -> Seq(PlanMsg)] /\ kept \in [Sessions -> Good]
        /\ said \in [Ids -> Statuses \cup {Nothing}]
    BY <1>1
  <2>2. cur \in Sessions /\ created \in Sessions /\ cur <= created
    BY SessionNumbers
  <2> QED
    BY <1>1, <2>1, <2>2 DEF PlansType
<1>3. Unnamed
  BY DEF Unnamed
<1>4. BatchInv
  <2>1. DOMAIN <<>> = 1 .. 0
    BY EmptySeq
  <2>2. \A i \in DOMAIN batch : FALSE
    BY <2>1
  <2>3. pc # "tools" => batch = <<>>
    OBVIOUS
  <2> QED
    BY <2>2, <2>3, Zenon DEF BatchInv
<1>5. ToldInv
  <2>1. cur \in Sessions /\ file[cur] = <<>> /\ list = <<>> /\ todos = <<>>
    BY SessionNumbers
  <2>2. Matches(<<>>)
    BY <2>1, NoneTells DEF Matches
  <2> QED
    BY <2>1, <2>2 DEF ToldInv
<1>6. SaidHolds
  <2>1. \A x : x \notin IdsOf(<<>>)
    <3>1. Len(<<>>) = 0
      BY EmptySeq
    <3>2. \A i \in 1 .. Len(<<>>) : FALSE
      BY <3>1
    <3> QED
      BY <1>1, <3>2, StatusAt
  <2>2. \A x : StatusIn(<<>>, x) = Nothing
    BY <1>1, <2>1, StatusAt
  <2> QED
    BY <2>2 DEF SaidHolds
<1>7. LatestIsKept
  BY NoneTells DEF LatestIsKept
<1> QED
  BY <1>2, <1>3, <1>4, <1>5, <1>6, <1>7 DEF PlansInv

-----------------------------------------------------------------------------
\* What a message adds at the end of a list it adds behind a transcript too.
Adds(f, h, n) ==
    \A m \in PlanMsg :
        LatestPlan(f \o Since(Append(h, m), n)) =
            IF Naming(m) # {} THEN The(m) ELSE LatestPlan(f \o Since(h, n))

\* What a list adds to one of n messages, behind a transcript.
LEMMA AheadTells ==
    ASSUME NEW f \in Seq(PlanMsg), NEW h \in Seq(PlanMsg), NEW n \in Nat
    PROVE  /\ f \o Since(h, n) \in Seq(PlanMsg)
           /\ n = Len(h) => f \o Since(h, n) = f
<1>1. Since(h, n) \in Seq(PlanMsg) /\ (n = Len(h) => Since(h, n) = <<>>)
  BY SinceType
<1>2. f \o Since(h, n) \in Seq(PlanMsg)
  BY <1>1, ConcatTells
<1>3. n = Len(h) => f \o Since(h, n) = f
  BY <1>1, ConcatEmptySeq
<1> QED
  BY <1>2, <1>3

\* One message more.
LEMMA AheadGrows ==
    ASSUME NEW f \in Seq(PlanMsg), NEW h \in Seq(PlanMsg), NEW n \in Nat, n <= Len(h)
    PROVE  Adds(f, h, n)
<1> SUFFICES ASSUME NEW m \in PlanMsg
             PROVE  LatestPlan(f \o Since(Append(h, m), n)) =
                       IF Naming(m) # {} THEN The(m) ELSE LatestPlan(f \o Since(h, n))
  BY DEF Adds
<1>1. Since(h, n) \in Seq(PlanMsg) /\ f \o Since(h, n) \in Seq(PlanMsg)
  BY SinceType, AheadTells
<1>2. Since(Append(h, m), n) = Append(Since(h, n), m)
  BY SinceAppend
<1>3. f \o Append(Since(h, n), m) = Append(f \o Since(h, n), m)
  BY <1>1, AppendToConcat
<1>4. LatestPlan(Append(f \o Since(h, n), m)) =
         IF Naming(m) # {} THEN The(m) ELSE LatestPlan(f \o Since(h, n))
  BY <1>1, AppendTells
<1> QED
  BY <1>2, <1>3, <1>4

\* What is written of a list: the file is as good as the list was said to be.
LEMMA PersistTells ==
    ASSUME PlansInv, NEW ms \in Seq(PlanMsg), NEW rewrite \in BOOLEAN, NEW tells \in BOOLEAN,
           Persist(ms, rewrite, tells), UNCHANGED <<todos, cur, created>>,
           tells => Matches(IF rewrite THEN ms ELSE file[cur] \o Since(ms, Len(list)))
    PROVE  /\ list' = ms /\ told' = tells
           /\ file' \in [Sessions -> Seq(PlanMsg)] /\ kept' \in [Sessions -> Good]
           /\ tells => Matches(file[cur])'
           /\ Unnamed' /\ LatestIsKept'
<1> USE DEF PlansInv, PlansType
<1> DEFINE w == IF rewrite THEN ms ELSE file[cur] \o Since(ms, Len(list))
<1>1. w \in Seq(PlanMsg)
  <2>1. file[cur] \in Seq(PlanMsg) /\ Len(list) \in Nat
    BY LenProperties
  <2> QED
    BY <2>1, AheadTells
<1>2. /\ list' = ms /\ told' = tells
      /\ file' = [file EXCEPT ![cur] = w]
      /\ kept' = [kept EXCEPT ![cur] = todos]
      /\ untold' = IF tells THEN untold \ {cur} ELSE untold \cup {cur}
  BY DEF Persist, Since
<1>t. tells => Matches(w)
  OBVIOUS
<1> HIDE DEF w
<1>3. file' \in [Sessions -> Seq(PlanMsg)] /\ kept' \in [Sessions -> Good]
  BY <1>1, <1>2
<1>4. /\ file'[cur] = w /\ kept'[cur] = todos
      /\ \A s \in Sessions : s # cur => file'[s] = file[s] /\ kept'[s] = kept[s]
  BY <1>2
<1>5. tells => Matches(file[cur])'
  BY <1>4, <1>t DEF Matches
<1>6. Unnamed'
  <2>1. \A s \in Sessions : s > created => s # cur
    BY SessionNumbers
  <2> QED
    BY <1>4, <2>1 DEF Unnamed
<1>7. LatestIsKept'
  <2> SUFFICES ASSUME NEW s \in Sessions, s \notin untold'
               PROVE  Gist(LatestPlan(file'[s])) = Gist(kept'[s])
    BY Zenon DEF LatestIsKept
  <2>1. CASE s = cur
    <3>1. tells
      BY <1>2, <2>1
    <3> QED
      BY <1>4, <1>t, <2>1, <3>1 DEF Matches
  <2>2. CASE s # cur
    <3>1. s \notin untold
      BY <1>2, <2>2
    <3> QED
      BY <1>4, <2>2, <3>1 DEF LatestIsKept
  <2> QED
    BY <2>1, <2>2
<1> QED
  BY <1>2, <1>3, <1>5, <1>6, <1>7

-----------------------------------------------------------------------------
\* Between batches nothing of them is left, and what they decided stands.
LEMMA BatchIdle ==
    ASSUME PlansInv, batch' = batch, UNCHANGED <<todos, said, unsure>>,
           pc # "tools", pc' # "tools"
    PROVE  BatchInv' /\ SaidHolds'
<1>1. batch = <<>>
  BY DEF PlansInv, BatchInv
<1>2. \A i \in DOMAIN batch' : FALSE
  <2>1. DOMAIN <<>> = 1 .. 0
    BY EmptySeq
  <2> QED
    BY <1>1, <2>1
<1>3. BatchInv'
  BY <1>1, <1>2, Zenon DEF BatchInv
<1>4. SaidHolds'
  BY DEF PlansInv, SaidHolds
<1> QED
  BY <1>3, <1>4

\* A turn begins: what the list tells is what it falls back on.
LEMMA StartTurnKeeps == ASSUME PlansInv, StartTurn PROVE PlansInv'
<1> USE DEF StartTurn
<1>t. PlansType
  BY DEF PlansInv
<1> DEFINE p == Plain("prompt")
<1>1. /\ p \in PlanMsg /\ Naming(p) = {}
      /\ run' \in Seq(PlanMsg) /\ LatestPlan(run') = LatestPlan(list)
  <2>1. "prompt" \in Kinds
    BY DEF Kinds, CarrierKinds
  <2>2. p \in PlanMsg /\ ~Tells(<<p>>)
    BY <2>1, PlainTells
  <2>3. Naming(p) = {}
    BY <2>2, OneTells
  <2>4. run' = Append(list, p)
    OBVIOUS
  <2> HIDE DEF p
  <2> QED
    BY <1>t, <2>2, <2>3, <2>4, AppendTells DEF PlansType
<1>2. PlansType'
  BY <1>1, <1>t DEF PlansType
<1>3. Unnamed' /\ LatestIsKept'
  BY DEF PlansInv, Unnamed, LatestIsKept
<1>4. BatchInv' /\ SaidHolds'
  BY BatchIdle
<1>5. ToldInv'
  <2>1. file[cur] \in Seq(PlanMsg) /\ Len(list) \in Nat /\ Len(run') = Len(list) + 1
    BY <1>1, <1>t, LenProperties, AppendProperties DEF PlansType
  <2>2. /\ file[cur] \o Since(list, Len(list)) = file[cur]
        /\ LatestPlan(file[cur] \o Since(Append(list, p), Len(list)))
              = LatestPlan(file[cur] \o Since(list, Len(list)))
    <3> DEFINE f == file[cur]
               n == Len(list)
    <3>1. f \in Seq(PlanMsg) /\ list \in Seq(PlanMsg) /\ n \in Nat /\ n <= Len(list)
      BY <1>t, <2>1 DEF PlansType
    <3>2. n = Len(list)
      OBVIOUS
    <3> HIDE DEF p, f, n
    <3>3. f \o Since(list, n) = f
      BY <3>1, <3>2, AheadTells
    <3>4. Adds(f, list, n)
      BY <3>1, AheadGrows
    <3>5. LatestPlan(f \o Since(Append(list, p), n)) = LatestPlan(f \o Since(list, n))
      BY <1>1, <3>4 DEF Adds
    <3> QED
      BY <3>3, <3>5 DEF f, n
  <2>3. told => Matches(list) /\ Matches(file[cur])
    BY DEF PlansInv, ToldInv
  <2>4. /\ Future(run)' = file[cur] \o Since(Append(list, p), Len(list))
        /\ Future(hist)' = file[cur] \o Since(list, Len(list))
    BY DEF Future
  <2>5. told' => Matches(run)' /\ Matches(Future(run))'
    BY <1>1, <2>2, <2>3, <2>4 DEF Matches
  <2>6. before' => Matches(hist)' /\ Matches(Future(hist))'
    BY <2>2, <2>3, <2>4 DEF Matches
  <2>7. hist' = list' /\ Len(list') <= Len(run')
    BY <2>1
  <2>8. pc' # "idle"
    OBVIOUS
  <2> QED
    BY <2>5, <2>6, <2>7, <2>8 DEF ToldInv
<1> QED
  BY <1>2, <1>3, <1>4, <1>5 DEF PlansInv

\* A compaction shows the plan again where its tail has no word of it.
LEMMA PreflightKeeps ==
    ASSUME PlansInv, NEW s, Preflight(s) PROVE PlansInv'
<1> USE DEF Preflight
<1>t. PlansType
  BY DEF PlansInv
<1>1. /\ run' \in Seq(PlanMsg)
      /\ told' \in BOOLEAN /\ (told' => Matches(run'))
  <2>1. run \in Seq(PlanMsg) /\ s \in TailStarts(run) /\ todos \in Good /\ told \in BOOLEAN
    BY <1>t DEF PlansType
  <2>2. told => Matches(run)
    BY DEF PlansInv, ToldInv
  <2>3. Compact(run, s) \in Seq(PlanMsg)
    BY <2>1, CompactTells
  <2>4. ToldAfter(run, s, told) => Matches(Compact(run, s))
    BY <2>1, <2>2, CompactTells
  <2>5. ToldAfter(run, s, told) \in BOOLEAN
    BY <2>1 DEF ToldAfter, Tells
  <2> QED
    BY <2>3, <2>4, <2>5
<1>2. PlansType'
  BY <1>1, <1>t DEF PlansType
<1>3. Unnamed' /\ LatestIsKept'
  BY DEF PlansInv, Unnamed, LatestIsKept
<1>4. BatchInv' /\ SaidHolds'
  BY BatchIdle
<1>5. ToldInv'
  <2>1. Future(run)' = run' /\ Future(hist)' = hist
    BY DEF Future
  <2>2. told' => Matches(run)' /\ Matches(Future(run))'
    BY <1>1, <2>1 DEF Matches
  <2>3. before => Matches(hist)
    BY DEF PlansInv, ToldInv
  <2>4. before' => Matches(hist)' /\ Matches(Future(hist))'
    BY <2>1, <2>3 DEF Matches
  <2>5. pc' # "idle" /\ compacted'
    OBVIOUS
  <2> QED
    BY <2>2, <2>4, <2>5 DEF ToldInv
<1> QED
  BY <1>2, <1>3, <1>4, <1>5 DEF PlansInv

\* A spilled return that was not the latest word was not the word /resume takes.
LEMMA SpillKeeps ==
    ASSUME PlansInv, NEW i \in DOMAIN run, NEW j, Spill(i, j) PROVE PlansInv'
<1>t. PlansType
  BY DEF PlansInv
<1> DEFINE n == Len(list)
<1>0. /\ run \in Seq(PlanMsg) /\ i \in 1 .. Len(run)
      /\ j \in Naming(run[i]) /\ Naming(run[i]) # {}
      /\ n \in Nat /\ Len(run) \in Nat
  BY <1>t, LenProperties DEF PlansType, Spill
<1>s. OnlyAt(run', run, i)
  <2>1. run' = Spilt(run, i, j)
    BY DEF Spill, Spilt
  <2> QED
    BY <1>0, <2>1, SpilledType
<1>1. run' \in Seq(PlanMsg) /\ Len(run') = Len(run)
  BY <1>s DEF OnlyAt
<1>r. /\ told' => told /\ i # Max(Telling(run))
      /\ told' \in BOOLEAN /\ pc # "idle" /\ pc # "tools"
      /\ UNCHANGED <<todos, list, file, cur, created, pc, hist, compacted, recovered,
                     batch, bounds, said, unsure, before, kept, untold>>
  BY <1>t DEF Spill, PlansType
<1>2. PlansType'
  BY <1>1, <1>r, <1>t DEF PlansType, bounds
<1>3. Unnamed' /\ LatestIsKept'
  BY <1>r DEF PlansInv, Unnamed, LatestIsKept
<1>4. BatchInv' /\ SaidHolds'
  BY <1>r, BatchIdle
<1>5. ToldInv'
  <2>0. pc # "idle" /\ pc' # "idle"
    BY <1>r
  <2>1. /\ ~compacted => hist = list /\ Len(list) <= Len(run)
        /\ told => Matches(run) /\ Matches(Future(run))
        /\ before => Matches(hist) /\ Matches(Future(hist))
    BY <2>0 DEF PlansInv, ToldInv
  <2>2. before' => Matches(hist)' /\ Matches(Future(hist))'
    BY <1>r, <2>1 DEF Matches, Future
  <2>3. ASSUME told' PROVE Matches(run)' /\ Matches(Future(run))'
    <3>1. told /\ i # Max(Telling(run))
      BY <1>r, <2>3
    <3>2. LatestPlan(run') = LatestPlan(run)
      <4>1. 0 \in Nat /\ 0 <= Len(run)
        BY <1>0
      <4> QED
        BY <1>0, <1>s, <3>1, <4>1, SpilledTells
    <3>3. CASE compacted
      BY <1>r, <2>1, <3>1, <3>2, <3>3 DEF Matches, Future
    <3>4. CASE ~compacted
      <4>1. /\ Tells(Since(run', n)) <=> Tells(Since(run, n))
            /\ LatestPlan(Since(run', n)) = LatestPlan(Since(run, n))
        <5>1. n <= Len(run)
          BY <2>1, <3>4
        <5> QED
          BY <1>0, <1>s, <3>1, <5>1, SpilledTells
      <4>2. Since(run, n) \in Seq(PlanMsg) /\ Since(run', n) \in Seq(PlanMsg)
        BY <1>0, <1>1, SinceType
      <4>3. file[cur] \in Seq(PlanMsg)
        BY <1>t DEF PlansType
      <4>4. LatestPlan(file[cur] \o Since(run', n)) = LatestPlan(file[cur] \o Since(run, n))
        BY <4>1, <4>2, <4>3, ConcatTells
      <4>5. Future(run) = file[cur] \o Since(run, n)
        BY <3>4 DEF Future
      <4>6. Future(run)' = file[cur] \o Since(run', n)
        BY <1>r, <3>4 DEF Future
      <4> QED
        BY <1>r, <2>1, <3>1, <3>2, <4>4, <4>5, <4>6 DEF Matches
    <3> QED
      BY <3>3, <3>4
  <2>4. ~compacted' => hist' = list' /\ Len(list') <= Len(run')
    BY <1>1, <1>r, <2>1
  <2> QED
    BY <2>0, <2>2, <2>3, <2>4 DEF ToldInv
<1> QED
  BY <1>2, <1>3, <1>4, <1>5 DEF PlansInv

\* An overflow falls back on the stripped list, which tells no plan of returns.
LEMMA OverflowKeeps == ASSUME PlansInv, Overflow PROVE PlansInv'
<1>t. PlansType
  BY DEF PlansInv
<1> DEFINE h == Strip(Append(hist, Plain("prompt")))
<1>h. h \in Seq(PlanMsg)
  <2>1. "prompt" \in Kinds
    BY DEF Kinds, CarrierKinds
  <2>2. Append(hist, Plain("prompt")) \in Seq(PlanMsg)
    BY <1>t, <2>1, PlainTells DEF PlansType
  <2> QED
    BY <2>2, StripType
<1> HIDE DEF h
<1>0. /\ \/ hist' = h /\ told' = FALSE
         \/ \E s \in TailStarts(h) :
               hist' = Compact(h, s) /\ told' = ToldAfter(h, s, FALSE)
      /\ pc # "tools" /\ pc # "idle" /\ pc' = "request"
      /\ run' = hist' /\ before' = told' /\ compacted' = TRUE
      /\ UNCHANGED <<todos, list, file, cur, created, batch, said, unsure, kept, untold>>
  BY DEF Overflow, AtRequest, h
<1>1. hist' \in Seq(PlanMsg) /\ told' \in BOOLEAN /\ (told' => Matches(hist'))
  <2>1. CASE hist' = h /\ told' = FALSE
    BY <1>h, <2>1
  <2>2. ASSUME NEW s \in TailStarts(h), hist' = Compact(h, s),
               told' = ToldAfter(h, s, FALSE)
        PROVE  hist' \in Seq(PlanMsg) /\ told' \in BOOLEAN /\ (told' => Matches(hist'))
    <3>1. todos \in Good
      BY <1>t DEF PlansType
    <3>2. Compact(h, s) \in Seq(PlanMsg)
      BY <1>h, <3>1, CompactTells
    <3>3. ToldAfter(h, s, FALSE) => Matches(Compact(h, s))
      BY <1>h, <3>1, CompactTells
    <3>4. ToldAfter(h, s, FALSE) \in BOOLEAN
      BY DEF ToldAfter, Tells
    <3> QED
      BY <2>2, <3>2, <3>3, <3>4
  <2> QED
    BY <1>0, <2>1, <2>2
<1>2. PlansType'
  BY <1>0, <1>1, <1>t DEF PlansType
<1>3. Unnamed' /\ LatestIsKept'
  BY <1>0 DEF PlansInv, Unnamed, LatestIsKept
<1>4. BatchInv' /\ SaidHolds'
  BY <1>0, BatchIdle
<1>5. ToldInv'
  <2>1. Future(run)' = run' /\ Future(hist)' = hist'
    BY <1>0 DEF Future
  <2>2. told' => Matches(hist)'
    BY <1>0, <1>1 DEF Matches
  <2>3. told' => Matches(run)' /\ Matches(Future(run))'
    BY <1>0, <2>1, <2>2 DEF Matches
  <2>4. before' => Matches(hist)' /\ Matches(Future(hist))'
    BY <1>0, <2>1, <2>2 DEF Matches
  <2> QED
    BY <1>0, <2>3, <2>4 DEF ToldInv
<1> QED
  BY <1>2, <1>3, <1>4, <1>5 DEF PlansInv

-----------------------------------------------------------------------------
\* The calls of a batch.
LEMMA BatchPieces ==
    ASSUME PlansInv
    PROVE  /\ DOMAIN batch = 1 .. Len(batch) /\ Len(batch) \in Nat
           /\ \A i \in DOMAIN batch :
                 /\ batch[i] \in Slot /\ batch[i].call \in Calling
                 /\ batch[i].call.items \in Seq(Item) /\ batch[i].call.merge \in BOOLEAN
                 /\ batch[i].plan \in Word
                 /\ batch[i].at = "called" => batch[i].plan = Nothing
                 /\ batch[i].at = "computed" => Made(batch[i])
                 /\ Sole(i)
<1>1. batch \in Seq(Slot)
  BY DEF PlansInv, PlansType
<1>2. DOMAIN batch = 1 .. Len(batch) /\ Len(batch) \in Nat
  BY <1>1, LenProperties
<1>3. \A i \in DOMAIN batch : batch[i] \in Slot
  BY <1>1, <1>2, ElementOfSeq
<1>4. \A i \in DOMAIN batch :
         /\ batch[i].at = "called" => batch[i].plan = Nothing
         /\ batch[i].at = "computed" => Made(batch[i])
         /\ Sole(i)
  BY DEF PlansInv, BatchInv
<1> QED
  BY <1>2, <1>3, <1>4 DEF Slot, Calling

\* What is told does not change with the calls.
LEMMA ToldSame ==
    ASSUME PlansInv, UNCHANGED <<todos, list, file, cur, pc, hist, run, compacted>>,
           told' => told, before' => before
    PROVE  ToldInv'
<1>1. /\ Matches(list)' <=> Matches(list)
      /\ Matches(file[cur])' <=> Matches(file[cur])
      /\ Matches(run)' <=> Matches(run)
      /\ Matches(hist)' <=> Matches(hist)
  BY DEF Matches
<1>2. /\ Matches(Future(run))' <=> Matches(Future(run))
      /\ Matches(Future(hist))' <=> Matches(Future(hist))
  BY DEF Matches, Future
<1> QED
  BY <1>1, <1>2 DEF PlansInv, ToldInv

\* The run's list with one more message, now and once it is saved.
LEMMA RunGrows ==
    ASSUME PlansInv, pc # "idle", NEW m \in PlanMsg, run' = Append(run, m),
           UNCHANGED <<list, file, cur, compacted>>
    PROVE  /\ run' \in Seq(PlanMsg)
           /\ LatestPlan(run') = IF Naming(m) # {} THEN The(m) ELSE LatestPlan(run)
           /\ LatestPlan(Future(run)') =
                 IF Naming(m) # {} THEN The(m) ELSE LatestPlan(Future(run))
           /\ ~compacted => hist = list /\ Len(list) <= Len(run')
<1>t. PlansType
  BY DEF PlansInv
<1>1. /\ run \in Seq(PlanMsg) /\ Len(run) \in Nat /\ Len(list) \in Nat
      /\ Len(run') = Len(run) + 1
  BY <1>t, LenProperties, AppendProperties DEF PlansType
<1>2. ~compacted => hist = list /\ Len(list) <= Len(run)
  BY DEF PlansInv, ToldInv
<1>3. /\ run' \in Seq(PlanMsg)
      /\ LatestPlan(run') = IF Naming(m) # {} THEN The(m) ELSE LatestPlan(run)
  BY <1>1, AppendTells
<1>4. CASE compacted
  BY <1>3, <1>4 DEF Future
<1>5. CASE ~compacted
  <2> DEFINE f == file[cur]
             n == Len(list)
  <2>1. f \in Seq(PlanMsg) /\ n \in Nat /\ n <= Len(run)
    BY <1>1, <1>2, <1>5, <1>t DEF PlansType
  <2>2. Future(run)' = f \o Since(Append(run, m), n) /\ Future(run) = f \o Since(run, n)
    BY <1>5 DEF Future
  <2>3. n <= Len(run')
    BY <1>1, <2>1
  <2>6. ~compacted => hist = list /\ Len(list) <= Len(run')
    BY <1>2, <2>3
  <2>r. run \in Seq(PlanMsg)
    BY <1>1
  <2> HIDE DEF f, n
  <2>4. Adds(f, run, n)
    BY <2>1, <2>r, AheadGrows
  <2>5. LatestPlan(f \o Since(Append(run, m), n)) =
              IF Naming(m) # {} THEN The(m) ELSE LatestPlan(f \o Since(run, n))
    BY <2>4 DEF Adds
  <2> QED
    BY <1>3, <2>2, <2>5, <2>6
<1> QED
  BY <1>4, <1>5

\* A response with calls names no plan yet.
LEMMA RespondKeeps ==
    ASSUME PlansInv, NEW cs \in Batches, Respond(cs) PROVE PlansInv'
<1>t. PlansType
  BY DEF PlansInv
<1> DEFINE m == Plain("call")
<1>0. /\ batch' = [i \in DOMAIN cs |-> Called(cs[i])]
      /\ run' = Append(run, m)
      /\ pc # "tools" /\ pc # "idle" /\ pc' = "tools"
      /\ UNCHANGED <<todos, list, file, cur, created, hist, compacted, ghosts>>
  BY DEF Respond, AtRequest
<1>g. UNCHANGED <<said, unsure, told, before, kept, untold>>
  BY <1>0 DEF ghosts
<1>1. run' \in Seq(PlanMsg) /\ m \in PlanMsg /\ Naming(m) = {}
  <2>1. "call" \in Kinds
    BY DEF Kinds, CallKinds
  <2>2. m \in PlanMsg /\ ~Tells(<<m>>)
    BY <2>1, PlainTells
  <2>3. Naming(m) = {}
    BY <2>2, OneTells
  <2> HIDE DEF m
  <2> QED
    BY <1>0, <2>2, <2>3, RunGrows
<1>2. /\ batch' \in Seq(Slot)
      /\ \A i \in DOMAIN batch' : batch'[i].at = "called" /\ batch'[i].plan = Nothing
  <2>1. cs \in Seq(Calling)
    BY TodosAssumption DEF Calling
  <2>2. DOMAIN cs = 1 .. Len(cs) /\ Len(cs) \in Nat
    BY <2>1, LenProperties
  <2>3. \A i \in 1 .. Len(cs) : cs[i] \in Calling
    BY <2>1, ElementOfSeq
  <2>4. \A i \in 1 .. Len(cs) : Called(cs[i]) \in Slot
    BY <2>3 DEF Called, Slot, Word
  <2>5. batch' \in [1 .. Len(cs) -> Slot]
    BY <1>0, <2>2, <2>4
  <2>6. batch' \in Seq(Slot)
    BY <2>2, <2>5
  <2>7. \A i \in DOMAIN batch' : batch'[i] = Called(cs[i])
    BY <1>0
  <2> QED
    BY <2>6, <2>7 DEF Called
<1> HIDE DEF m
<1>3. PlansType'
  BY <1>0, <1>1, <1>2, <1>g, <1>t DEF PlansType
<1>4. Unnamed' /\ LatestIsKept' /\ SaidHolds'
  BY <1>0, <1>g DEF PlansInv, Unnamed, LatestIsKept, SaidHolds
<1>5. BatchInv'
  BY <1>0, <1>2 DEF BatchInv, Sole
<1>6. ToldInv'
  <2>1. /\ told => Matches(run) /\ Matches(Future(run))
        /\ before => Matches(hist) /\ Matches(Future(hist))
    BY <1>0 DEF PlansInv, ToldInv
  <2>2. before' => Matches(hist)' /\ Matches(Future(hist))'
    BY <1>0, <1>g, <2>1 DEF Matches, Future
  <2>3. /\ LatestPlan(run') = LatestPlan(run)
        /\ LatestPlan(Future(run)') = LatestPlan(Future(run))
        /\ ~compacted => hist = list /\ Len(list) <= Len(run')
    BY <1>0, <1>1, RunGrows
  <2>4. told' => Matches(run)' /\ Matches(Future(run))'
    BY <1>0, <1>g, <2>1, <2>3 DEF Matches
  <2> QED
    BY <1>0, <2>2, <2>3, <2>4 DEF ToldInv
<1> QED
  BY <1>3, <1>4, <1>5, <1>6 DEF PlansInv

\* A call computes its list from the plan as it is.
LEMMA ComputeKeeps ==
    ASSUME PlansInv, NEW i \in DOMAIN batch, Compute(i) PROVE PlansInv'
<1>t. PlansType
  BY DEF PlansInv
<1> DEFINE c == batch[i].call
           p == IF c.merge THEN RunMerge(c, todos) ELSE RunFresh(c)
           b == [batch[i] EXCEPT !.plan = p, !.at = IF p = Nothing THEN "done" ELSE "computed"]
<1>0. /\ pc = "tools" /\ batch[i].at = "called"
      /\ batch' = [batch EXCEPT ![i] = b]
      /\ UNCHANGED <<todos, list, file, cur, created, pc, hist, run, compacted, ghosts>>
  BY DEF Compute
<1>g. UNCHANGED <<said, unsure, told, before, kept, untold>>
  BY <1>0 DEF ghosts
<1>1. p = Nothing \/ MadeOf(c, p, todos)
  <2>1. c \in Calling /\ todos \in Good
    BY <1>t, BatchPieces DEF PlansType
  <2>2. p = (IF c.merge THEN RunMerge(c, todos) ELSE RunFresh(c))
    OBVIOUS
  <2> HIDE DEF c, p
  <2> QED
    BY <2>1, <2>2, CallMakes
<1>2. b.call = c /\ b.plan = p /\ b.at = (IF p = Nothing THEN "done" ELSE "computed")
  BY BatchPieces DEF Slot
<1>3. b \in Slot
  <2>1. p \in Word
    BY <1>1 DEF Word, MadeOf
  <2> HIDE DEF p
  <2> QED
    BY <2>1, BatchPieces DEF Slot
<1>d. PICK d : d = b
  OBVIOUS
<1> HIDE DEF b, p, c
<1>4. /\ batch' \in Seq(Slot) /\ DOMAIN batch' = DOMAIN batch
      /\ batch'[i] = d
      /\ \A j \in DOMAIN batch : j # i => batch'[j] = batch[j]
  <2>1. batch \in Seq(Slot) /\ i \in 1 .. Len(batch)
    BY <1>t, BatchPieces DEF PlansType
  <2> QED
    BY <1>0, <1>3, <1>d, <2>1, ExceptSeq
<1>5. PlansType'
  BY <1>0, <1>4, <1>g, <1>t DEF PlansType
<1>6. Unnamed' /\ LatestIsKept' /\ SaidHolds'
  BY <1>0, <1>g DEF PlansInv, Unnamed, LatestIsKept, SaidHolds
<1>7. ToldInv'
  BY <1>0, <1>g, ToldSame
<1>m. /\ d.at # "called"
      /\ d.at = "computed" => MadeOf(d.call, d.plan, todos)
      /\ d.at = "done" => d.plan = Nothing
  BY <1>1, <1>2, <1>d
<1>8. ASSUME NEW k \in DOMAIN batch'
      PROVE  /\ batch'[k].at = "called" => batch'[k].plan = Nothing
             /\ batch'[k].at = "computed" => Made(batch[k])'
             /\ Sole(k)'
  <2>1. CASE k = i
    <3>1. d.at = "computed" => Made(d)'
      BY <1>0, <1>m, <1>g DEF MadeOf, Made
    <3>2. Made(batch[k])' <=> Made(d)'
      BY <1>4, <2>1 DEF Made
    <3>3. Sole(k)'
      BY <1>m, <1>4, <2>1 DEF Sole
    <3> QED
      BY <1>m, <1>4, <2>1, <3>1, <3>2, <3>3
  <2>2. CASE k # i
    <3>1. k \in DOMAIN batch /\ batch'[k] = batch[k]
      BY <1>4, <2>2
    <3>2. batch[k].at = "computed" => Made(batch[k])'
      <4>1. batch[k].at = "computed" => Made(batch[k])
        BY <3>1, BatchPieces
      <4> QED
        BY <1>0, <1>g, <3>1, <4>1 DEF Made
    <3>3. Sole(k)'
      <4> SUFFICES ASSUME batch'[k].at = "done", batch'[k].plan # Nothing,
                          \A j \in DOMAIN batch' : j # k => batch'[j].plan = Nothing
                   PROVE  batch'[k].plan = todos'
        BY DEF Sole
      <4>1. \A j \in DOMAIN batch : j # k => batch[j].plan = Nothing
        BY <1>0, <1>4, BatchPieces
      <4> QED
        BY <1>0, <3>1, <4>1, BatchPieces DEF Sole
    <3> QED
      BY <3>1, <3>2, <3>3, BatchPieces
  <2> QED
    BY <2>1, <2>2
<1>9. BatchInv'
  BY <1>0, <1>8 DEF BatchInv
<1> QED
  BY <1>5, <1>6, <1>7, <1>9 DEF PlansInv

\* A call replaces the plan; who computed earlier is known to have missed it.
LEMMA AssignKeeps ==
    ASSUME PlansInv, NEW i \in DOMAIN batch, Assign(i) PROVE PlansInv'
<1>t. PlansType
  BY DEF PlansInv
<1>c. PICK c : c = batch[i].call
  OBVIOUS
<1>p. PICK p : p = batch[i].plan
  OBVIOUS
<1>0. /\ pc = "tools" /\ batch[i].at = "computed"
      /\ todos' = p
      /\ batch' = [Missing(i) EXCEPT ![i].at = "assigned"]
      /\ said' = [x \in Ids |-> IF x \in Named(c) THEN StatusIn(c.items, x) ELSE said[x]]
      /\ unsure' = (unsure \cup IF c.merge THEN batch[i].missed ELSE {}) \ Named(c)
      /\ told' = FALSE /\ before' = FALSE
      /\ UNCHANGED <<list, file, cur, created, pc, hist, run, compacted, kept, untold>>
  BY <1>c, <1>p DEF Assign
<1>1. /\ c \in Calling /\ c.items \in Seq(Item) /\ c.merge \in BOOLEAN
      /\ Made(batch[i]) /\ p \in Good /\ DistinctIds(c.items)
  BY <1>0, <1>c, <1>p, BatchPieces DEF Made
\* The calls as they stand.
<1>2. Missing(i) \in Seq(Slot) /\ DOMAIN Missing(i) = DOMAIN batch
  <2>1. Named(c) \in SUBSET Ids
    <3>1. \A k \in 1 .. Len(c.items) : c.items[k].id \in Ids
      <4>1. \A k \in 1 .. Len(c.items) : c.items[k] \in Item
        BY <1>1, ElementOfSeq
      <4> QED
        BY <4>1 DEF Item
    <3>2. IdsOf(c.items) \in SUBSET Ids
      BY <1>1, <3>1, StatusAt
    <3> QED
      BY <3>2 DEF Named
  <2> DEFINE m == Missing(i)
  <2>2. m = [j \in 1 .. Len(batch) |-> m[j]]
    BY BatchPieces DEF Missing
  <2>3. ASSUME NEW j \in 1 .. Len(batch) PROVE m[j] \in Slot
    <3>1. batch[j] \in Slot
      BY BatchPieces
    <3>2. m[j] = IF j # i /\ batch[j].at = "computed"
                 THEN [batch[j] EXCEPT !.missed = batch[j].missed \cup Named(c)] ELSE batch[j]
      BY <1>c, BatchPieces DEF Missing
    <3> HIDE DEF m
    <3> QED
      BY <2>1, <3>1, <3>2 DEF Slot
  <2> HIDE DEF m
  <2>4. m \in [1 .. Len(batch) -> Slot]
    BY <2>2, <2>3
  <2>5. m \in Seq(Slot) /\ DOMAIN m = 1 .. Len(batch)
    BY <2>4, BatchPieces
  <2> QED
    BY <2>5, BatchPieces DEF m
<1>3. /\ batch' \in Seq(Slot) /\ DOMAIN batch' = DOMAIN batch
      /\ batch'[i].at = "assigned" /\ batch'[i].plan = p
      /\ \A j \in DOMAIN batch : j # i =>
            /\ batch'[j].call = batch[j].call /\ batch'[j].at = batch[j].at
            /\ batch'[j].plan = batch[j].plan
            /\ batch[j].at = "computed" => batch'[j].missed = batch[j].missed \cup Named(c)
  <2> DEFINE m == Missing(i)
             e == [m[i] EXCEPT !.at = "assigned"]
  <2>1. m[i] = batch[i] /\ batch[i] \in Slot
    BY BatchPieces DEF Missing
  <2>2. e \in Slot /\ e.at = "assigned" /\ e.plan = p
    <3> HIDE DEF m
    <3> QED
      BY <1>p, <2>1 DEF Slot
  <2>3. \A j \in DOMAIN batch : j # i =>
           m[j] = IF batch[j].at = "computed"
                  THEN [batch[j] EXCEPT !.missed = batch[j].missed \cup Named(c)] ELSE batch[j]
    BY <1>c DEF Missing
  <2>4. batch' = [m EXCEPT ![i] = e]
    BY <1>0
  <2>5. m \in Seq(Slot) /\ DOMAIN m = DOMAIN batch
    BY <1>2
  <2> HIDE DEF m, e
  <2>6. /\ batch' \in Seq(Slot) /\ DOMAIN batch' = DOMAIN batch
        /\ batch'[i] = e
        /\ \A j \in DOMAIN batch : j # i => batch'[j] = m[j]
    <3>1. DOMAIN m = 1 .. Len(m)
      BY <2>5, LenProperties
    <3>2. [m EXCEPT ![i] = e] \in Seq(Slot)
      BY <2>2, <2>5, <3>1, ExceptSeq
    <3> QED
      BY <2>4, <2>5, <3>2
  <2>7. \A j \in DOMAIN batch : batch[j] \in Slot
    BY BatchPieces
  <2>8. ASSUME NEW j \in DOMAIN batch, j # i
        PROVE  /\ batch'[j].call = batch[j].call /\ batch'[j].at = batch[j].at
               /\ batch'[j].plan = batch[j].plan
               /\ batch[j].at = "computed" => batch'[j].missed = batch[j].missed \cup Named(c)
    <3>1. PICK r : r = batch[j]
      OBVIOUS
    <3>2. r \in Slot
      BY <2>7, <3>1
    <3>3. batch'[j] = IF r.at = "computed"
                      THEN [r EXCEPT !.missed = r.missed \cup Named(c)] ELSE r
      BY <2>3, <2>6, <2>8, <3>1
    <3> QED
      BY <3>1, <3>2, <3>3 DEF Slot
  <2> QED
    BY <2>2, <2>6, <2>8
\* What the new list says of the items the call does not name.
<1>4. ASSUME NEW x \in Ids, x \notin unsure', x \notin Named(c)
      PROVE  StatusIn(p, x) = StatusIn(todos, x) /\ x \notin unsure
  <2>1. c.merge
    BY <1>1, <1>4 DEF Named
  <2>2. x \notin IdsOf(c.items) \cup batch[i].missed \cup unsure
    BY <1>0, <1>4, <2>1 DEF Named
  <2> QED
    BY <1>1, <1>c, <1>p, <2>1, <2>2 DEF Made
<1>5. PlansType'
  <2>1. said' \in [Ids -> Statuses \cup {Nothing}]
    <3>1. \A x : StatusIn(c.items, x) \in Statuses \cup {Nothing}
      BY <1>1, StatusAt
    <3>2. \A x \in Ids : said[x] \in Statuses \cup {Nothing}
      BY <1>t DEF PlansType
    <3> QED
      BY <1>0, <3>1, <3>2
  <2> QED
    BY <1>0, <1>1, <1>3, <1>t, <2>1 DEF PlansType
<1>6. Unnamed' /\ LatestIsKept'
  BY <1>0 DEF PlansInv, Unnamed, LatestIsKept
<1>7. ToldInv'
  <2>1. /\ pc # "idle" /\ pc' # "idle"
        /\ ~compacted => hist = list /\ Len(list) <= Len(run)
    BY <1>0 DEF PlansInv, ToldInv
  <2> QED
    BY <1>0, <2>1 DEF ToldInv
<1>8. SaidHolds'
  <2> SUFFICES ASSUME NEW x \in Ids, x \notin unsure' PROVE StatusIn(p, x) = said'[x]
    BY <1>0 DEF SaidHolds
  <2>1. CASE x \in Named(c)
    <3>1. said'[x] = StatusIn(c.items, x)
      BY <1>0, <2>1
    <3>2. CASE c.merge
      BY <1>1, <1>c, <1>p, <2>1, <3>1, <3>2 DEF Made, Named
    <3>3. CASE ~c.merge
      BY <1>1, <1>c, <1>p, <3>1, <3>3 DEF Made
    <3> QED
      BY <3>2, <3>3
  <2>2. CASE x \notin Named(c)
    <3>1. StatusIn(p, x) = StatusIn(todos, x) /\ x \notin unsure
      BY <1>4, <2>2
    <3>2. StatusIn(todos, x) = said[x]
      BY <3>1 DEF PlansInv, SaidHolds
    <3> QED
      BY <1>0, <2>2, <3>1, <3>2
  <2> QED
    BY <2>1, <2>2
<1>9. ASSUME NEW k \in DOMAIN batch'
      PROVE  /\ batch'[k].at = "called" => batch'[k].plan = Nothing
             /\ batch'[k].at = "computed" => Made(batch[k])'
             /\ Sole(k)'
  <2>1. CASE k = i
    BY <1>3, <2>1 DEF Sole
  <2>2. CASE k # i
    <3>1. k \in DOMAIN batch
      BY <1>3
    <3>2. ASSUME batch'[k].at = "computed" PROVE Made(batch[k])'
      <4>1. Made(batch[k]) /\ batch'[k].missed = batch[k].missed \cup Named(c)
        BY <1>3, <2>2, <3>1, <3>2, BatchPieces
      <4>2. batch'[k].call = batch[k].call /\ batch'[k].plan = batch[k].plan
        BY <1>3, <2>2, <3>1
      <4>3. PICK d : d = batch[k].call
        OBVIOUS
      <4>4. PICK q : q = batch[k].plan
        OBVIOUS
      <4>5. ASSUME d.merge, NEW x \in Ids,
                   x \notin IdsOf(d.items) \cup batch'[k].missed \cup unsure'
            PROVE  StatusIn(q, x) = StatusIn(p, x)
        <5>1. x \notin unsure' /\ x \notin Named(c)
          BY <4>1, <4>5
        <5>2. StatusIn(p, x) = StatusIn(todos, x) /\ x \notin unsure
          BY <1>4, <5>1
        <5>3. StatusIn(q, x) = StatusIn(todos, x)
          BY <4>1, <4>3, <4>4, <4>5, <5>2 DEF Made
        <5> QED
          BY <5>2, <5>3
      <4>6. /\ q \in Good /\ DistinctIds(d.items)
            /\ ~d.merge => q = d.items
            /\ d.merge => \A x \in Ids :
                  x \in IdsOf(d.items) => StatusIn(q, x) = StatusIn(d.items, x)
        BY <4>1, <4>3, <4>4 DEF Made
      <4> QED
        BY <1>0, <4>2, <4>3, <4>4, <4>5, <4>6 DEF Made
    <3>3. Sole(k)'
      <4>1. i \in DOMAIN batch' /\ batch'[i].plan # Nothing
        BY <1>1, <1>3, GoodNames
      <4> QED
        BY <2>2, <4>1 DEF Sole
    <3> QED
      BY <1>3, <2>2, <3>1, <3>2, <3>3, BatchPieces
  <2> QED
    BY <2>1, <2>2
<1>10. BatchInv'
  BY <1>0, <1>9 DEF BatchInv
<1> QED
  BY <1>5, <1>6, <1>7, <1>8, <1>10 DEF PlansInv

\* A call returns the plan, which is good.
LEMMA ReportKeepsPlans ==
    ASSUME PlansInv, NEW i \in DOMAIN batch, Report(i) PROVE PlansInv'
<1>t. PlansType
  BY DEF PlansInv
<1>d. PICK d : d = [batch[i] EXCEPT !.plan = todos, !.at = "done"]
  OBVIOUS
<1>0. /\ pc = "tools"
      /\ batch' = [batch EXCEPT ![i] = d]
      /\ UNCHANGED <<todos, list, file, cur, created, pc, hist, run, compacted, ghosts>>
  BY <1>d DEF Report
<1>g. UNCHANGED <<said, unsure, told, before, kept, untold>>
  BY <1>0 DEF ghosts
<1>1. d \in Slot /\ d.plan = todos /\ d.at = "done" /\ todos # Nothing
  BY <1>d, <1>t, BatchPieces, GoodNames DEF Slot, Word, PlansType
<1>2. /\ batch' \in Seq(Slot) /\ DOMAIN batch' = DOMAIN batch
      /\ batch'[i] = d
      /\ \A j \in DOMAIN batch : j # i => batch'[j] = batch[j]
  <2>1. batch \in Seq(Slot) /\ i \in 1 .. Len(batch)
    BY <1>t, BatchPieces DEF PlansType
  <2> QED
    BY <1>0, <1>1, <2>1, ExceptSeq
<1>3. PlansType'
  BY <1>0, <1>2, <1>g, <1>t DEF PlansType
<1>4. Unnamed' /\ LatestIsKept' /\ SaidHolds'
  BY <1>0, <1>g DEF PlansInv, Unnamed, LatestIsKept, SaidHolds
<1>5. ToldInv'
  BY <1>0, <1>g, ToldSame
<1>6. ASSUME NEW k \in DOMAIN batch'
      PROVE  /\ batch'[k].at = "called" => batch'[k].plan = Nothing
             /\ batch'[k].at = "computed" => Made(batch[k])'
             /\ Sole(k)'
  <2>1. CASE k = i
    BY <1>0, <1>1, <1>2, <2>1 DEF Sole
  <2>2. CASE k # i
    <3>1. k \in DOMAIN batch /\ batch'[k] = batch[k]
      BY <1>2, <2>2
    <3>2. batch[k].at = "computed" => Made(batch[k])'
      <4>1. batch[k].at = "computed" => Made(batch[k])
        BY <3>1, BatchPieces
      <4> QED
        BY <1>0, <1>g, <3>1, <4>1 DEF Made
    <3>3. Sole(k)'
      <4>1. i \in DOMAIN batch' /\ batch'[i].plan # Nothing
        BY <1>1, <1>2
      <4> QED
        BY <2>2, <4>1 DEF Sole
    <3> QED
      BY <3>1, <3>2, <3>3, BatchPieces
  <2> QED
    BY <2>1, <2>2
<1>7. BatchInv'
  BY <1>0, <1>6 DEF BatchInv
<1> QED
  BY <1>3, <1>4, <1>5, <1>7 DEF PlansInv

\* No calls, nothing to say of them.
LEMMA BatchOver == ASSUME batch' = <<>> PROVE BatchInv' /\ batch' \in Seq(Slot)
<1>1. DOMAIN <<>> = 1 .. 0 /\ <<>> \in Seq(Slot)
  BY EmptySeq
<1>2. \A i \in DOMAIN batch' : FALSE
  BY <1>1
<1>3. BatchInv'
  BY <1>2, Zenon DEF BatchInv
<1> QED
  BY <1>1, <1>3

\* The returns tell the plan if just one call was accepted.
LEMMA EndBatchKeeps == ASSUME PlansInv, EndBatch PROVE PlansInv'
<1>t. PlansType
  BY DEF PlansInv
<1>q. PICK q : q = [i \in DOMAIN batch |-> batch[i].plan]
  OBVIOUS
<1>m. PICK m : m = Returns(q)
  OBVIOUS
<1>0. /\ pc = "tools" /\ AllDone /\ pc' = "request"
      /\ run' = Append(run, m) /\ batch' = <<>>
      /\ told' = IF Accepted = {} THEN told ELSE Cardinality(Accepted) = 1
      /\ UNCHANGED <<todos, list, file, cur, created, hist, compacted,
                     said, unsure, before, kept, untold>>
  BY <1>m, <1>q DEF EndBatch
<1>1. m \in PlanMsg /\ m.plans = q /\ Naming(m) = Accepted
  <2>1. q \in Seq(Word)
    <3>1. q \in [1 .. Len(batch) -> Word]
      BY <1>q, BatchPieces
    <3> QED
      BY <3>1, BatchPieces
  <2>2. m \in PlanMsg /\ m.plans = q
    BY <1>m, <2>1 DEF Returns, PlanMsg, Kinds
  <2> QED
    BY <1>q, <2>2 DEF Naming, Accepted
<1>2. /\ run' \in Seq(PlanMsg)
      /\ LatestPlan(run') = IF Naming(m) # {} THEN The(m) ELSE LatestPlan(run)
      /\ LatestPlan(Future(run)') = IF Naming(m) # {} THEN The(m) ELSE LatestPlan(Future(run))
      /\ ~compacted => hist = list /\ Len(list) <= Len(run')
  BY <1>0, <1>1, RunGrows
<1>3. ASSUME Cardinality(Accepted) = 1 PROVE Naming(m) # {} /\ The(m) = todos
  <2>1. IsFiniteSet(Accepted)
    <3>1. IsFiniteSet(1 .. Len(batch))
      BY BatchPieces, FS_Interval
    <3>2. Accepted \in SUBSET (1 .. Len(batch))
      BY BatchPieces DEF Accepted
    <3> QED
      BY <3>1, <3>2, FS_Subset
  <2>2. PICK i : Accepted = {i}
    BY <1>3, <2>1, FS_Singleton
  <2>3. i \in DOMAIN batch /\ batch[i].plan # Nothing
    BY <2>2 DEF Accepted
  <2>4. \A j \in DOMAIN batch : j # i => batch[j].plan = Nothing
    BY <2>2 DEF Accepted
  <2>5. batch[i].at = "done"
    BY <1>0, <2>3 DEF AllDone
  <2>6. batch[i].plan = todos
    BY <2>3, <2>4, <2>5, BatchPieces DEF Sole
  <2>7. Min(Naming(m)) = i
    <3>1. i \in Nat
      BY <2>3, BatchPieces
    <3>2. Min({i}) \in {i}
      BY <3>1, MinIsOne
    <3> QED
      BY <1>1, <2>2, <3>2
  <2> QED
    BY <1>1, <1>q, <2>2, <2>3, <2>6, <2>7 DEF The
<1>4. PlansType'
  <2>1. told' \in BOOLEAN
    <3>1. told \in BOOLEAN
      BY <1>t DEF PlansType
    <3>2. CASE Accepted = {}
      BY <1>0, <3>1, <3>2
    <3>3. CASE Accepted # {}
      <4>1. told' = (Cardinality(Accepted) = 1)
        BY <1>0, <3>3, Zenon
      <4> QED
        BY <4>1, Zenon
    <3> QED
      BY <3>2, <3>3
  <2>2. batch' \in Seq(Slot)
    BY <1>0, BatchOver
  <2> QED
    BY <1>0, <1>2, <1>t, <2>1, <2>2 DEF PlansType
<1>5. Unnamed' /\ LatestIsKept' /\ SaidHolds'
  BY <1>0 DEF PlansInv, Unnamed, LatestIsKept, SaidHolds
<1>6. BatchInv'
  BY <1>0, BatchOver
<1>7. ToldInv'
  <2>1. /\ told => Matches(run) /\ Matches(Future(run))
        /\ before => Matches(hist) /\ Matches(Future(hist))
    BY <1>0 DEF PlansInv, ToldInv
  <2>2. before' => Matches(hist)' /\ Matches(Future(hist))'
    BY <1>0, <2>1 DEF Matches, Future
  <2>3. ASSUME told' PROVE Matches(run)' /\ Matches(Future(run))'
    <3>1. CASE Accepted = {}
      BY <1>0, <1>1, <1>2, <2>1, <2>3, <3>1 DEF Matches
    <3>2. CASE Accepted # {}
      <4>1. Cardinality(Accepted) = 1
        BY <1>0, <2>3, <3>2
      <4>2. LatestPlan(run') = todos /\ LatestPlan(Future(run)') = todos
        BY <1>2, <1>3, <4>1
      <4> QED
        BY <1>0, <4>2 DEF Matches
    <3> QED
      BY <3>1, <3>2
  <2> QED
    BY <1>0, <1>2, <2>2, <2>3 DEF ToldInv
<1> QED
  BY <1>4, <1>5, <1>6, <1>7 DEF PlansInv

\* A turn ends with a list that is saved, perhaps with a last message.
LEMMA EndKeeps ==
    ASSUME PlansInv, NEW h \in Seq(PlanMsg), NEW m \in PlanMsg, Naming(m) = {},
           NEW ms, ms = h \/ ms = Append(h, m),
           NEW tells \in BOOLEAN, tells => Matches(h) /\ Matches(Future(h)),
           ~compacted => Len(list) <= Len(h),
           Persist(ms, compacted, tells), TurnOver,
           UNCHANGED <<todos, cur, created, said, unsure>>
    PROVE  PlansInv'
<1>t. PlansType
  BY DEF PlansInv
<1>0. /\ pc' = "idle" /\ hist' = <<>> /\ run' = <<>> /\ batch' = <<>>
      /\ compacted' = FALSE /\ before' = TRUE
  BY DEF TurnOver
<1>1. ms \in Seq(PlanMsg) /\ LatestPlan(ms) = LatestPlan(h)
  BY AppendTells
<1> DEFINE w == IF compacted THEN ms ELSE file[cur] \o Since(ms, Len(list))
<1>2. LatestPlan(w) = LatestPlan(Future(h))
  <2>1. CASE compacted
    BY <1>1, <2>1 DEF Future
  <2>2. CASE ~compacted
    <3> DEFINE f == file[cur]
               n == Len(list)
    <3>1. f \in Seq(PlanMsg) /\ n \in Nat /\ n <= Len(h)
      BY <1>t, <2>2, LenProperties DEF PlansType
    <3>2. w = f \o Since(ms, n) /\ Future(h) = f \o Since(h, n)
      BY <2>2 DEF Future
    <3> HIDE DEF f, n, w
    <3>3. Adds(f, h, n)
      BY <3>1, AheadGrows
    <3>4. LatestPlan(f \o Since(Append(h, m), n)) = LatestPlan(f \o Since(h, n))
      BY <3>3 DEF Adds
    <3> QED
      BY <3>2, <3>4
  <2> QED
    BY <2>1, <2>2
<1>3. tells => Matches(w) /\ Matches(ms)
  <2> HIDE DEF w
  <2> QED
    BY <1>1, <1>2 DEF Matches
<1>4. /\ list' = ms /\ told' = tells
      /\ file' \in [Sessions -> Seq(PlanMsg)] /\ kept' \in [Sessions -> Good]
      /\ tells => Matches(file[cur])'
      /\ Unnamed' /\ LatestIsKept'
  <2>1. compacted \in BOOLEAN
    BY <1>t DEF PlansType
  <2> QED
    BY <1>1, <1>3, <2>1, PersistTells
<1>5. BatchInv' /\ batch' \in Seq(Slot)
  BY <1>0, BatchOver
<1>6. PlansType'
  BY <1>0, <1>1, <1>4, <1>5, <1>t, NoneTells DEF PlansType
<1>7. SaidHolds'
  BY DEF PlansInv, SaidHolds
<1>8. ToldInv'
  <2>1. tells => Matches(list)'
    BY <1>3, <1>4 DEF Matches
  <2> QED
    BY <1>0, <1>4, <2>1 DEF ToldInv
<1> QED
  BY <1>4, <1>5, <1>6, <1>7, <1>8 DEF PlansInv

\* A message that names nothing.
LEMMA PlainNames ==
    ASSUME NEW k \in Kinds PROVE Plain(k) \in PlanMsg /\ Naming(Plain(k)) = {}
<1>1. Plain(k) \in PlanMsg /\ ~Tells(<<Plain(k)>>)
  BY PlainTells
<1> QED
  BY <1>1, OneTells

\* An answer saves the run's list.
LEMMA AnswerKeeps == ASSUME PlansInv, Answer PROVE PlansInv'
<1>t. PlansType
  BY DEF PlansInv
<1>1. /\ pc # "idle"
      /\ Persist(Append(run, Plain("text")), compacted, told) /\ TurnOver
      /\ UNCHANGED <<todos, cur, created, said, unsure>>
  BY DEF Answer, AtRequest
<1>2. "text" \in Kinds
  BY DEF Kinds, TextKinds
<1>3. Plain("text") \in PlanMsg /\ Naming(Plain("text")) = {}
  BY <1>2, PlainNames
<1>4. /\ run \in Seq(PlanMsg) /\ told \in BOOLEAN
      /\ told => Matches(run) /\ Matches(Future(run))
      /\ ~compacted => Len(list) <= Len(run)
  BY <1>1, <1>t DEF PlansType, PlansInv, ToldInv
<1> QED
  BY <1>1, <1>3, <1>4, EndKeeps

\* A turn that breaks off saves the list it falls back on.
LEMMA BreakOffKeeps ==
    ASSUME PlansInv, NEW abort, abort = <<>> \/ abort = <<Plain("abort")>>, BreakOff(abort)
    PROVE  PlansInv'
<1>t. PlansType
  BY DEF PlansInv
<1>1. /\ pc # "idle"
      /\ Persist(hist \o abort, compacted, before) /\ TurnOver
      /\ UNCHANGED <<todos, cur, created, said, unsure>>
  BY DEF BreakOff
<1>2. "abort" \in Kinds
  BY DEF Kinds, CarrierKinds
<1>3. Plain("abort") \in PlanMsg /\ Naming(Plain("abort")) = {}
  BY <1>2, PlainNames
<1>4. /\ hist \in Seq(PlanMsg) /\ before \in BOOLEAN
      /\ before => Matches(hist) /\ Matches(Future(hist))
      /\ ~compacted => Len(list) <= Len(hist)
  <2>1. Len(list) \in Nat
    BY <1>t, LenProperties DEF PlansType
  <2> QED
    BY <1>1, <1>t, <2>1 DEF PlansType, PlansInv, ToldInv
<1>5. hist \o abort = hist \/ hist \o abort = Append(hist, Plain("abort"))
  <2>1. hist \o <<>> = hist
    BY <1>4, ConcatEmptySeq
  <2>2. hist \o <<Plain("abort")>> = Append(hist, Plain("abort"))
    BY <1>3, <1>4, AppendIsConcat
  <2> QED
    BY <2>1, <2>2
<1> QED
  BY <1>1, <1>3, <1>4, <1>5, EndKeeps

-----------------------------------------------------------------------------
\* A command between turns.
LEMMA CommandKeeps ==
    ASSUME PlansInv, Command,
           list' \in Seq(PlanMsg), file' \in [Sessions -> Seq(PlanMsg)],
           kept' \in [Sessions -> Good],
           cur' \in Sessions, created' \in Sessions, cur' <= created',
           todos' \in Good, said' \in [Ids -> Statuses \cup {Nothing}],
           told' \in BOOLEAN, told' => Matches(list)' /\ Matches(file[cur])',
           Unnamed', LatestIsKept', SaidHolds'
    PROVE  PlansInv'
<1>t. PlansType
  BY DEF PlansInv
<1>1. /\ pc = "idle" /\ pc' = "idle"
      /\ UNCHANGED <<hist, run, compacted, batch, before>>
  BY DEF Command, turn
<1>2. ~compacted /\ batch = <<>>
  BY <1>1 DEF PlansInv, ToldInv, BatchInv
<1>3. PlansType'
  BY <1>1, <1>t DEF PlansType
<1>4. BatchInv'
  BY <1>1, <1>2, BatchOver
<1>5. ToldInv'
  BY <1>1, <1>2 DEF ToldInv
<1> QED
  BY <1>3, <1>4, <1>5 DEF PlansInv

\* Commands that leave the plan alone leave what calls made of it alone.
LEMMA SamePlan ==
    ASSUME PlansInv, UNCHANGED <<todos, said, unsure>>
    PROVE  /\ SaidHolds'
           /\ todos' \in Good /\ said' \in [Ids -> Statuses \cup {Nothing}]
<1>1. SaidHolds'
  BY DEF PlansInv, SaidHolds
<1> QED
  BY <1>1 DEF PlansInv, PlansType

\* An empty list tells a plan without open items.
LEMMA EmptyMatches ==
    ASSUME NEW p \in Good, Active(p) = <<>> PROVE Gist(LatestPlan(<<>>)) = Gist(p)
BY NoneTells, GistOfNone, GistGood

\* What commands do to the transcripts: the index of sessions stays as it is.
LEMMA SameFiles ==
    ASSUME PlansInv, UNCHANGED <<file, kept, untold>>,
           created' \in Sessions, created <= created'
    PROVE  /\ Unnamed' /\ LatestIsKept'
           /\ file' \in [Sessions -> Seq(PlanMsg)] /\ kept' \in [Sessions -> Good]
<1>1. Unnamed'
  <2>1. created \in Nat /\ created' \in Nat /\ Sessions \subseteq Nat
    BY SessionNumbers DEF PlansInv, PlansType
  <2>2. \A s \in Sessions : s > created' => s > created
    BY <2>1
  <2> QED
    BY <2>2 DEF PlansInv, Unnamed
<1>2. LatestIsKept'
  BY DEF PlansInv, LatestIsKept
<1> QED
  BY <1>1, <1>2 DEF PlansInv, PlansType

\* /new: the file of the new session is still empty.
LEMMA CmdNewKeeps == ASSUME PlansInv, CmdNew PROVE PlansInv'
<1>t. PlansType
  BY DEF PlansInv
<1>0. /\ Command /\ created + 1 \in Sessions
      /\ created' = created + 1 /\ cur' = created + 1 /\ list' = <<>>
      /\ told' = (Active(todos) = <<>>)
      /\ UNCHANGED <<todos, file, said, unsure, kept, untold>>
  BY DEF CmdNew
<1>1. created \in Nat /\ created <= created' /\ created' \in Sessions
  BY <1>0, <1>t, SessionNumbers DEF PlansType
<1>2. /\ Unnamed' /\ LatestIsKept'
      /\ file' \in [Sessions -> Seq(PlanMsg)] /\ kept' \in [Sessions -> Good]
  BY <1>0, <1>1, SameFiles
<1>3. /\ SaidHolds'
      /\ todos' \in Good /\ said' \in [Ids -> Statuses \cup {Nothing}]
  BY <1>0, SamePlan
<1>4. file'[cur'] = <<>>
  <2>1. created + 1 > created
    BY <1>1
  <2> QED
    BY <1>0, <2>1 DEF PlansInv, Unnamed
<1>5. told' => Matches(list)' /\ Matches(file[cur])'
  <2> SUFFICES ASSUME told' PROVE Matches(list)' /\ Matches(file[cur])'
    OBVIOUS
  <2>1. todos \in Good /\ Active(todos) = <<>>
    BY <1>0, <1>t DEF PlansType
  <2>2. Gist(LatestPlan(<<>>)) = Gist(todos)
    BY <2>1, EmptyMatches
  <2> QED
    BY <1>0, <1>4, <2>2 DEF Matches
<1>6. list' \in Seq(PlanMsg) /\ cur' \in Sessions /\ cur' <= created' /\ told' \in BOOLEAN
  BY <1>0, <1>1, NoneTells
<1> QED
  BY <1>0, <1>1, <1>2, <1>3, <1>5, <1>6, CommandKeeps

\* /clear: the file goes on as it was.
LEMMA CmdClearKeeps == ASSUME PlansInv, CmdClear PROVE PlansInv'
<1>t. PlansType
  BY DEF PlansInv
<1>0. /\ Command /\ list' = <<>>
      /\ told' = (told /\ Active(todos) = <<>>)
      /\ UNCHANGED <<todos, file, cur, created, said, unsure, kept, untold>>
  BY DEF CmdClear
<1>1. created \in Nat /\ created <= created' /\ created' \in Sessions
  BY <1>0, <1>t, SessionNumbers DEF PlansType
<1>2. /\ Unnamed' /\ LatestIsKept'
      /\ file' \in [Sessions -> Seq(PlanMsg)] /\ kept' \in [Sessions -> Good]
  BY <1>0, <1>1, SameFiles
<1>3. /\ SaidHolds'
      /\ todos' \in Good /\ said' \in [Ids -> Statuses \cup {Nothing}]
  BY <1>0, SamePlan
<1>4. told => Matches(file[cur])
  BY <1>0 DEF Command, PlansInv, ToldInv
<1>5. told' => Matches(list)' /\ Matches(file[cur])'
  <2> SUFFICES ASSUME told' PROVE Matches(list)' /\ Matches(file[cur])'
    OBVIOUS
  <2>1. todos \in Good /\ Active(todos) = <<>> /\ told
    BY <1>0, <1>t DEF PlansType
  <2>2. Gist(LatestPlan(<<>>)) = Gist(todos)
    BY <2>1, EmptyMatches
  <2> QED
    BY <1>0, <1>4, <2>1, <2>2 DEF Matches
<1>6. list' \in Seq(PlanMsg) /\ cur' \in Sessions /\ cur' <= created' /\ told' \in BOOLEAN
  BY <1>0, <1>t, NoneTells DEF PlansType
<1> QED
  BY <1>0, <1>1, <1>2, <1>3, <1>5, <1>6, CommandKeeps

\* /compact: the snapshot has the gist of the plan.
LEMMA CmdCompactKeeps == ASSUME PlansInv, CmdCompact PROVE PlansInv'
<1>t. PlansType
  BY DEF PlansInv
<1> DEFINE ms == <<Plain("marker")>> \o SnapshotOf(todos) \o <<Plain("text")>>
<1>0. /\ Command /\ Persist(ms, TRUE, TRUE)
      /\ UNCHANGED <<todos, cur, created, said, unsure>>
  BY DEF CmdCompact
<1>1. ms \in Seq(PlanMsg) /\ Matches(ms)
  <2>1. todos \in Good
    BY <1>t DEF PlansType
  <2>2. "marker" \in Kinds /\ "text" \in Kinds
    BY DEF Kinds, CarrierKinds, TextKinds
  <2>3. /\ <<Plain("marker")>> \in Seq(PlanMsg) /\ ~Tells(<<Plain("marker")>>)
        /\ <<Plain("text")>> \in Seq(PlanMsg) /\ ~Tells(<<Plain("text")>>)
    BY <2>2, PlainTells
  <2>4. /\ SnapshotOf(todos) \in Seq(PlanMsg)
        /\ Tells(SnapshotOf(todos)) <=> Active(todos) # <<>>
        /\ Active(todos) # <<>> => LatestPlan(SnapshotOf(todos)) = Gist(todos)
    BY <2>1, SnapshotTells
  <2>5. LatestPlan(<<Plain("marker")>>) = <<>>
    BY <2>3, WhoTells
  <2> DEFINE a == <<Plain("marker")>>
             b == SnapshotOf(todos)
             c == <<Plain("text")>>
  <2>6. Gist(IF Tells(b) THEN LatestPlan(b) ELSE LatestPlan(a)) = Gist(todos)
    <3>1. CASE Active(todos) = <<>>
      <4>1. Gist(todos) = <<>> /\ Gist(<<>>) = <<>>
        BY <2>1, <3>1, GistGood, GistOfNone
      <4> QED
        BY <2>4, <2>5, <3>1, <4>1
    <3>2. CASE Active(todos) # <<>>
      BY <2>1, <2>4, <3>2, GistAgain
    <3> QED
      BY <3>1, <3>2
  <2>s. a \in Seq(PlanMsg) /\ b \in Seq(PlanMsg) /\ c \in Seq(PlanMsg) /\ ~Tells(c)
    BY <2>3, <2>4
  <2>m. ms = (a \o b) \o c
    OBVIOUS
  <2> HIDE DEF a, b, c, ms
  <2>7. /\ a \o b \in Seq(PlanMsg)
        /\ LatestPlan(a \o b) = IF Tells(b) THEN LatestPlan(b) ELSE LatestPlan(a)
    BY <2>s, ConcatTells
  <2>8. /\ (a \o b) \o c \in Seq(PlanMsg)
        /\ LatestPlan((a \o b) \o c) = LatestPlan(a \o b)
    BY <2>s, <2>7, ConcatTells
  <2> QED
    BY <2>m, <2>6, <2>7, <2>8 DEF Matches
<1> HIDE DEF ms
<1>2. /\ list' = ms /\ told' = TRUE
      /\ file' \in [Sessions -> Seq(PlanMsg)] /\ kept' \in [Sessions -> Good]
      /\ Matches(file[cur])'
      /\ Unnamed' /\ LatestIsKept'
  BY <1>0, <1>1, PersistTells
<1>3. /\ SaidHolds'
      /\ todos' \in Good /\ said' \in [Ids -> Statuses \cup {Nothing}]
  BY <1>0, SamePlan
<1>4. Matches(list)'
  BY <1>0, <1>1, <1>2 DEF Matches
<1>5. cur' \in Sessions /\ created' \in Sessions /\ cur' <= created'
  BY <1>0, <1>t DEF PlansType
<1> QED
  BY <1>0, <1>1, <1>2, <1>3, <1>4, <1>5, CommandKeeps

\* A plan that is taken up as it stands is what is said of its items.
LEMMA KnowsStands ==
    ASSUME NEW p \in Good, todos' = p, Knows(p)
    PROVE  /\ SaidHolds'
           /\ todos' \in Good /\ said' \in [Ids -> Statuses \cup {Nothing}]
<1>1. \A x \in Ids : StatusIn(p, x) \in Statuses \cup {Nothing}
  BY GoodNames, StatusAt
<1>2. said' = [x \in Ids |-> StatusIn(p, x)]
  BY DEF Knows
<1>3. \A x \in Ids : said'[x] = StatusIn(p, x)
  BY <1>2
<1>4. SaidHolds'
  BY <1>3 DEF SaidHolds
<1> QED
  BY <1>1, <1>2, <1>4

\* /resume: list, file and plan are of one piece.
LEMMA CmdResumeKeeps ==
    ASSUME PlansInv, NEW s \in Sessions, CmdResume(s), ~misread' PROVE PlansInv'
<1>t. PlansType
  BY DEF PlansInv
<1>1. file[s] \in Seq(PlanMsg) /\ LatestPlan(file[s]) \in Good
  <2>1. file[s] \in Seq(PlanMsg)
    BY <1>t DEF PlansType
  <2> QED
    BY <2>1, WhoTells
<1>2. PICK p \in Good : p = LatestPlan(file[s])
  BY <1>1
<1>0. /\ Command /\ file[s] # <<>> /\ cur' = s /\ list' = file[s]
      /\ todos' = p /\ Knows(p) /\ told' = TRUE
      /\ UNCHANGED <<file, created, kept, untold>>
  BY <1>2 DEF CmdResume, Knows, Rehydrate
<1>3. /\ SaidHolds'
      /\ todos' \in Good /\ said' \in [Ids -> Statuses \cup {Nothing}]
  BY <1>0, KnowsStands
<1>4. created \in Nat /\ created <= created' /\ created' \in Sessions /\ s \in Nat
  BY <1>0, <1>t, SessionNumbers DEF PlansType
<1>5. /\ Unnamed' /\ LatestIsKept'
      /\ file' \in [Sessions -> Seq(PlanMsg)] /\ kept' \in [Sessions -> Good]
  BY <1>0, <1>4, SameFiles
<1>6. cur' <= created'
  <2>1. ~(s > created)
    BY <1>0 DEF PlansInv, Unnamed
  <2> QED
    BY <1>0, <1>4, <2>1
<1>7. Matches(list)' /\ Matches(file[cur])'
  BY <1>0, <1>2 DEF Matches
<1>8. list' \in Seq(PlanMsg) /\ cur' \in Sessions /\ told' \in BOOLEAN
  BY <1>0, <1>1
<1> QED
  BY <1>0, <1>3, <1>4, <1>5, <1>6, <1>7, <1>8, CommandKeeps

\* The newest transcript is of a session.
LEMMA NewestSaved ==
    ASSUME PlansInv, Saved # {} PROVE Max(Saved) \in Saved
<1>1. PICK n \in Nat : Sessions = 1 .. n
  BY SessionNumbers
<1>2. Saved \subseteq 1 .. n
  BY <1>1 DEF Saved
<1> HIDE DEF Saved
<1> QED
  BY <1>2, MaxIsOne

\* A new process starts without a plan.
LEMMA NewProcessKeeps == ASSUME PlansInv, NewProcess PROVE PlansInv'
<1>t. PlansType
  BY DEF PlansInv
<1>n. <<>> \in Good
  BY GoodNames
<1>0. /\ cur' = IF Saved = {} THEN cur ELSE Max(Saved)
      /\ list' = <<>> /\ todos' = <<>> /\ Knows(<<>>)
      /\ told' = ~Tells(file[cur'])
      /\ pc' = "idle" /\ hist' = <<>> /\ run' = <<>> /\ batch' = <<>>
      /\ compacted' = FALSE /\ before' = TRUE
      /\ UNCHANGED <<file, created, kept, untold>>
  BY DEF NewProcess, TurnOver
<1>1. /\ SaidHolds'
      /\ todos' \in Good /\ said' \in [Ids -> Statuses \cup {Nothing}]
  BY <1>0, <1>n, KnowsStands
<1>2. created \in Nat /\ created <= created' /\ created' \in Sessions
  BY <1>0, <1>t, SessionNumbers DEF PlansType
<1>3. /\ Unnamed' /\ LatestIsKept'
      /\ file' \in [Sessions -> Seq(PlanMsg)] /\ kept' \in [Sessions -> Good]
  BY <1>0, <1>2, SameFiles
<1>4. cur' \in Sessions /\ cur' <= created'
  <2>1. CASE Saved = {}
    BY <1>0, <1>t, <2>1 DEF PlansType
  <2>2. CASE Saved # {}
    <3>1. cur' \in Saved
      BY <1>0, <2>2, NewestSaved
    <3>2. cur' \in Sessions /\ file[cur'] # <<>>
      BY <3>1 DEF Saved
    <3>3. ~(cur' > created)
      BY <3>2 DEF PlansInv, Unnamed
    <3>4. cur' \in Nat
      BY <3>2, SessionNumbers
    <3> QED
      BY <1>0, <1>2, <3>2, <3>3, <3>4
  <2> QED
    BY <2>1, <2>2
<1>5. BatchInv' /\ batch' \in Seq(Slot)
  BY <1>0, BatchOver
<1>6. PlansType'
  BY <1>0, <1>1, <1>2, <1>3, <1>4, <1>5, NoneTells DEF PlansType
<1>7. ToldInv'
  <2>1. Matches(list)'
    BY <1>0, NoneTells DEF Matches
  <2>2. ASSUME told' PROVE Matches(file[cur])'
    <3>1. file'[cur'] \in Seq(PlanMsg) /\ ~Tells(file'[cur'])
      BY <1>0, <1>3, <1>4, <2>2
    <3>2. LatestPlan(file'[cur']) = <<>>
      BY <3>1, WhoTells
    <3> QED
      BY <1>0, <3>2 DEF Matches
  <2> QED
    BY <1>0, <2>1, <2>2 DEF ToldInv
<1> QED
  BY <1>1, <1>3, <1>5, <1>6, <1>7 DEF PlansInv

-----------------------------------------------------------------------------
\* A step that changes nothing.
LEMMA PlansStay == ASSUME PlansInv, UNCHANGED todosVars PROVE PlansInv'
<1>0. UNCHANGED <<todos, list, file, cur, created, pc, hist, run, compacted,
                  batch, said, unsure, told, before, kept, untold>>
  BY DEF todosVars, turn, ghosts
<1>1. PlansType' /\ Unnamed' /\ SaidHolds' /\ LatestIsKept'
  BY <1>0 DEF PlansInv, PlansType, Unnamed, SaidHolds, LatestIsKept
<1>2. BatchInv'
  BY <1>0 DEF PlansInv, BatchInv, Made, Sole
<1>3. ToldInv'
  BY <1>0 DEF PlansInv, ToldInv, Matches, Future
<1> QED
  BY <1>1, <1>2, <1>3 DEF PlansInv

\* Every step of the plan's life keeps the invariant, but a /resume that takes the
\* lines of a content for items.
LEMMA PlansNext == PlansInv /\ [TodosNext]_todosVars /\ ~misread' => PlansInv'
<1> SUFFICES ASSUME PlansInv, [TodosNext]_todosVars, ~misread' PROVE PlansInv'
  OBVIOUS
<1>1. CASE StartTurn
  BY <1>1, StartTurnKeeps
<1>2. CASE Overflow
  BY <1>2, OverflowKeeps
<1>3. CASE EndBatch
  BY <1>3, EndBatchKeeps
<1>4. CASE Answer
  BY <1>4, AnswerKeeps
<1>5. ASSUME NEW s \in DOMAIN run, Preflight(s) PROVE PlansInv'
  BY <1>5, PreflightKeeps
<1>6. ASSUME NEW i \in DOMAIN run, NEW j \in DOMAIN run[i].plans, Spill(i, j)
      PROVE  PlansInv'
  BY <1>6, SpillKeeps
<1>7. ASSUME NEW cs \in Batches, Respond(cs) PROVE PlansInv'
  BY <1>7, RespondKeeps
<1>8. ASSUME NEW i \in DOMAIN batch, Compute(i) PROVE PlansInv'
  BY <1>8, ComputeKeeps
<1>9. ASSUME NEW i \in DOMAIN batch, Assign(i) PROVE PlansInv'
  BY <1>9, AssignKeeps
<1>10. ASSUME NEW i \in DOMAIN batch, Report(i) PROVE PlansInv'
  BY <1>10, ReportKeepsPlans
<1>11. CASE BreakOff(<<>>) \/ BreakOff(<<Plain("abort")>>)
  BY <1>11, BreakOffKeeps
<1>12. CASE CmdNew
  BY <1>12, CmdNewKeeps
<1>13. CASE CmdClear
  BY <1>13, CmdClearKeeps
<1>14. CASE CmdCompact
  BY <1>14, CmdCompactKeeps
<1>15. ASSUME NEW s \in Sessions, CmdResume(s) PROVE PlansInv'
  BY <1>15, CmdResumeKeeps
<1>16. CASE NewProcess
  BY <1>16, NewProcessKeeps
<1>17. CASE UNCHANGED todosVars
  BY <1>17, PlansStay
<1> QED
  BY <1>1, <1>2, <1>3, <1>4, <1>5, <1>6, <1>7, <1>8, <1>9, <1>10, <1>11, <1>12,
     <1>13, <1>14, <1>15, <1>16, <1>17 DEF TodosNext

\* What was misread stays so.
LEMMA MisreadStays == misread /\ [TodosNext]_todosVars => misread'
<1> SUFFICES ASSUME misread, [TodosNext]_todosVars PROVE misread'
  OBVIOUS
<1>1. CASE StartTurn \/ Overflow \/ EndBatch \/ Answer
  BY <1>1 DEF StartTurn, Overflow, EndBatch, Answer
<1>2. CASE \/ \E s \in DOMAIN run : Preflight(s)
           \/ \E i \in DOMAIN run : \E j \in DOMAIN run[i].plans : Spill(i, j)
  BY <1>2 DEF Preflight, Spill
<1>3. CASE \/ \E cs \in Batches : Respond(cs)
           \/ \E i \in DOMAIN batch : Compute(i) \/ Assign(i) \/ Report(i)
  BY <1>3 DEF Respond, Compute, Assign, Report, ghosts
<1>4. CASE BreakOff(<<>>) \/ BreakOff(<<Plain("abort")>>)
  BY <1>4 DEF BreakOff
<1>5. CASE CmdNew \/ CmdClear \/ CmdCompact \/ NewProcess
  BY <1>5 DEF CmdNew, CmdClear, CmdCompact, NewProcess
<1>6. CASE \E s \in Sessions : CmdResume(s)
  BY <1>6 DEF CmdResume
<1>7. CASE UNCHANGED todosVars
  BY <1>7 DEF todosVars, ghosts
<1> QED
  BY <1>1, <1>2, <1>3, <1>4, <1>5, <1>6, <1>7 DEF TodosNext

\* The invariant.
LEMMA PlansInvariant == TodosSpec => [](misread \/ PlansInv)
<1>1. TodosInit => PlansInv
  BY PlansInit
<1>2. (misread \/ PlansInv) /\ [TodosNext]_todosVars => (misread \/ PlansInv)'
  BY PlansNext, MisreadStays
<1> QED
  BY <1>1, <1>2, PTL DEF TodosSpec

\* A plan is never with two items in progress, nor is the one /resume would
\* make of a transcript it reads as it was written (_check_one_in_progress,
\* _rehydrate_todos).
LEMMA GoodIsOne == PlansInv => OneInProgress
<1> SUFFICES ASSUME PlansInv PROVE OneInProgress
  OBVIOUS
<1>1. todos \in Good
  BY DEF PlansInv, PlansType
<1>2. ASSUME NEW s \in Sessions, ~Misread(file[s]) PROVE Rehydrate(file[s]) \in Good
  <2>1. file[s] \in Seq(PlanMsg)
    BY DEF PlansInv, PlansType
  <2>2. LatestPlan(file[s]) \in Good
    BY <2>1, WhoTells
  <2> QED
    BY <1>2, <2>2 DEF Rehydrate
<1>3. \A p \in {todos} \cup {Rehydrate(file[s]) : s \in {t \in Sessions : ~Misread(file[t])}} :
         p \in Good
  BY <1>1, <1>2
<1> QED
  BY <1>3 DEF OneInProgress, Good

\* An update todo_write accepted stands until a later call names the item, for
\* any number of calls side by side: what a list computed earlier may undo is
\* exactly what it is recorded to have missed.  (Not after a /resume that took the
\* lines of a content for items.)
THEOREM PlansStand == TodosSpec => []UpdatesStand
<1>1. misread \/ PlansInv => UpdatesStand
  BY DEF PlansInv, UpdatesStand, SaidHolds
<1> QED
  BY <1>1, PlansInvariant, PTL

\* At most one item is in progress and none is there twice, in the plan and in
\* whatever /resume would make of a transcript, whatever contents the items have,
\* but for the transcripts whose last word is a snapshot with a content that reads
\* like more items, and what comes of resuming one.
THEOREM PlansOneInProgress == TodosSpec => []OneInProgress
<1>1. misread \/ PlansInv => OneInProgress
  BY GoodIsOne DEF OneInProgress
<1> QED
  BY <1>1, PlansInvariant, PTL

\* /resume takes up the plan as it was when the transcript was last written,
\* through compactions, spills, strips and broken turns, wherever the
\* transcript has the last word at all and no content of it reads like an item.
THEOREM PlansResume == TodosSpec => []ResumeIsCurrent
<1>1. ASSUME PlansInv PROVE ResumeIsCurrent
  <2>1. \A s \in Sessions : ~Misread(file[s]) => Rehydrate(file[s]) = LatestPlan(file[s])
    BY DEF Rehydrate
  <2> QED
    BY <1>1, <2>1 DEF PlansInv, LatestIsKept, ResumeIsCurrent
<1>2. misread \/ PlansInv => ResumeIsCurrent
  BY <1>1 DEF ResumeIsCurrent
<1> QED
  BY <1>2, PlansInvariant, PTL

=============================================================================

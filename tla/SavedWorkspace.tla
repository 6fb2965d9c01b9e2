--------------------------- MODULE SavedWorkspace ---------------------------
(***************************************************************************)
(* The workspace as it is saved in the settings and restored when a window *)
(* opens (usePersistedWorkspaceState, workspacePersistence).  What the     *)
(* tabs show is a number, Empty if there is no tab; the settings are those *)
(* of the main process, which a save changes or not.                       *)
(***************************************************************************)
EXTENDS Integers, SequencesExt, FiniteSetsExt

CONSTANTS
  FoundWorkspaces,  \* bound: what the settings hold at first
  MaxContent,       \* bound: what tabs can show
  MaxChanges,       \* bound: what the user does with the tabs
  MaxWindows,       \* bound: windows, one after the other
  MaxTime,          \* bound: the date
  MaxLapses         \* bound: loads and saves that fail, and the date set back

Empty == 0
NotQueued == -1
Never == 0
Contents == 0..MaxContent
CURRENT_WORKSPACE_VERSION == 2
Settings == [content : Contents, version : Nat, savedAt : Nat, clearedAt : Nat]

ASSUME SavedWorkspaceAssumption ==
  /\ {MaxContent, MaxChanges, MaxWindows, MaxTime, MaxLapses} \subseteq Nat
  /\ FoundWorkspaces \subseteq Settings

VARIABLES
  stored,        \* workspaceState, with its version, and workspaceStateClearedAt
  dateNow,       \* Date.now()
  window,        \* "closed", "loading", or loaded: "restored", or "protected" from saves
  shown,         \* what the tabs show
  touched,       \* tabsStore.state has changed since the window was opened
  lastQueued,    \* lastQueuedSnapshotKeyRef
  unsent,        \* pendingSnapshotRef, with the timer that will save it; at most one
  lastRecordedAt,
  saving,        \* the queue of saves: the one under way, and the one behind it
  windows, changes, lapses,
  found,         \* history: what the settings held when the window was opened
  misread,       \* history: the load of this window failed
  unsaved,       \* history: the last save failed
  clearedHere,   \* history: the mark of the last clearing is of this window
  setBack        \* history: the date was set back

savedVars == <<stored, dateNow, window, shown, touched, lastQueued, unsent, lastRecordedAt,
               saving, windows, changes, lapses, found, misread, unsaved, clearedHere, setBack>>

InitSavedWorkspace ==
  /\ stored \in FoundWorkspaces /\ found = stored
  /\ dateNow = Max({stored.savedAt, stored.clearedAt}) + 1 /\ window = "closed" /\ lastRecordedAt = 0
  /\ shown = Empty /\ touched = FALSE
  /\ lastQueued = NotQueued /\ unsent = <<>> /\ saving = <<>>
  /\ windows = 0 /\ changes = 0 /\ lapses = 0
  /\ misread = FALSE /\ unsaved = FALSE /\ clearedHere = FALSE /\ setBack = FALSE

-----------------------------------------------------------------------------
\* nextRecordedAtMs
NextRecordedAt == Max({dateNow, lastRecordedAt + 1})

\* workspaceSavePatch over the settings there are.
Patched(s, snapshot) ==
  IF snapshot.content = Empty
  THEN [s EXCEPT !.content = Empty, !.clearedAt = snapshot.at]
  ELSE [content |-> snapshot.content, version |-> CURRENT_WORKSPACE_VERSION,
        savedAt |-> snapshot.at, clearedAt |-> s.clearedAt]

\* enqueueWorkspaceSave: the save that waits is replaced.
Enqueued(snapshot) ==
  IF saving = <<>> THEN <<snapshot>> ELSE <<Head(saving), snapshot>>

\* loadPersistedWorkspaceStateResult: a workspace that is not null, nor older
\* than the last clearing; a newer version of it must not be saved over.
Counts(s) == s.content # Empty /\ (s.clearedAt # Never => s.savedAt > s.clearedAt)
IsRestorable(s) == Counts(s) /\ s.version \in 1..CURRENT_WORKSPACE_VERSION
IsProtected(s) == Counts(s) /\ s.version > CURRENT_WORKSPACE_VERSION
RestoredFrom(s) == IF IsRestorable(s) THEN s.content ELSE Empty

\* Mutant: the timer goes on when all tabs are closed.
QueueSnapshot_TimerStays(content) ==
  LET snapshot == [content |-> content, at |-> NextRecordedAt]
  IN /\ lastQueued' = content /\ lastRecordedAt' = snapshot.at
     /\ IF content = Empty
        THEN saving' = Enqueued(snapshot) /\ UNCHANGED unsent
        ELSE unsent' = <<snapshot>> /\ UNCHANGED saving

\* The effect of usePersistWorkspaceSnapshot, for a snapshot that is not the last
\* one: no tabs are saved at once, tabs after a while without further changes.
QueueSnapshot(content) ==
  LET snapshot == [content |-> content, at |-> NextRecordedAt]
  IN /\ lastQueued' = content /\ lastRecordedAt' = snapshot.at
     /\ IF content = Empty
        THEN saving' = Enqueued(snapshot) /\ unsent' = <<>>
        ELSE unsent' = <<snapshot>> /\ UNCHANGED saving

-----------------------------------------------------------------------------
Lapse == lapses < MaxLapses /\ lapses' = lapses + 1

\* A window takes longer to open than what was recorded may be ahead of the date.
OpenWindow ==
  /\ window = "closed" /\ windows < MaxWindows /\ windows' = windows + 1
  /\ dateNow > lastRecordedAt \/ setBack
  /\ window' = "loading" /\ lastRecordedAt' = 0 /\ found' = stored
  /\ UNCHANGED <<stored, dateNow, shown, touched, lastQueued, unsent, saving,
                 changes, lapses, misread, unsaved, clearedHere, setBack>>

\* A workspace is restored unless the tabs have changed meanwhile; then, and if
\* there is none, what is shown is saved.  One of version 1 is saved as version 2.
LoadReturns ==
  LET restores == IsRestorable(stored) /\ ~touched
  IN /\ window = "loading"
     /\ window' = IF IsProtected(stored) THEN "protected" ELSE "restored"
     /\ IF restores
        THEN /\ shown' = stored.content /\ lastQueued' = stored.content
             /\ saving' = IF stored.version = CURRENT_WORKSPACE_VERSION THEN saving
                          ELSE Enqueued([content |-> stored.content, at |-> dateNow])
             /\ UNCHANGED <<unsent, lastRecordedAt>>
        ELSE /\ IF IsProtected(stored)
                THEN UNCHANGED <<lastQueued, unsent, saving, lastRecordedAt>>
                ELSE QueueSnapshot(shown)
             /\ UNCHANGED shown
     /\ UNCHANGED <<stored, dateNow, touched, windows, changes, lapses,
                    found, misread, unsaved, clearedHere, setBack>>

\* A load that fails leaves what is shown, and that is saved.
LoadFails ==
  /\ window = "loading" /\ Lapse
  /\ window' = "restored" /\ misread' = TRUE
  /\ QueueSnapshot(shown)
  /\ UNCHANGED <<stored, dateNow, shown, touched, windows, changes,
                 found, unsaved, clearedHere, setBack>>

\* Tabs are opened, closed and edited.
ChangeTabs(content) ==
  /\ window # "closed" /\ content # shown
  /\ changes < MaxChanges /\ changes' = changes + 1
  /\ shown' = content /\ touched' = TRUE
  /\ IF window = "restored" /\ content # lastQueued THEN QueueSnapshot(content)
     ELSE UNCHANGED <<lastQueued, unsent, saving, lastRecordedAt>>
  /\ UNCHANGED <<stored, dateNow, window, windows, lapses,
                 found, misread, unsaved, clearedHere, setBack>>

\* The timer ends, and savePersistedWorkspaceState is called.
DebounceEnds ==
  /\ unsent # <<>> /\ unsent' = <<>>
  /\ saving' = Enqueued(Head(unsent))
  /\ UNCHANGED <<stored, dateNow, window, shown, touched, lastQueued, lastRecordedAt,
                 windows, changes, lapses, found, misread, unsaved, clearedHere, setBack>>

\* performWorkspaceSave ends, and drainWorkspaceSaveQueue goes on.  A save that
\* fails may have changed the settings.
SaveEnds(fails) ==
  /\ saving # <<>> /\ saving' = Tail(saving)
  /\ LET patched == Patched(stored, Head(saving))
     IN /\ stored' = patched \/ (fails /\ stored' = stored)
        /\ clearedHere' = (clearedHere \/ stored'.clearedAt # stored.clearedAt)
  /\ unsaved' = fails
  /\ IF fails THEN Lapse ELSE UNCHANGED lapses
  /\ UNCHANGED <<dateNow, window, shown, touched, lastQueued, unsent, lastRecordedAt,
                 windows, changes, found, misread, setBack>>

\* The window, or the application, ends: what is not sent is lost, a save under
\* way may be made or not.
CloseWindow ==
  /\ window # "closed" /\ window' = "closed"
  /\ UNCHANGED stored \/ (saving # <<>> /\ stored' = Patched(stored, Head(saving)))
  /\ shown' = Empty /\ touched' = FALSE
  /\ lastQueued' = NotQueued /\ unsent' = <<>> /\ saving' = <<>>
  /\ misread' = FALSE /\ unsaved' = FALSE /\ clearedHere' = FALSE
  /\ UNCHANGED <<dateNow, lastRecordedAt, windows, changes, lapses, found, setBack>>

\* The date goes on, or is set back.
DateMoves(to) ==
  /\ dateNow' = to
  /\ \/ to = dateNow + 1 /\ UNCHANGED <<lapses, setBack>>
     \/ to < dateNow /\ Lapse /\ setBack' = TRUE
  /\ UNCHANGED <<stored, window, shown, touched, lastQueued, unsent, lastRecordedAt, saving,
                 windows, changes, found, misread, unsaved, clearedHere>>

SavedWorkspaceNext ==
  \/ OpenWindow \/ LoadReturns \/ LoadFails \/ DebounceEnds \/ CloseWindow
  \/ \E content \in Contents : ChangeTabs(content)
  \/ \E fails \in BOOLEAN : SaveEnds(fails)
  \/ \E t \in 1..MaxTime : DateMoves(t)

SavedWorkspaceSpec == InitSavedWorkspace /\ [][SavedWorkspaceNext]_savedVars

-----------------------------------------------------------------------------
Snapshots == [content : Contents, at : Nat]

SavedWorkspaceTypeOK ==
  /\ stored \in Settings /\ shown \in Contents /\ {dateNow, lastRecordedAt} \subseteq Nat
  /\ window \in {"closed", "loading", "restored", "protected"}
  /\ unsent \in Seq(Snapshots) /\ Len(unsent) <= 1
  /\ saving \in Seq(Snapshots) /\ Len(saving) <= 2
  /\ window = "restored" => lastQueued = shown

\* Once nothing is unsent and no save is under way, the next window would restore
\* what is shown, in whatever order edits, timers, saves that fail and saves that
\* replace one another came, and also when the date was set back; unless the last
\* save failed, or the date was set back to before what an earlier window cleared.
\* What the settings held is kept as long as it was read and the tabs were not
\* touched, and for good if it is of a newer version.
SavedIsShown ==
  /\ window = "restored" /\ unsent = <<>> /\ saving = <<>> /\ ~unsaved
       /\ (setBack => clearedHere) => RestoredFrom(stored) = shown
  /\ window # "closed" /\ ~misread /\ ~touched /\ (IsRestorable(found) \/ IsProtected(found)) =>
       stored.content = found.content
  /\ window = "protected" => stored = found
=============================================================================

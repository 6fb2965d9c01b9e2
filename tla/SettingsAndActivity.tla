------------------------ MODULE SettingsAndActivity ------------------------
(***************************************************************************)
(* SettingsStore, ActivityLogStore and their repositories: one settings    *)
(* file with a cache of it, written as a whole by a rename; and the        *)
(* activity log, rewritten in place by a queue of mutations that take      *)
(* their limits from the settings.                                         *)
(***************************************************************************)
EXTENDS DesktopCalls

CONSTANT DefaultSettings      \* DEFAULT_SETTINGS_SNAPSHOT

VARIABLES
  settingsFile,   \* settings.json
  settings,       \* SettingsStore.cache
  log,            \* activity-log.jsonl: its entries, oldest first, and whether a line is torn
  queue,          \* ActivityLogStore.mutationQueue: the calls not settled, the first one runs
  saves,          \* history: saves so far
  fileNo,         \* history: the save settings.json is of; 0 before any, -1 when moved away
  outdated,       \* history: the latest save failed, or the file was overwritten or moved after it
  saved,          \* history: the settings if loads and saves were atomic
  raced,          \* history: a load has put back settings older than a save
  kept,           \* history: the log if its mutations were atomic
  peeked          \* history: a listing has repaired the log while it was written

settingsVars == <<settingsFile, settings, saves, fileNo, outdated, saved, raced>>
logVars == <<log, queue, kept>>

InSettings(file) == IF file \in {None, Invalid} THEN DefaultSettings ELSE file

InitSettingsAndActivity(scenario) ==
  /\ settingsFile = scenario.settings /\ settings = None
  /\ saves = 0 /\ fileNo = 0 /\ outdated = FALSE /\ raced = FALSE
  /\ saved = InSettings(scenario.settings)
  /\ log = scenario.log /\ queue = <<>> /\ kept = scenario.log.entries /\ peeked = FALSE

-----------------------------------------------------------------------------
(***************************************************************************)
(* The settings                                                            *)
(***************************************************************************)

SettingsRequests == {"loadSettings", "saveSettings", "append"}

\* pruneEntries: the longest end of the log that fits.
Size(entries) == FoldLeft(LAMBDA sum, e : sum + e.size, 0, entries)
Pruned(entries, limit) ==
  LET Fitting == {Len(entries) + 1}
                   \cup {i \in DOMAIN entries : Size(SubSeq(entries, i, Len(entries))) <= limit}
      first == CHOOSE i \in Fitting : \A j \in Fitting : i <= j
  IN SubSeq(entries, first, Len(entries))

\* sanitizeEntry: an entry over the limit goes without its payload.
Sanitized(c, s, limit) ==
  [id |-> c, size |-> IF s.req.size <= limit THEN s.req.size ELSE 1]

\* { ...settings, ...patch }, the limits of the log as one field of them.
Patched(snap, patch) ==
  [field \in DOMAIN snap |-> IF field \in DOMAIN patch THEN patch[field] ELSE snap[field]]

\* runMutation.
Queued(c, s) == /\ queue' = Append(queue, c)
                /\ To(c, s, "queued")

\* Mutant: the store's save writes the file only.
Merged_Uncached(c, s, snap) ==
  /\ settings' = snap /\ saves' = saves + 1 /\ saved' = Patched(saved, s.req.patch)
  /\ To(c, [s EXCEPT !.snap = Patched(snap, s.req.patch), !.no = saves + 1], "saving")

\* MainSettingsRepository.save: the patch over what was loaded; the store's
\* save changes its cache before it writes.
Merged(c, s, snap) ==
  LET merged == Patched(snap, s.req.patch)
  IN /\ settings' = merged /\ saves' = saves + 1 /\ saved' = Patched(saved, s.req.patch)
     /\ To(c, [s EXCEPT !.snap = merged, !.no = saves + 1], "saving")

\* What its handler does once load() has returned.
Loaded(c, s, snap) ==
  \/ /\ s.req.do = "loadSettings" /\ Ends(c, s)
     /\ settings' = snap /\ UNCHANGED <<saves, saved, queue>>
  \/ /\ s.req.do = "saveSettings" /\ Merged(c, s, snap)
     /\ UNCHANGED queue
  \/ /\ s.req.do = "append" /\ settings' = snap
     /\ IF snap.activityLog.enabled
        THEN Queued(c, [s EXCEPT !.entry = Sanitized(c, s, snap.activityLog.maxBytes),
                                 !.snap = snap])
        ELSE Ends(c, s) /\ UNCHANGED queue
     /\ UNCHANGED <<saves, saved>>

\* load: the cache, or the file.
Load(c) ==
  /\ Arrives(c, SettingsRequests)
  /\ IF settings # None THEN Loaded(c, call[c], settings)
     ELSE To(c, call[c], "loading") /\ UNCHANGED <<settings, saves, saved, queue>>
  /\ UNCHANGED <<mishaps, settingsFile, fileNo, outdated, raced, log, kept>>

\* readFile: what the file holds; then the continuation of load.
ReadSettings(c) ==
  /\ Now(c, {"loading"})
  /\ To(c, [call[c] EXCEPT !.snap = settingsFile], "loaded")
  /\ UNCHANGED <<mishaps, settingsVars, logVars>>

SettingsRead(c) ==
  LET s == call[c]
  IN /\ Now(c, {"loaded"})
     /\ IF s.snap = Invalid
        THEN To(c, s, "backup") /\ UNCHANGED <<settings, saves, saved, queue, raced>>
        ELSE /\ Loaded(c, s, InSettings(s.snap))
             /\ raced' = (raced \/ (settings # None /\ settings # InSettings(s.snap)))
     /\ UNCHANGED <<mishaps, settingsFile, fileNo, outdated, log, kept>>

\* corruptSettingsError: the file of that name is moved away, whatever it is by now.
BackupSettings(c) ==
  /\ Now(c, {"backup"}) /\ Fails(c)
  /\ settingsFile' = None
  /\ IF settingsFile \in {None, Invalid} THEN UNCHANGED <<fileNo, outdated>>
     ELSE fileNo' = -1 /\ outdated' = TRUE
  /\ UNCHANGED <<mishaps, settings, saves, saved, raced, logVars>>

\* writeJsonAtomic is over: its rename comes after those of the saves that ended
\* before, newer ones among them.  The handler prunes the log if its limits were set.
SettingsSaved(c) ==
  LET s == call[c]
  IN /\ Now(c, {"saving"})
     /\ settingsFile' = s.snap /\ fileNo' = s.no
     /\ outdated' = (s.no # saves /\ (outdated \/ fileNo = saves))
     /\ IF "activityLog" \in DOMAIN s.req.patch
        THEN Queued(c, [s EXCEPT !.snap = settings])
        ELSE Ends(c, s) /\ UNCHANGED queue
     /\ UNCHANGED <<mishaps, settings, saves, saved, raced, log, kept>>

SettingsFail(c) ==
  /\ Now(c, {"loading", "backup", "saving"}) /\ Fails(c)
  /\ outdated' = (outdated \/ (Now(c, {"saving"}) /\ call[c].no = saves))
  /\ Mishap /\ UNCHANGED <<settingsFile, settings, saves, fileNo, saved, raced, logVars>>

-----------------------------------------------------------------------------
(***************************************************************************)
(* The activity log                                                        *)
(***************************************************************************)

Appends(s) == s.req.do = "append"
Mutates(c) == queue # <<>> /\ Head(queue) = c
Writing(c) == Now(c, {"writing", "rescuing"})

\* Mutant: the log is not cleared, or pruned, behind the appends.
ClearLog_Unqueued(c) ==
  /\ Arrives(c, {"clear"}) /\ Ends(c, call[c])
  /\ log' = [entries |-> <<>>, torn |-> FALSE] /\ kept' = <<>>
  /\ UNCHANGED <<mishaps, settingsVars, queue>>

\* clear is queued; list waits for the mutations there are.
ClearLog(c) ==
  /\ Arrives(c, {"clear"}) /\ Queued(c, call[c])
  /\ UNCHANGED <<mishaps, settingsVars, log, kept>>

ListLog(c) ==
  /\ Arrives(c, {"list"})
  /\ To(c, [call[c] EXCEPT !.behind = Range(queue)], "listing")
  /\ UNCHANGED <<mishaps, settingsVars, logVars>>

\* clear: unlink.
Unlink(c) ==
  /\ Mutates(c) /\ Now(c, {"queued"}) /\ Does(c, {"clear"}) /\ Ends(c, call[c])
  /\ log' = [entries |-> <<>>, torn |-> FALSE] /\ kept' = <<>>
  /\ queue' = Tail(queue)
  /\ UNCHANGED <<mishaps, settingsVars>>

\* readEntriesOldestFirst, and what append, prune and list do with the entries;
\* with an invalid line the valid ones are written back, and then it throws.
ReadLog(c) ==
  LET s == call[c]
      entries == IF Appends(s) THEN Append(log.entries, s.entry) ELSE log.entries
      listing == /\ Now(c, {"listing"})
                 /\ s.behind \cap Range(queue) = {}
      mutating == Mutates(c) /\ Now(c, {"queued"}) /\ ~Does(c, {"clear"})
  IN /\ \/ /\ log.torn /\ (listing \/ mutating)
           /\ To(c, [s EXCEPT !.out = log.entries], "rescue")
        \/ ~log.torn /\ listing /\ Ends(c, s)
        \/ /\ ~log.torn /\ mutating
           /\ To(c, [s EXCEPT !.out = Pruned(entries, s.snap.activityLog.maxBytes)], "write")
     /\ UNCHANGED <<mishaps, settingsVars, logVars>>

\* What may be in the file while it is written: the first entries, one perhaps cut.
Partly(entries) ==
  {[entries |-> SubSeq(entries, 1, n), torn |-> FALSE] : n \in 0..Len(entries)}
    \cup {[entries |-> SubSeq(entries, 1, n - 1), torn |-> TRUE] : n \in DOMAIN entries}

\* writeFile, in place.
BeginWrite(c) ==
  /\ Now(c, {"write", "rescue"})
  /\ To(c, call[c], IF Now(c, {"write"}) THEN "writing" ELSE "rescuing")
  /\ log' \in Partly(call[c].out)
  /\ UNCHANGED <<mishaps, settingsVars, queue, kept>>

\* Two writers at once may leave a mixture.
EndWrite(c) ==
  LET s == call[c]
  IN /\ Writing(c)
     /\ log' \in {[entries |-> s.out, torn |-> FALSE]}
                   \cup {[entries |-> s.out, torn |-> TRUE] :
                           d \in {d \in Calls \ {c} : Writing(d)}}
     /\ To(c, s, IF Now(c, {"writing"}) THEN "done" ELSE "failed")
     /\ queue' = IF Mutates(c) THEN Tail(queue) ELSE queue
     /\ kept' = IF ~Now(c, {"writing"}) THEN kept
                ELSE Pruned(IF Appends(s) THEN Append(kept, s.entry) ELSE kept,
                            s.snap.activityLog.maxBytes)
     /\ UNCHANGED <<mishaps, settingsVars>>

\* Mutant: a mutation that fails is never behind the queue.
LogFails_Stuck(c) ==
  /\ Mutates(c) /\ Now(c, {"queued"}) /\ Fails(c)
  /\ Mishap /\ UNCHANGED <<settingsVars, logVars>>

\* An operation on the log fails; a write may have been begun.
LogFails(c) ==
  /\ \/ Mutates(c) /\ Now(c, {"queued"})
     \/ Now(c, {"listing", "write", "rescue"}) \/ Writing(c)
  /\ Fails(c)
  /\ queue' = IF Mutates(c) THEN Tail(queue) ELSE queue
  /\ kept' = IF Writing(c) THEN log.entries ELSE kept
  /\ Mishap /\ UNCHANGED <<settingsVars, log>>

\* A listing repairs the log while a mutation, or another listing, is at work.
Peeks ==
  \E c \in Calls : /\ Now(c, {"rescue", "rescuing"}) /\ Does(c, {"list"})
                   /\ queue # <<>> \/ \E d \in Calls \ {c} : Now(d, {"rescue", "rescuing"})

\* The caches and the queue are gone; the files are as the last write left them.
LoseSettingsAndActivity ==
  /\ settings' = None /\ saved' = InSettings(settingsFile)
  /\ fileNo' = 0 /\ saves' = 0 /\ outdated' = FALSE /\ raced' = FALSE
  /\ queue' = <<>> /\ kept' = log.entries
  /\ UNCHANGED <<settingsFile, log>>

SettingsAndActivityNext(c) ==
  \/ Load(c) \/ ReadSettings(c) \/ SettingsRead(c) \/ BackupSettings(c)
  \/ SettingsSaved(c) \/ SettingsFail(c)
  \/ ClearLog(c) \/ ListLog(c) \/ Unlink(c) \/ ReadLog(c)
  \/ BeginWrite(c) \/ EndWrite(c) \/ LogFails(c)
=============================================================================
